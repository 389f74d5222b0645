---------------------------- MODULE MC_DataCalls ----------------------------
(* Finite instances of DataCalls. *)
EXTENDS DataCalls, TLC

CONSTANTS c1, c2, c3, s1, s2, s3

MC_Cids == {c1, c2, c3}
MC_TwoCids == {c1, c2}
MC_Serials == {s1, s2}
MC_ThreeSerials == {s1, s2, s3}

(* Context ids and serials are interchangeable: only in runs without a     *)
(* temporal property.                                                      *)
MC_Symmetry == Permutations(Cids) \cup Permutations(Serials)
=============================================================================
