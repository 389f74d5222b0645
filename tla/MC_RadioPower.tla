--------------------------- MODULE MC_RadioPower ---------------------------
(* A finite instance of RadioPower. *)
EXTENDS RadioPower, TLC

CONSTANTS c1, c2, c3, s1, s2

MC_Cids == {c1, c2, c3}
MC_Serials == {s1, s2}
(* Context ids and serials are interchangeable. *)
MC_Symmetry == Permutations(Cids) \cup Permutations(Serials)
=============================================================================
