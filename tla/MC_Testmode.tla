---------------------------- MODULE MC_Testmode ----------------------------
(* A finite instance of Testmode: the first and the last filter, two test  *)
(* modes whose addresses are next to each other, words around LongMax, and *)
(* buffers with and without room for the 0 that ends the report.          *)
EXTENDS Testmode

MC_Indexes == {0, 255}
MC_Tests == {4704, 4706}
MC_Words == {3, 4}
MC_Levels == {219, 255}
MC_BufLens == {8, 9}
=============================================================================
