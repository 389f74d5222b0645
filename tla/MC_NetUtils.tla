---------------------------- MODULE MC_NetUtils ----------------------------
(* A finite instance of NetUtils: two threads on one interface, and        *)
(* answers of netd just too short and just long enough for what is read.   *)
EXTENDS NetUtils

MC_Answers == {ReadSize - 1, ReadSize}
=============================================================================
