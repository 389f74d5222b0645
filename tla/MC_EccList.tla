----------------------------- MODULE MC_EccList -----------------------------
(* A finite instance of EccList: one number for each way the code can      *)
(* treat one (a card's number is a plain one while its card is out), and a *)
(* different emergency number on each card.                                *)
EXTENDS EccList, TLC

CONSTANTS n112, n999, simOne, simTwo

MC_Numbers == {n112, n999, simOne, simTwo}
MC_Condition == [n \in MC_Numbers |-> CASE n = n112 -> "1" [] n = n999 -> "0"
                                        [] OTHER -> "none"]
MC_CustomCategory == [n \in MC_Numbers |-> 0]
MC_SimEcc == 0 :> {simOne} @@ 1 :> {simTwo}
MC_NetworkLists == {[n \in MC_Numbers |-> NoCategory],
                    [n \in MC_Numbers |-> IF n = simTwo THEN 4 ELSE NoCategory]}
=============================================================================
