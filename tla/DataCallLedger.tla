--------------------------- MODULE DataCallLedger ---------------------------
(***************************************************************************)
(* What the data call bookkeeping of MediaTekRIL promises, with no table,  *)
(* no interface numbers and no requests: a context id is booked before the *)
(* framework learns that its call is up, and its booking ends only after   *)
(* the framework has given the call up.  DataCalls implements this.        *)
(***************************************************************************)
CONSTANT Cids               \* the context ids the modem can assign

VARIABLES up,               \* the calls the framework holds
          booked            \* the calls that have an entry in the table
vars == <<up, booked>>

Init == up = {} /\ booked = {}

(* The setup of call c succeeds: it was not booked, and it is now. *)
Establish(c) == /\ c \notin up \cup booked
                /\ up' = up \cup {c}
                /\ booked' = booked \cup {c}

(* The framework asks for the call's deactivation. *)
GiveUp(c) == /\ c \in up
             /\ up' = up \ {c}
             /\ UNCHANGED booked

(* The entry of a call that was given up is freed, on its own. *)
Free(c) == /\ c \in booked \ up
           /\ booked' = booked \ {c}
           /\ UNCHANGED up

Next == \E c \in Cids : Establish(c) \/ GiveUp(c) \/ Free(c)

Safety == Init /\ [][Next]_vars

(* A call that was given up does not keep its entry for ever. *)
Spec == Safety /\ \A c \in Cids : WF_vars(Free(c))
=============================================================================
