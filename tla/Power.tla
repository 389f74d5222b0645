------------------------------- MODULE Power -------------------------------
(***************************************************************************)
(* The power HAL (power/power.c): set_power_profile compares the profile   *)
(* asked for with a cached one, sets a system property and assigns the     *)
(* cache, with no lock.  Callers interleave between the three steps, a     *)
(* property may not be set, and system_server, which loads the HAL, can    *)
(* restart: that resets the cache and not the property.                    *)
(***************************************************************************)
EXTENDS Integers

CONSTANTS Callers,      \* threads of system_server
          Asked         \* the profiles they ask for

POWER_SAVE == 0
BALANCED == 1
HIGH_PERFORMANCE == 2
BIAS_POWER == 3
POWER_NR_OF_SUPPORTED_PROFILES == 4
Unset == -1             \* the property before anyone sets it
Mishaps == {"not set", "not supported", "restart"}

ASSUME AskedAssumption == Asked \subseteq Nat

VARIABLES call,         \* the call of each thread: its step and its profile
          current_power_profile,
          property,     \* external: sys.perf.profile
          batch,        \* history: the profiles of the calls that overlap the
                        \* last one, or each other
          mishaps       \* history: what went wrong in that batch

vars == <<call, current_power_profile, property, batch, mishaps>>

(* The property each case of the switch sets.  As elsewhere, a name with a *)
(* suffix is a plausible bug no action uses.                               *)
Cases_OneMore == POWER_SAVE .. BIAS_POWER + 1
Cases == POWER_SAVE .. BIAS_POWER

None == [at |-> "none", profile |-> Unset]
Idle == \A c \in Callers : call[c] = None

TypeOK == /\ call \in [Callers -> {None} \cup [at : {"set", "assign"}, profile : Asked]]
          /\ current_power_profile \in Asked \cup {BALANCED}
          /\ property \in POWER_SAVE .. BIAS_POWER \cup {Unset}
          /\ batch \subseteq Asked \cup {BALANCED}
          /\ mishaps \subseteq Mishaps

Init == /\ call = [c \in Callers |-> None]
        /\ current_power_profile = BALANCED
        /\ property \in {Unset, BALANCED}
        /\ batch = {BALANCED}
        /\ mishaps = IF property = BALANCED THEN {} ELSE {"not set"}

-----------------------------------------------------------------------------
(* POWER_HINT_SET_PROFILE.  A profile that is cached already is ignored;   *)
(* otherwise a batch of overlapping calls starts or goes on.               *)
power_hint(c, profile) ==
  /\ call[c] = None
  /\ profile # current_power_profile
  /\ call' = [call EXCEPT ![c] = [at |-> "set", profile |-> profile]]
  /\ batch' = (IF Idle THEN {} ELSE batch) \cup {profile}
  /\ mishaps' = (IF Idle THEN {} ELSE mishaps)
                  \cup (IF profile < POWER_NR_OF_SUPPORTED_PROFILES THEN {}
                        ELSE {"not supported"})
  /\ UNCHANGED <<current_power_profile, property>>

(* The result of property_set is not looked at, and an unknown profile     *)
(* sets nothing.                                                           *)
property_set(c) ==
  /\ call[c].at = "set"
  /\ \/ call[c].profile \in Cases /\ property' = call[c].profile /\ UNCHANGED mishaps
     \/ call[c].profile \in Cases /\ UNCHANGED property
          /\ mishaps' = mishaps \cup {"not set"}
     \/ call[c].profile \notin Cases /\ UNCHANGED <<property, mishaps>>
  /\ call' = [call EXCEPT ![c].at = "assign"]
  /\ UNCHANGED <<current_power_profile, batch>>

assign_Forgotten(c) ==
  /\ call[c].at = "assign"
  /\ call' = [call EXCEPT ![c] = None]
  /\ UNCHANGED <<current_power_profile, property, batch, mishaps>>
assign(c) ==
  /\ call[c].at = "assign"
  /\ current_power_profile' = call[c].profile
  /\ call' = [call EXCEPT ![c] = None]
  /\ UNCHANGED <<property, batch, mishaps>>

(* External: system_server restarts. *)
Restart ==
  /\ call' = [c \in Callers |-> None]
  /\ current_power_profile' = BALANCED
  /\ batch' = {BALANCED}
  /\ mishaps' = IF property = BALANCED THEN {} ELSE {"restart"}
  /\ UNCHANGED property

Next == \/ \E c \in Callers : \/ \E p \in Asked : power_hint(c, p)
                              \/ property_set(c) \/ assign(c)
        \/ Restart

Spec == Init /\ [][Next]_vars

-----------------------------------------------------------------------------
(* Properties. *)

(* After a race the property and the cache may differ, and the cache then  *)
(* hides it; but both are profiles of the calls that raced, never of an    *)
(* earlier one: one call that is alone and is not ignored makes them equal *)
(* again, whatever races, failures and restarts came before, for every     *)
(* profile that get_feature counts as supported.                           *)
RaceLeavesRecent ==
  Idle /\ mishaps = {} => property \in batch /\ current_power_profile \in batch

(* The parts of the inductive invariant behind it: the batch knows every   *)
(* call under way; and the property, or the cache, can only be older than  *)
(* the batch while a call is still to set it.                              *)
BatchInv ==
  /\ \A c \in Callers : call[c] # None => call[c].profile \in batch
  /\ mishaps = {} =>
       /\ \A c \in Callers : call[c] # None => call[c].profile \in Cases
       /\ property \in batch \/ \E c \in Callers : call[c].at = "set"
       /\ current_power_profile \in batch \/ ~Idle
=============================================================================
