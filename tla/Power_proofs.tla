--------------------------- MODULE Power_proofs ---------------------------
(* Theorems about Power, for any set of callers and of profiles.           *)
EXTENDS Power, TLAPS

USE AskedAssumption DEF Mishaps, POWER_SAVE, BALANCED, BIAS_POWER, Unset,
                        POWER_NR_OF_SUPPORTED_PROFILES, Cases

PowerInv == TypeOK /\ BatchInv

(* Nothing is under way at first, and what differs is excused.             *)
LEMMA PowerInit == Init => PowerInv
<1>1. ASSUME Init PROVE TypeOK
  <2>1. call \in [Callers -> {None} \cup [at : {"set", "assign"}, profile : Asked]]
    BY <1>1 DEF Init
  <2>2. property \in POWER_SAVE .. BIAS_POWER \cup {Unset}
    <3>1. property = Unset \/ property = BALANCED
      BY <1>1 DEF Init
    <3>2. BALANCED \in POWER_SAVE .. BIAS_POWER
      OBVIOUS
    <3> QED
      BY <3>1, <3>2, Zenon
  <2>3. mishaps \subseteq Mishaps
    BY <1>1 DEF Init
  <2> QED
    BY <1>1, <2>1, <2>2, <2>3 DEF Init, TypeOK
<1>2. Init => BatchInv
  BY DEF Init, BatchInv
<1> QED
  BY <1>1, <1>2 DEF PowerInv

(* A call that is at a step is no idle one, and asks for some profile.     *)
LEMMA AtAStep ==
  ASSUME TypeOK, NEW c \in Callers, call[c].at \in {"set", "assign"}
  PROVE  call[c] \in [at : {"set", "assign"}, profile : Asked] /\ call[c] # None
<1>1. call[c] # None
  BY DEF None
<1> QED
  BY <1>1 DEF TypeOK

(* A step of a caller and a restart keep the types.                        *)
LEMMA TypeStep == TypeOK /\ [Next]_vars => TypeOK'
<1> SUFFICES ASSUME TypeOK, [Next]_vars PROVE TypeOK'
  OBVIOUS
<1>1. ASSUME NEW c \in Callers, NEW p \in Asked, power_hint(c, p) PROVE TypeOK'
  BY <1>1 DEF power_hint, TypeOK
<1>2. ASSUME NEW c \in Callers, property_set(c) PROVE TypeOK'
  <2>1. call[c] \in [at : {"set", "assign"}, profile : Asked]
    BY <1>2, AtAStep DEF property_set
  <2> QED
    BY <1>2, <2>1 DEF property_set, TypeOK
<1>3. ASSUME NEW c \in Callers, assign(c) PROVE TypeOK'
  <2>1. call[c] \in [at : {"set", "assign"}, profile : Asked]
    BY <1>3, AtAStep DEF assign
  <2> QED
    BY <1>3, <2>1 DEF assign, TypeOK
<1>4. CASE Restart
  BY <1>4 DEF Restart, TypeOK
<1>5. CASE UNCHANGED vars
  BY <1>5 DEF vars, TypeOK
<1> QED
  BY <1>1, <1>2, <1>3, <1>4, <1>5 DEF Next

(* Races, failures and restarts keep BatchInv: a new batch starts with a   *)
(* call that is still to set the property, and one that ends has done so.  *)
LEMMA BatchStep == PowerInv /\ [Next]_vars => BatchInv'
<1> SUFFICES ASSUME TypeOK, BatchInv, [Next]_vars PROVE BatchInv'
  BY DEF PowerInv
<1>1. ASSUME NEW c \in Callers, NEW p \in Asked, power_hint(c, p) PROVE BatchInv'
  <2>1. /\ call'[c] = [at |-> "set", profile |-> p]
        /\ \A d \in Callers \ {c} : call'[d] = call[d]
    BY <1>1 DEF power_hint, TypeOK
  <2>2. call'[c] # None /\ call'[c].profile = p /\ call'[c].at = "set"
    BY <2>1 DEF None
  <2>3. ASSUME NEW d \in Callers, d # c, call'[d] # None
        PROVE  ~Idle /\ call[d] # None /\ call'[d].profile = call[d].profile
    BY <2>1, <2>3 DEF Idle
  <2>4. ~Idle => batch \subseteq batch' /\ mishaps \subseteq mishaps'
    BY <1>1 DEF power_hint
  <2>5. p \in batch' /\ (mishaps' = {} => p < POWER_NR_OF_SUPPORTED_PROFILES)
    BY <1>1 DEF power_hint
  <2>6. mishaps' = {} => p \in Cases
    BY <2>5
  <2>7. \A d \in Callers : call'[d] # None =>
          call'[d].profile \in batch' /\ (mishaps' = {} => call'[d].profile \in Cases)
    BY <2>2, <2>3, <2>4, <2>5, <2>6 DEF BatchInv
  <2> QED
    BY <2>2, <2>7 DEF BatchInv, Idle
<1>2. ASSUME NEW c \in Callers, property_set(c) PROVE BatchInv'
  <2>1. call[c] \in [at : {"set", "assign"}, profile : Asked] /\ call[c] # None
    BY <1>2, AtAStep DEF property_set
  <2>2. /\ call'[c].profile = call[c].profile /\ call'[c].at = "assign"
        /\ \A d \in Callers \ {c} : call'[d] = call[d]
    BY <1>2, <2>1 DEF property_set, TypeOK
  <2>3. call'[c] # None
    BY <2>2 DEF None
  <2>4. batch' = batch
    BY <1>2 DEF property_set
  <2>5. mishaps' = {} => mishaps = {} /\ property' \in batch'
    BY <1>2, <2>1 DEF property_set, BatchInv
  <2>6. \A d \in Callers : call'[d] # None =>
          call[d] # None /\ call'[d].profile = call[d].profile
    BY <2>1, <2>2
  <2> QED
    BY <2>3, <2>4, <2>5, <2>6 DEF BatchInv, Idle
<1>3. ASSUME NEW c \in Callers, assign(c) PROVE BatchInv'
  <2>1. call[c] # None
    BY <1>3, AtAStep DEF assign
  <2>2. /\ call'[c] = None /\ \A d \in Callers \ {c} : call'[d] = call[d]
        /\ batch' = batch /\ property' = property /\ mishaps' = mishaps
        /\ current_power_profile' = call[c].profile
    BY <1>3 DEF assign, TypeOK
  <2>3. \A d \in Callers : call[d].at = "set" => call'[d].at = "set"
    BY <1>3, <2>2 DEF assign
  <2> QED
    BY <2>1, <2>2, <2>3 DEF BatchInv
<1>4. CASE Restart
  <2>1. \A c \in Callers : call'[c] = None
    BY <1>4 DEF Restart
  <2>2. mishaps' = {} => property' \in batch' /\ current_power_profile' \in batch'
    BY <1>4 DEF Restart
  <2> QED
    BY <2>1, <2>2 DEF BatchInv
<1>5. CASE UNCHANGED vars
  BY <1>5 DEF vars, BatchInv, Idle
<1> QED
  BY <1>1, <1>2, <1>3, <1>4, <1>5 DEF Next

(* For any number of callers, races, failed property_set calls and         *)
(* restarts: between calls the property and current_power_profile are      *)
(* both profiles of the last batch, unless it had a mishap.                *)
THEOREM RaceTheorem == Spec => [](TypeOK /\ RaceLeavesRecent)
<1>1. PowerInv /\ [Next]_vars => PowerInv'
  BY TypeStep, BatchStep DEF PowerInv
<1>2. PowerInv => TypeOK /\ RaceLeavesRecent
  BY DEF PowerInv, BatchInv, RaceLeavesRecent, Idle, None
<1> QED
  BY PowerInit, <1>1, <1>2, PTL DEF Spec
=============================================================================
