----------------------------- MODULE Ril_proofs -----------------------------
(* Theorems about DataCalls, for any sets of context ids and serials and   *)
(* any size of the table, and about RadioPower: what holds of the data     *)
(* calls alone holds beside a modem that is powered off and on.            *)
EXTENDS RadioPower, FiniteSetTheorems, TLAPS

USE CidsAssumption, SlotsAssumption, FrameworkAssumption DEF history

(* The table starts free, the threads idle and nothing outstanding.        *)
LEMMA TypeInit == Init => TypeOK
BY DEF Init, TypeOK, Slots, Interfaces, MaybeCid, Phone, Receiver, Request,
       Answer, Resting, NoRequest, Waiting

(* A loop that goes on to its next entry stays within the loop's bound.    *)
LEMMA Advance ==
  ASSUME NEW p, p.i \in Interfaces, InLoop(p.i)
  PROVE  /\ p \in Phone => [p EXCEPT !.i = @ + 1] \in Phone
         /\ p \in Receiver => [p EXCEPT !.i = @ + 1] \in Receiver
<1>1. p.i + 1 \in Interfaces
  BY DEF Interfaces, InLoop
<1> QED
  BY <1>1 DEF Phone, Receiver

(* Sending changes the request list, and nothing the receiver reads.       *)
LEMMA SendType ==
  ASSUME mRequestList \in [Serials -> Request], NEW r \in Request, Send(r)
  PROVE  mRequestList' \in [Serials -> Request] /\ socket' = socket
BY DEF Send

(* Every step of either thread, and of the modem, keeps the types.         *)
LEMMA TypeStep == TypeOK /\ [LossyNext]_vars => TypeOK'
<1> SUFFICES ASSUME TypeOK, [LossyNext]_vars PROVE TypeOK'
  OBVIOUS
<1>a. Resting \in Phone /\ Resting \in Receiver
  BY DEF Resting, Phone, Receiver, Interfaces, MaybeCid
<1>b. phone.i \in Interfaces /\ receiver.i \in Interfaces
  BY DEF TypeOK, Phone, Receiver
<1>c. NoRequest \in Request /\ Waiting \in Answer
  BY DEF NoRequest, Waiting, Request, Answer, Interfaces, MaybeCid
<1>1. CASE SetupDataCall
  BY <1>1 DEF SetupDataCall, TypeOK, Phone, Interfaces, MaybeCid
<1>2. CASE FindInterface
  <2>1. /\ 0 \in Interfaces
        /\ InLoop(phone.i) => InterfaceOf(phone.i) \in Interfaces
    BY <1>b DEF Interfaces, InLoop, InterfaceOf
  <2>2. phone' \in Phone
    <3>1. ASSUME NEW k \in Interfaces
          PROVE  [phone EXCEPT !.op = "request", !.i = k] \in Phone
      BY DEF TypeOK, Phone
    <3>2. CASE ~InLoop(phone.i)
      BY <1>2, <2>1, <3>1, <3>2 DEF FindInterface
    <3>3. CASE InLoop(phone.i) /\ IsFree(phone.i)
      BY <1>2, <2>1, <3>1, <3>3 DEF FindInterface
    <3>4. CASE InLoop(phone.i) /\ ~IsFree(phone.i)
      BY <1>2, <1>b, <3>4, Advance DEF FindInterface, TypeOK
    <3> QED
      BY <3>2, <3>3, <3>4
  <2>3. phone'.op \notin {"deactivate", "release"}
    BY <1>2 DEF FindInterface, Phone, TypeOK
  <2> QED
    BY <1>2, <2>2, <2>3 DEF FindInterface, TypeOK
<1>13. CASE SendSetup
  <2>1. [kind |-> "setup", iface |-> phone.i, cid |-> NoCid] \in Request
    BY <1>b DEF Request, MaybeCid
  <2>2. mRequestList' \in [Serials -> Request] /\ socket' = socket
    BY <1>13, <2>1, SendType DEF SendSetup, TypeOK
  <2> QED
    BY <1>13, <1>a, <2>2 DEF SendSetup, Resting, TypeOK
<1>3. CASE FreeEntry
  <2>1. 0 \in Interfaces
    BY DEF Interfaces
  <2>2. phone' \in Phone
    BY <1>3, <1>b, <2>1, Advance DEF FreeEntry, TypeOK, Phone
  <2>3. dataCallCids' \in [Slots -> MaybeCid]
    BY <1>3 DEF FreeEntry, Clear, TypeOK, MaybeCid
  <2>4. phone'.cid = phone.cid /\ phone.cid \in Cids
    BY <1>3 DEF FreeEntry, Phone, TypeOK
  <2> QED
    BY <1>3, <2>2, <2>3, <2>4 DEF FreeEntry, TypeOK
<1>14. CASE SendDeactivate
  <2>1. [kind |-> "deactivate", iface |-> 0, cid |-> phone.cid] \in Request
    BY DEF Request, Interfaces, TypeOK, Phone
  <2>2. mRequestList' \in [Serials -> Request] /\ socket' = socket
    BY <1>14, <2>1, SendType DEF SendDeactivate, TypeOK
  <2> QED
    BY <1>14, <1>a, <2>2 DEF SendDeactivate, Resting, TypeOK
<1>4. ASSUME NEW c \in Cids, DeactivateDataCall(c) PROVE TypeOK'
  BY <1>4 DEF DeactivateDataCall, TypeOK, Phone, Interfaces, MaybeCid
<1>5. CASE FetchCid
  <2>1. dataCallCids' \in [Slots -> MaybeCid]
    BY <1>5 DEF FetchCid, TypeOK, Receiver
  <2>2. receiver' \in Receiver
    BY <1>5, <1>a, <1>b, Advance DEF FetchCid, Report, TypeOK
  <2>3. calls' \in SUBSET Cids /\ missed' \in SUBSET Cids
    BY <1>5 DEF FetchCid, Report, TypeOK
  <2>4. receiver'.op = "record" => receiver'.cid \in Cids
    BY <1>5 DEF FetchCid, Report, Resting, Receiver, TypeOK
  <2> QED
    BY <1>5, <2>1, <2>2, <2>3, <2>4 DEF FetchCid, TypeOK
<1>6. ASSUME NEW s \in Serials, ProcessSolicited(s) PROVE TypeOK'
  <2>1. receiver' \in Receiver
    BY <1>6 DEF ProcessSolicited, TypeOK, Receiver, Interfaces, Answer
  <2>2. receiver'.op = "record" => receiver'.cid \in Cids
    BY <1>6 DEF ProcessSolicited, TypeOK, Answer, MaybeCid
  <2> QED
    BY <1>6, <1>c, <2>1, <2>2 DEF ProcessSolicited, Pop, TypeOK
<1>7. ASSUME NEW s \in Serials, NEW c \in Cids, ModemActivate(s, c)
      PROVE  TypeOK'
  <2>1. /\ mRequestList[s].iface \in Interfaces
        /\ [state |-> "reply", cid |-> c] \in Answer
    BY DEF TypeOK, Request, Answer, MaybeCid
  <2> QED
    BY <1>7, <2>1 DEF ModemActivate, TypeOK
<1>8. ASSUME NEW s \in Serials, ModemReject(s) PROVE TypeOK'
  <2>1. \A st \in {"reply", "error"} : [state |-> st, cid |-> NoCid] \in Answer
    BY DEF Answer, MaybeCid
  <2> QED
    BY <1>8, <2>1 DEF ModemReject, TypeOK
<1>9. ASSUME NEW s \in Serials, ModemDeactivate(s) PROVE TypeOK'
  <2>1. \A st \in {"reply", "error"} : [state |-> st, cid |-> NoCid] \in Answer
    BY DEF Answer, MaybeCid
  <2>2. ctx' \in [Cids -> Interfaces \cup {Down}]
    BY <1>9 DEF ModemDeactivate, TypeOK
  <2>3. socket' \in [Serials -> Answer]
    BY <1>9, <2>1 DEF ModemDeactivate, TypeOK
  <2>4. refused' \in SUBSET MaybeCid
    BY <1>9 DEF ModemDeactivate, TypeOK, Request
  <2> QED
    BY <1>9, <2>2, <2>3, <2>4 DEF ModemDeactivate, TypeOK
<1>10. ASSUME NEW c \in Cids, NetworkDrop(c) PROVE TypeOK'
  BY <1>10 DEF NetworkDrop, TypeOK
<1>11. CASE RildRestart
  BY <1>11, <1>c DEF RildRestart, TypeOK
<1>12. CASE UNCHANGED vars
  BY <1>12 DEF vars, TypeOK
<1> QED
  BY <1>1, <1>2, <1>3, <1>4, <1>5, <1>6, <1>7, <1>8, <1>9, <1>10, <1>11,
     <1>12, <1>13, <1>14
     DEF LossyNext, LossStep, Next, PhoneStep, PhoneGoesOn, ReceiverStep,
         ModemStep

(* Without losses the class does nothing it would not do with them, so     *)
(* that what follows holds of Spec as well.                                *)
LEMMA LossesOptional == Spec => LossySpec
<1>1. [Next]_vars => [LossyNext]_vars
  BY DEF LossyNext
<1> QED
  BY <1>1, PTL DEF Spec, LossySpec

(* No loop of MediaTekRIL indexes dataCallCids outside its entries, and    *)
(* only context ids get into it.                                           *)
THEOREM TypeCorrect == LossySpec => []TypeOK
BY TypeInit, TypeStep, PTL DEF LossySpec

-----------------------------------------------------------------------------
(* The scan of setupDataCall.                                              *)

(* Only the receiver fills entries and only the phone thread frees them,   *)
(* so what a scan of setupDataCall has passed stays in use.                *)
LEMMA ScanStep == TypeOK /\ ScannedInUse /\ [LossyNext]_vars => ScannedInUse'
<1> SUFFICES ASSUME TypeOK, ScannedInUse, [LossyNext]_vars PROVE ScannedInUse'
  OBVIOUS
<1>1. CASE SetupDataCall
  BY <1>1 DEF SetupDataCall, ScannedInUse
<1>2. CASE FindInterface
  <2>a. phone \in Phone /\ phone.i \in 0 .. NSlots
    BY DEF TypeOK, Phone, Interfaces
  <2>b. \A j \in 0 .. phone.i - 1 : dataCallCids'[j] # NoCid
    BY <1>2 DEF FindInterface, ScannedInUse
  <2>1. ASSUME ~IsFree(phone.i), phone' = [phone EXCEPT !.i = @ + 1]
        PROVE  ScannedInUse'
    BY <1>2, <2>1, <2>a, <2>b DEF FindInterface, ScannedInUse, IsFree, Phone
  <2>2. ASSUME phone' = [phone EXCEPT !.op = "request",
                                      !.i = InterfaceOf(@)]
        PROVE  ScannedInUse'
    BY <2>2, <2>a, <2>b DEF ScannedInUse, NoneLower, InterfaceOf, Phone, Slots
  <2>3. ASSUME ~InLoop(phone.i),
               phone' = [phone EXCEPT !.op = "request", !.i = 0]
        PROVE  ScannedInUse'
    BY <2>3, <2>a, <2>b DEF ScannedInUse, NoneLower, InLoop, Phone, Slots
  <2> QED
    BY <1>2, <2>1, <2>2, <2>3 DEF FindInterface
<1>3. CASE FreeEntry
  BY <1>3 DEF FreeEntry, ScannedInUse, TypeOK, Phone
<1>8. CASE SendSetup \/ SendDeactivate
  BY <1>8 DEF SendSetup, SendDeactivate, Resting, ScannedInUse
<1>4. ASSUME NEW c \in Cids, DeactivateDataCall(c) PROVE ScannedInUse'
  BY <1>4 DEF DeactivateDataCall, ScannedInUse
<1>5. CASE FetchCid
  <2>1. \A j \in Slots : dataCallCids[j] # NoCid => dataCallCids'[j] # NoCid
    BY <1>5 DEF FetchCid, TypeOK
  <2>2. phone.op = "setup" => 0 .. phone.i - 1 \subseteq Slots
    BY DEF TypeOK, Phone, Interfaces, Slots
  <2> QED
    BY <1>5, <2>1, <2>2 DEF FetchCid, ScannedInUse, NoneLower
<1>6. ASSUME UNCHANGED <<dataCallCids, phone>> PROVE ScannedInUse'
  BY <1>6 DEF ScannedInUse, NoneLower
<1>7. ASSUME \/ ModemStep \/ LossStep \/ UNCHANGED vars
             \/ \E s \in Serials : ProcessSolicited(s)
      PROVE  UNCHANGED <<dataCallCids, phone>>
  BY <1>7 DEF ModemStep, LossStep, ProcessSolicited, ModemActivate,
              ModemReject, ModemDeactivate, NetworkDrop, RildRestart, vars
<1> QED
  BY <1>1, <1>2, <1>3, <1>4, <1>5, <1>6, <1>7, <1>8
     DEF LossyNext, Next, PhoneStep, PhoneGoesOn, ReceiverStep

(* When a setup is sent, no interface lower than its own is available,     *)
(* under any interleaving and any fault of the modem.                      *)
THEOREM ScanSkipsNone == LossySpec => SetupSkipsNone
<1> DEFINE Asks == \A s \in Serials :
                     mRequestList[s].kind = "free" /\ mRequestList'[s].kind = "setup"
                       => NoneLower(mRequestList'[s].iface)
<1>1. Init => ScannedInUse
  BY DEF Init, Resting, ScannedInUse
<1>2. TypeOK /\ ScannedInUse /\ [LossyNext]_vars => [Asks]_vars
  <2> SUFFICES ASSUME TypeOK, ScannedInUse, LossyNext PROVE Asks
    OBVIOUS
  <2>1. CASE SendSetup
    BY <2>1 DEF SendSetup, Send, ScannedInUse, TypeOK
  <2>2. CASE SendDeactivate
    BY <2>2 DEF SendDeactivate, Send, TypeOK
  <2>3. ASSUME NEW s \in Serials, ProcessSolicited(s) PROVE Asks
    BY <2>3 DEF ProcessSolicited, Pop, NoRequest, TypeOK
  <2>4. CASE RildRestart
    BY <2>4 DEF RildRestart, NoRequest
  <2>5. ASSUME UNCHANGED mRequestList PROVE Asks
    BY <2>5
  <2> QED
    BY <2>1, <2>2, <2>3, <2>4, <2>5
       DEF LossyNext, LossStep, Next, PhoneStep, PhoneGoesOn, ReceiverStep,
           ModemStep, SetupDataCall, FindInterface, FreeEntry,
           DeactivateDataCall, FetchCid, ModemActivate, ModemReject,
           ModemDeactivate, NetworkDrop
<1> QED
  BY <1>1, <1>2, ScanStep, TypeInit, TypeStep, PTL
     DEF LossySpec, SetupSkipsNone

-----------------------------------------------------------------------------
(* One operation at a time: no two contexts share an interface.            *)

(* Nothing is active, outstanding or scanned in the beginning.             *)
LEMMA SerialInit == Init => SerialInv
BY DEF Init, SerialInv, OneOperation, Quiet, ScannedInUse,
       SetupAsksFirstAvailable, InterfaceOwned, Owns, Resting, NoRequest,
       Waiting, Down

(* While nothing is outstanding, an active context owns its entry, or the  *)
(* phone thread has just freed it.                                         *)
LEMMA QuietOwned ==
  ASSUME TypeOK, InterfaceOwned, Quiet,
         NEW c \in Cids \ refused, ctx[c] \in 1 .. NSlots
  PROVE  \/ dataCallCids[ctx[c] - 1] = c
         \/ Releasing(c) /\ dataCallCids[ctx[c] - 1] = NoCid
BY DEF TypeOK, InterfaceOwned, Owns, Quiet, NoRequest, Recording, Leaving,
       Unanswered

(* With OneAtATime the two threads never work on the table together: an    *)
(* operation starts when nothing is outstanding and ends with its request. *)
LEMMA OneOperationStep ==
  ASSUME OneAtATime, TypeOK, OneOperation, [LossyNext]_vars
  PROVE  OneOperation'
<1>1. ASSUME UNCHANGED <<mRequestList, socket, receiver>>,
             phone'.op # "idle" => phone.op # "idle" \/ Quiet
      PROVE  OneOperation'
  BY <1>1 DEF OneOperation, Quiet
<1>2. CASE SetupDataCall \/ \E c \in Cids : DeactivateDataCall(c)
  BY <1>1, <1>2 DEF SetupDataCall, DeactivateDataCall, MayStart
<1>3. ASSUME phone.op # "idle", NEW r \in Request, r.kind # "free", Send(r),
             phone' = Resting, UNCHANGED receiver
      PROVE  OneOperation'
  <2>1. Quiet /\ receiver.op = "idle" /\ phone'.op = "idle"
    BY <1>3 DEF OneOperation, Quiet, Resting
  <2>2. PICK s \in Serials : /\ mRequestList' = [mRequestList EXCEPT ![s] = r]
                            /\ UNCHANGED socket
    BY <1>3 DEF Send
  <2>3. \A t \in Serials : t # s => mRequestList'[t] = NoRequest
    BY <2>1, <2>2 DEF Quiet, TypeOK
  <2>4. mRequestList'[s] = r /\ r # NoRequest
    BY <1>3, <2>2 DEF TypeOK, NoRequest
  <2> QED
    BY <1>3, <2>1, <2>2, <2>3, <2>4 DEF OneOperation, Quiet
<1>4. CASE FindInterface \/ FreeEntry
  BY <1>1, <1>4 DEF FindInterface, FreeEntry
<1>5. CASE SendSetup
  <2>1. [kind |-> "setup", iface |-> phone.i, cid |-> NoCid] \in Request
    BY DEF Request, MaybeCid, TypeOK, Phone
  <2> QED
    BY <1>3, <1>5, <2>1 DEF SendSetup
<1>13. CASE SendDeactivate
  <2>1. [kind |-> "deactivate", iface |-> 0, cid |-> phone.cid] \in Request
    BY DEF Request, Interfaces, TypeOK, Phone
  <2> QED
    BY <1>3, <1>13, <2>1 DEF SendDeactivate
<1>6. CASE FetchCid
  <2>1. receiver'.op # "idle" => receiver.op # "idle"
    BY <1>6 DEF FetchCid
  <2> QED
    BY <1>6, <2>1 DEF FetchCid, OneOperation, Quiet
<1>7. ASSUME NEW s \in Serials, ProcessSolicited(s) PROVE OneOperation'
  <2>1. mRequestList[s] # NoRequest
    BY <1>7 DEF ProcessSolicited, NoRequest
  <2>2. phone'.op = "idle"
    BY <1>7, <2>1 DEF ProcessSolicited, OneOperation, Quiet, TypeOK, Phone
  <2>3. \A t \in Serials : mRequestList'[t] = NoRequest
    BY <1>7, <2>1 DEF ProcessSolicited, Pop, OneOperation, TypeOK
  <2>4. \A t \in Serials : socket'[t].state = "waiting"
    BY <1>7, <2>1 DEF ProcessSolicited, Pop, OneOperation, TypeOK, Waiting,
                      Answer
  <2> QED
    BY <2>2, <2>3, <2>4 DEF OneOperation
<1>8. ASSUME NEW s \in Serials, NEW kind \in {"setup", "deactivate"},
             Unanswered(s, kind), UNCHANGED <<mRequestList, receiver, phone>>,
             NEW a, socket' = [socket EXCEPT ![s] = a]
      PROVE  OneOperation'
  <2>1. mRequestList[s] # NoRequest
    BY <1>8 DEF Unanswered, NoRequest
  <2> QED
    BY <1>8, <2>1 DEF OneOperation, Quiet, TypeOK
<1>9. CASE RildRestart
  BY <1>9 DEF RildRestart, OneOperation, Quiet, NoRequest, Waiting
<1>10. CASE \E c \in Cids : NetworkDrop(c)
  BY <1>1, <1>10 DEF NetworkDrop
<1>11. CASE \E s \in Serials : \/ ModemReject(s) \/ ModemDeactivate(s)
                               \/ \E c \in Cids : ModemActivate(s, c)
  BY <1>8, <1>11 DEF ModemReject, ModemDeactivate, ModemActivate
<1>12. CASE UNCHANGED vars
  BY <1>1, <1>12 DEF vars
<1> QED
  BY <1>2, <1>4, <1>5, <1>6, <1>7, <1>9, <1>10, <1>11, <1>12, <1>13
     DEF LossyNext, LossStep, Next, PhoneStep, PhoneGoesOn, ReceiverStep,
         ModemStep

(* From its choice to the answer of its setup, nothing changes which       *)
(* interface is the first available one.                                   *)
LEMMA FirstAvailableStep ==
  ASSUME OneAtATime, TypeOK, OneOperation, ScannedInUse,
         SetupAsksFirstAvailable, [LossyNext]_vars
  PROVE  SetupAsksFirstAvailable'
<1>1. ASSUME UNCHANGED <<mRequestList, dataCallCids>>,
             phone'.op = "request" => UNCHANGED phone
      PROVE  SetupAsksFirstAvailable'
  BY <1>1 DEF SetupAsksFirstAvailable, FirstAvailable, NoneLower
<1>2. CASE FindInterface
  <2>1. UNCHANGED <<mRequestList, dataCallCids>>
    BY <1>2 DEF FindInterface
  <2>2. \A s \in Serials : mRequestList[s].kind # "setup"
    BY <1>2 DEF FindInterface, OneOperation, Quiet, NoRequest
  <2>3. CASE InLoop(phone.i) /\ IsFree(phone.i)
    <3>1. phone'.i = phone.i + 1
      BY <1>2, <2>3 DEF FindInterface, InterfaceOf, TypeOK, Phone
    <3>2. FirstAvailable(phone.i + 1)
      <4>1. \A j \in Slots : j + 1 < phone.i + 1 => dataCallCids[j] # NoCid
        BY <1>2 DEF FindInterface, ScannedInUse, Slots, TypeOK, Phone,
                    Interfaces
      <4>2. /\ phone.i \in Nat /\ phone.i + 1 # 0
            /\ dataCallCids[(phone.i + 1) - 1] = NoCid
        BY <2>3 DEF IsFree, TypeOK, Phone, Interfaces
      <4>3. NoneLower(phone.i + 1)
        BY <4>1, <4>2 DEF NoneLower
      <4> QED
        BY <4>2, <4>3 DEF FirstAvailable
    <3> QED
      BY <2>1, <2>2, <3>1, <3>2
         DEF SetupAsksFirstAvailable, FirstAvailable, NoneLower
  <2>4. CASE ~InLoop(phone.i)
    <3>1. phone'.i = 0
      BY <1>2, <2>4 DEF FindInterface, TypeOK, Phone
    <3>2. FirstAvailable(0)
      BY <1>2, <2>4 DEF FindInterface, InLoop, ScannedInUse, Slots,
                        FirstAvailable, NoneLower, TypeOK, Phone, Interfaces
    <3> QED
      BY <2>1, <2>2, <3>1, <3>2
         DEF SetupAsksFirstAvailable, FirstAvailable, NoneLower
  <2>5. CASE InLoop(phone.i) /\ ~IsFree(phone.i)
    BY <1>1, <1>2, <2>1, <2>5 DEF FindInterface, TypeOK, Phone
  <2> QED
    BY <2>3, <2>4, <2>5
<1>3. CASE SendSetup
  BY <1>3 DEF SendSetup, Send, Resting, SetupAsksFirstAvailable,
              FirstAvailable, NoneLower, TypeOK
<1>4. CASE FreeEntry
  <2>1. \A s \in Serials : mRequestList'[s].kind # "setup"
    BY <1>4 DEF FreeEntry, OneOperation, Quiet, NoRequest
  <2>2. phone'.op # "request"
    BY <1>4 DEF FreeEntry, TypeOK, Phone
  <2> QED
    BY <2>1, <2>2 DEF SetupAsksFirstAvailable
<1>5. CASE SendDeactivate
  <2>1. \A s \in Serials : mRequestList'[s].kind # "setup"
    BY <1>5 DEF SendDeactivate, Send, OneOperation, Quiet, NoRequest, TypeOK
  <2> QED
    BY <1>5, <2>1 DEF SendDeactivate, Resting, SetupAsksFirstAvailable
<1>6. CASE FetchCid
  <2>1. \A s \in Serials : mRequestList'[s].kind = "free"
    BY <1>6 DEF FetchCid, OneOperation, NoRequest
  <2>2. phone'.op # "request"
    BY <1>6 DEF FetchCid, OneOperation, Quiet
  <2> QED
    BY <2>1, <2>2 DEF SetupAsksFirstAvailable
<1>7. ASSUME NEW s \in Serials, ProcessSolicited(s)
      PROVE  SetupAsksFirstAvailable'
  <2>1. UNCHANGED <<dataCallCids, phone>>
    BY <1>7 DEF ProcessSolicited
  <2>2. \A t \in Serials : mRequestList'[t] \in {mRequestList[t], NoRequest}
    BY <1>7 DEF ProcessSolicited, Pop, TypeOK
  <2> QED
    BY <2>1, <2>2
       DEF SetupAsksFirstAvailable, FirstAvailable, NoneLower, NoRequest
<1>8. CASE RildRestart
  <2>1. UNCHANGED <<dataCallCids, phone>>
    BY <1>8 DEF RildRestart
  <2>2. \A t \in Serials : mRequestList'[t].kind = "free"
    BY <1>8 DEF RildRestart, NoRequest
  <2> QED
    BY <2>1, <2>2 DEF SetupAsksFirstAvailable, FirstAvailable, NoneLower
<1> QED
  BY <1>1, <1>2, <1>3, <1>4, <1>5, <1>6, <1>7, <1>8
     DEF LossyNext, LossStep, Next, PhoneStep, PhoneGoesOn, ReceiverStep,
         ModemStep, SetupDataCall,
         DeactivateDataCall, ModemActivate, ModemReject, ModemDeactivate,
         NetworkDrop, vars

(* The step that matters: an active context is handed on from the entry    *)
(* chosen for it, through its answer and the receiver's loop, to the entry *)
(* itself, and leaves the entry only to be deactivated.                    *)
LEMMA InterfaceOwnedStep ==
  ASSUME OneAtATime,
         TypeOK, OneOperation, SetupAsksFirstAvailable, InterfaceOwned,
         [LossyNext]_vars
  PROVE  InterfaceOwned'
<1>1. ASSUME UNCHANGED <<dataCallCids, receiver, mRequestList, socket, ctx,
                         refused>>,
             phone.op = "release" => UNCHANGED phone
      PROVE  InterfaceOwned'
  BY <1>1
     DEF InterfaceOwned, Owns, Answered, Recording, Releasing, Leaving,
         Unanswered, FirstAvailable, NoneLower
<1>2. CASE FindInterface
  BY <1>1, <1>2 DEF FindInterface
<1>12. CASE SendSetup
  <2>1. Quiet /\ phone.op # "release"
    BY <1>12 DEF SendSetup, OneOperation
  <2>2. UNCHANGED <<dataCallCids, ctx, refused>>
    BY <1>12 DEF SendSetup
  <2> QED
    BY <2>1, <2>2, QuietOwned DEF InterfaceOwned, Owns, Releasing
<1>3. CASE FreeEntry
  <2>1. Quiet /\ phone.op # "release" /\ UNCHANGED <<ctx, refused>>
    BY <1>3 DEF FreeEntry, OneOperation
  <2>2. CASE UNCHANGED dataCallCids
    BY <2>1, <2>2, QuietOwned DEF InterfaceOwned, Owns, Releasing
  <2>3. CASE /\ Matches(phone.i) /\ Clear(phone.i)
             /\ phone' = [phone EXCEPT !.op = "release", !.i = 0]
    <3>1. phone'.op = "release" /\ phone'.cid = phone.cid
      BY <2>3 DEF TypeOK, Phone
    <3>2. ASSUME NEW c \in Cids \ refused, ctx[c] \in 1 .. NSlots
          PROVE  \/ dataCallCids'[ctx[c] - 1] = c
                 \/ c = phone.cid /\ dataCallCids'[ctx[c] - 1] = NoCid
      <4>1. dataCallCids[ctx[c] - 1] = c
        BY <2>1, <3>2, QuietOwned DEF Releasing
      <4> QED
        BY <2>3, <3>2, <4>1 DEF Matches, Clear, TypeOK, Slots
    <3> QED
      BY <2>1, <3>1, <3>2 DEF InterfaceOwned, Owns, Releasing
  <2> QED
    BY <1>3, <2>2, <2>3 DEF FreeEntry
<1>13. CASE SendDeactivate
  <2>1. Quiet /\ UNCHANGED <<dataCallCids, ctx, refused>>
    BY <1>13 DEF SendDeactivate, OneOperation
  <2>2. PICK s \in Serials :
          /\ mRequestList[s] = NoRequest
          /\ mRequestList' = [mRequestList EXCEPT ![s] =
               [kind |-> "deactivate", iface |-> 0, cid |-> phone.cid]]
          /\ UNCHANGED socket
    BY <1>13 DEF SendDeactivate, Send
  <2>3. /\ mRequestList'[s].kind = "deactivate"
        /\ mRequestList'[s].cid = phone.cid
        /\ socket'[s].state = "waiting"
    BY <2>2 DEF OneOperation, TypeOK
  <2>4. \A c \in Cids : Releasing(c) => Leaving(s, c)'
    BY <2>3 DEF Releasing, Leaving, Unanswered
  <2> QED
    BY <2>1, <2>4, QuietOwned DEF InterfaceOwned, Owns
<1>4. CASE FetchCid
  <2>1. \A s \in Serials : mRequestList[s].kind = "free"
    BY <1>4 DEF FetchCid, OneOperation, NoRequest
  <2>2. ASSUME NEW c \in Cids \ refused, ctx[c] \in 1 .. NSlots
        PROVE  \/ dataCallCids[ctx[c] - 1] = c
               \/ /\ Recording(c)
                  /\ FirstAvailable(ctx[c])
                  /\ receiver.i < ctx[c]
    <3>1. ~Releasing(c)
      BY <1>4 DEF FetchCid, Releasing, OneOperation, Quiet
    <3> QED
      BY <2>1, <2>2, <3>1 DEF InterfaceOwned, Owns, Leaving, Unanswered
  <2>3. ASSUME NEW c \in Cids \ refused, ctx[c] \in 1 .. NSlots
        PROVE  \/ dataCallCids'[ctx[c] - 1] = c
               \/ /\ Recording(c)'
                  /\ FirstAvailable(ctx[c])'
                  /\ receiver'.i < ctx[c]
    <3>1. CASE InLoop(receiver.i) /\ IsFree(receiver.i)
      <4>1. dataCallCids' = [dataCallCids EXCEPT ![receiver.i] = receiver.cid]
        BY <1>4, <3>1 DEF FetchCid
      <4>2. receiver.i \in Slots /\ ctx[c] - 1 \in Slots
        BY <2>3, <3>1 DEF InLoop, Slots, TypeOK, Receiver, Interfaces
      <4>3. CASE dataCallCids[ctx[c] - 1] = c
        BY <3>1, <4>1, <4>2, <4>3 DEF IsFree, TypeOK
      <4>4. CASE Recording(c) /\ FirstAvailable(ctx[c]) /\ receiver.i < ctx[c]
        <5>1. receiver.i = ctx[c] - 1
          BY <2>3, <3>1, <4>2, <4>4 DEF FirstAvailable, NoneLower, IsFree, Slots
        <5> QED
          BY <4>1, <4>2, <4>4, <5>1 DEF Recording, TypeOK
      <4> QED
        BY <2>2, <2>3, <4>3, <4>4
    <3>2. CASE InLoop(receiver.i) /\ ~IsFree(receiver.i)
      <4>1. /\ dataCallCids' = dataCallCids
            /\ receiver' = [receiver EXCEPT !.i = @ + 1]
        BY <1>4, <3>2 DEF FetchCid
      <4>2. CASE Recording(c) /\ FirstAvailable(ctx[c]) /\ receiver.i < ctx[c]
        <5>1. receiver.i # ctx[c] - 1
          BY <2>3, <3>2, <4>2 DEF IsFree, FirstAvailable
        <5>2. /\ receiver'.i = receiver.i + 1
              /\ receiver'.op = receiver.op
              /\ receiver'.cid = receiver.cid
          BY <4>1 DEF TypeOK, Receiver
        <5>3. receiver.i \in Nat
          BY DEF TypeOK, Receiver, Interfaces
        <5>4. ctx'[c] = ctx[c]
          BY <1>4 DEF FetchCid
        <5> QED
          BY <2>3, <4>1, <4>2, <5>1, <5>2, <5>3, <5>4 DEF Recording, FirstAvailable,
                     NoneLower
      <4> QED
        BY <2>2, <2>3, <4>1, <4>2
    <3>3. CASE ~InLoop(receiver.i)
      BY <1>4, <2>2, <2>3, <3>3
         DEF FetchCid, InLoop, TypeOK, Receiver, Interfaces
    <3> QED
      BY <3>1, <3>2, <3>3
  <2> QED
    BY <1>4, <2>3 DEF FetchCid, InterfaceOwned, Owns
<1>5. ASSUME NEW s \in Serials, ProcessSolicited(s) PROVE InterfaceOwned'
  <2>1. mRequestList[s].kind # "free" /\ receiver.op = "idle"
    BY <1>5 DEF ProcessSolicited
  <2>2. \A t \in Serials : mRequestList[t].kind # "free" => t = s
    BY <2>1 DEF OneOperation, NoRequest
  <2>3. UNCHANGED <<dataCallCids, ctx, refused>>
    BY <1>5 DEF ProcessSolicited
  <2>5. ~(phone.op = "release")
    BY <2>1 DEF OneOperation, Quiet, NoRequest
  <2>4. ASSUME NEW c \in Cids \ refused, ctx[c] \in 1 .. NSlots,
               dataCallCids[ctx[c] - 1] # c
        PROVE  Recording(c)' /\ FirstAvailable(ctx[c])' /\ receiver'.i < ctx[c]
    <3>1. /\ Answered(s, c)
          /\ mRequestList[s].kind = "setup"
          /\ mRequestList[s].iface = ctx[c]
      BY <1>5, <2>1, <2>2, <2>4, <2>5
         DEF InterfaceOwned, Owns, ProcessSolicited, Recording, Releasing,
             Leaving, Unanswered
    <3>2. receiver' = [op |-> "record", i |-> 0, cid |-> c]
      BY <1>5, <3>1 DEF ProcessSolicited, Answered
    <3>3. FirstAvailable(ctx[c])
      BY <2>4, <3>1 DEF SetupAsksFirstAvailable
    <3> QED
      BY <2>3, <2>4, <3>2, <3>3 DEF Recording, FirstAvailable,
                     NoneLower
  <2> QED
    BY <2>3, <2>4 DEF InterfaceOwned, Owns
<1>6. ASSUME NEW s \in Serials, mRequestList[s].kind # "free",
             socket[s].state = "waiting",
             UNCHANGED <<dataCallCids, mRequestList>>,
             NEW c \in Cids \ refused, ctx'[c] = ctx[c],
             ctx[c] \in 1 .. NSlots
      PROVE  dataCallCids'[ctx'[c] - 1] = c \/ Leaving(s, c)
  <2>1. receiver.op = "idle" /\ ~Releasing(c)
    BY <1>6 DEF OneOperation, Quiet, NoRequest, TypeOK, Receiver, Releasing
  <2>2. \A t \in Serials : mRequestList[t].kind # "free" => t = s
    BY <1>6 DEF OneOperation, NoRequest
  <2> QED
    BY <1>6, <2>1, <2>2
       DEF InterfaceOwned, Owns, Recording, Leaving, Unanswered, Answered
<1>7. ASSUME NEW s \in Serials, NEW c \in Cids, ModemActivate(s, c)
      PROVE  InterfaceOwned'
  <2>1. /\ mRequestList[s].kind = "setup" /\ socket[s].state = "waiting"
        /\ UNCHANGED <<dataCallCids, mRequestList>>
    BY <1>7 DEF ModemActivate, Unanswered
  <2>2. Answered(s, c)' /\ ctx'[c] = mRequestList[s].iface
    BY <1>7 DEF ModemActivate, Answered, TypeOK
  <2>3. /\ \A d \in Cids : d # c => ctx'[d] = ctx[d]
        /\ refused' = refused \ {c}
    BY <1>7 DEF ModemActivate, TypeOK
  <2> QED
    BY <1>6, <2>1, <2>2, <2>3 DEF InterfaceOwned, Owns, Leaving, Unanswered
<1>8. ASSUME NEW s \in Serials, ModemReject(s) PROVE InterfaceOwned'
  BY <1>6, <1>8 DEF ModemReject, Unanswered, InterfaceOwned, Owns, Leaving
<1>9. ASSUME NEW s \in Serials, ModemDeactivate(s) PROVE InterfaceOwned'
  <2>1. /\ mRequestList[s].kind = "deactivate" /\ socket[s].state = "waiting"
        /\ UNCHANGED <<dataCallCids, mRequestList>>
    BY <1>9 DEF ModemDeactivate, Unanswered
  <2>2. ASSUME NEW d \in Cids \ refused', ctx'[d] \in 1 .. NSlots
        PROVE  d \notin refused /\ ctx'[d] = ctx[d] /\ ~Leaving(s, d)
    BY <1>9, <2>2 DEF ModemDeactivate, Leaving, TypeOK, Down
  <2> QED
    BY <1>6, <2>1, <2>2 DEF InterfaceOwned, Owns
<1>10. ASSUME NEW c \in Cids, NetworkDrop(c) PROVE InterfaceOwned'
  <2>1. \A d \in Cids : ctx'[d] \in 1 .. NSlots => ctx'[d] = ctx[d]
    BY <1>10 DEF NetworkDrop, Down, TypeOK
  <2>2. UNCHANGED <<dataCallCids, phone, receiver, mRequestList, socket, refused>>
    BY <1>10 DEF NetworkDrop
  <2>3. ASSUME NEW d \in Cids, ctx'[d] = ctx[d]
        PROVE  Owns(d) => Owns(d)'
    BY <2>2, <2>3 DEF Owns, Answered, Recording, FirstAvailable, NoneLower
  <2>4. ASSUME NEW d \in Cids \ refused, ctx'[d] = ctx[d], ctx[d] \in 1 .. NSlots
        PROVE  \/ Owns(d)'
               \/ /\ Releasing(d)' \/ \E s \in Serials : Leaving(s, d)'
                  /\ dataCallCids'[ctx'[d] - 1] = NoCid
    BY <2>2, <2>3, <2>4 DEF InterfaceOwned, Releasing, Leaving, Unanswered
  <2> QED
    BY <2>1, <2>2, <2>4 DEF InterfaceOwned
<1>11. CASE RildRestart
  BY <1>11 DEF RildRestart, Down, InterfaceOwned, Owns
<1> QED
  BY <1>1, <1>2, <1>3, <1>4, <1>5, <1>7, <1>8, <1>9, <1>10, <1>11, <1>12,
     <1>13
     DEF LossyNext, LossStep, Next, PhoneStep, PhoneGoesOn, ReceiverStep,
         ModemStep, SetupDataCall, DeactivateDataCall, MayStart, vars

(* Two contexts on one interface would both own its entry. *)
LEMMA SerialInvExclusive ==
  TypeOK /\ SerialInv => ExclusiveInterfaces
BY DEF SerialInv, OneOperation, Quiet, InterfaceOwned, Owns,
       SetupAsksFirstAvailable, FirstAvailable, ExclusiveInterfaces, TypeOK,
       Interfaces, Answered, Recording, Releasing, Leaving, Unanswered,
       NoRequest, Down

(* The inductive step of one request at a time. *)
LEMMA SerialStep ==
  ASSUME OneAtATime, TypeOK, SerialInv, [LossyNext]_vars
  PROVE  SerialInv'
BY OneOperationStep, ScanStep, FirstAvailableStep, InterfaceOwnedStep
   DEF SerialInv

(* As long as the framework waits for each request to be answered, no two  *)
(* active contexts run on the same interface, but those whose deactivation *)
(* was refused, and a setup asks for the first available interface until   *)
(* its answer is read, even if the network drops contexts and the RIL      *)
(* daemon restarts.                                                        *)
THEOREM SerialExclusive ==
  ASSUME OneAtATime
  PROVE  LossySpec => [](/\ SerialInv /\ ExclusiveInterfaces
                         /\ SetupAsksFirstAvailable)
<1>1. SerialInv => SetupAsksFirstAvailable
  BY DEF SerialInv
<1> QED
  BY <1>1, SerialStep, TypeInit, TypeStep, SerialInit, SerialInvExclusive, PTL
     DEF LossySpec

-----------------------------------------------------------------------------
(* The booking of calls, while nothing is lost: Spec.                      *)

(* A context id on its way between the modem and the table, under a serial. *)
Flight(s, c) == Answered(s, c) \/ Leaving(s, c)

(* The context ids the scan of fetchCidFromDataCall has still ahead of it. *)
Ahead(i) == {dataCallCids[j] : j \in i .. NSlots - 1} \ {NoCid}

(* They are context ids, and finitely many.                                *)
LEMMA AheadFinite ==
  ASSUME TypeOK, NEW i \in Nat
  PROVE  /\ Ahead(i) \in SUBSET Cids /\ IsFiniteSet(Ahead(i))
         /\ Cardinality(Ahead(i)) \in Nat /\ Cardinality(Cids) \in Nat
<1>1. Ahead(i) \in SUBSET Cids
  BY DEF TypeOK, Ahead, Slots, MaybeCid
<1>2. IsFiniteSet(Ahead(i))
  BY <1>1, FS_Subset
<1> QED
  BY <1>1, <1>2, FS_CardinalityType

(* The receiver always finds a free entry: its loop never ends without one. *)
LEMMA RecordInLoop ==
  ASSUME TypeOK, ScanBound, Cardinality(Cids) <= NSlots, receiver.op = "record"
  PROVE  InLoop(receiver.i) /\ receiver.i \in Nat
<1>1. receiver.i \in Nat
  BY DEF TypeOK, Receiver, Interfaces
<1>2. Cardinality(Ahead(receiver.i)) + receiver.i <= Cardinality(Cids) - 1
  BY DEF ScanBound, Ahead
<1> QED
  BY <1>1, <1>2, AheadFinite DEF InLoop

(* No step lets the scan run out of the table: an entry it passes is one   *)
(* context id less ahead of it, and the phone thread only frees entries.   *)
LEMMA ScanBoundStep ==
  ASSUME TypeOK, TypeOK', BookingInv, [Next]_vars
  PROVE  ScanBound'
<1> SUFFICES ASSUME receiver'.op = "record"
             PROVE  Cardinality(Ahead(receiver.i)') + receiver'.i
                      <= Cardinality(Cids) - 1
  BY DEF ScanBound, Ahead
<1>i. receiver.i \in Nat /\ receiver'.i \in Nat
  BY DEF TypeOK, Receiver, Interfaces
<1>1. ASSUME receiver' = receiver, Ahead(receiver.i)' \subseteq Ahead(receiver.i)
      PROVE  Cardinality(Ahead(receiver.i)') + receiver'.i
                <= Cardinality(Cids) - 1
  <2>1. Cardinality(Ahead(receiver.i)) + receiver.i <= Cardinality(Cids) - 1
    BY <1>1 DEF BookingInv, ScanBound, Ahead
  <2>2. /\ Cardinality(Ahead(receiver.i)') <= Cardinality(Ahead(receiver.i))
        /\ Cardinality(Ahead(receiver.i)') \in Nat
    BY <1>1, <1>i, AheadFinite, FS_Subset, FS_CardinalityType
  <2> QED
    BY <1>1, <1>i, <2>1, <2>2, AheadFinite
<1>2. CASE UNCHANGED <<dataCallCids, receiver>>
  BY <1>1, <1>2 DEF Ahead
<1>3. CASE FreeEntry
  <2>1. receiver' = receiver
    BY <1>3 DEF FreeEntry
  <2>2. \A j \in Slots : dataCallCids'[j] \in {dataCallCids[j], NoCid}
    BY <1>3 DEF FreeEntry, Clear, TypeOK
  <2>3. Ahead(receiver.i)' \subseteq Ahead(receiver.i)
    BY <2>1, <2>2, <1>i DEF Ahead, Slots
  <2> QED
    BY <1>1, <2>1, <2>3
<1>4. CASE FetchCid
  <2> DEFINE i == receiver.i
  <2>1. /\ receiver.op = "record" /\ InLoop(i) /\ ~IsFree(i)
        /\ receiver' = [receiver EXCEPT !.i = @ + 1]
        /\ dataCallCids' = dataCallCids
    BY <1>4 DEF FetchCid, Report, Resting
  <2>2. receiver'.i = i + 1 /\ i \in Slots
    BY <2>1, <1>i DEF TypeOK, Receiver, InLoop, Slots
  <2>3. Ahead(i + 1) = Ahead(i) \ {dataCallCids[i]} /\ dataCallCids[i] \in Ahead(i)
    BY <2>1, <2>2 DEF Ahead, IsFree, BookingInv, OneEntryPerCall, Slots
  <2>4. Cardinality(Ahead(i + 1)) = Cardinality(Ahead(i)) - 1
    BY <2>3, <1>i, AheadFinite, FS_RemoveElement
  <2>5. Cardinality(Ahead(i)) + i <= Cardinality(Cids) - 1
    BY <2>1 DEF BookingInv, ScanBound, Ahead
  <2>6. Ahead(receiver.i)' = Ahead(i + 1)
    BY <2>1, <2>2 DEF Ahead
  <2> QED
    BY <2>2, <2>4, <2>5, <2>6, <1>i, AheadFinite
<1>5. ASSUME NEW s \in Serials, ProcessSolicited(s), receiver' # receiver
      PROVE  Cardinality(Ahead(receiver.i)') + receiver'.i
                <= Cardinality(Cids) - 1
  <2> DEFINE c == socket[s].cid
  <2>1. /\ socket[s].state = "reply" /\ c # NoCid
        /\ receiver' = [op |-> "record", i |-> 0, cid |-> c]
        /\ dataCallCids' = dataCallCids
    BY <1>5 DEF ProcessSolicited
  <2>2. c \in Cids /\ receiver'.i = 0
    BY <2>1 DEF TypeOK, Answer, MaybeCid
  <2>3. c \notin Booked
    BY <2>1, <2>2 DEF BookingInv, InFlightNotBooked, Answered
  <2>4. Ahead(receiver.i)' = Booked
    BY <2>1, <2>2 DEF Ahead, Booked, Slots
  <2>5. Booked \subseteq Cids \ {c}
    BY <2>3 DEF Booked, TypeOK, MaybeCid
  <2>6. /\ IsFiniteSet(Cids \ {c})
        /\ Cardinality(Cids \ {c}) = Cardinality(Cids) - 1
    BY <2>2, FS_RemoveElement
  <2>7. Cardinality(Booked) <= Cardinality(Cids) - 1 /\ IsFiniteSet(Booked)
    BY <2>5, <2>6, FS_Subset
  <2>8. Cardinality(Booked) \in Nat /\ Cardinality(Cids) \in Nat
    BY <2>7, FS_CardinalityType
  <2> QED
    BY <2>2, <2>4, <2>7, <2>8
<1>6. ASSUME NEW s \in Serials, ProcessSolicited(s)
      PROVE  dataCallCids' = dataCallCids
  BY <1>6 DEF ProcessSolicited
<1>7. ASSUME \/ SetupDataCall \/ FindInterface \/ SendSetup \/ SendDeactivate
             \/ ModemStep \/ UNCHANGED vars
             \/ \E c \in Cids : DeactivateDataCall(c)
      PROVE  UNCHANGED <<dataCallCids, receiver>>
  BY <1>7 DEF SetupDataCall, FindInterface, SendSetup, SendDeactivate,
              ModemStep, DeactivateDataCall, ModemActivate, ModemReject,
              ModemDeactivate, vars
<1> QED
  BY <1>2, <1>3, <1>4, <1>5, <1>6, <1>7
     DEF Next, PhoneStep, PhoneGoesOn, ReceiverStep

(* What BookingInv says of the places a context id can be in. *)
Placed == /\ InFlightNotBooked
          /\ OneFlightPerCall
          /\ PlacedIsActive

(* A step that puts no context id on its way, books none and ends none     *)
(* keeps its places apart.                                                 *)
LEMMA PlacedKept ==
  ASSUME Placed, Booked' \subseteq Booked,
         \A c \in Cids : /\ Recording(c)' => Recording(c)
                         /\ Releasing(c)' => Releasing(c),
         \A c \in Cids, s \in Serials : Flight(s, c)' => Flight(s, c),
         ctx' = ctx
  PROVE  Placed'
<1>1. InFlightNotBooked'
  BY DEF Placed, InFlightNotBooked, Flight
<1>2. OneFlightPerCall'
  BY DEF Placed, OneFlightPerCall, Flight
<1>3. PlacedIsActive'
  BY DEF Placed, PlacedIsActive, Flight
<1> QED
  BY <1>1, <1>2, <1>3 DEF Placed

(* Nothing is booked or on its way at first.                               *)
LEMMA BookingInit == Init => BookingInv
<1> SUFFICES ASSUME Init PROVE BookingInv
  OBVIOUS
<1>1. Booked = {}
  BY DEF Init, Booked
<1>2. SocketOK
  BY DEF Init, SocketOK, NoRequest, Waiting
<1>3. \A c \in Cids : /\ ~Recording(c) /\ ~Releasing(c)
                      /\ \A s \in Serials : ~Flight(s, c)
  BY
     DEF Init, Flight, Answered, Leaving, Unanswered, Recording, Releasing,
         NoRequest, Waiting, Resting
<1>4. Placed
  BY <1>1, <1>3
     DEF Placed, InFlightNotBooked, OneFlightPerCall, PlacedIsActive, Flight
<1> QED
  BY <1>1, <1>2, <1>4
     DEF BookingInv, Placed, OneEntryPerCall, EntryAhead, ScanBound,
         CallsBooked, Init, Resting

(* Answers belong to requests, and only a setup is answered with a context *)
(* id.                                                                     *)
LEMMA SocketStep ==
  ASSUME TypeOK, SocketOK, [Next]_vars
  PROVE  SocketOK'
<1>1. CASE SendSetup
  BY <1>1 DEF SendSetup, Send, SocketOK, TypeOK, NoRequest, Waiting
<1>2. CASE SendDeactivate
  BY <1>2 DEF SendDeactivate, Send, SocketOK, TypeOK, NoRequest, Waiting
<1>3. ASSUME NEW s \in Serials, ProcessSolicited(s) PROVE SocketOK'
  BY <1>3 DEF ProcessSolicited, Pop, SocketOK, TypeOK, NoRequest, Waiting
<1>4. ASSUME NEW s \in Serials, NEW c \in Cids, ModemActivate(s, c) PROVE SocketOK'
  BY <1>4 DEF ModemActivate, Unanswered, SocketOK, TypeOK
<1>5. ASSUME NEW s \in Serials, ModemReject(s) PROVE SocketOK'
  BY <1>5 DEF ModemReject, Unanswered, SocketOK, TypeOK
<1>6. ASSUME NEW s \in Serials, ModemDeactivate(s) PROVE SocketOK'
  BY <1>6 DEF ModemDeactivate, Unanswered, SocketOK, TypeOK
<1>7. ASSUME \/ SetupDataCall \/ FindInterface \/ FreeEntry \/ FetchCid
             \/ UNCHANGED vars
             \/ \E c \in Cids : DeactivateDataCall(c)
      PROVE  UNCHANGED <<mRequestList, socket>>
  BY <1>7 DEF SetupDataCall, FindInterface, FreeEntry, FetchCid,
              DeactivateDataCall, vars
<1> QED
  BY <1>1, <1>2, <1>3, <1>4, <1>5, <1>6, <1>7
     DEF Next, PhoneStep, PhoneGoesOn, ReceiverStep, ModemStep, SocketOK

(* Every step keeps the booking invariant, one case per action.            *)
LEMMA BookingStep ==
  ASSUME Cardinality(Cids) <= NSlots, TypeOK, TypeOK', BookingInv, [Next]_vars
  PROVE  BookingInv'
<1>a. SocketOK' /\ ScanBound'
  BY SocketStep, ScanBoundStep DEF BookingInv
<1>b. Placed /\ SocketOK /\ OneEntryPerCall /\ EntryAhead /\ CallsBooked
  BY DEF BookingInv, Placed
<1> SUFFICES Placed' /\ OneEntryPerCall' /\ EntryAhead' /\ CallsBooked'
  BY <1>a DEF BookingInv, Placed
<1>1. ASSUME UNCHANGED <<dataCallCids, receiver, ctx, calls, socket>>,
             \A s \in Serials : \/ mRequestList'[s] = mRequestList[s]
                                \/ mRequestList'[s].kind # "deactivate",
             phone'.op \notin {"deactivate", "release"}
      PROVE  Placed' /\ OneEntryPerCall' /\ EntryAhead' /\ CallsBooked'
  <2>1. \A c \in Cids, s \in Serials : Flight(s, c)' => Flight(s, c)
    BY <1>1 DEF Flight, Answered, Leaving, Unanswered
  <2>2. /\ Booked' = Booked
        /\ \A c \in Cids : Recording(c)' = Recording(c) /\ ~Releasing(c)'
    BY <1>1 DEF Booked, Recording, Releasing
  <2> QED
    BY <1>1, <1>b, <2>1, <2>2, PlacedKept
       DEF OneEntryPerCall, EntryAhead, CallsBooked
<1>2. CASE SetupDataCall
  BY <1>1, <1>2 DEF SetupDataCall
<1>3. CASE FindInterface
  <2>1. phone'.op \notin {"deactivate", "release"}
    BY <1>3 DEF FindInterface, TypeOK, Phone
  <2> QED
    BY <1>1, <1>3, <2>1 DEF FindInterface
<1>12. CASE SendSetup
  <2>1. \A s \in Serials : \/ mRequestList'[s] = mRequestList[s]
                            \/ mRequestList'[s].kind # "deactivate"
    BY <1>12 DEF SendSetup, Send, TypeOK
  <2> QED
    BY <1>1, <1>12, <2>1 DEF SendSetup, Send, Resting
<1>4. ASSUME NEW c \in Cids, DeactivateDataCall(c)
      PROVE  Placed' /\ OneEntryPerCall' /\ EntryAhead' /\ CallsBooked'
  <2>1. /\ Booked' = Booked
        /\ \A d \in Cids : Recording(d)' = Recording(d) /\ ~Releasing(d)'
        /\ \A d \in Cids, s \in Serials : Flight(s, d)' = Flight(s, d)
        /\ ctx' = ctx
    BY <1>4
       DEF DeactivateDataCall, Booked, Recording, Releasing, Flight, Answered, Leaving,
           Unanswered
  <2>2. Placed'
    BY <1>b, <2>1, PlacedKept
  <2>3. EntryAhead'
    BY <1>4, <1>b
       DEF DeactivateDataCall, EntryAhead, CallsBooked, Booked, Slots
  <2> QED
    BY <1>4, <1>b, <2>1, <2>2, <2>3
       DEF DeactivateDataCall, OneEntryPerCall, CallsBooked
<1>5. CASE FreeEntry
  <2> DEFINE c == phone.cid
             i == phone.i
  <2>c. c \in Cids /\ c \notin calls /\ c \in Booked /\ i \in Nat
    BY <1>5, <1>b
       DEF FreeEntry, EntryAhead, Booked, Slots, TypeOK, Phone, Interfaces
  <2>0. /\ UNCHANGED <<receiver, mRequestList, socket, ctx, calls>>
        /\ \A d \in Cids : Recording(d)' = Recording(d) /\ ~Releasing(d)
        /\ \A d \in Cids, s \in Serials : Flight(s, d)' = Flight(s, d)
    BY <1>5 DEF FreeEntry, Recording, Releasing, Flight, Answered, Leaving,
                Unanswered
  <2>1. CASE /\ InLoop(i) /\ Matches(i) /\ Clear(i)
             /\ phone' = [phone EXCEPT !.op = "release", !.i = 0]
    <3>2. i \in Slots /\ dataCallCids[i] = c
      BY <2>1, <2>c DEF InLoop, Slots, Matches
    <3>3. \A j \in Slots : dataCallCids'[j] = IF j = i THEN NoCid ELSE dataCallCids[j]
      BY <2>1, <3>2 DEF Clear, TypeOK
    <3>4. Booked' = Booked \ {c}
      BY <1>b, <2>c, <3>2, <3>3 DEF Booked, OneEntryPerCall
    <3>5. phone'.op = "release" /\ \A d \in Cids : Releasing(d)' => d = c
      BY <2>1 DEF Releasing, TypeOK, Phone
    <3>8. \A t \in Serials : ~Flight(t, c) /\ ~Recording(c)
      BY <1>b, <2>c DEF Placed, InFlightNotBooked, Flight
    <3>9. Placed'
      BY <1>b, <2>0, <2>c, <3>4, <3>5, <3>8
         DEF Placed, InFlightNotBooked, OneFlightPerCall, PlacedIsActive,
             Flight
    <3>10. OneEntryPerCall'
      BY <1>b, <3>3 DEF OneEntryPerCall
    <3>11. EntryAhead' /\ CallsBooked'
      BY <1>b, <2>0, <2>c, <3>4, <3>5 DEF EntryAhead, CallsBooked
    <3> QED
      BY <3>9, <3>10, <3>11
  <2>2. CASE /\ InLoop(i) /\ ~Matches(i) /\ phone' = [phone EXCEPT !.i = @ + 1]
             /\ UNCHANGED dataCallCids
    <3>1. Booked' = Booked
      BY <2>2 DEF Booked
    <3>3. phone'.i = i + 1 /\ phone'.cid = c /\ phone'.op = phone.op
      BY <2>2 DEF TypeOK, Phone
    <3>2. Placed'
      <4>1. \A d \in Cids : ~Releasing(d)'
        BY <1>5, <3>3 DEF Releasing, FreeEntry
      <4> QED
        BY <1>b, <2>0, <3>1, <4>1, PlacedKept
    <3>4. EntryAhead'
      BY <1>5, <1>b, <2>0, <2>2, <2>c, <3>3
         DEF FreeEntry, EntryAhead, Matches, InLoop
    <3> QED
      BY <1>b, <2>0, <2>2, <3>1, <3>2, <3>4 DEF OneEntryPerCall, CallsBooked
  <2>3. InLoop(i)
    BY <1>5, <1>b, <2>c DEF FreeEntry, EntryAhead, InLoop
  <2> QED
    BY <1>5, <2>1, <2>2, <2>3 DEF FreeEntry
<1>13. CASE SendDeactivate
  <2> DEFINE c == phone.cid
  <2>1. PICK s \in Serials :
           /\ mRequestList[s] = NoRequest
           /\ mRequestList' = [mRequestList EXCEPT ![s] =
                 [kind |-> "deactivate", iface |-> 0, cid |-> c]]
           /\ socket' = socket /\ phone' = Resting
    BY <1>13 DEF SendDeactivate, Send
  <2>2. UNCHANGED <<dataCallCids, receiver, ctx, calls>>
    BY <1>13 DEF SendDeactivate
  <2>3. /\ Booked' = Booked
        /\ \A d \in Cids : Recording(d)' = Recording(d) /\ ~Releasing(d)'
    BY <2>1, <2>2 DEF Booked, Recording, Releasing, Resting
  <2>4. \A d \in Cids, t \in Serials :
           Flight(t, d)' => Flight(t, d) \/ (d = c /\ t = s)
    BY <2>1 DEF Flight, Answered, Leaving, Unanswered, TypeOK
  <2>5. c \in Cids /\ Releasing(c)
    BY <1>13 DEF SendDeactivate, Releasing, TypeOK
  <2>6. Placed'
    BY <1>b, <2>2, <2>3, <2>4, <2>5
       DEF Placed, InFlightNotBooked, OneFlightPerCall, PlacedIsActive, Flight
  <2> QED
    BY <1>b, <2>1, <2>2, <2>3, <2>6
       DEF OneEntryPerCall, EntryAhead, CallsBooked, Resting
<1>6. CASE FetchCid
  <2> DEFINE c == receiver.cid
             i == receiver.i
  <2>c. /\ c \in Cids /\ c \notin Booked /\ receiver.op = "record"
        /\ InLoop(i) /\ i \in Slots /\ Recording(c)
    BY <1>6, <1>b, RecordInLoop
       DEF FetchCid, TypeOK, Placed, InFlightNotBooked, Recording, BookingInv,
           InLoop, Slots
  <2>1. CASE /\ IsFree(i) /\ Report
             /\ dataCallCids' = [dataCallCids EXCEPT ![i] = c]
    <3>1. \A j \in Slots : dataCallCids'[j] = IF j = i THEN c ELSE dataCallCids[j]
      BY <2>1, <2>c DEF TypeOK
    <3>2. Booked' = Booked \cup {c}
      BY <2>1, <2>c, <3>1 DEF Booked, IsFree
    <3>3. UNCHANGED <<phone, mRequestList, socket, ctx>> /\ calls' = calls \cup {c}
      BY <1>6, <2>1 DEF FetchCid, Report
    <3>4. \A d \in Cids, s \in Serials : Flight(s, d)' = Flight(s, d)
      BY <3>3 DEF Flight, Answered, Leaving, Unanswered
    <3>5. \A d \in Cids : ~Recording(d)' /\ Releasing(d)' = Releasing(d)
      BY <2>1, <3>3 DEF Report, Recording, Releasing, Resting
    <3>6. ~Releasing(c) /\ \A s \in Serials : ~Flight(s, c)
      BY <1>b, <2>c DEF Placed, OneFlightPerCall, Flight
    <3>7. ctx[c] # Down
      BY <1>b, <2>c DEF Placed, PlacedIsActive
    <3>8. Placed'
      BY <1>b, <3>2, <3>3, <3>4, <3>5, <3>6, <3>7
         DEF Placed, InFlightNotBooked, OneFlightPerCall, PlacedIsActive,
             Flight
    <3>9. OneEntryPerCall'
      BY <1>b, <2>c, <3>1 DEF OneEntryPerCall, Booked
    <3>10. EntryAhead'
      <4> SUFFICES ASSUME phone.op = "deactivate"
                   PROVE  /\ phone.cid \notin calls'
                          /\ \E j \in phone.i .. NSlots - 1 : dataCallCids'[j] = phone.cid
        BY <3>3 DEF EntryAhead
      <4>1. PICK j \in phone.i .. NSlots - 1 : dataCallCids[j] = phone.cid
        BY <1>b DEF EntryAhead
      <4>2. phone.cid \in Cids /\ j \in Slots
        BY DEF TypeOK, Phone, Interfaces, Slots
      <4>3. dataCallCids'[j] = phone.cid /\ phone.cid # c
        BY <2>1, <2>c, <3>1, <4>1, <4>2 DEF IsFree, Booked
      <4> QED
        BY <1>b, <3>3, <4>3 DEF EntryAhead
    <3> QED
      BY <1>b, <3>2, <3>3, <3>8, <3>9, <3>10 DEF CallsBooked
  <2>2. CASE /\ ~IsFree(i) /\ receiver' = [receiver EXCEPT !.i = @ + 1]
             /\ UNCHANGED <<dataCallCids, calls>>
    <3>1. UNCHANGED <<phone, mRequestList, socket, ctx, dataCallCids, calls>>
      BY <1>6, <2>2 DEF FetchCid
    <3>2. \A d \in Cids : /\ Recording(d)' = Recording(d)
                          /\ Releasing(d)' = Releasing(d)
      BY <2>2, <3>1 DEF Recording, Releasing, TypeOK, Receiver
    <3>3. /\ Booked' = Booked
          /\ \A d \in Cids, s \in Serials : Flight(s, d)' = Flight(s, d)
      BY <3>1 DEF Booked, Flight, Answered, Leaving, Unanswered
    <3> QED
      BY <1>b, <3>1, <3>2, <3>3, PlacedKept
         DEF OneEntryPerCall, EntryAhead, CallsBooked
  <2> QED
    BY <1>6, <2>c, <2>1, <2>2 DEF FetchCid
<1>7. ASSUME NEW s \in Serials, ProcessSolicited(s)
      PROVE  Placed' /\ OneEntryPerCall' /\ EntryAhead' /\ CallsBooked'
  <2>1. UNCHANGED <<dataCallCids, phone, ctx, calls>> /\ Booked' = Booked
    BY <1>7 DEF ProcessSolicited, Booked
  <2>2. \A d \in Cids, t \in Serials : Flight(t, d)' => Flight(t, d) /\ t # s
    BY <1>7
       DEF ProcessSolicited, Pop, Flight, Answered, Leaving, Unanswered,
           TypeOK,
                NoRequest, Waiting
  <2>3. \A d \in Cids : /\ Recording(d)' => Answered(s, d) \/ Recording(d)
                        /\ Releasing(d)' = Releasing(d)
    BY <1>7 DEF ProcessSolicited, Recording, Releasing, Answered
  <2>4. Placed'
    BY <1>b, <2>1, <2>2, <2>3
       DEF Placed, InFlightNotBooked, OneFlightPerCall, PlacedIsActive, Flight
  <2> QED
    BY <1>b, <2>1, <2>4 DEF OneEntryPerCall, EntryAhead, CallsBooked
<1>8. ASSUME NEW s \in Serials, NEW c \in Cids, ModemActivate(s, c)
      PROVE  Placed' /\ OneEntryPerCall' /\ EntryAhead' /\ CallsBooked'
  <2>1. UNCHANGED <<dataCallCids, phone, receiver, mRequestList, calls>>
    BY <1>8 DEF ModemActivate
  <2>2. /\ Booked' = Booked
        /\ \A d \in Cids : /\ Recording(d)' = Recording(d)
                           /\ Releasing(d)' = Releasing(d)
    BY <2>1 DEF Booked, Recording, Releasing
  <2>3. \A d \in Cids, t \in Serials :
           Flight(t, d)' => Flight(t, d) \/ (t = s /\ d = c)
    BY <1>8 DEF ModemActivate, Flight, Answered, Leaving, Unanswered, TypeOK
  <2>4. ctx[c] = Down /\ \A d \in Cids : d # c => ctx'[d] = ctx[d]
    BY <1>8 DEF ModemActivate, TypeOK
  <2>5. ctx'[c] # Down
    <3>1. mRequestList[s].iface \in Nat
      BY DEF TypeOK, Request, Interfaces
    <3>2. ctx'[c] = mRequestList[s].iface
      BY <1>8 DEF ModemActivate, TypeOK
    <3> QED
      BY <3>1, <3>2 DEF Down
  <2>6. Placed'
    BY <1>b, <2>2, <2>3, <2>4, <2>5
       DEF Placed, InFlightNotBooked, OneFlightPerCall, PlacedIsActive, Flight
  <2> QED
    BY <1>b, <2>1, <2>2, <2>6 DEF OneEntryPerCall, EntryAhead, CallsBooked
<1>9. ASSUME NEW s \in Serials, ModemReject(s)
      PROVE  Placed' /\ OneEntryPerCall' /\ EntryAhead' /\ CallsBooked'
  <2>1. UNCHANGED <<dataCallCids, phone, receiver, mRequestList, ctx, calls>>
    BY <1>9 DEF ModemReject
  <2>2. /\ Booked' = Booked
        /\ \A d \in Cids : /\ Recording(d)' = Recording(d)
                           /\ Releasing(d)' = Releasing(d)
    BY <2>1 DEF Booked, Recording, Releasing
  <2>3. \A d \in Cids, t \in Serials : Flight(t, d)' => Flight(t, d)
    BY <1>9 DEF ModemReject, Flight, Answered, Leaving, Unanswered, TypeOK
  <2>4. Placed'
    BY <1>b, <2>1, <2>2, <2>3, PlacedKept
  <2> QED
    BY <1>b, <2>1, <2>2, <2>4 DEF OneEntryPerCall, EntryAhead, CallsBooked
<1>10. ASSUME NEW s \in Serials, ModemDeactivate(s)
       PROVE  Placed' /\ OneEntryPerCall' /\ EntryAhead' /\ CallsBooked'
  <2> DEFINE c == mRequestList[s].cid
  <2>1. UNCHANGED <<dataCallCids, phone, receiver, mRequestList, calls>>
    BY <1>10 DEF ModemDeactivate
  <2>2. /\ Booked' = Booked
        /\ \A d \in Cids : /\ Recording(d)' = Recording(d)
                           /\ Releasing(d)' = Releasing(d)
    BY <2>1 DEF Booked, Recording, Releasing
  <2>3. \A d \in Cids, t \in Serials : Flight(t, d)' => Flight(t, d) /\ t # s
    BY <1>10 DEF ModemDeactivate, Flight, Answered, Leaving, Unanswered, TypeOK
  <2>4. \A d \in Cids : d # c => ctx'[d] = ctx[d]
    BY <1>10 DEF ModemDeactivate, TypeOK
  <2>5. c \in Cids /\ Flight(s, c)
    BY <1>10, <1>b DEF ModemDeactivate, SocketOK, Flight, Leaving, Unanswered
  <2>6. Placed'
    BY <1>b, <2>2, <2>3, <2>4, <2>5
       DEF Placed, InFlightNotBooked, OneFlightPerCall, PlacedIsActive, Flight
  <2> QED
    BY <1>b, <2>1, <2>2, <2>6 DEF OneEntryPerCall, EntryAhead, CallsBooked
<1>11. CASE UNCHANGED vars
  <2>1. /\ Booked' = Booked
        /\ \A d \in Cids : /\ Recording(d)' = Recording(d)
                           /\ Releasing(d)' = Releasing(d)
    BY <1>11 DEF vars, Booked, Recording, Releasing
  <2>2. \A d \in Cids, t \in Serials : Flight(t, d)' => Flight(t, d)
    BY <1>11 DEF vars, Flight, Answered, Leaving, Unanswered
  <2> QED
    BY <1>b, <1>11, <2>1, <2>2, PlacedKept
       DEF vars, OneEntryPerCall, EntryAhead, CallsBooked
<1> QED
  BY <1>2, <1>3, <1>4, <1>5, <1>6, <1>7, <1>8, <1>9, <1>10, <1>11, <1>12,
     <1>13
     DEF Next, PhoneStep, PhoneGoesOn, ReceiverStep, ModemStep

(* The modem having no more contexts than the table has entries, every     *)
(* call the framework holds has its entry, whatever the two threads        *)
(* interleave and whichever deactivations are refused.                     *)
THEOREM CallsAlwaysBooked ==
  ASSUME Cardinality(Cids) <= NSlots
  PROVE  Spec => [](BookingInv /\ CallsBooked)
<1>1. [Next]_vars => [LossyNext]_vars
  BY DEF LossyNext
<1>2. TypeOK /\ BookingInv /\ [Next]_vars => TypeOK' /\ BookingInv'
  BY <1>1, TypeStep, BookingStep
<1>3. BookingInv => CallsBooked
  BY DEF BookingInv
<1> QED
  BY <1>2, <1>3, TypeInit, BookingInit, PTL DEF Spec

(* Every step of the class is a step of the ledger, or none. *)
LEMMA LedgerStep ==
  ASSUME TypeOK, BookingInv, BookingInv', [Next]_vars,
         Cardinality(Cids) <= NSlots
  PROVE  [Ledger!Next]_(Ledger!vars)
<1>b. OneEntryPerCall /\ EntryAhead /\ CallsBooked /\ InFlightNotBooked /\ ScanBound
  BY DEF BookingInv
<1>1. ASSUME UNCHANGED <<dataCallCids, calls>> PROVE UNCHANGED Ledger!vars
  BY <1>1 DEF Ledger!vars, Booked
<1>2. ASSUME NEW c \in Cids, DeactivateDataCall(c) PROVE Ledger!GiveUp(c)
  BY <1>2 DEF DeactivateDataCall, Ledger!GiveUp, Booked
<1>3. ASSUME FreeEntry, UNCHANGED <<dataCallCids, calls>> PROVE UNCHANGED Ledger!vars
  BY <1>1, <1>3
<1>4. ASSUME FreeEntry, dataCallCids' # dataCallCids PROVE Ledger!Free(phone.cid)
  <2> DEFINE c == phone.cid
             i == phone.i
  <2>1. /\ phone.op = "deactivate" /\ InLoop(i) /\ dataCallCids[i] = c
        /\ dataCallCids' = [dataCallCids EXCEPT ![i] = NoCid] /\ calls' = calls
    BY <1>4 DEF FreeEntry, Matches, Clear
  <2>2. c \in Cids /\ c \notin calls /\ i \in Slots
    BY <1>b, <2>1 DEF EntryAhead, TypeOK, Phone, Interfaces, InLoop, Slots
  <2>3. \A j \in Slots : dataCallCids'[j] = IF j = i THEN NoCid ELSE dataCallCids[j]
    BY <2>1, <2>2 DEF TypeOK
  <2>4. Booked' = Booked \ {c} /\ c \in Booked
    BY <1>b, <2>1, <2>2, <2>3 DEF Booked, OneEntryPerCall
  <2> QED
    BY <2>1, <2>2, <2>4 DEF Ledger!Free
<1>5. CASE FetchCid
  <2> DEFINE c == receiver.cid
             i == receiver.i
  <2>1. /\ receiver.op = "record" /\ InLoop(i) /\ i \in Slots /\ c \in Cids
        /\ c \notin Booked
    BY <1>5, <1>b, RecordInLoop
       DEF FetchCid, InLoop, Slots, TypeOK, InFlightNotBooked, Recording
  <2>2. CASE UNCHANGED <<dataCallCids, calls>>
    BY <1>1, <2>2
  <2>3. CASE /\ IsFree(i) /\ dataCallCids' = [dataCallCids EXCEPT ![i] = c]
             /\ calls' = calls \cup {c}
    <3>1. \A j \in Slots : dataCallCids'[j] = IF j = i THEN c ELSE dataCallCids[j]
      BY <2>1, <2>3 DEF TypeOK
    <3>2. Booked' = Booked \cup {c}
      BY <2>1, <2>3, <3>1 DEF Booked, IsFree
    <3>3. Ledger!Establish(c)
      BY <1>b, <2>1, <2>3, <3>2 DEF Ledger!Establish, CallsBooked
    <3> QED
      BY <2>1, <3>3 DEF Ledger!Next
  <2> QED
    BY <1>5, <2>1, <2>2, <2>3 DEF FetchCid, Report
<1>6. ASSUME \/ SetupDataCall \/ FindInterface \/ SendSetup \/ SendDeactivate
             \/ ModemStep \/ UNCHANGED vars
             \/ \E s \in Serials : ProcessSolicited(s)
      PROVE  UNCHANGED <<dataCallCids, calls>>
  BY <1>6 DEF SetupDataCall, FindInterface, SendSetup, SendDeactivate,
              ModemStep, ProcessSolicited, ModemActivate, ModemReject,
              ModemDeactivate, vars
<1>7. FreeEntry => calls' = calls /\ phone.cid \in Cids
  BY DEF FreeEntry, TypeOK
<1> QED
  BY <1>1, <1>2, <1>3, <1>4, <1>5, <1>6, <1>7
     DEF Next, PhoneStep, PhoneGoesOn, ReceiverStep, Ledger!Next

(* The class does nothing that the ledger does not allow: a call is booked *)
(* before the framework learns of it, and unbooked only after it was given *)
(* up.  (That an entry is freed in the end rests on fairness.)             *)
THEOREM LedgerSafety ==
  ASSUME Cardinality(Cids) <= NSlots
  PROVE  Spec => Ledger!Safety
<1>1. [Next]_vars => [LossyNext]_vars
  BY DEF LossyNext
<1>2. TypeOK /\ BookingInv /\ [Next]_vars
        => TypeOK' /\ BookingInv' /\ [Ledger!Next]_(Ledger!vars)
  BY <1>1, TypeStep, BookingStep, LedgerStep
<1>3. Init => Ledger!Init
  BY DEF Init, Ledger!Init, Booked
<1> QED
  BY <1>2, <1>3, TypeInit, BookingInit, PTL DEF Spec, Ledger!Safety

-----------------------------------------------------------------------------
(* Losses: LossySpec, with any number of contexts. *)

(* The entry a deactivation is after is still ahead of its scan; if the    *)
(* same context id has been set up again meanwhile, there are two entries. *)
EntriesAhead ==
  phone.op = "deactivate" /\ phone.cid \notin missed =>
    \E j \in phone.i .. NSlots - 1 :
      /\ dataCallCids[j] = phone.cid
      /\ phone.cid \in calls =>
           \E k \in Slots \ {j} : dataCallCids[k] = phone.cid

(* A context id is booked if and only if an entry has it. *)
LEMMA BookedEntry ==
  ASSUME NEW c, c # NoCid
  PROVE  c \in Booked <=> \E i \in Slots : dataCallCids[i] = c
BY DEF Booked

(* The steps that leave the table and the phone thread alone may only take *)
(* calls away.                                                             *)
LEMMA KeepQuiet ==
  ASSUME CallsKeepEntries, EntriesAhead, UNCHANGED <<dataCallCids, phone>>,
         calls' \subseteq calls, missed \subseteq missed'
  PROVE  CallsKeepEntries' /\ EntriesAhead'
<1>1. CallsKeepEntries'
  BY DEF CallsKeepEntries, Booked
<1>2. EntriesAhead'
  BY DEF EntriesAhead, Slots
<1> QED
  BY <1>1, <1>2

(* The phone thread's steps while no deactivation scans the table. *)
LEMMA KeepSetup ==
  ASSUME CallsKeepEntries, UNCHANGED <<dataCallCids, calls>>,
         phone'.op # "deactivate", missed \subseteq missed'
  PROVE  CallsKeepEntries' /\ EntriesAhead'
BY DEF CallsKeepEntries, EntriesAhead, Booked

(* A deactivation that begins has its call's entry ahead. *)
LEMMA KeepDeactivate ==
  ASSUME TypeOK, CallsKeepEntries, NEW c \in Cids, DeactivateDataCall(c),
         missed' = missed
  PROVE  CallsKeepEntries' /\ EntriesAhead'
<1>1. /\ c \in calls /\ calls' = calls \ {c} /\ UNCHANGED dataCallCids
      /\ phone' = [op |-> "deactivate", i |-> 0, cid |-> c]
  BY DEF DeactivateDataCall
<1>2. CallsKeepEntries'
  BY <1>1 DEF CallsKeepEntries, Booked
<1>3. c \notin missed => \E j \in 0 .. NSlots - 1 : dataCallCids[j] = c
  <2>1. c \notin missed => c \in Booked
    BY <1>1 DEF CallsKeepEntries
  <2> QED
    BY <2>1, BookedEntry DEF Slots
<1>4. phone'.i = 0 /\ phone'.cid = c /\ c \notin calls'
  BY <1>1
<1>5. EntriesAhead'
  BY <1>1, <1>3, <1>4 DEF EntriesAhead
<1> QED
  BY <1>2, <1>5

(* The scan goes on past an entry that is not the one, or frees the first  *)
(* that is: if the context id was set up again, the other one is left.     *)
LEMMA KeepFree ==
  ASSUME TypeOK, CallsKeepEntries, EntriesAhead, FreeEntry, missed' = missed
  PROVE  CallsKeepEntries' /\ EntriesAhead'
<1>1. /\ phone.op = "deactivate" /\ UNCHANGED calls /\ phone.i \in Nat
      /\ phone \in Phone /\ phone.cid \in Cids /\ phone.cid # NoCid
  BY DEF FreeEntry, TypeOK, Phone, Interfaces
<1>2. CASE /\ InLoop(phone.i) /\ Matches(phone.i) /\ Clear(phone.i)
           /\ phone' = [phone EXCEPT !.op = "release", !.i = 0]
  <2>1. /\ dataCallCids' = [dataCallCids EXCEPT ![phone.i] = NoCid]
        /\ dataCallCids[phone.i] = phone.cid /\ phone.i \in Slots
    BY <1>1, <1>2 DEF Clear, Matches, InLoop, Slots
  <2>2. \A k \in Slots \ {phone.i} : dataCallCids'[k] = dataCallCids[k]
    BY <2>1 DEF TypeOK
  <2>3. ASSUME NEW c \in calls \ missed
        PROVE  c \in Booked'
    <3>1. c # NoCid
      BY <2>3 DEF TypeOK
    <3>2. \E k \in Slots \ {phone.i} : dataCallCids[k] = c
      <4>1. CASE c = phone.cid
        BY <1>1, <2>1, <2>3, <4>1 DEF EntriesAhead, Slots
      <4>2. CASE c # phone.cid
        <5>1. PICK k \in Slots : dataCallCids[k] = c
          BY <2>3, <3>1, BookedEntry DEF CallsKeepEntries
        <5> QED
          BY <2>1, <4>2, <5>1
      <4> QED
        BY <4>1, <4>2
    <3>3. \E k \in Slots : dataCallCids'[k] = c
      BY <2>2, <3>2
    <3> QED
      BY <3>1, <3>3 DEF Booked
  <2>4. CallsKeepEntries'
    BY <1>1, <2>3 DEF CallsKeepEntries
  <2>5. phone'.op = "release"
    BY <1>1, <1>2 DEF Phone
  <2> QED
    BY <2>4, <2>5 DEF EntriesAhead
<1>3. CASE /\ InLoop(phone.i) /\ ~Matches(phone.i) /\ UNCHANGED dataCallCids
           /\ phone' = [phone EXCEPT !.i = @ + 1]
  <2>1. CallsKeepEntries'
    BY <1>1, <1>3 DEF CallsKeepEntries, Booked
  <2>2. /\ phone'.i = phone.i + 1 /\ phone'.cid = phone.cid /\ phone'.op = phone.op
        /\ dataCallCids[phone.i] # phone.cid
    BY <1>1, <1>3 DEF Phone, Matches
  <2>3. \A j \in phone.i .. NSlots - 1 :
          dataCallCids[j] = phone.cid => j \in phone.i + 1 .. NSlots - 1
    BY <1>1, <2>2
  <2>4. EntriesAhead'
    BY <1>1, <1>3, <2>2, <2>3 DEF EntriesAhead, Slots
  <2> QED
    BY <2>1, <2>4
<1>4. CASE /\ ~InLoop(phone.i) /\ UNCHANGED dataCallCids
           /\ phone' = [phone EXCEPT !.op = "release", !.i = 0]
  <2>1. phone'.op = "release"
    BY <1>1, <1>4 DEF Phone
  <2> QED
    BY <1>1, <1>4, <2>1, KeepSetup
<1> QED
  BY <1>2, <1>3, <1>4 DEF FreeEntry

(* The receiver fills a free entry, which is none of those that matter; or *)
(* it met none, and the history has the context id.                        *)
LEMMA KeepFetch ==
  ASSUME TypeOK, CallsKeepEntries, EntriesAhead, FetchCid
  PROVE  CallsKeepEntries' /\ EntriesAhead'
<1>1. /\ receiver.op = "record" /\ UNCHANGED phone /\ receiver.cid \in Cids
      /\ receiver.cid # NoCid /\ receiver.i \in Nat /\ missed \subseteq missed'
      /\ receiver \in Receiver
  BY DEF FetchCid, TypeOK, Receiver, Interfaces
<1>2. CASE /\ InLoop(receiver.i) /\ IsFree(receiver.i) /\ Report
           /\ dataCallCids' = [dataCallCids EXCEPT ![receiver.i] = receiver.cid]
  <2>1. /\ receiver.i \in Slots /\ dataCallCids[receiver.i] = NoCid
        /\ calls' = calls \cup {receiver.cid}
        /\ dataCallCids'[receiver.i] = receiver.cid
    BY <1>1, <1>2 DEF InLoop, IsFree, Report, Slots, TypeOK
  <2>2. \A k \in Slots : dataCallCids[k] # NoCid =>
          k # receiver.i /\ dataCallCids'[k] = dataCallCids[k]
    BY <1>2, <2>1 DEF TypeOK
  <2>3. ASSUME NEW c \in calls' \ missed'
        PROVE  c \in Booked'
    <3>1. c # NoCid
      BY <1>1, <2>1, <2>3 DEF TypeOK
    <3>2. CASE c = receiver.cid
      BY <2>1, <3>1, <3>2 DEF Booked
    <3>3. CASE c # receiver.cid
      <4>1. PICK k \in Slots : dataCallCids[k] = c
        BY <1>1, <2>1, <2>3, <3>1, <3>3, BookedEntry DEF CallsKeepEntries
      <4>2. dataCallCids'[k] = c
        BY <2>2, <3>1, <4>1
      <4> QED
        BY <3>1, <4>1, <4>2 DEF Booked
    <3> QED
      BY <3>2, <3>3
  <2>4. CallsKeepEntries'
    BY <2>3 DEF CallsKeepEntries
  <2>5. EntriesAhead'
    <3> SUFFICES ASSUME phone.op = "deactivate", phone.cid \notin missed
                 PROVE  \E j \in phone.i .. NSlots - 1 :
                          /\ dataCallCids'[j] = phone.cid
                          /\ phone.cid \in calls' =>
                               \E k \in Slots \ {j} : dataCallCids'[k] = phone.cid
      BY <1>1 DEF EntriesAhead
    <3>1. phone.cid # NoCid /\ phone.i \in Nat
      BY DEF TypeOK, Phone, Interfaces
    <3>2. PICK j \in phone.i .. NSlots - 1 :
            /\ dataCallCids[j] = phone.cid
            /\ phone.cid \in calls =>
                 \E k \in Slots \ {j} : dataCallCids[k] = phone.cid
      BY DEF EntriesAhead
    <3>3. j \in Slots /\ j # receiver.i /\ dataCallCids'[j] = phone.cid
      <4>1. j \in Slots
        BY <3>1 DEF Slots
      <4> QED
        BY <2>2, <3>1, <3>2, <4>1
    <3>4. phone.cid \in calls' =>
            \E k \in Slots \ {j} : dataCallCids'[k] = phone.cid
      <4>1. CASE phone.cid \in calls
        BY <2>2, <3>1, <3>2, <4>1
      <4>2. CASE phone.cid = receiver.cid
        BY <2>1, <3>3, <4>2
      <4> QED
        BY <2>1, <4>1, <4>2
    <3> QED
      BY <3>3, <3>4
  <2> QED
    BY <2>4, <2>5
<1>3. CASE UNCHANGED <<dataCallCids, calls>>
  BY <1>1, <1>3, KeepQuiet
<1>4. CASE /\ ~InLoop(receiver.i) /\ Report /\ UNCHANGED dataCallCids
           /\ missed' = missed \cup {receiver.cid}
  <2>1. calls' = calls \cup {receiver.cid}
    BY <1>4 DEF Report
  <2>2. missed' = missed \cup {receiver.cid}
    BY <1>4
  <2>3. calls' \ missed' \subseteq calls \ missed
    BY <2>1, <2>2
  <2>4. CallsKeepEntries'
    BY <1>4, <2>3 DEF CallsKeepEntries, Booked
  <2>5. EntriesAhead'
    BY <1>1, <1>4, <2>1, <2>2 DEF EntriesAhead, Slots
  <2> QED
    BY <2>4, <2>5
<1> QED
  BY <1>2, <1>3, <1>4 DEF FetchCid

(* Every step, losses included. *)
LEMMA KeepStep ==
  ASSUME TypeOK, CallsKeepEntries, EntriesAhead, [LossyNext]_vars
  PROVE  CallsKeepEntries' /\ EntriesAhead'
<1>1. CASE UNCHANGED vars
  BY <1>1, KeepQuiet DEF vars
<1>2. CASE SetupDataCall \/ FindInterface \/ SendSetup \/ SendDeactivate
  <2>1. UNCHANGED <<dataCallCids, calls, missed>>
    BY <1>2 DEF SetupDataCall, FindInterface, SendSetup, SendDeactivate
  <2>2. phone'.op # "deactivate"
    <3>1. CASE FindInterface
      BY <3>1 DEF FindInterface, TypeOK, Phone
    <3> QED
      BY <1>2, <3>1 DEF SetupDataCall, SendSetup, SendDeactivate, Resting
  <2> QED
    BY <2>1, <2>2, KeepSetup
<1>3. CASE FreeEntry
  BY <1>3, KeepFree DEF FreeEntry
<1>4. CASE \E c \in Cids : DeactivateDataCall(c)
  BY <1>4, KeepDeactivate DEF DeactivateDataCall
<1>5. CASE FetchCid
  BY <1>5, KeepFetch
<1>6. CASE ModemStep \/ LossStep \/ \E s \in Serials : ProcessSolicited(s)
  <2>1. UNCHANGED <<dataCallCids, phone, missed>> /\ calls' \subseteq calls
    BY <1>6 DEF ModemStep, LossStep, ProcessSolicited, ModemReject, ModemDeactivate,
                ModemActivate, RildRestart, NetworkDrop
  <2> QED
    BY <2>1, KeepQuiet
<1> QED
  BY <1>1, <1>2, <1>3, <1>4, <1>5, <1>6
     DEF LossyNext, Next, PhoneStep, PhoneGoesOn, ReceiverStep

(* Nothing is held or scanned in the beginning. *)
LEMMA KeepInit == Init => CallsKeepEntries /\ EntriesAhead
BY DEF Init, CallsKeepEntries, EntriesAhead, Resting

(* With any number of context ids, with drops, restarts, refusals and      *)
(* requests that overlap: a call the framework holds has an entry, unless  *)
(* fetchCidFromDataCall once met none free for its context id.             *)
THEOREM LossesKeepEntries == LossySpec => []CallsKeepEntries
<1>1. TypeOK /\ CallsKeepEntries /\ EntriesAhead /\ [LossyNext]_vars
        => (TypeOK /\ CallsKeepEntries /\ EntriesAhead)'
  BY TypeStep, KeepStep
<1> QED
  BY <1>1, TypeInit, KeepInit, PTL DEF LossySpec

-----------------------------------------------------------------------------
(* Radio power. *)

(* The data calls' steps are steps of DataCalls. *)
LEMMA DataCallStepLossy == DataCallStep => LossyNext
BY DEF DataCallStep, LossyNext, LossStep, Next, ModemStep

(* The modem is powered, and no call is up. *)
LEMMA RadioInitial == RadioInit => RadioTypeOK /\ SerialInv /\ ModemCanStart
<1> SUFFICES ASSUME RadioInit PROVE RadioTypeOK /\ SerialInv /\ ModemCanStart
  OBVIOUS
<1>1. Init
  BY DEF RadioInit
<1>2. TypeOK /\ SerialInv
  BY <1>1, TypeInit, SerialInit
<1> QED
  BY <1>2 DEF RadioInit, RadioTypeOK, Sims, ModemCanStart

(* A modem that is off has no context, and nothing else changes of the     *)
(* data calls.                                                             *)
LEMMA FollowStep ==
  ASSUME TypeOK, SerialInv, ContextsFollow
  PROVE  TypeOK' /\ SerialInv'
<1>1. CASE UNCHANGED vars
  <2>1. TypeOK'
    BY <1>1, TypeStep
  <2>2. SerialInv'
    BY <1>1
       DEF vars, SerialInv, OneOperation, Quiet, ScannedInUse,
           SetupAsksFirstAvailable, FirstAvailable, NoneLower, InterfaceOwned,
           Owns, Answered, Recording, Releasing, Leaving, Unanswered
  <2> QED
    BY <2>1, <2>2
<1>2. CASE /\ ctx' = [c \in Cids |-> Down] /\ calls' \subseteq calls
           /\ UNCHANGED <<dataCallCids, phone, receiver, mRequestList, socket,
                          history>>
  <2>1. TypeOK'
    BY <1>2 DEF TypeOK
  <2>2. InterfaceOwned'
    BY <1>2 DEF InterfaceOwned, Owns, Down
  <2>3. OneOperation' /\ ScannedInUse' /\ SetupAsksFirstAvailable'
    BY <1>2
       DEF SerialInv, OneOperation, Quiet, ScannedInUse, NoneLower,
           SetupAsksFirstAvailable, FirstAvailable
  <2> QED
    BY <2>1, <2>2, <2>3 DEF SerialInv
<1> QED
  BY <1>1, <1>2 DEF ContextsFollow

(* setRadioPower keeps the types of what it changes, and the promise that  *)
(* the property makes: the case that starts the modem and the case that    *)
(* stops it are the only ones that change its power.                       *)
LEMMA setRadioPowerStep ==
  ASSUME RadioTypeOK, ModemCanStart,
         NEW sims \in SUBSET Sims, NEW on \in BOOLEAN, setRadioPower(sims, on)
  PROVE  /\ ModemCanStart'
         /\ persisted' \in BOOLEAN /\ eboot' \in {0, 1} /\ modem' \in BOOLEAN
         /\ radios' \subseteq Sims /\ forgotten' \in BOOLEAN
         /\ airplane' = airplane
<1>1. CASE on /\ persisted /\ ~airplane
  BY <1>1 DEF setRadioPower, RadioTypeOK, ModemCanStart, remembered
<1>2. CASE ~on /\ airplane
  BY <1>2 DEF setRadioPower, RadioTypeOK, ModemCanStart, remembered
<1>3. CASE ~(on /\ persisted /\ ~airplane) /\ ~(~on /\ airplane)
  <2>1. /\ persisted' = airplane /\ modem' = modem /\ eboot' = eboot
        /\ airplane' = airplane
        /\ forgotten' = (~modem' /\ (forgotten \/ (~on /\ ~airplane /\ persisted)))
        /\ RADIO_POWER(sims, on)
    BY <1>3 DEF setRadioPower, RADIO_POWER, remembered
  <2>2. radios' \subseteq Sims
    BY <2>1 DEF RADIO_POWER, RadioTypeOK
  <2> QED
    BY <1>3, <2>1, <2>2 DEF RadioTypeOK, ModemCanStart
<1> QED
  BY <1>1, <1>2, <1>3

(* Every step keeps what the data calls keep alone, and the promise. *)
LEMMA RadioStep ==
  ASSUME OneAtATime, RadioTypeOK, SerialInv, ModemCanStart,
         [RadioNext]_<<vars, power>>
  PROVE  RadioTypeOK' /\ SerialInv' /\ ModemCanStart'
<1>a. TypeOK
  BY DEF RadioTypeOK
<1>1. CASE DataCallStep /\ UNCHANGED power
  <2>1. TypeOK' /\ SerialInv'
    BY <1>1, <1>a, DataCallStepLossy, TypeStep, SerialStep
  <2> QED
    BY <1>1, <2>1 DEF power, RadioTypeOK, ModemCanStart
<1>2. CASE SetAirplaneMode
  <2>1. TypeOK' /\ SerialInv'
    BY <1>2, <1>a, TypeStep, SerialStep DEF SetAirplaneMode
  <2> QED
    BY <1>2, <2>1 DEF SetAirplaneMode, RadioTypeOK, ModemCanStart
<1>3. ASSUME NEW s \in Sims, TurnOff(s)
      PROVE  RadioTypeOK' /\ SerialInv' /\ ModemCanStart'
  <2>1. TypeOK' /\ SerialInv'
    BY <1>3, <1>a, FollowStep DEF TurnOff
  <2>2. {s} \in SUBSET Sims /\ setRadioPower({s}, FALSE) /\ late' \subseteq Sims
    BY <1>3 DEF TurnOff, RadioTypeOK
  <2> QED
    BY <2>1, <2>2, setRadioPowerStep DEF RadioTypeOK
<1>4. ASSUME NEW s \in Sims, TurnOn(s)
      PROVE  RadioTypeOK' /\ SerialInv' /\ ModemCanStart'
  <2>1. TypeOK' /\ SerialInv'
    BY <1>4, <1>a, TypeStep, SerialStep DEF TurnOn
  <2>2. {s} \in SUBSET Sims /\ setRadioPower({s}, TRUE) /\ late' = late
    BY <1>4 DEF TurnOn
  <2> QED
    BY <2>1, <2>2, setRadioPowerStep DEF RadioTypeOK
<1>5. CASE RIL_CONNECTED
  <2>1. TypeOK' /\ SerialInv'
    BY <1>5, <1>a, TypeStep, SerialStep DEF RIL_CONNECTED, LossyNext, LossStep
  <2>2. setRadioPower(Sims, FALSE) /\ late' = late
    BY <1>5 DEF RIL_CONNECTED
  <2> QED
    BY <2>1, <2>2, setRadioPowerStep DEF RadioTypeOK
<1>6. CASE UNCHANGED <<vars, power>>
  <2>1. TypeOK' /\ SerialInv'
    BY <1>6, <1>a, TypeStep, SerialStep
  <2> QED
    BY <1>6, <2>1 DEF power, RadioTypeOK, ModemCanStart
<1> QED
  BY <1>1, <1>2, <1>3, <1>4, <1>5, <1>6 DEF RadioNext

(* Nor does a modem's power take an entry from a call. *)
LEMMA RadioKeepStep ==
  ASSUME TypeOK, CallsKeepEntries, EntriesAhead, [RadioNext]_<<vars, power>>
  PROVE  CallsKeepEntries' /\ EntriesAhead'
<1>1. CASE DataCallStep
  BY <1>1, DataCallStepLossy, KeepStep
<1>2. CASE UNCHANGED vars
  BY <1>2, KeepStep
<1>3. CASE RIL_CONNECTED
  BY <1>3, KeepStep DEF RIL_CONNECTED, LossyNext, LossStep
<1>4. CASE ContextsFollow
  <2>1. UNCHANGED <<dataCallCids, phone, missed>> /\ calls' \subseteq calls
    BY <1>4 DEF ContextsFollow, vars
  <2> QED
    BY <2>1, KeepQuiet
<1> QED
  BY <1>1, <1>2, <1>3, <1>4 DEF RadioNext, SetAirplaneMode, TurnOff, TurnOn

(* Whatever the two SIMs' power calls, airplane mode and the daemon do,    *)
(* and whatever the modem refuses: as long as requests wait for each other *)
(* contexts that were not refused keep their interfaces to themselves; a   *)
(* setup asks for the first available interface until it is answered;      *)
(* calls keep their entries unless the table was full; and a modem that is *)
(* off can be started again unless an off call outside airplane mode has   *)
(* cleared the property.                                                   *)
THEOREM RadioPowerSafe ==
  ASSUME OneAtATime
  PROVE  RadioSpec => [](/\ RadioTypeOK /\ SerialInv /\ ExclusiveInterfaces
                         /\ SetupAsksFirstAvailable
                         /\ CallsKeepEntries /\ ModemCanStart)
<1> DEFINE Inv == /\ RadioTypeOK /\ SerialInv /\ ModemCanStart
                  /\ CallsKeepEntries /\ EntriesAhead
<1>1. RadioTypeOK /\ SerialInv
        => ExclusiveInterfaces /\ SetupAsksFirstAvailable
  BY SerialInvExclusive DEF RadioTypeOK, SerialInv
<1>2. RadioInit => Inv
  BY RadioInitial, KeepInit DEF RadioInit
<1>3. Inv /\ [RadioNext]_<<vars, power>> => Inv'
  BY RadioStep, RadioKeepStep DEF RadioTypeOK
<1> QED
  BY <1>1, <1>2, <1>3, PTL DEF RadioSpec
=============================================================================
