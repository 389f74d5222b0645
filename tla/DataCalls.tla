----------------------------- MODULE DataCalls -----------------------------
(***************************************************************************)
(* The data call bookkeeping of MediaTekRIL: the table dataCallCids, the   *)
(* phone thread that reads it in setupDataCall and frees entries of it in  *)
(* deactivateDataCall, and the RILReceiver thread that fills it in         *)
(* fetchCidFromDataCall.  No lock protects the table, so each iteration of *)
(* the three loops is a step.  The framework above the class and the modem *)
(* below it are outside this repository and are modelled by what this code *)
(* needs of them.                                                          *)
(***************************************************************************)
EXTENDS Integers, FiniteSets

CONSTANTS Cids,         \* context ids the modem can assign
          NoCid,        \* the free entry, -1 in the code
          Serials,      \* bounds the requests that are outstanding at once
          NSlots,       \* the bound of the three loops, 4 in the code
          OneAtATime    \* the framework waits for a request to be answered
                        \* before it starts the next operation

ASSUME CidsAssumption == IsFiniteSet(Cids) /\ NoCid \notin Cids
ASSUME SlotsAssumption == NSlots \in Nat \ {0}
ASSUME FrameworkAssumption == OneAtATime \in BOOLEAN

VARIABLES dataCallCids, \* the table, one context id or NoCid per entry
          phone,        \* where the phone thread is in its loop
          receiver,     \* where the RILReceiver thread is in its loop
          mRequestList, \* the requests sent and not yet answered
          socket,       \* the modem's answers the receiver has not read
          ctx,          \* external: the interface a modem context runs on
          calls,        \* external: the calls the framework holds
          missed,       \* history: the calls that were reported without an
                        \* entry, as the scan for one met none free
          refused       \* history: the contexts whose deactivation the modem
                        \* refused

history == <<missed, refused>>
vars == <<dataCallCids, phone, receiver, mRequestList, socket, ctx, calls,
          missed, refused>>

Slots == 0 .. NSlots - 1
Interfaces == 0 .. NSlots              \* 0: no interface was available
MaybeCid == Cids \cup {NoCid}
Down == -1                             \* a context that is not active

(* A phone thread that is past its loop is about to send the setup it has  *)
(* chosen interface i for ("request"), or a deactivation ("release").      *)
Phone == [op : {"idle", "setup", "request", "deactivate", "release"},
          i : Interfaces, cid : MaybeCid]
Receiver == [op : {"idle", "record"}, i : Interfaces, cid : MaybeCid]
Request == [kind : {"free", "setup", "deactivate"},
            iface : Interfaces, cid : MaybeCid]
Answer == [state : {"waiting", "reply", "error"}, cid : MaybeCid]

Resting == [op |-> "idle", i |-> 0, cid |-> NoCid]
NoRequest == [kind |-> "free", iface |-> 0, cid |-> NoCid]
Waiting == [state |-> "waiting", cid |-> NoCid]

TypeOK == /\ dataCallCids \in [Slots -> MaybeCid]
          /\ phone \in Phone
          /\ receiver \in Receiver
          /\ mRequestList \in [Serials -> Request]
          /\ socket \in [Serials -> Answer]
          /\ ctx \in [Cids -> Interfaces \cup {Down}]
          /\ calls \in SUBSET Cids
          /\ missed \in SUBSET Cids /\ refused \in SUBSET MaybeCid
          /\ phone.op \in {"deactivate", "release"} => phone.cid \in Cids
          /\ receiver.op = "record" => receiver.cid \in Cids

Init == /\ dataCallCids = [i \in Slots |-> NoCid]
        /\ phone = Resting
        /\ receiver = Resting
        /\ mRequestList = [s \in Serials |-> NoRequest]
        /\ socket = [s \in Serials |-> Waiting]
        /\ ctx = [c \in Cids |-> Down]
        /\ calls = {} /\ missed = {} /\ refused = {}

Quiet == /\ receiver.op = "idle"
         /\ \A s \in Serials : mRequestList[s] = NoRequest

(* A request is queued under a serial that no outstanding request has. *)
Send(r) == \E s \in Serials :
              /\ mRequestList[s] = NoRequest
              /\ mRequestList' = [mRequestList EXCEPT ![s] = r]
              /\ UNCHANGED socket

(* The three loops: their condition, the test for a free entry, the test   *)
(* for the entry of the call being deactivated, and its reset.  The names  *)
(* with a suffix, here and below, are plausible bugs that the properties   *)
(* are measured against; no action uses them.                              *)
InLoop_Short(i) == i < NSlots - 1
InLoop(i) == i < NSlots

IsFree(i) == dataCallCids[i] = NoCid

Matches_AnyUsed(i) == dataCallCids[i] # NoCid
Matches(i) == dataCallCids[i] = phone.cid

Clear_Forgotten(i) == UNCHANGED dataCallCids
Clear_Compacted(i) == dataCallCids' = [j \in Slots |->
                        IF j < i THEN dataCallCids[j]
                        ELSE IF j < NSlots - 1 THEN dataCallCids[j + 1] ELSE NoCid]
Clear(i) == dataCallCids' = [dataCallCids EXCEPT ![i] = NoCid]

(* No interface lower than k is available; 0 stands for none at all.       *)
NoneLower(k) == \A j \in Slots : j + 1 < k \/ k = 0 => dataCallCids[j] # NoCid

(* Interface k is the one "find the first available interfaceId" means,    *)
(* and entry k - 1 the first free one; or there is none, and k is 0.       *)
FirstAvailable(k) == NoneLower(k) /\ (k # 0 => dataCallCids[k - 1] = NoCid)

-----------------------------------------------------------------------------
(* The phone thread: setupDataCall and deactivateDataCall. *)

(* An operation needs the thread, and a serial it can be sent under. *)
MayStart == /\ phone.op = "idle"
            /\ \E s \in Serials : mRequestList[s] = NoRequest
            /\ OneAtATime => Quiet

SetupDataCall == /\ MayStart
                 /\ phone' = [op |-> "setup", i |-> 0, cid |-> NoCid]
                 /\ UNCHANGED <<dataCallCids, receiver, mRequestList, socket,
                                ctx, calls, history>>

(* "interfaceId = i+1" for entry i. *)
InterfaceOf_Index(i) == i
InterfaceOf_Next(i) == i + 2
InterfaceOf(i) == i + 1

(* One iteration of "find the first available interfaceId".  The entry is  *)
(* not reserved: it stays free until an answer is recorded in it, and that *)
(* can be another setup's answer, before this one is sent.                 *)
FindInterface ==
  /\ phone.op = "setup"
  /\ \/ /\ InLoop(phone.i)
        /\ IsFree(phone.i)
        /\ phone' = [phone EXCEPT !.op = "request", !.i = InterfaceOf(@)]
     \/ /\ InLoop(phone.i)
        /\ ~IsFree(phone.i)
        /\ phone' = [phone EXCEPT !.i = @ + 1]
     \/ /\ ~InLoop(phone.i)
        /\ phone' = [phone EXCEPT !.op = "request", !.i = 0]
  /\ UNCHANGED <<dataCallCids, receiver, mRequestList, socket, ctx, calls,
                 history>>

SendSetup ==
  /\ phone.op = "request"
  /\ Send([kind |-> "setup", iface |-> phone.i, cid |-> NoCid])
  /\ phone' = Resting
  /\ UNCHANGED <<dataCallCids, receiver, ctx, calls, history>>

DeactivateDataCall(c) ==
  /\ MayStart
  /\ c \in calls
  /\ calls' = calls \ {c}
  /\ phone' = [op |-> "deactivate", i |-> 0, cid |-> c]
  /\ UNCHANGED <<dataCallCids, receiver, mRequestList, socket, ctx, history>>

(* One iteration of the loop that frees the call's entry: before the       *)
(* request is sent, let alone confirmed.                                   *)
FreeEntry ==
  /\ phone.op = "deactivate"
  /\ \/ /\ InLoop(phone.i)
        /\ Matches(phone.i)
        /\ Clear(phone.i)
        /\ phone' = [phone EXCEPT !.op = "release", !.i = 0]
     \/ /\ InLoop(phone.i)
        /\ ~Matches(phone.i)
        /\ phone' = [phone EXCEPT !.i = @ + 1]
        /\ UNCHANGED dataCallCids
     \/ /\ ~InLoop(phone.i)
        /\ phone' = [phone EXCEPT !.op = "release", !.i = 0]
        /\ UNCHANGED dataCallCids
  /\ UNCHANGED <<receiver, mRequestList, socket, ctx, calls, history>>

SendDeactivate ==
  /\ phone.op = "release"
  /\ Send([kind |-> "deactivate", iface |-> 0, cid |-> phone.cid])
  /\ phone' = Resting
  /\ UNCHANGED <<dataCallCids, receiver, ctx, calls, history>>

-----------------------------------------------------------------------------
(* The RILReceiver thread: processSolicited and fetchCidFromDataCall. *)

Pop(s) == /\ mRequestList' = [mRequestList EXCEPT ![s] = NoRequest]
          /\ socket' = [socket EXCEPT ![s] = Waiting]

(* An answer is read and its request removed from the list.  Only the      *)
(* answer of a setup that carries a context id goes on to the table; an    *)
(* error without a payload, and the answer of a deactivation, are the      *)
(* superclass's.                                                           *)
ProcessSolicited(s) ==
  /\ receiver.op = "idle"
  /\ mRequestList[s].kind # "free"
  /\ socket[s].state # "waiting"
  /\ Pop(s)
  /\ \/ /\ mRequestList[s].kind = "setup"
        /\ socket[s].state = "reply"
        /\ socket[s].cid # NoCid
        /\ receiver' = [op |-> "record", i |-> 0, cid |-> socket[s].cid]
     \/ /\ \/ mRequestList[s].kind = "deactivate"
           \/ socket[s].state = "error"
           \/ socket[s].cid = NoCid
        /\ UNCHANGED receiver
  /\ UNCHANGED <<dataCallCids, phone, ctx, calls, history>>

(* The result of the setup is handed to the framework. *)
Report == /\ calls' = calls \cup {receiver.cid}
          /\ receiver' = Resting

(* One iteration of the loop that records the context id.  The test and    *)
(* the assignment are one step: only this thread fills an entry, so no     *)
(* other thread can change an entry it has found free.                     *)
FetchCid ==
  /\ receiver.op = "record"
  /\ \/ /\ InLoop(receiver.i)
        /\ IsFree(receiver.i)
        /\ dataCallCids' = [dataCallCids EXCEPT ![receiver.i] = receiver.cid]
        /\ Report
        /\ UNCHANGED missed
     \/ /\ InLoop(receiver.i)
        /\ ~IsFree(receiver.i)
        /\ receiver' = [receiver EXCEPT !.i = @ + 1]
        /\ UNCHANGED <<dataCallCids, calls, missed>>
     \/ /\ ~InLoop(receiver.i)
        /\ Report
        /\ missed' = missed \cup {receiver.cid}
        /\ UNCHANGED dataCallCids
  /\ UNCHANGED <<phone, mRequestList, socket, ctx, refused>>

-----------------------------------------------------------------------------
(* External: the modem, and what the framework does when a call is lost. *)

Unanswered(s, kind) == /\ mRequestList[s].kind = kind
                       /\ socket[s].state = "waiting"

ModemActivate(s, c) ==
  /\ Unanswered(s, "setup")
  /\ ctx[c] = Down
  /\ ctx' = [ctx EXCEPT ![c] = mRequestList[s].iface]
  /\ socket' = [socket EXCEPT ![s] = [state |-> "reply", cid |-> c]]
  /\ refused' = refused \ {c}
  /\ UNCHANGED <<dataCallCids, phone, receiver, mRequestList, calls, missed>>

ModemReject(s) ==
  /\ Unanswered(s, "setup")
  /\ \E st \in {"reply", "error"} :
        socket' = [socket EXCEPT ![s] = [state |-> st, cid |-> NoCid]]
  /\ UNCHANGED <<dataCallCids, phone, receiver, mRequestList, ctx, calls,
                 history>>

ModemDeactivate(s) ==
  /\ Unanswered(s, "deactivate")
  /\ \/ /\ ctx' = [ctx EXCEPT ![mRequestList[s].cid] = Down]
        /\ socket' = [socket EXCEPT ![s] = [state |-> "reply", cid |-> NoCid]]
        /\ UNCHANGED refused
     \/ /\ socket' = [socket EXCEPT ![s] = [state |-> "error", cid |-> NoCid]]
        /\ refused' = refused \cup {mRequestList[s].cid}
        /\ UNCHANGED ctx
  /\ UNCHANGED <<dataCallCids, phone, receiver, mRequestList, calls, missed>>

(* The network ends a context; the framework may give the call up without  *)
(* asking for a deactivation.                                              *)
NetworkDrop(c) ==
  /\ ctx[c] # Down
  /\ ctx' = [ctx EXCEPT ![c] = Down]
  /\ calls' \in {calls, calls \ {c}}
  /\ UNCHANGED <<dataCallCids, phone, receiver, mRequestList, socket, history>>

(* The RIL daemon goes away: its requests fail, its contexts are gone, and *)
(* nothing in the class clears the table.                                  *)
RildRestart ==
  /\ receiver.op = "idle"
  /\ mRequestList' = [s \in Serials |-> NoRequest]
  /\ socket' = [s \in Serials |-> Waiting]
  /\ ctx' = [c \in Cids |-> Down]
  /\ calls' = {}
  /\ UNCHANGED <<dataCallCids, phone, receiver, history>>

-----------------------------------------------------------------------------
PhoneGoesOn == FindInterface \/ SendSetup \/ FreeEntry \/ SendDeactivate
PhoneStep == \/ PhoneGoesOn \/ SetupDataCall
             \/ \E c \in Cids : DeactivateDataCall(c)
ReceiverStep == FetchCid \/ \E s \in Serials : ProcessSolicited(s)
ModemStep == \/ \E s \in Serials : \/ ModemReject(s) \/ ModemDeactivate(s)
                                   \/ \E c \in Cids : ModemActivate(s, c)
LossStep == RildRestart \/ \E c \in Cids : NetworkDrop(c)

Next == PhoneStep \/ ReceiverStep \/ ModemStep

Spec == Init /\ [][Next]_vars

(* The same beside a network and a daemon that lose contexts. *)
LossyNext == Next \/ LossStep
LossySpec == Init /\ [][LossyNext]_vars

(* Both threads keep running: a loop that was entered is left, its request *)
(* is sent, and an answer that has arrived is processed.  The modem owes   *)
(* nothing.                                                                *)
Fairness == /\ WF_vars(PhoneGoesOn)
            /\ WF_vars(ReceiverStep)
FairSpec == Spec /\ Fairness

-----------------------------------------------------------------------------
(* Properties. *)

(* The entries in use. *)
Booked == {dataCallCids[i] : i \in Slots} \ {NoCid}

(* Every call the framework holds has an entry: fetchCidFromDataCall never *)
(* runs past a full table, and deactivateDataCall never frees the entry of *)
(* another call, whatever the two threads interleave.  Holds while the     *)
(* modem can have no more contexts than the table has entries and drops    *)
(* none by itself.                                                         *)
CallsBooked == calls \subseteq Booked

(* The same whatever is lost or refused, and with more contexts than       *)
(* entries: a call loses its entry by its own deactivation only, even if   *)
(* its context id is set up again while a deactivation scans the table.    *)
(* The one exception is a call whose scan met no free entry.               *)
CallsKeepEntries == calls \ missed \subseteq Booked

(* No two active contexts run on one interface: what choosing an available *)
(* interface in setupDataCall is for.  A context whose deactivation was    *)
(* refused is excepted: deactivateDataCall has freed its entry already,    *)
(* and its interface goes to the next call.                                *)
ExclusiveInterfaces ==
  \A c, d \in Cids \ refused :
    c # d /\ ctx[c] = ctx[d] => ctx[c] \in {Down, 0}

(* When a setup is sent no lower interface than its own is available, and  *)
(* none at all if it asks for 0, although the table changes while          *)
(* setupDataCall scans it and before it sends: an entry it has passed is   *)
(* freed by no other thread.  (The entry it has chosen may be filled in    *)
(* between, if requests overlap.)                                          *)
SetupSkipsNone ==
  [][\A s \in Serials :
       mRequestList[s].kind = "free" /\ mRequestList'[s].kind = "setup"
         => NoneLower(mRequestList'[s].iface)]_vars

(* "Find the first available interfaceId": with one request at a time, a   *)
(* setup's interface is the first available one from the moment it is      *)
(* chosen until the modem's answer is read, so that the context id is      *)
(* recorded in the very entry the interface was chosen by.                 *)
SetupAsksFirstAvailable ==
  /\ phone.op = "request" => FirstAvailable(phone.i)
  /\ \A s \in Serials : mRequestList[s].kind = "setup"
                          => FirstAvailable(mRequestList[s].iface)

(* The class keeps the promise of DataCallLedger: a call is booked before  *)
(* the framework learns of it, and its entry is freed after, and always    *)
(* after, deactivateDataCall.                                              *)
Ledger == INSTANCE DataCallLedger WITH up <- calls, booked <- Booked
ImplementsLedger == Ledger!Spec

-----------------------------------------------------------------------------
(* Inductive invariants. *)

Recording(c) == receiver.op = "record" /\ receiver.cid = c
Answered(s, c) == socket[s].state = "reply" /\ socket[s].cid = c
Leaving(s, c) == /\ Unanswered(s, "deactivate")
                 /\ mRequestList[s].cid = c
Releasing(c) == phone.op = "release" /\ phone.cid = c

(* The parts of BookingInv.  A context id is in one place at most: an      *)
(* entry, an answer, the receiver's hands, the hands of a phone thread     *)
(* that has freed its entry, or an unanswered deactivation.                *)
OneEntryPerCall ==
  \A i, j \in Slots :
    dataCallCids[i] = dataCallCids[j] /\ dataCallCids[i] # NoCid => i = j

InFlightNotBooked ==
  \A c \in Cids :
    /\ Recording(c) \/ Releasing(c) => c \notin Booked
    /\ \A s \in Serials : Answered(s, c) \/ Leaving(s, c) => c \notin Booked

OneFlightPerCall ==
  \A c \in Cids :
    /\ ~(Recording(c) /\ Releasing(c))
    /\ \A s, t \in Serials :
         /\ Answered(s, c) \/ Leaving(s, c) => ~Recording(c) /\ ~Releasing(c)
         /\ /\ Answered(s, c) \/ Leaving(s, c)
            /\ Answered(t, c) \/ Leaving(t, c)
            => s = t

PlacedIsActive ==
  \A c \in Cids :
    (\/ c \in Booked
     \/ Recording(c) \/ Releasing(c)
     \/ \E s \in Serials : Answered(s, c) \/ Leaving(s, c)) => ctx[c] # Down

(* The call being deactivated has its entry ahead of the scan. *)
EntryAhead ==
  phone.op = "deactivate" =>
    /\ phone.cid \notin calls
    /\ \E j \in phone.i .. NSlots - 1 : dataCallCids[j] = phone.cid

(* The scan of fetchCidFromDataCall cannot have passed more entries than   *)
(* there are other contexts: this is what keeps it inside the table.       *)
ScanBound ==
  receiver.op = "record" =>
    Cardinality({dataCallCids[j] : j \in receiver.i .. NSlots - 1} \ {NoCid})
      + receiver.i <= Cardinality(Cids) - 1

SocketOK ==
  \A s \in Serials :
    /\ mRequestList[s].kind = "deactivate" => mRequestList[s].cid \in Cids
    /\ mRequestList[s].kind = "free" => mRequestList[s] = NoRequest
    /\ mRequestList[s].kind = "free" => socket[s] = Waiting
    /\ socket[s].cid # NoCid => /\ mRequestList[s].kind = "setup"
                                /\ socket[s].state = "reply"

(* Why CallsBooked holds: the inductive invariant of the concurrent runs.  *)
BookingInv == /\ OneEntryPerCall
              /\ InFlightNotBooked
              /\ OneFlightPerCall
              /\ PlacedIsActive
              /\ EntryAhead
              /\ ScanBound
              /\ SocketOK
              /\ CallsBooked

(* The entries a scan of setupDataCall has passed are still in use. *)
ScannedInUse ==
  /\ phone.op = "setup" => \A j \in 0 .. phone.i - 1 : dataCallCids[j] # NoCid
  /\ phone.op = "request" => NoneLower(phone.i)

-----------------------------------------------------------------------------
(* The inductive invariant of OneAtATime. *)

(* At most one of: a running loop, an outstanding request. *)
OneOperation ==
  /\ phone.op # "idle" => Quiet
  /\ receiver.op # "idle" => \A s \in Serials : mRequestList[s] = NoRequest
  /\ \A s, t \in Serials :
        mRequestList[s] # NoRequest /\ mRequestList[t] # NoRequest => s = t
  /\ \A s \in Serials :
        /\ mRequestList[s].kind = "free" => mRequestList[s] = NoRequest
        /\ socket[s].state # "waiting" => mRequestList[s] # NoRequest

(* What a context has of its interface, from the answer of its setup       *)
(* through the receiver's loop to its entry.                               *)
Owns(c) == \/ dataCallCids[ctx[c] - 1] = c
           \/ \E s \in Serials : /\ Answered(s, c)
                                  /\ mRequestList[s].kind = "setup"
                                  /\ mRequestList[s].iface = ctx[c]
           \/ /\ Recording(c)
              /\ FirstAvailable(ctx[c])
              /\ receiver.i < ctx[c]

(* An active context owns its interface, or is about to go, or was refused *)
(* to.                                                                     *)
InterfaceOwned ==
  \A c \in Cids \ refused : ctx[c] \in 1 .. NSlots =>
    \/ Owns(c)
    \/ /\ Releasing(c) \/ \E s \in Serials : Leaving(s, c)
       /\ dataCallCids[ctx[c] - 1] = NoCid

(* Why ExclusiveInterfaces holds with one request at a time. *)
SerialInv == /\ OneOperation
             /\ ScannedInUse
             /\ SetupAsksFirstAvailable
             /\ InterfaceOwned
=============================================================================
