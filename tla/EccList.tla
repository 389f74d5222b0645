------------------------------ MODULE EccList ------------------------------
(***************************************************************************)
(* The emergency numbers of MtkEccList and the dialling that uses them.    *)
(* The lists are Android system properties that three parties share with   *)
(* no lock: the vendor RIL writes a slot's list when it answers            *)
(* GET_SIM_STATUS, the RILReceiver thread of each MediaTekRIL instance     *)
(* then rewrites the lists of both slots, and the phone's main thread      *)
(* reads them to classify a dialled number.  A property is read or written *)
(* in one step; nothing larger is atomic.  Lists are sets: the code only   *)
(* asks whether a number is in one and whether it is empty.                *)
(***************************************************************************)
EXTENDS Integers

CONSTANTS Numbers,      \* what can be dialled
          Condition,    \* ecc_list.xml: a number's condition, "none" if absent
          CustomCategory,   \* ecc_list.xml: a number's service category
          SimEcc,       \* the emergency numbers on the card of a slot
          NetworkLists  \* the values of ril.ecc.service.category.list

Slots == {0, 1}         \* ril.ecclist and ril.ecclist1
Phones == {0, 1}        \* the MediaTekRIL instance of each slot
NoCategory == 99        \* not on the network's list

ASSUME ConditionAssumption ==
  Condition \in [Numbers -> {"none", "0", "1", "2"}]
ASSUME CategoryAssumption == CustomCategory \in [Numbers -> Nat]
ASSUME SimEccAssumption == SimEcc \in [Slots -> (SUBSET Numbers) \ {{}}]
ASSUME NetworkAssumption ==
  NetworkLists \subseteq [Numbers -> Nat] /\ NetworkLists # {}

VARIABLES card,         \* external: whether a slot holds a card
          ecclist,      \* the properties ril.ecclist and ril.ecclist1
          vendor,       \* history: the vendor's write of a list is "due" (the
                        \* card changed), "done", or "overtaken": it fell
                        \* between an update's reading the list and writing it
          answer,       \* GET_SIM_STATUS answers on the way to an instance
          skipped,      \* history: the slots whose own instance rewrites the
                        \* vendor's write no more: an error, an exception
          update,       \* where each receiver is in updateEmergencyNumbers...
          mHashMapForNetworkEccCategory,    \* static, filled by a dial
          dial          \* the dial the main thread works on, or did last

vars == <<card, ecclist, vendor, answer, skipped, update,
          mHashMapForNetworkEccCategory, dial>>

fixedList == {n \in Numbers : Condition[n] \in {"1", "2"}}
fixedListNoSim == {n \in Numbers : Condition[n] = "0"}
mCustomizedEccList == fixedList \cup fixedListNoSim

Update == [pc : {"idle", "read", "set"}, slot : Slots, numbers : SUBSET Numbers]
Deciding == {"sim1", "sim2", "custom"}
Dial == [pc : {"none", "emergency", "normal"} \cup Deciding,
         number : Numbers, inserted : BOOLEAN, category : Nat, calm : BOOLEAN]

TypeOK == /\ card \in [Slots -> BOOLEAN]
          /\ ecclist \in [Slots -> SUBSET Numbers]
          /\ vendor \in [Slots -> {"due", "done", "overtaken"}]
          /\ answer \in [Phones -> BOOLEAN]
          /\ skipped \in SUBSET Slots
          /\ update \in [Phones -> Update]
          /\ mHashMapForNetworkEccCategory \in [Numbers -> Nat]
          /\ dial \in Dial

Idle == [pc |-> "idle", slot |-> 0, numbers |-> {}]

Init == /\ card \in [Slots -> BOOLEAN]
        /\ ecclist = [s \in Slots |-> {}]
        /\ vendor = [s \in Slots |-> "due"]
        /\ answer = [p \in Phones |-> FALSE]
        /\ skipped = {}
        /\ update = [p \in Phones |-> Idle]
        /\ mHashMapForNetworkEccCategory = [n \in Numbers |-> NoCategory]
        /\ dial = [pc |-> "none", number |-> CHOOSE n \in Numbers : TRUE,
                   inserted |-> FALSE, category |-> 0, calm |-> FALSE]

-----------------------------------------------------------------------------
(* External: cards and the vendor RIL. *)

VendorList(s) == IF card[s] THEN SimEcc[s] ELSE {}

CardChange(s) ==
  /\ card' = [card EXCEPT ![s] = ~@]
  /\ vendor' = [vendor EXCEPT ![s] = "due"]
  /\ dial' = [dial EXCEPT !.calm = FALSE]
  /\ UNCHANGED <<ecclist, answer, skipped, update,
                 mHashMapForNetworkEccCategory>>

(* Some update has read the list of slot s and has not yet written it. *)
Rewriting(s) == \E q \in Phones : update[q].pc = "set" /\ update[q].slot = s

(* "Vendor ril refreshes the properties while generating this answer." *)
AnswerSimStatus(p) ==
  /\ ~answer[p]
  /\ ecclist' = [ecclist EXCEPT ![p] = VendorList(p)]
  /\ vendor' = [vendor EXCEPT ![p] = IF Rewriting(p) THEN "overtaken" ELSE "done"]
  /\ dial' = [dial EXCEPT !.calm = @ /\ ~Rewriting(p)]
  /\ answer' = [answer EXCEPT ![p] = TRUE] /\ skipped' = skipped \ {p}
  /\ UNCHANGED <<card, update, mHashMapForNetworkEccCategory>>

-----------------------------------------------------------------------------
(* The receiver of instance p: processSolicited, GET_SIM_STATUS, and       *)
(* updateEmergencyNumbersProperty, slot 0 and then slot 1.                 *)

(* An answer with an error and no data starts no update. *)
ProcessSimStatus(p) ==
  /\ answer[p]
  /\ update[p].pc = "idle"
  /\ answer' = [answer EXCEPT ![p] = FALSE]
  /\ \/ /\ update' = [update EXCEPT ![p] = [Idle EXCEPT !.pc = "read"]]
        /\ UNCHANGED skipped
     \/ skipped' = skipped \cup {p} /\ UNCHANGED update
  /\ UNCHANGED <<card, ecclist, vendor, mHashMapForNetworkEccCategory, dial>>

(* "catch (Throwable thr)": a property that cannot be set ends the update, *)
(* the rest of which is not made up for.                                   *)
UpdateThrows(p) ==
  /\ update[p].pc # "idle"
  /\ update' = [update EXCEPT ![p] = Idle]
  /\ skipped' = IF update[p].slot <= p /\ ~answer[p] THEN skipped \cup {p}
                ELSE skipped
  /\ UNCHANGED <<card, ecclist, vendor, answer,
                 mHashMapForNetworkEccCategory, dial>>

ReadList(p) ==
  /\ update[p].pc = "read"
  /\ update' = [update EXCEPT ![p].pc = "set",
                              ![p].numbers = ecclist[update[p].slot]]
  /\ UNCHANGED <<card, ecclist, vendor, answer, skipped,
                 mHashMapForNetworkEccCategory, dial>>

(* The list that is written for the list that was read.  As elsewhere, a   *)
(* name with a suffix is a plausible bug that no action uses.              *)
Rewritten_Replaced(numbers) ==
  IF numbers = {} THEN mCustomizedEccList ELSE fixedList
Rewritten(numbers) ==
  numbers \cup fixedList \cup (IF numbers = {} THEN fixedListNoSim ELSE {})

SetList(p) ==
  /\ update[p].pc = "set"
  /\ ecclist' = [ecclist EXCEPT ![update[p].slot] = Rewritten(update[p].numbers)]
  /\ update' = [update EXCEPT ![p] = IF update[p].slot = 0
                                     THEN [Idle EXCEPT !.pc = "read", !.slot = 1]
                                     ELSE Idle]
  /\ UNCHANGED <<card, vendor, answer, skipped,
                 mHashMapForNetworkEccCategory, dial>>

-----------------------------------------------------------------------------
(* The main thread: dial, isEmergencyNumberExt, getServiceCategoryFromEcc. *)

(* The category of an emergency number: the network's, as the map has it,  *)
(* or the customized list's, or 0.                                         *)
ServiceCategory_NotFound(map, n) ==
  IF map[n] # NoCategory THEN map[n]
  ELSE IF n \in mCustomizedEccList THEN CustomCategory[n] ELSE -1
ServiceCategory(map, n) ==
  IF map[n] # NoCategory THEN map[n]
  ELSE IF n \in mCustomizedEccList THEN CustomCategory[n] ELSE 0

EmergencyDial(map) ==
  dial' = [dial EXCEPT !.pc = "emergency", !.inserted = FALSE,
                       !.category = ServiceCategory(map, dial.number)]

Quiet == \A s \in Slots : vendor[s] = "done"

(* The dial starts with the network's list, which is what the property     *)
(* holds at this moment and refills the static map.                        *)
StartDial(n) ==
  /\ dial.pc \notin Deciding
  /\ \E netList \in NetworkLists :
       /\ mHashMapForNetworkEccCategory' = netList
       /\ dial' = [pc |-> IF netList[n] # NoCategory THEN "emergency" ELSE "sim1",
                   number |-> n, inserted |-> FALSE, calm |-> Quiet,
                   category |-> IF netList[n] # NoCategory THEN netList[n] ELSE 0]
  /\ UNCHANGED <<card, ecclist, vendor, answer, skipped, update>>

(* The number is looked up in the list of one slot, read at this moment;   *)
(* a list that is not empty also stands for an inserted card.              *)
LookUp(s, next) ==
  IF dial.number \in ecclist[s]
  THEN EmergencyDial(mHashMapForNetworkEccCategory)
  ELSE dial' = [dial EXCEPT !.pc = next,
                            !.inserted = @ \/ ecclist[s] # {}]

LookUpSim ==
  /\ \/ dial.pc = "sim1" /\ LookUp(0, "sim2")
     \/ dial.pc = "sim2" /\ LookUp(1, "custom")
  /\ UNCHANGED <<card, ecclist, vendor, answer, skipped, update,
                 mHashMapForNetworkEccCategory>>

LookUpCustom_NoSimAsSim ==
  /\ dial.pc = "custom"
  /\ IF dial.number \in fixedList
     THEN EmergencyDial(mHashMapForNetworkEccCategory)
     ELSE dial' = [dial EXCEPT !.pc = "normal", !.inserted = FALSE]
  /\ UNCHANGED <<card, ecclist, vendor, answer, skipped, update,
                 mHashMapForNetworkEccCategory>>
LookUpCustom ==
  /\ dial.pc = "custom"
  /\ IF dial.number \in (IF dial.inserted THEN fixedList ELSE mCustomizedEccList)
     THEN EmergencyDial(mHashMapForNetworkEccCategory)
     ELSE dial' = [dial EXCEPT !.pc = "normal", !.inserted = FALSE]
  /\ UNCHANGED <<card, ecclist, vendor, answer, skipped, update,
                 mHashMapForNetworkEccCategory>>

-----------------------------------------------------------------------------
VendorStep == \/ \E s \in Slots : CardChange(s)
              \/ \E p \in Phones : AnswerSimStatus(p)
ReceiverStep(p) == \/ ProcessSimStatus(p) \/ ReadList(p) \/ SetList(p)
                   \/ UpdateThrows(p)
MainStep == LookUpSim \/ LookUpCustom \/ \E n \in Numbers : StartDial(n)

Next == VendorStep \/ MainStep \/ \E p \in Phones : ReceiverStep(p)
Spec == Init /\ [][Next]_vars

-----------------------------------------------------------------------------
(* Properties. *)

(* Every answer has been processed and every list is as new as its card. *)
Settled == /\ \A s \in Slots : vendor[s] # "due"
           /\ \A p \in Phones : ~answer[p] /\ update[p].pc = "idle"

(* "Do our own updates afterwards": once the answers are processed, each   *)
(* list is the vendor's list of the slot rewritten exactly once, however   *)
(* the two receivers' updates overlapped and wherever one of them ended.   *)
(* The exceptions are a list the vendor wrote while an update held an      *)
(* older copy of it, and one that its own instance skipped.                *)
UpdatedAfterwards ==
  Settled => \A s \in Slots :
               vendor[s] = "done" /\ s \notin skipped =>
                 ecclist[s] = Rewritten(VendorList(s))

(* The emergency numbers of an inserted card are in its slot's list from   *)
(* the moment the vendor has written them, unless an update held an older  *)
(* copy of the list at that moment.                                        *)
SimEccListed ==
  \A s \in Slots : card[s] /\ vendor[s] = "done" =>
                     SimEcc[s] \subseteq ecclist[s]

(* What must be an emergency call: a number of an inserted card, and with  *)
(* no card in the phone any number of ecc_list.xml.                        *)
MustBeEmergency(n) ==
  \/ \E s \in Slots : card[s] /\ n \in SimEcc[s]
  \/ (\A s \in Slots : ~card[s]) /\ n \in mCustomizedEccList

(* What may be an emergency call: a number of the network's list, as the   *)
(* map has it since the dial began, a number of an inserted card, one that *)
(* ecc_list.xml names for any time, or, while a slot is empty, one that it *)
(* names for no card.                                                      *)
MayBeEmergency(n) ==
  \/ mHashMapForNetworkEccCategory[n] # NoCategory
  \/ \E s \in Slots : card[s] /\ n \in SimEcc[s]
  \/ n \in fixedList
  \/ (\E s \in Slots : ~card[s]) /\ n \in fixedListNoSim

(* A dial during which the cards did not change and no list was overtaken  *)
(* sends no number as a normal call that must be an emergency call, and as *)
(* an emergency call only one that may be, although it reads the two lists *)
(* at different moments of others' updates: with a card in every slot, no  *)
(* such moment shows it the defaults for no card, or two empty lists.      *)
DialClassified ==
  dial.calm => /\ dial.pc = "normal" => ~MustBeEmergency(dial.number)
               /\ dial.pc = "emergency" => MayBeEmergency(dial.number)

(* How isEmergencyNumberExt classifies a number that is not on the         *)
(* network's list when nothing changes.                                    *)
IsEmergency(n) ==
  \/ \E s \in Slots : n \in ecclist[s]
  \/ n \in fixedList
  \/ (\A s \in Slots : ecclist[s] = {}) /\ n \in fixedListNoSim

(* ecc_list.xml, "0: ecc only when no sim": with a card in the phone, and  *)
(* every update done, such a number is an emergency number only if a card  *)
(* or the network says so.  (The network's list is asked first.)           *)
OnlyWhenNoSim ==
  Settled /\ Quiet /\ skipped = {} /\ (\E s \in Slots : card[s]) =>
    \A n \in fixedListNoSim :
      IsEmergency(n) => \E s \in Slots : card[s] /\ n \in SimEcc[s]
=============================================================================
