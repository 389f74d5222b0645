--------------------------- MODULE EccList_proofs ---------------------------
(* Theorems about EccList, for any numbers, cards and network lists.       *)
EXTENDS EccList, TLAPS

USE ConditionAssumption, CategoryAssumption, SimEccAssumption, NetworkAssumption

-----------------------------------------------------------------------------
(* The inductive invariant.                                                *)

(* A list as the vendor wrote it, or rewritten once. *)
Sound(s, list) == list \in {VendorList(s), Rewritten(VendorList(s))}

(* Once the vendor has written a list that no update held a copy of, the   *)
(* property and every copy an update still holds is sound.                 *)
ListsSound ==
  \A s \in Slots : vendor[s] = "done" =>
    /\ Sound(s, ecclist[s])
    /\ \A p \in Phones : update[p].pc = "set" /\ update[p].slot = s =>
                           Sound(s, update[p].numbers)

(* A list that is not rewritten yet will be: its own instance's answer is  *)
(* on the way, or its update has not passed the slot; or it is skipped.    *)
RewriteDue ==
  \A s \in Slots : vendor[s] = "done" /\ s \notin skipped =>
    \/ ecclist[s] = Rewritten(VendorList(s))
    \/ answer[s]
    \/ update[s].pc # "idle" /\ update[s].slot <= s

(* No slot holds a card. *)
NoCard == \A s \in Slots : ~card[s]

(* What a calm dial has found out so far: the numbers of the slots it has  *)
(* looked at, and that a list it took for a card was no mere default.      *)
DialKnows ==
  dial.calm =>
    /\ Quiet
    /\ dial.pc \in {"sim2", "custom", "normal"} /\ card[0] =>
         dial.number \notin SimEcc[0]
    /\ dial.pc \in {"custom", "normal"} /\ card[1] => dial.number \notin SimEcc[1]
    /\ ((dial.pc \in Deciding /\ dial.inserted) \/ dial.pc = "normal") /\ NoCard =>
         dial.number \notin mCustomizedEccList

(* All of them together. *)
EccInv == TypeOK /\ ListsSound /\ RewriteDue /\ DialKnows

-----------------------------------------------------------------------------
(* The operators. *)

(* Rewriting a list is idempotent, and loses no number. *)
LEMMA RewrittenAgain ==
  ASSUME NEW list
  PROVE  Rewritten(Rewritten(list)) = Rewritten(list) /\ list \subseteq Rewritten(list)
<1>1. CASE list = {}
  BY <1>1 DEF Rewritten
<1>2. CASE list # {}
  <2>1. Rewritten(list) = list \cup fixedList
    BY <1>2 DEF Rewritten
  <2>2. list \cup fixedList # {}
    BY <1>2
  <2>3. Rewritten(list \cup fixedList) = list \cup fixedList
    BY <2>2 DEF Rewritten
  <2> QED
    BY <2>1, <2>3
<1> QED
  BY <1>1, <1>2

(* A sound list has the vendor's numbers, is rewritten to what the         *)
(* vendor's list is, and with no card in the slot is empty or everything   *)
(* that ecc_list.xml names.                                                *)
LEMMA SoundList ==
  ASSUME NEW s \in Slots, NEW list, Sound(s, list)
  PROVE  /\ VendorList(s) \subseteq list
         /\ Rewritten(list) = Rewritten(VendorList(s))
         /\ ~card[s] => list \in {{}, mCustomizedEccList}
<1>1. VendorList(s) \subseteq list /\ Rewritten(list) = Rewritten(VendorList(s))
  BY RewrittenAgain DEF Sound
<1>2. Rewritten({}) = mCustomizedEccList
  BY DEF Rewritten, mCustomizedEccList
<1> QED
  BY <1>1, <1>2 DEF Sound, VendorList

(* What is written is a list of numbers. *)
LEMMA ListTypes ==
  /\ \A list \in SUBSET Numbers : Rewritten(list) \in SUBSET Numbers
  /\ \A s \in Slots : VendorList(s) \in SUBSET Numbers
<1>1. fixedList \subseteq Numbers /\ fixedListNoSim \subseteq Numbers
  BY DEF fixedList, fixedListNoSim
<1> QED
  BY <1>1 DEF Rewritten, VendorList

(* A category is a number of the network's or the customized list, or 0.   *)
LEMMA CategoryType ==
  ASSUME NEW map \in [Numbers -> Nat], NEW n \in Numbers
  PROVE  ServiceCategory(map, n) \in Nat
BY DEF ServiceCategory

-----------------------------------------------------------------------------
(* The steps. *)

(* Everything starts empty and the vendor has yet to write. *)
LEMMA EccInitial == Init => EccInv
<1> HAVE Init
<1>1. Numbers # {}
  BY DEF Slots
<1>2. (CHOOSE n \in Numbers : TRUE) \in Numbers
  BY <1>1
<1>3. dial \in Dial /\ dial.calm = FALSE
  BY <1>2 DEF Init, Dial
<1>4. update \in [Phones -> Update]
  BY DEF Init, Idle, Update, Slots
<1>5. mHashMapForNetworkEccCategory \in [Numbers -> Nat]
  BY DEF Init, NoCategory
<1>6. TypeOK
  BY <1>3, <1>4, <1>5 DEF Init, TypeOK
<1>7. \A s \in Slots : vendor[s] # "done"
  BY DEF Init
<1> QED
  BY <1>3, <1>6, <1>7 DEF EccInv, ListsSound, RewriteDue, DialKnows

(* A card that comes or goes: the vendor's write is due. *)
LEMMA CardStep ==
  ASSUME EccInv, NEW s \in Slots, CardChange(s)
  PROVE  EccInv'
<1> USE DEF EccInv
<1>1. /\ card' \in [Slots -> BOOLEAN] /\ vendor'[s] = "due"
      /\ vendor' \in [Slots -> {"due", "done", "overtaken"}]
      /\ \A r \in Slots \ {s} : card'[r] = card[r] /\ vendor'[r] = vendor[r]
  BY DEF CardChange, TypeOK
<1>2. dial' \in Dial /\ dial'.calm = FALSE
  BY DEF CardChange, TypeOK, Dial
<1>3. UNCHANGED <<ecclist, answer, skipped, update, mHashMapForNetworkEccCategory>>
  BY DEF CardChange
<1>4. TypeOK'
  BY <1>1, <1>2, <1>3 DEF TypeOK
<1>5. \A r \in Slots : vendor'[r] = "done" =>
        vendor[r] = "done" /\ VendorList(r)' = VendorList(r)
  BY <1>1 DEF VendorList
<1>6. ListsSound' /\ RewriteDue'
  BY <1>3, <1>5 DEF ListsSound, RewriteDue, Sound, Rewritten
<1> QED
  BY <1>2, <1>4, <1>6 DEF DialKnows

(* The vendor writes a list and answers. *)
LEMMA AnswerStep ==
  ASSUME EccInv, NEW p \in Phones, AnswerSimStatus(p)
  PROVE  EccInv'
<1> USE DEF EccInv
<1>0. p \in Slots
  BY DEF Phones, Slots
<1>1. /\ ecclist' = [ecclist EXCEPT ![p] = VendorList(p)]
      /\ vendor' = [vendor EXCEPT ![p] = IF Rewriting(p) THEN "overtaken" ELSE "done"]
      /\ answer' = [answer EXCEPT ![p] = TRUE]
      /\ skipped' = skipped \ {p}
      /\ UNCHANGED <<card, update, mHashMapForNetworkEccCategory>>
  BY DEF AnswerSimStatus
<1>2. dial' = [dial EXCEPT !.calm = dial.calm /\ ~Rewriting(p)] /\ dial \in Dial
  BY DEF AnswerSimStatus, TypeOK
<1>3. /\ dial' \in Dial /\ dial'.calm = (dial.calm /\ ~Rewriting(p))
      /\ dial'.pc = dial.pc /\ dial'.number = dial.number
      /\ dial'.inserted = dial.inserted
  BY <1>2 DEF Dial
<1>4. TypeOK'
  BY <1>0, <1>1, <1>3, ListTypes DEF TypeOK
<1>5. \A r \in Slots : VendorList(r)' = VendorList(r)
  BY <1>1 DEF VendorList
<1>6. \A r \in Slots \ {p} : ecclist'[r] = ecclist[r] /\ vendor'[r] = vendor[r]
                             /\ answer'[r] = answer[r]
  BY <1>1 DEF TypeOK, Slots, Phones
<1>7. ecclist'[p] = VendorList(p) /\ answer'[p]
      /\ vendor'[p] = IF Rewriting(p) THEN "overtaken" ELSE "done"
  BY <1>0, <1>1 DEF TypeOK
<1>8. ListsSound'
  <2> SUFFICES ASSUME NEW r \in Slots, vendor'[r] = "done"
               PROVE  /\ Sound(r, ecclist[r])'
                      /\ \A q \in Phones : update'[q].pc = "set"
                           /\ update'[q].slot = r => Sound(r, update[q].numbers)'
    BY DEF ListsSound
  <2>1. CASE r = p
    <3>1. ~Rewriting(p)
      BY <1>7, <2>1
    <3> QED
      BY <1>1, <1>5, <1>7, <2>1, <3>1 DEF Sound, Rewriting
  <2>2. CASE r # p
    BY <1>1, <1>5, <1>6, <2>2 DEF ListsSound, Sound, Rewritten
  <2> QED
    BY <2>1, <2>2
<1>9. RewriteDue'
  BY <1>1, <1>5, <1>6, <1>7 DEF RewriteDue, Rewritten
<1>10. DialKnows'
  <2>1. dial'.calm => Quiet'
    BY <1>3, <1>6, <1>7 DEF DialKnows, Quiet
  <2> QED
    BY <1>1, <1>3, <2>1 DEF DialKnows, NoCard
<1> QED
  BY <1>4, <1>8, <1>9, <1>10

(* The receiver's steps leave the dial alone. *)
LEMMA DialUntouched ==
  ASSUME DialKnows, UNCHANGED <<card, vendor, dial>>
  PROVE  DialKnows'
BY DEF DialKnows, Quiet, NoCard

(* An update begins with slot 0, so it has not passed its own slot; if     *)
(* there is none, the slot is skipped.                                     *)
LEMMA ProcessStep ==
  ASSUME EccInv, NEW p \in Phones, ProcessSimStatus(p)
  PROVE  EccInv'
<1> USE DEF EccInv
<1> DEFINE u == [Idle EXCEPT !.pc = "read"]
<1>1. u \in Update /\ u.pc = "read" /\ u.slot = 0
  BY DEF Idle, Update, Slots
<1> HIDE DEF u
<1>2. /\ answer' = [answer EXCEPT ![p] = FALSE]
      /\ UNCHANGED <<card, ecclist, vendor, mHashMapForNetworkEccCategory, dial>>
      /\ \/ update' = [update EXCEPT ![p] = u] /\ skipped' = skipped
         \/ skipped' = skipped \cup {p} /\ update' = update
  BY DEF ProcessSimStatus, u
<1>3. TypeOK'
  <2>1. skipped' \in SUBSET Slots
    BY <1>2 DEF TypeOK, Slots, Phones
  <2>2. update' \in [Phones -> Update]
    BY <1>1, <1>2 DEF TypeOK
  <2> QED
    BY <1>2, <2>1, <2>2 DEF TypeOK
<1>4. \A r \in Slots : VendorList(r)' = VendorList(r)
  BY <1>2 DEF VendorList
<1>5. /\ \A q \in Phones \ {p} : update'[q] = update[q] /\ answer'[q] = answer[q]
      /\ \/ update'[p] = u /\ skipped' = skipped
         \/ update'[p] = update[p] /\ skipped' = skipped \cup {p}
  BY <1>2 DEF TypeOK
<1>6. ListsSound'
  BY <1>1, <1>2, <1>4, <1>5 DEF ListsSound, Sound, Rewritten
<1>7. RewriteDue'
  BY <1>1, <1>2, <1>4, <1>5 DEF RewriteDue, Rewritten, Slots, Phones
<1> QED
  BY <1>2, <1>3, <1>6, <1>7, DialUntouched

(* An update that ends early skips its own slot, unless it has passed it   *)
(* or another answer is on the way.                                        *)
LEMMA ThrowsStep ==
  ASSUME EccInv, NEW p \in Phones, UpdateThrows(p)
  PROVE  EccInv'
<1> USE DEF EccInv
<1>1. Idle \in Update /\ Idle.pc = "idle"
  BY DEF Idle, Update, Slots
<1>2. /\ update' = [update EXCEPT ![p] = Idle]
      /\ skipped' = IF update[p].slot <= p /\ ~answer[p] THEN skipped \cup {p}
                    ELSE skipped
      /\ UNCHANGED <<card, ecclist, vendor, answer, mHashMapForNetworkEccCategory,
                     dial>>
  BY DEF UpdateThrows
<1>3. TypeOK'
  BY <1>1, <1>2 DEF TypeOK, Slots, Phones
<1>4. \A r \in Slots : VendorList(r)' = VendorList(r)
  BY <1>2 DEF VendorList
<1>5. update'[p] = Idle /\ \A q \in Phones \ {p} : update'[q] = update[q]
  BY <1>2 DEF TypeOK
<1>6. ListsSound'
  BY <1>1, <1>2, <1>4, <1>5 DEF ListsSound, Sound, Rewritten
<1>7. RewriteDue'
  <2> SUFFICES ASSUME NEW r \in Slots, vendor[r] = "done", r \notin skipped',
                      ecclist[r] # Rewritten(VendorList(r)), ~answer[r]
               PROVE  update'[r].pc # "idle" /\ update'[r].slot <= r
    BY <1>2, <1>4 DEF RewriteDue, Rewritten
  <2>1. r \notin skipped /\ update[r].pc # "idle" /\ update[r].slot <= r
    BY <1>2 DEF RewriteDue
  <2>2. r # p
    BY <1>2, <2>1
  <2> QED
    BY <1>5, <2>1, <2>2 DEF Slots, Phones
<1> QED
  BY <1>2, <1>3, <1>6, <1>7, DialUntouched

(* A copy of a sound list is sound. *)
LEMMA ReadStep ==
  ASSUME EccInv, NEW p \in Phones, ReadList(p)
  PROVE  EccInv'
<1> USE DEF EccInv
<1> DEFINE u == [update[p] EXCEPT !.pc = "set", !.numbers = ecclist[update[p].slot]]
<1>1. update[p] \in Update /\ update[p].slot \in Slots
  BY DEF TypeOK, Update
<1>2. u \in Update /\ u.pc = "set" /\ u.slot = update[p].slot
      /\ u.numbers = ecclist[update[p].slot]
  BY <1>1 DEF Update, TypeOK
<1>3. update' = [update EXCEPT ![p] = u]
  BY <1>1 DEF ReadList, TypeOK, Update
<1> HIDE DEF u
<1>4. UNCHANGED <<card, ecclist, vendor, answer, skipped,
                  mHashMapForNetworkEccCategory, dial>>
  BY DEF ReadList
<1>5. TypeOK'
  BY <1>2, <1>3, <1>4 DEF TypeOK
<1>6. \A r \in Slots : VendorList(r)' = VendorList(r)
  BY <1>4 DEF VendorList
<1>7. update'[p] = u /\ \A q \in Phones \ {p} : update'[q] = update[q]
  BY <1>3 DEF TypeOK
<1>8. ListsSound'
  BY <1>2, <1>4, <1>6, <1>7 DEF ListsSound, Sound, Rewritten
<1>9. update[p].pc # "idle"
  BY DEF ReadList
<1>10. RewriteDue'
  BY <1>2, <1>4, <1>6, <1>7, <1>9 DEF RewriteDue, Rewritten, Slots, Phones
<1> QED
  BY <1>4, <1>5, <1>8, <1>10, DialUntouched

(* Writing back a sound copy leaves the list rewritten exactly once. *)
LEMMA SetStep ==
  ASSUME EccInv, NEW p \in Phones, SetList(p)
  PROVE  EccInv'
<1> USE DEF EccInv
<1> DEFINE s == update[p].slot
           u == IF s = 0 THEN [Idle EXCEPT !.pc = "read", !.slot = 1] ELSE Idle
<1>1. s \in Slots /\ update[p].numbers \in SUBSET Numbers /\ update[p].pc = "set"
  BY DEF TypeOK, Update, SetList
<1>2. u \in Update /\ u.pc # "set" /\ (s = 0 => u.pc = "read" /\ u.slot = 1)
  BY DEF Idle, Update, Slots
<1>3. /\ ecclist' = [ecclist EXCEPT ![s] = Rewritten(update[p].numbers)]
      /\ update' = [update EXCEPT ![p] = u]
      /\ UNCHANGED <<card, vendor, answer, skipped, mHashMapForNetworkEccCategory,
                     dial>>
  BY DEF SetList
<1> HIDE DEF u
<1>4. TypeOK'
  BY <1>1, <1>2, <1>3, ListTypes DEF TypeOK
<1>5. \A r \in Slots : VendorList(r)' = VendorList(r)
  BY <1>3 DEF VendorList
<1>6. update'[p] = u /\ \A q \in Phones \ {p} : update'[q] = update[q]
  BY <1>3 DEF TypeOK
<1>7. vendor[s] = "done" => ecclist'[s] = Rewritten(VendorList(s))
  <2>1. vendor[s] = "done" => Sound(s, update[p].numbers)
    BY <1>1 DEF ListsSound
  <2> QED
    BY <1>1, <1>3, <2>1, SoundList DEF TypeOK
<1>8. \A r \in Slots \ {s} : ecclist'[r] = ecclist[r]
  BY <1>3 DEF TypeOK
<1>9. ListsSound'
  BY <1>1, <1>2, <1>3, <1>5, <1>6, <1>7, <1>8 DEF ListsSound, Sound, Rewritten
<1>10. RewriteDue'
  <2> SUFFICES ASSUME NEW r \in Slots, vendor[r] = "done", r \notin skipped,
                      r # s, ~answer[r],
                      ecclist[r] # Rewritten(VendorList(r))
               PROVE  update'[r].pc # "idle" /\ update'[r].slot <= r
    BY <1>3, <1>5, <1>7, <1>8 DEF RewriteDue, Rewritten
  <2>1. update[r].pc # "idle" /\ update[r].slot <= r
    BY DEF RewriteDue
  <2>2. CASE r = p
    BY <1>1, <1>2, <1>6, <2>1, <2>2 DEF Slots
  <2>3. CASE r # p
    BY <1>6, <2>1, <2>3 DEF Slots, Phones
  <2> QED
    BY <2>2, <2>3
<1> QED
  BY <1>3, <1>4, <1>9, <1>10, DialUntouched

(* The main thread leaves the lists alone. *)
LEMMA ListsUntouched ==
  ASSUME EccInv, UNCHANGED <<card, ecclist, vendor, answer, skipped, update>>,
         dial' \in Dial,
         mHashMapForNetworkEccCategory' \in [Numbers -> Nat], DialKnows'
  PROVE  EccInv'
<1>1. \A s \in Slots : VendorList(s)' = VendorList(s)
  BY DEF VendorList
<1> QED
  BY <1>1 DEF EccInv, TypeOK, ListsSound, RewriteDue, Sound, Rewritten

(* A dial begins with nothing found out. *)
LEMMA StartStep ==
  ASSUME EccInv, NEW n \in Numbers, StartDial(n)
  PROVE  EccInv'
<1>1. PICK l \in NetworkLists :
        /\ mHashMapForNetworkEccCategory' = l
        /\ dial' = [pc |-> IF l[n] # NoCategory THEN "emergency" ELSE "sim1",
                    number |-> n, inserted |-> FALSE, calm |-> Quiet,
                    category |-> IF l[n] # NoCategory THEN l[n] ELSE 0]
  BY DEF StartDial
<1>2. l \in [Numbers -> Nat] /\ Quiet \in BOOLEAN
  BY DEF Quiet
<1>3. /\ dial' \in Dial /\ dial'.pc \in {"emergency", "sim1"} /\ ~dial'.inserted
      /\ dial'.calm = Quiet
  BY <1>1, <1>2 DEF Dial, Deciding
<1>4. UNCHANGED <<card, ecclist, vendor, answer, skipped, update>>
  BY DEF StartDial
<1>5. DialKnows'
  BY <1>3, <1>4 DEF DialKnows, Quiet
<1> QED
  BY <1>1, <1>2, <1>3, <1>4, <1>5, ListsUntouched

(* A number that is sent as an emergency call. *)
LEMMA EmergencyStep ==
  ASSUME EccInv, EmergencyDial(mHashMapForNetworkEccCategory),
         UNCHANGED <<card, ecclist, vendor, answer, skipped, update,
                     mHashMapForNetworkEccCategory>>
  PROVE  EccInv'
<1> DEFINE c == ServiceCategory(mHashMapForNetworkEccCategory, dial.number)
<1>1. dial \in Dial /\ dial.number \in Numbers
  BY DEF EccInv, TypeOK, Dial
<1>2. c \in Nat
  BY <1>1, CategoryType DEF EccInv, TypeOK
<1> HIDE DEF c
<1>3. dial' = [dial EXCEPT !.pc = "emergency", !.inserted = FALSE, !.category = c]
  BY DEF EmergencyDial, c
<1>4. dial' \in Dial /\ dial'.pc = "emergency" /\ dial'.calm = dial.calm
  BY <1>1, <1>2, <1>3 DEF Dial
<1>5. DialKnows'
  BY <1>4 DEF EccInv, DialKnows, Quiet, Deciding
<1> QED
  BY <1>4, <1>5, ListsUntouched DEF EccInv, TypeOK

(* A number that is not found in the list of a slot is on no card there;   *)
(* with no card, a list that is not empty had all of ecc_list.xml.         *)
LEMMA LookUpStep ==
  ASSUME EccInv, LookUpSim
  PROVE  EccInv'
<1>1. UNCHANGED <<card, ecclist, vendor, answer, skipped, update,
                  mHashMapForNetworkEccCategory>>
  BY DEF LookUpSim
<1>2. dial \in Dial
  BY DEF EccInv, TypeOK
<1>3. ASSUME NEW s \in Slots, NEW next \in {"sim2", "custom"},
             dial.number \notin ecclist[s], dial.pc \in {"sim1", "sim2"},
             next = "sim2" => s = 0,
             next = "custom" => s = 1 /\ dial.pc = "sim2",
             dial' = [dial EXCEPT !.pc = next,
                                  !.inserted = dial.inserted \/ ecclist[s] # {}]
      PROVE  EccInv'
  <2>1. /\ dial' \in Dial /\ dial'.pc = next /\ dial'.number = dial.number
        /\ dial'.inserted = (dial.inserted \/ ecclist[s] # {})
        /\ dial'.calm = dial.calm
    BY <1>2, <1>3 DEF Dial, Deciding
  <2>2. DialKnows'
    <3> SUFFICES ASSUME dial.calm PROVE DialKnows'
      BY <2>1 DEF DialKnows
    <3>1. Quiet /\ Quiet'
      BY <1>1 DEF EccInv, DialKnows, Quiet
    <3>2. Sound(s, ecclist[s])
      BY <3>1 DEF EccInv, ListsSound, Quiet
    <3>3. card[s] => dial.number \notin SimEcc[s]
      BY <1>3, <3>2, SoundList DEF VendorList
    <3>4. ~card[s] /\ ecclist[s] # {} => dial.number \notin mCustomizedEccList
      BY <1>3, <3>2, SoundList
    <3>5. dial'.inserted /\ NoCard => dial.number \notin mCustomizedEccList
      BY <1>3, <2>1, <3>4 DEF EccInv, DialKnows, Deciding, NoCard
    <3>6. next = "custom" /\ card[0] => dial.number \notin SimEcc[0]
      BY <1>3 DEF EccInv, DialKnows
    <3>7. mCustomizedEccList' = mCustomizedEccList /\ NoCard' = NoCard
      BY <1>1 DEF mCustomizedEccList, fixedList, fixedListNoSim, NoCard
    <3> QED
      BY <1>1, <1>3, <2>1, <3>1, <3>3, <3>5, <3>6, <3>7 DEF DialKnows
  <2> QED
    BY <1>1, <2>1, <2>2, ListsUntouched DEF EccInv, TypeOK
<1>4. CASE EmergencyDial(mHashMapForNetworkEccCategory)
  BY <1>1, <1>4, EmergencyStep
<1>5. CASE dial.pc = "sim1" /\ LookUp(0, "sim2")
  BY <1>3, <1>4, <1>5 DEF LookUp, Slots
<1>6. CASE dial.pc = "sim2" /\ LookUp(1, "custom")
  BY <1>3, <1>4, <1>6 DEF LookUp, Slots
<1> QED
  BY <1>5, <1>6 DEF LookUpSim

(* The customized list comes last. *)
LEMMA CustomStep ==
  ASSUME EccInv, LookUpCustom
  PROVE  EccInv'
<1>1. UNCHANGED <<card, ecclist, vendor, answer, skipped, update,
                  mHashMapForNetworkEccCategory>>
  BY DEF LookUpCustom
<1>2. dial \in Dial /\ dial.pc = "custom"
  BY DEF EccInv, TypeOK, LookUpCustom
<1>3. CASE /\ dial' = [dial EXCEPT !.pc = "normal", !.inserted = FALSE]
           /\ dial.number \notin (IF dial.inserted THEN fixedList
                                   ELSE mCustomizedEccList)
  <2>1. /\ dial' \in Dial /\ dial'.pc = "normal" /\ dial'.number = dial.number
        /\ dial'.calm = dial.calm
    BY <1>2, <1>3 DEF Dial
  <2>2. dial.calm /\ NoCard => dial.number \notin mCustomizedEccList
    BY <1>2, <1>3 DEF EccInv, DialKnows, Deciding
  <2>3. DialKnows'
    BY <1>1, <1>2, <2>1, <2>2
       DEF EccInv, DialKnows, Quiet, NoCard, mCustomizedEccList, fixedList,
           fixedListNoSim, Deciding
  <2> QED
    BY <1>1, <2>1, <2>3, ListsUntouched DEF EccInv, TypeOK
<1>4. CASE EmergencyDial(mHashMapForNetworkEccCategory)
  BY <1>1, <1>4, EmergencyStep
<1> QED
  BY <1>3, <1>4 DEF LookUpCustom

-----------------------------------------------------------------------------
(* Every step keeps the invariant. *)
LEMMA EccStep ==
  ASSUME EccInv, [Next]_vars
  PROVE  EccInv'
<1>1. CASE UNCHANGED vars
  BY <1>1, ListsUntouched, DialUntouched DEF vars, EccInv, TypeOK
<1> QED
  BY <1>1, CardStep, AnswerStep, ProcessStep, ReadStep, SetStep, ThrowsStep,
     StartStep, LookUpStep, CustomStep DEF Next, VendorStep, ReceiverStep, MainStep

-----------------------------------------------------------------------------
(* What a dial takes for an emergency number. *)

(* A calm dial that has passed a slot with a card knows of a card, and one *)
(* that found an emergency number was allowed to.                          *)
DialJustified ==
  dial.calm =>
    /\ dial.pc \in {"sim2", "custom"} /\ card[0] => dial.inserted
    /\ dial.pc = "custom" /\ card[1] => dial.inserted
    /\ dial.pc = "emergency" => MayBeEmergency(dial.number)

(* A sound list of a slot with a card is not empty, and every number on a  *)
(* sound list may be an emergency number.                                  *)
LEMMA SoundJustified ==
  ASSUME NEW s \in Slots, NEW list, Sound(s, list), card \in [Slots -> BOOLEAN]
  PROVE  /\ card[s] => list # {}
         /\ \A n \in list : MayBeEmergency(n)
<1>1. CASE card[s]
  <2>1. VendorList(s) = SimEcc[s] /\ SimEcc[s] # {}
    BY <1>1 DEF VendorList
  <2>2. Rewritten(SimEcc[s]) = SimEcc[s] \cup fixedList
    BY <2>1 DEF Rewritten
  <2>3. list = SimEcc[s] \/ list = SimEcc[s] \cup fixedList
    BY <2>1, <2>2 DEF Sound
  <2> QED
    BY <1>1, <2>1, <2>3 DEF MayBeEmergency
<1>2. CASE ~card[s]
  <2>1. list \subseteq fixedList \cup fixedListNoSim
    BY <1>2, SoundList DEF mCustomizedEccList
  <2> QED
    BY <1>2, <2>1 DEF MayBeEmergency
<1> QED
  BY <1>1, <1>2

(* A dial that is as it was, and no calmer. *)
LEMMA JustifiedUntouched ==
  ASSUME DialJustified, UNCHANGED <<card, mHashMapForNetworkEccCategory>>,
         dial'.calm => dial.calm, dial'.pc = dial.pc, dial'.number = dial.number,
         dial'.inserted = dial.inserted
  PROVE  DialJustified'
<1>1. MayBeEmergency(dial.number)' = MayBeEmergency(dial.number)
  BY DEF MayBeEmergency, fixedList, fixedListNoSim
<1> QED
  BY <1>1 DEF DialJustified

(* An emergency call for a number that may be one. *)
LEMMA JustifiedEmergency ==
  ASSUME TypeOK, EmergencyDial(mHashMapForNetworkEccCategory),
         dial.calm => MayBeEmergency(dial.number),
         UNCHANGED <<card, mHashMapForNetworkEccCategory>>
  PROVE  DialJustified'
<1>1. dial'.pc = "emergency" /\ dial'.calm = dial.calm /\ dial'.number = dial.number
  BY DEF EmergencyDial, TypeOK, Dial
<1>2. MayBeEmergency(dial.number)' = MayBeEmergency(dial.number)
  BY <1>1 DEF MayBeEmergency, fixedList, fixedListNoSim
<1> QED
  BY <1>1, <1>2 DEF DialJustified

(* A lookup in the list of a slot. *)
LEMMA JustifiedLookUp ==
  ASSUME EccInv, DialJustified, LookUpSim
  PROVE  DialJustified'
<1>1. /\ UNCHANGED <<card, mHashMapForNetworkEccCategory>>
      /\ TypeOK /\ dial \in Dial
  BY DEF LookUpSim, EccInv, TypeOK
<1>2. ASSUME NEW s \in Slots, dial.calm
      PROVE  /\ card[s] => ecclist[s] # {}
             /\ \A n \in ecclist[s] : MayBeEmergency(n)
  <2>1. Sound(s, ecclist[s])
    BY <1>2 DEF EccInv, DialKnows, Quiet, ListsSound
  <2> QED
    BY <1>1, <2>1, SoundJustified DEF TypeOK
<1>3. ASSUME NEW s \in Slots, EmergencyDial(mHashMapForNetworkEccCategory),
             dial.number \in ecclist[s]
      PROVE  DialJustified'
  BY <1>1, <1>2, <1>3, JustifiedEmergency
<1>4. CASE dial.pc = "sim1" /\ LookUp(0, "sim2")
  <2>1. CASE dial.number \in ecclist[0]
    BY <1>3, <1>4, <2>1 DEF LookUp, Slots
  <2>2. CASE dial.number \notin ecclist[0]
    <3>1. dial' = [dial EXCEPT !.pc = "sim2",
                               !.inserted = dial.inserted \/ ecclist[0] # {}]
      BY <1>4, <2>2 DEF LookUp
    <3>2. /\ dial'.pc = "sim2" /\ dial'.calm = dial.calm
          /\ dial'.inserted = (dial.inserted \/ ecclist[0] # {})
      BY <1>1, <3>1 DEF Dial
    <3>3. dial.calm /\ card[0] => ecclist[0] # {}
      BY <1>2 DEF Slots
    <3> QED
      BY <1>1, <3>2, <3>3 DEF DialJustified
  <2> QED
    BY <2>1, <2>2
<1>5. CASE dial.pc = "sim2" /\ LookUp(1, "custom")
  <2>1. CASE dial.number \in ecclist[1]
    BY <1>3, <1>5, <2>1 DEF LookUp, Slots
  <2>2. CASE dial.number \notin ecclist[1]
    <3>1. dial' = [dial EXCEPT !.pc = "custom",
                               !.inserted = dial.inserted \/ ecclist[1] # {}]
      BY <1>5, <2>2 DEF LookUp
    <3>2. /\ dial'.pc = "custom" /\ dial'.calm = dial.calm
          /\ dial'.inserted = (dial.inserted \/ ecclist[1] # {})
      BY <1>1, <3>1 DEF Dial
    <3>3. dial.calm /\ card[1] => ecclist[1] # {}
      BY <1>2 DEF Slots
    <3> QED
      BY <1>1, <1>5, <3>2, <3>3 DEF DialJustified
  <2> QED
    BY <2>1, <2>2
<1> QED
  BY <1>4, <1>5 DEF LookUpSim

(* The customized list comes last: for no card only if no card was seen.   *)
LEMMA JustifiedCustom ==
  ASSUME EccInv, DialJustified, LookUpCustom
  PROVE  DialJustified'
<1>1. /\ UNCHANGED <<card, mHashMapForNetworkEccCategory>>
      /\ TypeOK /\ dial \in Dial /\ dial.pc = "custom" /\ card \in [Slots -> BOOLEAN]
  BY DEF LookUpCustom, EccInv, TypeOK
<1>2. CASE /\ EmergencyDial(mHashMapForNetworkEccCategory)
           /\ dial.number \in IF dial.inserted THEN fixedList ELSE mCustomizedEccList
  <2>1. dial.calm /\ ~dial.inserted => ~card[0]
    BY <1>1 DEF DialJustified
  <2>2. dial.calm => MayBeEmergency(dial.number)
    BY <1>2, <2>1 DEF MayBeEmergency, mCustomizedEccList, Slots
  <2> QED
    BY <1>1, <1>2, <2>2, JustifiedEmergency
<1>3. CASE dial' = [dial EXCEPT !.pc = "normal", !.inserted = FALSE]
  <2>1. dial'.pc = "normal"
    BY <1>1, <1>3 DEF Dial
  <2> QED
    BY <2>1 DEF DialJustified
<1> QED
  BY <1>2, <1>3 DEF LookUpCustom

(* Every step keeps it. *)
LEMMA JustifiedStep ==
  ASSUME EccInv, DialJustified, [Next]_vars
  PROVE  DialJustified'
<1>1. dial \in Dial
  BY DEF EccInv, TypeOK
<1>2. CASE UNCHANGED vars \/ \E p \in Phones : ReceiverStep(p)
  BY <1>2, JustifiedUntouched
     DEF vars, ReceiverStep, ProcessSimStatus, ReadList, SetList, UpdateThrows
<1>3. CASE \E s \in Slots : CardChange(s)
  <2>1. dial' = [dial EXCEPT !.calm = FALSE]
    BY <1>3 DEF CardChange
  <2>2. dial'.calm = FALSE
    BY <1>1, <2>1 DEF Dial
  <2> QED
    BY <2>2 DEF DialJustified
<1>4. CASE \E p \in Phones : AnswerSimStatus(p)
  <2>1. PICK p \in Phones : AnswerSimStatus(p)
    BY <1>4
  <2>2. dial' = [dial EXCEPT !.calm = dial.calm /\ ~Rewriting(p)]
    BY <2>1 DEF AnswerSimStatus
  <2>3. /\ dial'.calm = (dial.calm /\ ~Rewriting(p)) /\ dial'.pc = dial.pc
        /\ dial'.number = dial.number /\ dial'.inserted = dial.inserted
    BY <1>1, <2>2 DEF Dial
  <2> QED
    BY <2>1, <2>3, JustifiedUntouched DEF AnswerSimStatus
<1>5. CASE \E n \in Numbers : StartDial(n)
  <2>1. PICK n \in Numbers, l \in NetworkLists :
          /\ mHashMapForNetworkEccCategory' = l
          /\ dial' = [pc |-> IF l[n] # NoCategory THEN "emergency" ELSE "sim1",
                      number |-> n, inserted |-> FALSE, calm |-> Quiet,
                      category |-> IF l[n] # NoCategory THEN l[n] ELSE 0]
    BY <1>5 DEF StartDial
  <2>2. /\ dial'.number = n
        /\ dial'.pc = IF l[n] # NoCategory THEN "emergency" ELSE "sim1"
    BY <2>1
  <2>3. l[n] # NoCategory => MayBeEmergency(n)'
    BY <2>1 DEF MayBeEmergency, NoCategory
  <2> QED
    BY <2>2, <2>3 DEF DialJustified
<1> QED
  BY <1>2, <1>3, <1>4, <1>5, JustifiedLookUp, JustifiedCustom
     DEF Next, VendorStep, MainStep

-----------------------------------------------------------------------------
(* However the vendor's writes, the updates of both receivers and the      *)
(* lookups of a dial interleave: once all is processed a list has been     *)
(* rewritten exactly once; the card's numbers are on it from the vendor's  *)
(* write on; and a calm dial sends no emergency number as a normal call    *)
(* and no other number as an emergency call.                               *)
THEOREM EccListSafe ==
  Spec => [](TypeOK /\ UpdatedAfterwards /\ SimEccListed /\ DialClassified)
<1> DEFINE Inv == EccInv /\ DialJustified
<1>1. EccInv => UpdatedAfterwards
  BY DEF EccInv, UpdatedAfterwards, Settled, RewriteDue, Slots, Phones
<1>2. EccInv => SimEccListed
  <2> SUFFICES ASSUME EccInv, NEW s \in Slots, card[s], vendor[s] = "done"
               PROVE  SimEcc[s] \subseteq ecclist[s]
    BY DEF SimEccListed
  <2>1. Sound(s, ecclist[s])
    BY DEF EccInv, ListsSound
  <2> QED
    BY <2>1, SoundList DEF VendorList
<1>3. EccInv /\ DialJustified => DialClassified
  <2>1. EccInv /\ dial.calm /\ dial.pc = "normal" => ~MustBeEmergency(dial.number)
    BY DEF EccInv, MustBeEmergency, DialKnows, NoCard, Slots
  <2> QED
    BY <2>1 DEF DialJustified, DialClassified
<1>4. EccInv => TypeOK
  BY DEF EccInv
<1>5. Init => Inv
  BY EccInitial DEF Init, DialJustified
<1>6. Inv /\ [Next]_vars => Inv'
  BY EccStep, JustifiedStep
<1> QED
  BY <1>1, <1>2, <1>3, <1>4, <1>5, <1>6, PTL DEF Spec
=============================================================================
