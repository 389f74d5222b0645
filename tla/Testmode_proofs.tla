--------------------------- MODULE Testmode_proofs ---------------------------
(* Theorems about Testmode, for any filters, rates, stations, words, signal *)
(* levels and sizes of buffers.                                             *)
EXTENDS Testmode, FiniteSetTheorems, TLAPS

-----------------------------------------------------------------------------
(* What a message sets. *)

(* The version above bit 23 leaves the index of a message what it is. *)
LEMMA IndexOf ==
  /\ Header(SW_CMD) % 2^24 = SW_CMD
  /\ Header(HS20) % 2^24 # SW_CMD
  /\ Header(RXFILTER) % 2^24 # SW_CMD
  /\ Header(SUSPEND) % 2^24 # SW_CMD
  /\ HandlerOf(Header(STATISTICS))
BY DEF Header, SW_CMD, HS20, RXFILTER, SUSPEND, STATISTICS, HandlerOf

(* What g holds is what f holds but for v at k. *)
Updates(g, f, k, v) == /\ g \in [Thing -> Nat] /\ g[k] = v
                       /\ \A t \in Thing \ {k} : g[t] = f[t]

(* A message of one effect sets that thing and no other. *)
LEMMA SetOne ==
  ASSUME NEW f \in [Thing -> Nat], NEW k \in Thing, NEW v \in Nat,
         NEW g, g = Set(f, {<<k, v>>})
  PROVE  Updates(g, f, k, v) /\ Changed({<<k, v>>}) = {k}
<1> DEFINE effects == {<<k, v>>}
           effect(t) == CHOOSE e \in effects : e[1] = t
<1>1. effect(k) = <<k, v>>
  <2>1. \E e \in effects : e[1] = k
    OBVIOUS
  <2>2. effect(k) \in effects
    BY <2>1
  <2> QED
    BY <2>2
<1>2. \A t \in Thing : (\E e \in effects : e[1] = t) <=> t = k
  OBVIOUS
<1>3. g = [t \in Thing |-> IF \E e \in effects : e[1] = t
                           THEN effect(t)[2] ELSE f[t]]
  BY DEF Set
<1> HIDE DEF effect, effects
<1>4. ASSUME NEW t \in Thing
      PROVE  g[t] = IF t = k THEN v ELSE f[t]
  <2>1. CASE t = k
    <3>1. g[t] = effect(k)[2]
      BY <1>2, <1>3, <2>1
    <3> QED
      BY <1>1, <2>1, <3>1
  <2>2. CASE t # k
    BY <1>2, <1>3, <2>2
  <2> QED
    BY <2>1, <2>2
<1>5. g \in [Thing -> Nat]
  <2>1. \A t \in Thing : g[t] \in Nat
    BY <1>4
  <2> QED
    BY <1>3, <2>1
<1>6. Changed({<<k, v>>}) = {k}
  BY DEF Changed
<1> QED
  BY <1>4, <1>5, <1>6 DEF Updates

(* And but for u at j as well. *)
UpdatesBoth(g, f, j, u, k, v) ==
  /\ g \in [Thing -> Nat] /\ g[j] = u /\ g[k] = v
  /\ \A t \in Thing \ {j, k} : g[t] = f[t]

(* A message of two effects sets both things and no other. *)
LEMMA SetTwo ==
  ASSUME NEW f \in [Thing -> Nat], NEW j \in Thing, NEW k \in Thing, j # k,
         NEW u \in Nat, NEW v \in Nat, NEW g, g = Set(f, {<<j, u>>, <<k, v>>})
  PROVE  /\ UpdatesBoth(g, f, j, u, k, v)
         /\ Changed({<<j, u>>, <<k, v>>}) = {j, k}
<1> DEFINE effects == {<<j, u>>, <<k, v>>}
           effect(t) == CHOOSE e \in effects : e[1] = t
<1>1. ASSUME NEW e \in effects
      PROVE  effect(e[1]) = e
  <2>1. \E d \in effects : d[1] = e[1]
    OBVIOUS
  <2>2. effect(e[1]) \in effects /\ effect(e[1])[1] = e[1]
    BY <2>1
  <2> QED
    BY <2>2
<1>2. effect(j) = <<j, u>> /\ effect(k) = <<k, v>>
  <2>1. <<j, u>> \in effects /\ <<j, u>>[1] = j
    OBVIOUS
  <2>2. <<k, v>> \in effects /\ <<k, v>>[1] = k
    OBVIOUS
  <2> HIDE DEF effects, effect
  <2> QED
    BY <1>1, <2>1, <2>2
<1>3. \A t \in Thing : (\E e \in effects : e[1] = t) <=> t \in {j, k}
  OBVIOUS
<1>4. g = [t \in Thing |-> IF \E e \in effects : e[1] = t
                           THEN effect(t)[2] ELSE f[t]]
  BY DEF Set
<1> HIDE DEF effect, effects
<1>5. ASSUME NEW t \in Thing
      PROVE  g[t] = IF t = k THEN v ELSE IF t = j THEN u ELSE f[t]
  <2>1. CASE t \in {j, k}
    <3>1. g[t] = effect(t)[2]
      BY <1>3, <1>4, <2>1
    <3> QED
      BY <1>2, <2>1, <3>1
  <2>2. CASE t \notin {j, k}
    BY <1>3, <1>4, <2>2
  <2> QED
    BY <2>1, <2>2
<1>6. g \in [Thing -> Nat]
  <2>1. \A t \in Thing : g[t] \in Nat
    BY <1>5
  <2> QED
    BY <1>4, <2>1
<1>7. Changed({<<j, u>>, <<k, v>>}) = {j, k}
  BY DEF Changed
<1> QED
  BY <1>5, <1>6, <1>7 DEF UpdatesBoth

(* A software command has the one effect its address and data encode. *)
LEMMA SwCmdEffects ==
  ASSUME NEW adr, NEW data
  PROVE  Effects(SwCmd(adr, data)) = {SwEffect(adr, data)}
<1>1. SwCmd(adr, data).index % 2^24 = SW_CMD
  BY IndexOf DEF SwCmd
<1>2. SwCmd(adr, data).set = {<<adr, data>>}
  BY DEF SwCmd
<1> QED
  BY <1>1, <1>2 DEF Effects

(* The numbers the receive filter commands compute are told apart by what  *)
(* they hold above the filter's number.                                     *)
LEMMA FilterEffects ==
  /\ \A i \in Indexes : /\ SwEffect(RxFilterAdr, 9437696 + i) = <<<<"filter", i>>, 1>>
                        /\ SwEffect(RxFilterAdr, 9437952 + i) = <<<<"filter", i>>, 0>>
  /\ SwEffect(RxFilterAdr, 9437184) = <<<<"receive", 0>>, 0>>
  /\ SwEffect(RxFilterAdr, 9437440) = <<<<"receive", 0>>, 1>>
<1> DEFINE op(d) == (d - 9437184) \div 256
<1>1. ASSUME NEW d \in Nat
      PROVE  /\ op(d) \in {0, 1} => SwEffect(RxFilterAdr, d) = <<<<"receive", 0>>, op(d)>>
             /\ op(d) = 2 => SwEffect(RxFilterAdr, d) = <<<<"filter", d % 256>>, 1>>
             /\ op(d) = 3 => SwEffect(RxFilterAdr, d) = <<<<"filter", d % 256>>, 0>>
  <2>0. RxFilterAdr # SmtRateAdr /\ RxFilterAdr \notin BandAdr .. BandAdr + 2
    BY DEF RxFilterAdr, SmtRateAdr, BandAdr
  <2>1. CASE op(d) \in {0, 1}
    BY SMT, <2>0, <2>1 DEF SwEffect
  <2>2. CASE op(d) = 2
    BY SMT, <2>0, <2>2 DEF SwEffect
  <2>3. CASE op(d) = 3
    BY SMT, <2>0, <2>3 DEF SwEffect
  <2> QED
    BY <2>1, <2>2, <2>3
<1>2. ASSUME NEW i \in Indexes
      PROVE  /\ op(9437696 + i) = 2 /\ (9437696 + i) % 256 = i
             /\ op(9437952 + i) = 3 /\ (9437952 + i) % 256 = i
             /\ 9437696 + i \in Nat /\ 9437952 + i \in Nat
  BY CommandsAssumption
<1>3. op(9437184) = 0 /\ op(9437440) = 1
  OBVIOUS
<1> HIDE DEF op
<1>4. ASSUME NEW i \in Indexes
      PROVE  /\ SwEffect(RxFilterAdr, 9437696 + i) = <<<<"filter", i>>, 1>>
             /\ SwEffect(RxFilterAdr, 9437952 + i) = <<<<"filter", i>>, 0>>
  BY <1>1, <1>2
<1> QED
  BY <1>1, <1>3, <1>4

(* So are the addresses of the test modes, the rate and the bands: a test  *)
(* mode is switched on by its even address and off by the odd one.         *)
LEMMA AddressEffects ==
  /\ \A t \in Tests : /\ SwEffect(t, 0) = <<<<"test", t>>, 1>>
                      /\ SwEffect(t + 1, 0) = <<<<"test", t>>, 0>>
  /\ \A r \in Rates : SwEffect(SmtRateAdr, r) = <<<<"rate", 0>>, r>>
  /\ \A b \in 0 .. 2 : SwEffect(BandAdr + b, 0) = <<<<"band", 0>>, b>>
<1>1. ASSUME NEW t \in Tests
      PROVE  /\ SwEffect(t, 0) = <<<<"test", t>>, 1>>
             /\ SwEffect(t + 1, 0) = <<<<"test", t>>, 0>>
  <2>1. t \in {4660, 4704, 4706, 4708, 4710, 4712, 4720}
    BY CommandsAssumption
  <2>2. /\ t % 2 = 0 /\ (t + 1) % 2 = 1 /\ t - 0 = t /\ t + 1 - 1 = t
    BY <2>1
  <2>3. /\ t # RxFilterAdr /\ t # SmtRateAdr /\ t \notin BandAdr .. BandAdr + 2
        /\ t + 1 # RxFilterAdr /\ t + 1 # SmtRateAdr
        /\ t + 1 \notin BandAdr .. BandAdr + 2
    BY <2>1 DEF RxFilterAdr, SmtRateAdr, BandAdr
  <2>4. ASSUME NEW a \in Nat, a # RxFilterAdr, a # SmtRateAdr,
               a \notin BandAdr .. BandAdr + 2
        PROVE  SwEffect(a, 0) = <<<<"test", a - (a % 2)>>, 1 - (a % 2)>>
    BY SMT, <2>4 DEF SwEffect
  <2>5. t \in Nat /\ t + 1 \in Nat
    BY <2>1
  <2>6. SwEffect(t, 0) = <<<<"test", t - (t % 2)>>, 1 - (t % 2)>>
    BY <2>3, <2>4, <2>5
  <2>7. SwEffect(t + 1, 0) = <<<<"test", t + 1 - ((t + 1) % 2)>>, 1 - ((t + 1) % 2)>>
    BY <2>3, <2>4, <2>5
  <2> QED
    BY <2>2, <2>6, <2>7
<1>2. ASSUME NEW r \in Rates
      PROVE  SwEffect(SmtRateAdr, r) = <<<<"rate", 0>>, r>>
  <2>1. SmtRateAdr # RxFilterAdr /\ SmtRateAdr \notin BandAdr .. BandAdr + 2
    BY DEF RxFilterAdr, SmtRateAdr, BandAdr
  <2> QED
    BY SMT, <2>1 DEF SwEffect
<1>3. \A b \in 0 .. 2 : SwEffect(BandAdr + b, 0) = <<<<"band", 0>>, b>>
  BY SMT DEF SwEffect, SmtRateAdr, RxFilterAdr, BandAdr
<1> QED
  BY <1>1, <1>2, <1>3

-----------------------------------------------------------------------------
(* What the driver was told.  The properties are inductive together. *)

TestInv == /\ TypeOK /\ DriverFollows /\ AnswersHonest
           /\ ReportOfThisQuery /\ ReportWholeOrEmpty

(* Nothing is set, and no query is on. *)
LEMMA TestInitial == Init => TestInv
<1> SUFFICES ASSUME Init PROVE TestInv
  OBVIOUS
<1>1. /\ driver \in [Thing -> Nat] /\ asked = driver /\ lost = {} /\ Idle
  BY DEF Init, Idle
<1>2. TypeOK
  BY <1>1 DEF TypeOK
<1>3. DriverFollows /\ AnswersHonest
  BY <1>1 DEF DriverFollows, AnswersHonest
<1> QED
  BY <1>1, <1>2, <1>3 DEF TestInv, ReportOfThisQuery, ReportWholeOrEmpty

(* A command that leaves the report alone keeps what is said of it. *)
LEMMA CommandKeeps ==
  ASSUME TestInv, UNCHANGED report,
         driver' \in [Thing -> Nat], asked' \in [Thing -> Nat],
         lost' \subseteq Thing, DriverFollows', AnswersHonest'
  PROVE  TestInv'
<1>1. TypeOK'
  BY DEF TestInv, TypeOK, Idle
<1> QED
  BY <1>1 DEF TestInv, ReportOfThisQuery, ReportWholeOrEmpty, Idle

(* A command that answers 0 whatever happened: its thing is as asked, or   *)
(* lost; a later message that arrives takes it from the lost ones.         *)
LEMMA SwCmdStep ==
  ASSUME TestInv, NEW adr, NEW data, NEW k \in Thing, NEW v \in Nat,
         k[1] \notin {"station", "mask"}, SwEffect(adr, data) = <<k, v>>,
         driver_sw_cmd(adr, data, {<<k, v>>})
  PROVE  TestInv'
<1>1. /\ driver \in [Thing -> Nat] /\ asked \in [Thing -> Nat]
      /\ lost \subseteq Thing
  BY DEF TestInv, TypeOK
<1>2. /\ UNCHANGED report /\ asked' = Set(asked, {<<k, v>>})
      /\ testmode(SwCmd(adr, data), {<<k, v>>}) \/ testmodeFails({<<k, v>>})
  BY DEF driver_sw_cmd
<1>3. Updates(asked', asked, k, v) /\ Changed({<<k, v>>}) = {k}
  BY <1>1, <1>2, SetOne
<1>4. CASE testmode(SwCmd(adr, data), {<<k, v>>})
  <2>1. driver' = Set(driver, {<<k, v>>}) /\ lost' = lost \ {k}
    BY <1>3, <1>4, SwCmdEffects DEF testmode
  <2>2. Updates(driver', driver, k, v)
    BY <1>1, <2>1, SetOne
  <2>3. DriverFollows'
    BY <1>3, <2>1, <2>2 DEF TestInv, DriverFollows, Updates
  <2>4. AnswersHonest'
    BY <1>3, <2>1, <2>2 DEF TestInv, AnswersHonest, Updates
  <2>5. /\ lost' \subseteq Thing
        /\ driver' \in [Thing -> Nat] /\ asked' \in [Thing -> Nat]
    BY <1>1, <1>3, <2>1, <2>2 DEF Updates
  <2> QED
    BY <1>2, <2>3, <2>4, <2>5, CommandKeeps
<1>5. CASE testmodeFails({<<k, v>>})
  <2>1. driver' = driver /\ lost' = lost \cup {k}
    BY <1>3, <1>5 DEF testmodeFails
  <2>2. DriverFollows'
    BY <1>3, <2>1 DEF TestInv, DriverFollows, Updates
  <2>3. AnswersHonest'
    BY <1>3, <2>1 DEF TestInv, AnswersHonest, Updates
  <2>4. /\ lost' \subseteq Thing
        /\ driver' \in [Thing -> Nat] /\ asked' \in [Thing -> Nat]
    BY <1>1, <1>3, <2>1 DEF Updates
  <2> QED
    BY <1>2, <2>2, <2>3, <2>4, CommandKeeps
<1> QED
  BY <1>2, <1>4, <1>5

(* A message that is no software command sets what it carries. *)
LEMMA OtherEffects ==
  ASSUME NEW e, NEW index \in {HS20, RXFILTER, SUSPEND}
  PROVE  Effects([index |-> Header(index), set |-> e]) = e
BY IndexOf DEF Effects

(* Nothing is changed. *)
LEMMA FailsStep ==
  ASSUME TestInv, UNCHANGED <<report, asked>>, testmodeFails({})
  PROVE  TestInv'
<1>1. driver' = driver /\ lost' = lost
  BY DEF testmodeFails, Changed
<1> QED
  BY <1>1, CommandKeeps DEF TestInv, TypeOK, DriverFollows, AnswersHonest

(* A station is blocked or not as the answer says. *)
LEMMA StationStep ==
  ASSUME TestInv, NEW s \in Stations, NEW b \in {0, 1},
         hotspot_block_list_update(s, b)
  PROVE  TestInv'
<1> DEFINE k == <<"station", s>>
<1>1. k \in Thing /\ k[1] = "station" /\ b \in Nat
  BY DEF Thing
<1> HIDE DEF k
<1>2. /\ driver \in [Thing -> Nat] /\ asked \in [Thing -> Nat]
      /\ lost \subseteq Thing
  BY DEF TestInv, TypeOK
<1>3. /\ UNCHANGED report
      /\ answered([index |-> Header(HS20), set |-> {<<k, b>>}], {<<k, b>>})
  BY DEF hotspot_block_list_update, k
<1>4. CASE /\ testmode([index |-> Header(HS20), set |-> {<<k, b>>}], {<<k, b>>})
           /\ asked' = Set(asked, {<<k, b>>})
  <2>1. /\ driver' = Set(driver, {<<k, b>>})
        /\ lost' = lost \ Changed({<<k, b>>})
    BY <1>4, OtherEffects DEF testmode
  <2>2. Updates(driver', driver, k, b) /\ Changed({<<k, b>>}) = {k}
    BY <1>1, <1>2, <2>1, SetOne
  <2>3. Updates(asked', asked, k, b)
    BY <1>1, <1>2, <1>4, SetOne
  <2>4. DriverFollows'
    BY <2>1, <2>2, <2>3 DEF TestInv, DriverFollows, Updates
  <2>5. AnswersHonest'
    BY <2>2, <2>3 DEF TestInv, AnswersHonest, Updates
  <2>6. /\ lost' \subseteq Thing
        /\ driver' \in [Thing -> Nat] /\ asked' \in [Thing -> Nat]
    BY <1>2, <2>1, <2>2, <2>3 DEF Updates
  <2> QED
    BY <1>3, <2>4, <2>5, <2>6, CommandKeeps
<1>5. CASE testmodeFails({}) /\ UNCHANGED asked
  BY <1>3, <1>5, FailsStep
<1> QED
  BY <1>3, <1>4, <1>5 DEF answered

(* A packet filter is as asked but for words a long does not hold. *)
LEMMA FilterStep ==
  ASSUME TestInv, NEW high \in Words, NEW low \in Words,
         mtk_rx_packet_filter(high, low)
  PROVE  TestInv'
<1> DEFINE j == <<"mask", 1>>
           k == <<"mask", 2>>
<1>1. j \in Thing /\ k \in Thing /\ j # k /\ j[1] = "mask" /\ k[1] = "mask"
  BY DEF Thing
<1>2. /\ high \in Nat /\ low \in Nat /\ strtol(high) \in Nat /\ strtol(low) \in Nat
      /\ strtol(high) = high \/ high > LongMax
      /\ strtol(low) = low \/ low > LongMax
  BY NumbersAssumption DEF strtol
<1>3. /\ driver \in [Thing -> Nat] /\ asked \in [Thing -> Nat]
      /\ lost \subseteq Thing
  BY DEF TestInv, TypeOK
<1> DEFINE sent == {<<j, strtol(high)>>, <<k, strtol(low)>>}
           wanted == {<<j, high>>, <<k, low>>}
<1>4. /\ UNCHANGED report
      /\ answered([index |-> Header(RXFILTER), set |-> sent], wanted)
  BY DEF mtk_rx_packet_filter
<1> HIDE DEF j, k
<1>5. CASE /\ testmode([index |-> Header(RXFILTER), set |-> sent], wanted)
           /\ asked' = Set(asked, wanted)
  <2>1. driver' = Set(driver, sent) /\ lost' = lost \ Changed(wanted)
    BY <1>5, OtherEffects DEF testmode
  <2>2. UpdatesBoth(driver', driver, j, strtol(high), k, strtol(low))
    BY <1>1, <1>2, <1>3, <2>1, SetTwo
  <2>3. UpdatesBoth(asked', asked, j, high, k, low) /\ Changed(wanted) = {j, k}
    BY <1>1, <1>2, <1>3, <1>5, SetTwo
  <2>4. DriverFollows'
    BY <1>1, <2>1, <2>2, <2>3 DEF TestInv, DriverFollows, UpdatesBoth
  <2>5. AnswersHonest'
    BY <1>1, <1>2, <2>2, <2>3 DEF TestInv, AnswersHonest, UpdatesBoth
  <2>6. /\ lost' \subseteq Thing
        /\ driver' \in [Thing -> Nat] /\ asked' \in [Thing -> Nat]
    BY <1>3, <2>1, <2>2, <2>3 DEF UpdatesBoth
  <2> QED
    BY <1>4, <2>4, <2>5, <2>6, CommandKeeps
<1>6. CASE testmodeFails({}) /\ UNCHANGED asked
  BY <1>4, <1>6, FailsStep
<1> QED
  BY <1>4, <1>5, <1>6 DEF answered

(* The suspend mode is sent twice, and a mode that only the message set is *)
(* among the lost ones.                                                    *)
LEMMA SuspendStep ==
  ASSUME TestInv, NEW mode \in {0, 1}, SETSUSPENDMODE(mode)
  PROVE  TestInv'
<1> DEFINE k == <<"suspend", 0>>
<1>1. k \in Thing /\ k[1] = "suspend" /\ mode \in Nat
  BY DEF Thing
<1>2. /\ driver \in [Thing -> Nat] /\ asked \in [Thing -> Nat]
      /\ lost \subseteq Thing
  BY DEF TestInv, TypeOK
<1>3. /\ UNCHANGED report
      /\ \/ /\ testmode([index |-> Header(SUSPEND), set |-> {<<k, mode>>}],
                        {<<k, mode>>})
            /\ asked' = Set(asked, {<<k, mode>>})
         \/ /\ driver' = Set(driver, {<<k, mode>>})
            /\ lost' = lost \cup Changed({<<k, mode>>})
            /\ UNCHANGED asked
         \/ testmodeFails({}) /\ UNCHANGED asked
  BY DEF SETSUSPENDMODE
<1> HIDE DEF k
<1>4. ASSUME driver' = Set(driver, {<<k, mode>>})
      PROVE  Updates(driver', driver, k, mode) /\ Changed({<<k, mode>>}) = {k}
  BY <1>1, <1>2, <1>4, SetOne
<1>5. CASE /\ testmode([index |-> Header(SUSPEND), set |-> {<<k, mode>>}],
                       {<<k, mode>>})
           /\ asked' = Set(asked, {<<k, mode>>})
  <2>1. /\ driver' = Set(driver, {<<k, mode>>})
        /\ lost' = lost \ Changed({<<k, mode>>})
    BY <1>5, OtherEffects DEF testmode
  <2>2. Updates(driver', driver, k, mode) /\ Changed({<<k, mode>>}) = {k}
    BY <1>4, <2>1
  <2>3. Updates(asked', asked, k, mode)
    BY <1>1, <1>2, <1>5, SetOne
  <2>4. DriverFollows'
    BY <2>1, <2>2, <2>3 DEF TestInv, DriverFollows, Updates
  <2>5. AnswersHonest'
    BY <1>1, <2>2, <2>3 DEF TestInv, AnswersHonest, Updates
  <2>6. /\ lost' \subseteq Thing
        /\ driver' \in [Thing -> Nat] /\ asked' \in [Thing -> Nat]
    BY <1>2, <2>1, <2>2, <2>3 DEF Updates
  <2> QED
    BY <1>3, <2>4, <2>5, <2>6, CommandKeeps
<1>6. CASE /\ driver' = Set(driver, {<<k, mode>>})
           /\ lost' = lost \cup Changed({<<k, mode>>})
           /\ UNCHANGED asked
  <2>1. Updates(driver', driver, k, mode) /\ Changed({<<k, mode>>}) = {k}
    BY <1>4, <1>6
  <2>2. DriverFollows'
    BY <1>6, <2>1 DEF TestInv, DriverFollows, Updates
  <2>3. AnswersHonest'
    BY <1>1, <1>6, <2>1 DEF TestInv, AnswersHonest, Updates
  <2>4. /\ lost' \subseteq Thing
        /\ driver' \in [Thing -> Nat] /\ asked' \in [Thing -> Nat]
    BY <1>1, <1>2, <1>6, <2>1 DEF Updates
  <2> QED
    BY <1>3, <2>2, <2>3, <2>4, CommandKeeps
<1>7. CASE testmodeFails({}) /\ UNCHANGED asked
  BY <1>3, <1>7, FailsStep
<1> QED
  BY <1>3, <1>5, <1>6, <1>7

(* The software commands: each wants what its address and data encode. *)
LEMMA SwCmdsStep ==
  ASSUME TestInv,
         \/ \E i \in Indexes : rxfilter_add(i) \/ rxfilter_remove(i)
         \/ rxfilter_stop \/ rxfilter_start
         \/ \E t \in Tests : smt_test_on(t) \/ smt_test_off(t)
         \/ \E r \in Rates : smt_rate(r)
         \/ \E b \in 0 .. 2 : set_band(b)
  PROVE  TestInv'
<1>1. ASSUME NEW i \in Indexes, rxfilter_add(i) \/ rxfilter_remove(i)
      PROVE  TestInv'
  <2> DEFINE k == <<"filter", i>>
  <2>1. k \in Thing /\ k[1] = "filter"
    BY DEF Thing
  <2>2. /\ SwEffect(RxFilterAdr, 9437696 + i) = <<k, 1>>
        /\ SwEffect(RxFilterAdr, 9437952 + i) = <<k, 0>>
    BY FilterEffects
  <2>3. \/ driver_sw_cmd(RxFilterAdr, 9437696 + i, {<<k, 1>>})
        \/ driver_sw_cmd(RxFilterAdr, 9437952 + i, {<<k, 0>>})
    BY <1>1 DEF rxfilter_add, rxfilter_remove
  <2> HIDE DEF k
  <2> QED
    BY <2>1, <2>2, <2>3, SwCmdStep
<1>2. CASE rxfilter_stop \/ rxfilter_start
  <2> DEFINE k == <<"receive", 0>>
  <2>1. k \in Thing /\ k[1] = "receive"
    BY DEF Thing
  <2>2. /\ SwEffect(RxFilterAdr, 9437184) = <<k, 0>>
        /\ SwEffect(RxFilterAdr, 9437440) = <<k, 1>>
    BY FilterEffects
  <2>3. \/ driver_sw_cmd(RxFilterAdr, 9437184, {<<k, 0>>})
        \/ driver_sw_cmd(RxFilterAdr, 9437440, {<<k, 1>>})
    BY <1>2 DEF rxfilter_stop, rxfilter_start
  <2> HIDE DEF k
  <2> QED
    BY <2>1, <2>2, <2>3, SwCmdStep
<1>3. ASSUME NEW t \in Tests, smt_test_on(t) \/ smt_test_off(t)
      PROVE  TestInv'
  <2> DEFINE k == <<"test", t>>
  <2>1. k \in Thing /\ k[1] = "test"
    BY DEF Thing
  <2>2. SwEffect(t, 0) = <<k, 1>> /\ SwEffect(t + 1, 0) = <<k, 0>>
    BY AddressEffects
  <2>3. driver_sw_cmd(t, 0, {<<k, 1>>}) \/ driver_sw_cmd(t + 1, 0, {<<k, 0>>})
    BY <1>3 DEF smt_test_on, smt_test_off
  <2> HIDE DEF k
  <2> QED
    BY <2>1, <2>2, <2>3, SwCmdStep
<1>4. ASSUME NEW r \in Rates, smt_rate(r)
      PROVE  TestInv'
  <2> DEFINE k == <<"rate", 0>>
  <2>1. k \in Thing /\ k[1] = "rate" /\ r \in Nat
    BY CommandsAssumption DEF Thing
  <2>2. SwEffect(SmtRateAdr, r) = <<k, r>>
    BY AddressEffects
  <2>3. driver_sw_cmd(SmtRateAdr, r, {<<k, r>>})
    BY <1>4 DEF smt_rate
  <2> HIDE DEF k
  <2> QED
    BY <2>1, <2>2, <2>3, SwCmdStep
<1>5. ASSUME NEW b \in 0 .. 2, set_band(b)
      PROVE  TestInv'
  <2> DEFINE k == <<"band", 0>>
  <2>1. k \in Thing /\ k[1] = "band" /\ b \in Nat
    BY DEF Thing
  <2>2. SwEffect(BandAdr + b, 0) = <<k, b>>
    BY AddressEffects
  <2>3. driver_sw_cmd(BandAdr + b, 0, {<<k, b>>})
    BY <1>5 DEF set_band
  <2> HIDE DEF k
  <2> QED
    BY <2>1, <2>2, <2>3, SwCmdStep
<1> QED
  BY <1>1, <1>2, <1>3, <1>4, <1>5

-----------------------------------------------------------------------------
(* Statistics. *)

(* The lines that fit are printed; if all do, there is room for the 0. *)
LEMMA Printed ==
  ASSUME NEW s \in [Attributes -> Int], NEW buflen \in Nat,
         NEW p, p = print_sta_statistics(s, buflen)
  PROVE  /\ p.ret \in Nat /\ p.text \in Seq(Int)
         /\ \A i \in 1 .. Len(p.text) : i \in 1 .. 4
         /\ \A i \in 1 .. Len(p.text) \ {4} : p.text[i] = s[Report[i]]
         /\ p.ret > 0 => Len(p.text) = 4 /\ p.ret < buflen
<1> DEFINE fitting == {i \in 1 .. 4 : Fits(i, buflen)}
           n == Cardinality(fitting)
           line(i) == IF i = 4 THEN 0 ELSE s[Report[i]]
<1>1. Len(Report) = 4
  BY DEF Report
<1>2. p = [ret |-> IF n = 4 THEN n * LineLength ELSE 0,
           text |-> [i \in 1 .. n |-> line(i)]]
  BY <1>1 DEF print_sta_statistics
<1>3. IsFiniteSet(1 .. 4) /\ Cardinality(1 .. 4) = 4
  <2>1. PICK a \in Int, b \in Int : a = 1 /\ b = 4
    OBVIOUS
  <2>2. IsFiniteSet(a .. b) /\ Cardinality(a .. b) = IF a > b THEN 0 ELSE b - a + 1
    BY FS_Interval
  <2>3. IsFiniteSet(a .. b) /\ Cardinality(a .. b) = 4
    BY <2>1, <2>2
  <2> QED
    BY <2>1, <2>3
<1>4. fitting \subseteq 1 .. 4
  OBVIOUS
<1>5. n \in 0 .. 4 /\ (n = 4 => fitting = 1 .. 4)
  <2>1. IsFiniteSet(fitting) /\ n <= 4 /\ (n = 4 => fitting = 1 .. 4)
    <3> HIDE DEF fitting
    <3> QED
      BY <1>3, <1>4, FS_Subset
  <2>2. n \in Nat
    <3> HIDE DEF fitting
    <3> QED
      BY <2>1, FS_CardinalityType
  <2> QED
    BY <2>1, <2>2
<1>6. n = 4 => 4 * LineLength < buflen
  <2>1. n = 4 => 4 \in fitting
    BY <1>5
  <2> QED
    BY <2>1 DEF Fits
<1> HIDE DEF n, fitting
<1>7. \A i \in 1 .. n : line(i) \in Int
  <2>1. \A i \in 1 .. n : i = 4 \/ i \in 1 .. 3
    BY <1>5
  <2>2. \A i \in 1 .. 3 : Report[i] \in Attributes
    BY DEF Report, Attributes
  <2> QED
    BY <2>1, <2>2
<1>8. p.text = [i \in 1 .. n |-> line(i)]
  BY <1>2
<1> HIDE DEF line
<1>9. p.text \in [1 .. n -> Int]
  BY <1>7, <1>8
<1>10. p.text \in Seq(Int) /\ Len(p.text) = n
  BY <1>5, <1>9
<1>11. p.ret \in Nat /\ (p.ret > 0 => n = 4 /\ p.ret < buflen)
  <2>1. p.ret = IF n = 4 THEN n * LineLength ELSE 0
    BY <1>2
  <2>2. CASE n = 4
    BY <1>6, <2>1, <2>2, NumbersAssumption
  <2>3. CASE n # 4
    BY <2>1, <2>3
  <2> QED
    BY <2>2, <2>3
<1>12. ASSUME NEW i \in 1 .. n, i # 4
       PROVE  p.text[i] = s[Report[i]]
  BY <1>8, <1>12 DEF line
<1>13. 1 .. n \subseteq 1 .. 4
  BY <1>5
<1> QED
  BY <1>10, <1>11, <1>12, <1>13

(* What the handler stores is a number, and half of the level rounded      *)
(* towards 0 is within half a unit of it.                                  *)
LEMMA Stored ==
  ASSUME NEW q \in Stations, NEW sent \in Replies(q),
         NEW s, s = statistics_handler(memset, sent)
  PROVE  /\ s \in [Attributes -> Int] /\ DOMAIN sent \subseteq Attributes
         /\ \A a \in Attributes :
              IF a \notin DOMAIN sent THEN s[a] = 0
              ELSE IF a = "RSSI" THEN 2 * s[a] - (sent[a] - 220) \in {-1, 0, 1}
              ELSE s[a] = sent[a]
<1>1. PICK S \in SUBSET Attributes :
        /\ sent \in [S -> Stations \cup Levels \cup {1}]
        /\ \A a \in S : sent[a] \in Sendable(q, a)
  BY DEF Replies
<1>2. DOMAIN sent = S
  BY <1>1
<1>3. ASSUME NEW a \in S
      PROVE  sent[a] \in Nat /\ (a = "RSSI" => sent[a] \in 0 .. 255)
  BY <1>1, CommandsAssumption DEF Sendable
<1>4. ASSUME NEW a \in Attributes
      PROVE  s[a] = IF a \in S THEN stored(a, sent[a]) ELSE 0
  BY <1>2 DEF statistics_handler, memset
<1>5. ASSUME NEW v \in 0 .. 255
      PROVE  /\ stored("RSSI", v) \in Int
             /\ 2 * stored("RSSI", v) - (v - 220) \in {-1, 0, 1}
  BY DEF stored
<1>6. ASSUME NEW a \in Attributes
      PROVE  /\ s[a] \in Int
             /\ IF a \notin DOMAIN sent THEN s[a] = 0
                ELSE IF a = "RSSI" THEN 2 * s[a] - (sent[a] - 220) \in {-1, 0, 1}
                ELSE s[a] = sent[a]
  <2>1. CASE a \notin S
    BY <1>2, <1>4, <2>1
  <2>2. CASE a \in S /\ a = "RSSI"
    <3>1. s[a] = stored("RSSI", sent[a]) /\ sent[a] \in 0 .. 255
      BY <1>3, <1>4, <2>2
    <3> QED
      BY <1>2, <1>5, <2>2, <3>1
  <2>3. CASE a \in S /\ a # "RSSI"
    <3>1. s[a] = sent[a] /\ sent[a] \in Nat
      BY <1>3, <1>4, <2>3 DEF stored
    <3> QED
      BY <1>2, <2>3, <3>1
  <2> QED
    BY <2>1, <2>2, <2>3
<1>7. s \in [Attributes -> Int]
  BY <1>6 DEF statistics_handler
<1> QED
  BY <1>1, <1>2, <1>6, <1>7

(* A query: the report is printed from what its own reply stored. *)
LEMMA QueryStep ==
  ASSUME TestInv, NEW q \in Stations, NEW n \in BufLens,
         GET_STA_STATISTICS(q, n)
  PROVE  TestInv'
<1>1. PICK sent \in Replies(q) :
        LET p == print_sta_statistics(statistics_handler(memset, sent), n)
        IN report' = [ret |-> p.ret, text |-> p.text, sent |-> sent, buflen |-> n]
  BY IndexOf DEF GET_STA_STATISTICS
<1> DEFINE s == statistics_handler(memset, sent)
           p == print_sta_statistics(s, n)
<1>2. /\ s \in [Attributes -> Int] /\ DOMAIN sent \subseteq Attributes
      /\ \A a \in Attributes :
           IF a \notin DOMAIN sent THEN s[a] = 0
           ELSE IF a = "RSSI" THEN 2 * s[a] - (sent[a] - 220) \in {-1, 0, 1}
           ELSE s[a] = sent[a]
  BY Stored
<1>3. report' = [ret |-> p.ret, text |-> p.text, sent |-> sent, buflen |-> n]
  BY <1>1
<1>4. /\ p.ret \in Nat /\ p.text \in Seq(Int)
      /\ \A i \in 1 .. Len(p.text) : i \in 1 .. 4
      /\ \A i \in 1 .. Len(p.text) \ {4} : p.text[i] = s[Report[i]]
      /\ p.ret > 0 => Len(p.text) = 4 /\ p.ret < n
  <2> HIDE DEF s
  <2> QED
    BY <1>2, Printed, NumbersAssumption
<1> HIDE DEF p, s
<1>5. /\ report'.ret = p.ret /\ report'.text = p.text
      /\ report'.sent = sent /\ report'.buflen = n
  BY <1>3
<1>6. UNCHANGED <<driver, asked, lost>>
  BY DEF GET_STA_STATISTICS, things
<1>7. TypeOK'
  BY <1>2, <1>4, <1>5, <1>6 DEF TestInv, TypeOK
<1>8. DriverFollows' /\ AnswersHonest'
  BY <1>6 DEF TestInv, DriverFollows, AnswersHonest
<1>9. Len(Report) = 4 /\ \A i \in 1 .. 4 : i # 4 => Report[i] \in Attributes
  BY DEF Report, Attributes
<1>10. ReportOfThisQuery'
  <2>1. ASSUME NEW i \in 1 .. Len(p.text) \ {4}
        PROVE  IF Report[i] \notin DOMAIN sent THEN p.text[i] = 0
               ELSE IF Report[i] = "RSSI"
               THEN 2 * p.text[i] - (sent[Report[i]] - 220) \in {-1, 0, 1}
               ELSE p.text[i] = sent[Report[i]]
    <3>1. Report[i] \in Attributes /\ p.text[i] = s[Report[i]]
      BY <1>4, <1>9
    <3> QED
      BY <1>2, <3>1
  <2> QED
    BY <1>5, <1>9, <2>1 DEF ReportOfThisQuery
<1>11. ReportWholeOrEmpty'
  BY <1>4, <1>5, <1>9 DEF ReportWholeOrEmpty
<1> QED
  BY <1>7, <1>8, <1>10, <1>11 DEF TestInv

-----------------------------------------------------------------------------
(* The theorem. *)

(* Every command keeps the invariant. *)
LEMMA TestStep == TestInv /\ [Next]_vars => TestInv'
<1> SUFFICES ASSUME TestInv, [Next]_vars
             PROVE  TestInv'
  OBVIOUS
<1>1. CASE UNCHANGED vars
  BY <1>1, CommandKeeps
     DEF vars, things, TestInv, TypeOK, DriverFollows, AnswersHonest
<1>2. CASE \/ \E i \in Indexes : rxfilter_add(i) \/ rxfilter_remove(i)
           \/ rxfilter_stop \/ rxfilter_start
           \/ \E t \in Tests : smt_test_on(t) \/ smt_test_off(t)
           \/ \E r \in Rates : smt_rate(r)
           \/ \E b \in 0 .. 2 : set_band(b)
  BY <1>2, SwCmdsStep
<1>3. CASE \E s \in Stations : sta_block(s) \/ sta_unblock(s)
  BY <1>3, StationStep DEF sta_block, sta_unblock
<1>4. CASE \E high, low \in Words : mtk_rx_packet_filter(high, low)
  BY <1>4, FilterStep
<1>5. CASE \E mode \in {0, 1} : SETSUSPENDMODE(mode)
  BY <1>5, SuspendStep
<1>6. CASE \E s \in Stations, n \in BufLens : GET_STA_STATISTICS(s, n)
  BY <1>6, QueryStep
<1>7. CASE SendReport
  <2>1. Idle' /\ UNCHANGED <<driver, asked, lost>>
    BY <1>7 DEF SendReport, Idle, things, NoReport
  <2> QED
    BY <2>1 DEF TestInv, TypeOK, DriverFollows, AnswersHonest,
                ReportOfThisQuery, ReportWholeOrEmpty
<1> QED
  BY <1>1, <1>2, <1>3, <1>4, <1>5, <1>6, <1>7 DEF Next

(* For any filters, tests, rates, stations and words, whichever messages   *)
(* fail: a thing whose last message arrived is as it was last asked to be, *)
(* answers of success are honest, and a report shows its own query's       *)
(* answer, whole or not at all, for every size of the buffer.              *)
THEOREM TestmodeSafe ==
  Spec => [](/\ TypeOK /\ DriverFollows /\ AnswersHonest
             /\ ReportOfThisQuery /\ ReportWholeOrEmpty)
<1>1. TestInv => /\ TypeOK /\ DriverFollows /\ AnswersHonest
                 /\ ReportOfThisQuery /\ ReportWholeOrEmpty
  BY DEF TestInv
<1> QED
  BY <1>1, TestInitial, TestStep, PTL DEF Spec
=============================================================================
