------------------------------ MODULE Testmode ------------------------------
(***************************************************************************)
(* The driver commands of wpa_supplicant_8_lib that send the kernel driver *)
(* a testmode message: receive filters, test modes, bands, blocked         *)
(* stations, suspend mode, and the query of a station's statistics.  The   *)
(* event loop runs one command at a time.  What is hard: the messages are  *)
(* told apart by numbers that commands compute, any of them can fail, some *)
(* commands answer success whatever happened, and the statistics come back *)
(* through a callback into a buffer of the caller.                         *)
(***************************************************************************)
EXTENDS Integers, Sequences, FiniteSets

CONSTANTS Indexes,      \* the receive filters commands name
          Tests,        \* the address of each smt-test-*-on, its low half
          Rates,        \* what smt-rate is given
          Stations,     \* the addresses of stations, as numbers
          Words,        \* the words of a packet filter
          LongMax,      \* the largest long of the build
          Levels,       \* the signal levels the driver reports, one byte
          LineLength,   \* of a line of the report
          BufLens,      \* the sizes of the caller's buffer
          MaxLost       \* bound: things out of date at once

ASSUME CommandsAssumption ==
  /\ Indexes \subseteq 0 .. 255 /\ Rates \subseteq Nat
  /\ Tests \subseteq {4660, 4704, 4706, 4708, 4710, 4712, 4720}
  /\ Stations \subseteq Nat \ {0} /\ Levels \subseteq 0 .. 255
ASSUME NumbersAssumption ==
  /\ Words \subseteq Nat /\ LongMax \in Nat /\ MaxLost \in Nat
  /\ LineLength \in Nat \ {0} /\ BufLens \subseteq Nat

VARIABLES driver,       \* external: what the driver has set, by thing
          asked,        \* history: what was asked of it and answered well
          lost,         \* history: the things whose last message failed
          report        \* the answer of a query, until it is sent

(* A thing commands set: its kind and its number. *)
Thing == ({"filter"} \X Indexes) \cup ({"test"} \X Tests)
           \cup ({"station"} \X Stations) \cup ({"mask"} \X {1, 2})
           \cup ({"receive", "rate", "band", "suspend"} \X {0})
Attributes == {"MAC", "RSSI", "TX_RATE"}
Report == <<"MAC", "RSSI", "TX_RATE", "end">>  \* print_sta_statistics' lines

things == <<driver, asked, lost>>
vars == <<things, report>>

NoReport == [ret |-> -1]
Idle == report = NoReport

TypeOK == /\ driver \in [Thing -> Nat] /\ asked \in [Thing -> Nat]
          /\ lost \subseteq Thing
          /\ Idle \/ /\ report.ret \in Nat
                     /\ report.text \in Seq(Int)
                     /\ DOMAIN report.sent \subseteq Attributes

Init == /\ driver = [t \in Thing |-> 0]
        /\ asked = driver
        /\ lost = {}
        /\ report = NoReport

-----------------------------------------------------------------------------
(* Messages.  The index of a message carries a version above bit 23.       *)

SW_CMD == 1
HS20 == 3
STATISTICS == 16
SUSPEND == 101
RXFILTER == 103
Header(index) == index + 2^24
SwCmd(adr, data) == [index |-> Header(SW_CMD), set |-> {<<adr, data>>}]

(* External: what a message sets, told by its index, its address (of which *)
(* the low half is enough) and its data.                                   *)
RxFilterAdr == 0
SmtRateAdr == 291
BandAdr == 4688
SwEffect(adr, data) ==
  CASE adr = RxFilterAdr /\ (data - 9437184) \div 256 \in {0, 1} ->
         <<<<"receive", 0>>, (data - 9437184) \div 256>>
    [] adr = RxFilterAdr /\ (data - 9437184) \div 256 = 2 ->
         <<<<"filter", data % 256>>, 1>>
    [] adr = RxFilterAdr /\ (data - 9437184) \div 256 = 3 ->
         <<<<"filter", data % 256>>, 0>>
    [] adr = SmtRateAdr -> <<<<"rate", 0>>, data>>
    [] adr \in BandAdr .. BandAdr + 2 -> <<<<"band", 0>>, adr - BandAdr>>
    [] OTHER -> <<<<"test", adr - (adr % 2)>>, 1 - (adr % 2)>>
Effects(m) == IF m.index % 2^24 = SW_CMD
              THEN {SwEffect(c[1], c[2]) : c \in m.set} ELSE m.set

Set(f, effects) ==
  [t \in Thing |-> IF \E e \in effects : e[1] = t
                   THEN (CHOOSE e \in effects : e[1] = t)[2] ELSE f[t]]
Changed(effects) == {e[1] : e \in effects}

(* A message that arrives, and one that does not: wpa_driver_nl80211_      *)
(* testmode reports which.                                                 *)
testmode(m, wanted) == /\ driver' = Set(driver, Effects(m))
                       /\ lost' = lost \ Changed(wanted)
testmodeFails(wanted) == /\ lost' = lost \cup Changed(wanted)
                         /\ Cardinality(lost') <= MaxLost
                         /\ UNCHANGED driver

-----------------------------------------------------------------------------
(* Commands that answer 0 whatever became of their message.                *)

driver_sw_cmd(adr, data, wanted) ==
  /\ Idle
  /\ testmode(SwCmd(adr, data), wanted) \/ testmodeFails(wanted)
  /\ asked' = Set(asked, wanted)
  /\ UNCHANGED report

(* As elsewhere, a name with a suffix is a plausible bug no action uses.   *)
rxfilter_add(i) == driver_sw_cmd(RxFilterAdr, 9437696 + i, {<<<<"filter", i>>, 1>>})
rxfilter_remove_AsAdd(i) ==
  driver_sw_cmd(RxFilterAdr, 9437696 + i, {<<<<"filter", i>>, 0>>})
rxfilter_remove(i) ==
  driver_sw_cmd(RxFilterAdr, 9437952 + i, {<<<<"filter", i>>, 0>>})
rxfilter_stop == driver_sw_cmd(RxFilterAdr, 9437184, {<<<<"receive", 0>>, 0>>})
rxfilter_start == driver_sw_cmd(RxFilterAdr, 9437440, {<<<<"receive", 0>>, 1>>})
smt_rate(rate) == driver_sw_cmd(SmtRateAdr, rate, {<<<<"rate", 0>>, rate>>})
smt_test_on(t) == driver_sw_cmd(t, 0, {<<<<"test", t>>, 1>>})
smt_test_off(t) == driver_sw_cmd(t + 1, 0, {<<<<"test", t>>, 0>>})

(* user_force_band is 0 for ever: what would set it is not compiled.       *)
set_band(b) == driver_sw_cmd(BandAdr + b, 0, {<<<<"band", 0>>, b>>})

-----------------------------------------------------------------------------
(* Commands that pass the result of their message on.                      *)

answered_Always(m, wanted) ==
  /\ testmode(m, wanted) \/ testmodeFails(wanted)
  /\ asked' = Set(asked, wanted)
answered(m, wanted) ==
  \/ testmode(m, wanted) /\ asked' = Set(asked, wanted)
  \/ testmodeFails({}) /\ UNCHANGED asked

hotspot_block_list_update(s, blocked) ==
  /\ Idle
  /\ LET e == {<<<<"station", s>>, blocked>>}
     IN answered([index |-> Header(HS20), set |-> e], e)
  /\ UNCHANGED report

sta_block(s) == hotspot_block_list_update(s, 1)
sta_unblock(s) == hotspot_block_list_update(s, 0)

(* A word is read as a long, which in a 32 bit build stops at LongMax.  A  *)
(* command of another length is refused with no message.  Two words stand  *)
(* for the six, which all take the same path.  strtol stores a pointer in  *)
(* the char errChar, past its end: undefined, and taken here to hit        *)
(* nothing that is used later.                                             *)
strtol_Wraps(word) == IF word > LongMax THEN word - 2 * (LongMax + 1) ELSE word
strtol(word) == IF word > LongMax THEN LongMax ELSE word
mtk_rx_packet_filter(high, low) ==
  /\ Idle
  /\ answered([index |-> Header(RXFILTER),
               set |-> {<<<<"mask", 1>>, strtol(high)>>,
                        <<<<"mask", 2>>, strtol(low)>>}],
              {<<<<"mask", 1>>, high>>, <<<<"mask", 2>>, low>>})
  /\ UNCHANGED report

(* Sent as a message and, whatever became of that, as a private command    *)
(* that sets the same and whose result is the answer: it arrives, only the *)
(* message does, or neither.                                               *)
SETSUSPENDMODE(mode) ==
  /\ Idle
  /\ LET e == {<<<<"suspend", 0>>, mode>>}
     IN \/ testmode([index |-> Header(SUSPEND), set |-> e], e)
             /\ asked' = Set(asked, e)
        \/ /\ driver' = Set(driver, e)
           /\ lost' = lost \cup Changed(e) /\ Cardinality(lost') <= MaxLost
           /\ UNCHANGED asked
        \/ testmodeFails({}) /\ UNCHANGED asked
  /\ UNCHANGED report

-----------------------------------------------------------------------------
(* GET_STA_STATISTICS. *)

(* What the driver sends: any of the attributes, or no TESTDATA. *)
Sendable(s, a) == CASE a = "MAC" -> {s} [] a = "RSSI" -> Levels [] OTHER -> {1}
Replies(s) == UNION {{f \in [S -> Stations \cup Levels \cup {1}] :
                        \A a \in S : f[a] \in Sendable(s, a)} :
                     S \in SUBSET Attributes}

(* (level - 220) / 2 rounds towards 0.  A rate is kept in halves. *)
stored(a, v) ==
  IF a = "RSSI" THEN IF v >= 220 THEN (v - 220) \div 2 ELSE -((220 - v) \div 2)
  ELSE v

(* Attributes that were not sent leave their member as it is. *)
statistics_handler(s, sent) ==
  [a \in Attributes |-> IF a \in DOMAIN sent THEN stored(a, sent[a]) ELSE s[a]]

(* The handler is installed for one index, compared without the version.   *)
HandlerOf(index) == index % 2^24 = STATISTICS

(* Lines are printed until one does not fit with the 0 after it, and then  *)
(* the length is 0.                                                        *)
Fits_NoRoomForNul(i, buflen) == i * LineLength <= buflen
Fits(i, buflen) == i * LineLength < buflen
print_sta_statistics(s, buflen) ==
  LET line(i) == IF i = Len(Report) THEN 0 ELSE s[Report[i]]
      n == Cardinality({i \in 1 .. Len(Report) : Fits(i, buflen)})
  IN [ret |-> IF n = Len(Report) THEN n * LineLength ELSE 0,
      text |-> [i \in 1 .. n |-> line(i)]]

(* The structure is on the stack, where an earlier call has left values.   *)
memset_Forgotten == [a \in Attributes |-> 7]
memset == [a \in Attributes |-> 0]

(* A query that fails answers -1 and leaves nothing behind. *)
GET_STA_STATISTICS(s, buflen) ==
  /\ Idle
  /\ \E sent \in Replies(s) :
       LET stats == IF HandlerOf(Header(STATISTICS))
                    THEN statistics_handler(memset, sent) ELSE memset
           printed == print_sta_statistics(stats, buflen)
       IN report' = [ret |-> printed.ret, text |-> printed.text,
                     sent |-> sent, buflen |-> buflen]
  /\ UNCHANGED things

(* The answer goes to the caller, and the command is over. *)
SendReport ==
  /\ ~Idle
  /\ report' = NoReport
  /\ UNCHANGED things

-----------------------------------------------------------------------------
Next ==
  \/ \E i \in Indexes : rxfilter_add(i) \/ rxfilter_remove(i)
  \/ rxfilter_stop \/ rxfilter_start
  \/ \E t \in Tests : smt_test_on(t) \/ smt_test_off(t)
  \/ \E r \in Rates : smt_rate(r)
  \/ \E b \in 0 .. 2 : set_band(b)
  \/ \E s \in Stations : sta_block(s) \/ sta_unblock(s)
  \/ \E high, low \in Words : mtk_rx_packet_filter(high, low)
  \/ \E mode \in {0, 1} : SETSUSPENDMODE(mode)
  \/ \E s \in Stations, n \in BufLens : GET_STA_STATISTICS(s, n)
  \/ SendReport

Spec == Init /\ [][Next]_vars

-----------------------------------------------------------------------------
(* Properties. *)

(* However filters, tests, bands and modes are set and cleared, and        *)
(* whichever messages fail, a thing whose last message arrived is as it    *)
(* was last asked to be: no command's number sets another's thing, and one *)
(* command that arrives makes up for any that did not.                     *)
DriverFollows ==
  \A t \in Thing : t[1] # "mask" /\ driver[t] # asked[t] => t \in lost

(* A station is blocked, and a packet filter set, exactly as the commands  *)
(* that answered success say, although messages fail; words past LongMax   *)
(* excepted, which a 32 bit build changes.                                 *)
AnswersHonest ==
  \A t \in Thing :
    t[1] \in {"station", "mask"} =>
      driver[t] = asked[t] \/ (t[1] = "mask" /\ asked[t] > LongMax)

(* A report shows the answer to its own query: a level within half a unit  *)
(* of the one sent, and 0 for what the driver left out, never a member of  *)
(* an earlier query's structure.                                           *)
ReportOfThisQuery ==
  ~Idle => \A i \in 1 .. Len(report.text) \ {Len(Report)} :
             LET a == Report[i]  shown == report.text[i]
             IN IF a \notin DOMAIN report.sent THEN shown = 0
                ELSE IF a = "RSSI"
                THEN 2 * shown - (report.sent[a] - 220) \in {-1, 0, 1}
                ELSE shown = report.sent[a]

(* A report with a length is whole, and leaves room for the 0 that ends it *)
(* in the caller's buffer, at every size of the buffer.                    *)
ReportWholeOrEmpty ==
  ~Idle /\ report.ret > 0 => /\ Len(report.text) = Len(Report)
                             /\ report.ret < report.buflen
=============================================================================
