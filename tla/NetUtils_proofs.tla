--------------------------- MODULE NetUtils_proofs ---------------------------
(* Theorems about NetUtils, for any threads, interfaces and answers.       *)
EXTENDS NetUtils, FiniteSetTheorems, TLAPS

USE ThreadsAssumption, NumbersAssumption

(* The threads that hold a descriptor. *)
Holders == {t \in Threads : At(t) # "none" /\ call[t].fd # NoFd}

(* What a throttle request has left open on descriptor 0. *)
Lost == IF stdin = "lost" THEN 1 ELSE 0

(* Each thread holds one descriptor at most. *)
LEMMA HoldersCount ==
  Cardinality(Holders) \in Nat /\ Cardinality(Holders) <= Cardinality(Threads)
  /\ IsFiniteSet(Holders) /\ Cardinality(Threads) \in Nat
<1>1. Holders \in SUBSET Threads
  BY DEF Holders
<1> QED
  BY <1>1, FS_Subset, FS_CardinalityType

(* The count bounds the descriptors. *)
LEMMA DescriptorsBounded ==
  DescriptorsClosed /\ leaks \in 0 .. MaxLeaks =>
    descriptors \in 0 .. Cardinality(Threads) + MaxLeaks + 1
<1> HAVE DescriptorsClosed /\ leaks \in 0 .. MaxLeaks
<1>1. descriptors = Cardinality(Holders) + leaks + Lost /\ Lost \in 0 .. 1
  BY DEF DescriptorsClosed, Holders, Lost
<1> QED
  BY <1>1, HoldersCount

(* The same of the state after a step. *)
LEMMA DescriptorsBoundedNext ==
  DescriptorsClosed' /\ (leaks \in 0 .. MaxLeaks)' =>
    (descriptors \in 0 .. Cardinality(Threads) + MaxLeaks + 1)'
  BY DescriptorsBounded, PTL

(* Only one thread's call changes, and its descriptor is counted in or out. *)
LEMMA OneHolder ==
  ASSUME NEW t \in Threads, \A u \in Threads \ {t} : call'[u] = call[u]
  PROVE  Cardinality(Holders') = Cardinality(Holders)
            + (IF t \in Holders' THEN 1 ELSE 0) - (IF t \in Holders THEN 1 ELSE 0)
<1>1. \A u \in Threads \ {t} : u \in Holders' <=> u \in Holders
  BY DEF Holders, At
<1>2. Holders' \subseteq Threads /\ Holders \subseteq Threads
  BY DEF Holders
<1>3. Holders' = IF t \in Holders' THEN Holders \cup {t} ELSE Holders \ {t}
  BY <1>1, <1>2
<1>4. Cardinality(Holders) \in Nat /\ IsFiniteSet(Holders)
  BY HoldersCount
<1>5. CASE t \in Holders'
  BY <1>3, <1>4, <1>5, FS_AddElement
<1>6. CASE t \notin Holders'
  BY <1>3, <1>4, <1>6, FS_RemoveElement
<1> QED
  BY <1>5, <1>6

(* Go keeps the types and the count, and moves no other thread. *)
LEMMA GoStep ==
  ASSUME TypeOK, DescriptorsClosed, NEW t \in Threads, At(t) # "none",
         NEW at \in Trigger \cup Throttle \cup Ioctl \cup {"none"},
         NEW fd \in Descriptors, at = "none" => fd = NoFd, Go(t, at, fd),
         leaks' = leaks, stdin' = stdin
  PROVE  /\ call' \in [Threads -> {None} \cup Calls]
         /\ DescriptorsClosed'
         /\ \A u \in Threads \ {t} : call'[u] = call[u]
         /\ At(t)' = at
         /\ at # "none" => call'[t].ifc = call[t].ifc
<1>1. call[t] \in Calls
  BY DEF TypeOK, None, At
<1>2. call' = [call EXCEPT ![t] = IF at = "none" THEN None
                                  ELSE [call[t] EXCEPT !.at = at, !.fd = fd]]
  BY DEF Go
<1>3. \A u \in Threads \ {t} : call'[u] = call[u]
  BY <1>2 DEF TypeOK
<1>4. call'[t] = IF at = "none" THEN None
                 ELSE [call[t] EXCEPT !.at = at, !.fd = fd]
  BY <1>2 DEF TypeOK
<1>5. at # "none" => [call[t] EXCEPT !.at = at, !.fd = fd] \in Calls
  BY <1>1 DEF Calls
<1>6. call' \in [Threads -> {None} \cup Calls]
  BY <1>2, <1>5 DEF TypeOK
<1>7. At(t)' = at /\ (at # "none" => call'[t].ifc = call[t].ifc /\ call'[t].fd = fd)
  BY <1>1, <1>4 DEF At, None, Calls
<1>8. t \in Holders' <=> fd # NoFd
  BY <1>7 DEF Holders
<1>9. t \in Holders <=> call[t].fd # NoFd
  BY DEF Holders
<1>10. descriptors' = descriptors + (IF fd # NoFd THEN 1 ELSE 0)
                                  - (IF call[t].fd # NoFd THEN 1 ELSE 0)
  BY DEF Go, Count, TypeOK
<1>11. /\ descriptors = Cardinality(Holders) + leaks + Lost
       /\ Lost' = Lost /\ Lost \in 0 .. 1
  BY DEF DescriptorsClosed, Holders, Lost
<1>12. descriptors' = Cardinality(Holders') + leaks' + Lost'
  BY <1>3, <1>8, <1>9, <1>10, <1>11, OneHolder, HoldersCount DEF TypeOK
<1> QED
  BY <1>3, <1>6, <1>7, <1>12 DEF DescriptorsClosed, Holders, Lost

(* What the kernel hands out is a descriptor. *)
LEMMA LowestIs == Lowest \in Descriptors /\ Lowest # NoFd /\ NoFd \in Descriptors
BY DEF Lowest, Descriptors, NoFd

-----------------------------------------------------------------------------
(* The router solicitation, whose steps leave IPv6 as they must.           *)

(* A thread that is neither turning IPv6 off nor about to turn it on can   *)
(* do what it likes with its call.                                         *)
LEMMA Bystander ==
  ASSUME Ipv6OffExcused, NEW t \in Threads, At(t) \notin {"disable", "enable"},
         \A u \in Threads \ {t} : call'[u] = call[u],
         UNCHANGED <<disable_ipv6, excused>>
  PROVE  Ipv6OffExcused'
<1> SUFFICES ASSUME NEW i \in Interfaces, disable_ipv6[i], ~excused[i]
             PROVE  Under(i)'
  BY DEF Ipv6OffExcused
<1>1. PICK u \in Threads : At(u) \in {"disable", "enable"} /\ call[u].ifc = i
  BY DEF Ipv6OffExcused, Under
<1>2. u # t
  BY <1>1
<1> QED
  BY <1>1, <1>2 DEF Under, At

(* A step of the solicitation hands the duty on: after a failed or a done  *)
(* step the next one follows, and only a failed enable is excused.         *)
LEMMA Solicitation ==
  ASSUME TypeOK, Ipv6OffExcused, NEW t \in Threads, At(t) \in Trigger,
         NEW ok \in BOOLEAN, Excuse(t, ok),
         \A u \in Threads \ {t} : call'[u] = call[u],
         At(t)' = after(At(t), ok),
         after(At(t), ok) # "none" => call'[t].ifc = call[t].ifc,
         disable_ipv6' = IF ok /\ At(t) # "route"
                         THEN [disable_ipv6 EXCEPT ![call[t].ifc] = (At(t) = "disable")]
                         ELSE disable_ipv6
  PROVE  Ipv6OffExcused' /\ excused' \in [Interfaces -> BOOLEAN]
                         /\ disable_ipv6' \in [Interfaces -> BOOLEAN]
<1>1. call[t] \in Calls
  BY DEF TypeOK, None, At, Trigger
<1>2. call[t].ifc \in Interfaces
  BY <1>1 DEF Calls
<1>3. excused' \in [Interfaces -> BOOLEAN]
  BY <1>2 DEF Excuse, TypeOK
<1>4. disable_ipv6' \in [Interfaces -> BOOLEAN]
  BY <1>2 DEF TypeOK
<1>5. ASSUME NEW i \in Interfaces, disable_ipv6'[i], ~excused'[i]
      PROVE  Under(i)'
  <2>1. CASE i = call[t].ifc
    <3>1. CASE At(t) = "disable"
      <4>1. At(t)' = "enable" /\ call'[t].ifc = i
        BY <2>1, <3>1 DEF after
      <4> QED
        BY <4>1 DEF Under
    <3>2. CASE At(t) = "enable"
      <4>1. ok => disable_ipv6'[i] = FALSE
        BY <2>1, <3>2 DEF TypeOK
      <4>2. ~ok => excused'[i]
        BY <2>1, <3>2 DEF TypeOK, Excuse
      <4> QED
        BY <4>1, <4>2, <1>5
    <3>3. CASE At(t) = "route"
      <4>1. disable_ipv6[i] /\ ~excused[i]
        BY <3>3, <1>5 DEF Excuse
      <4>2. PICK u \in Threads : At(u) \in {"disable", "enable"} /\ call[u].ifc = i
        BY <4>1 DEF Ipv6OffExcused, Under
      <4>3. u # t
        BY <3>3, <4>2
      <4> QED
        BY <4>2, <4>3 DEF Under, At
    <3> QED
      BY <3>1, <3>2, <3>3 DEF Trigger
  <2>2. CASE i # call[t].ifc
    <3>1. disable_ipv6[i] /\ ~excused[i]
      BY <1>2, <1>5, <2>2 DEF Excuse, TypeOK
    <3>2. PICK u \in Threads : At(u) \in {"disable", "enable"} /\ call[u].ifc = i
      BY <3>1 DEF Ipv6OffExcused, Under
    <3>3. u # t
      BY <2>2, <3>2
    <3> QED
      BY <3>2, <3>3 DEF Under, At
  <2> QED
    BY <2>1, <2>2
<1> QED
  BY <1>3, <1>4, <1>5 DEF Ipv6OffExcused

-----------------------------------------------------------------------------
(* The inductive invariant, and the steps that keep it.                    *)

NetInv == TypeOK /\ DescriptorsClosed /\ Ipv6OffExcused

(* A process that is started has no call, no descriptor, and IPv6 on. *)
LEMMA NetInitial == Init => NetInv
<1> HAVE Init
<1>1. Holders = {}
  BY DEF Init, Holders, At, None
<1>2. Cardinality(Holders) = 0
  BY <1>1, FS_EmptySet
<1>3. DescriptorsClosed
  BY <1>2 DEF Init, DescriptorsClosed, Holders
<1>4. leaks \in 0 .. MaxLeaks
  BY DEF Init
<1>5. TypeOK
  BY <1>3, <1>4, DescriptorsBounded DEF Init, TypeOK
<1> QED
  BY <1>3, <1>5 DEF NetInv, Init, Ipv6OffExcused

(* A call begins without a descriptor; a solicitation takes on the duty to *)
(* turn IPv6 on again, so nothing is excused any more.                     *)
LEMMA CallStep ==
  ASSUME NetInv, NEW t \in Threads, NEW i \in Interfaces, NEW v \in Values,
         NEW at \in {"disable", "connect"} \cup Ioctl, Call(t, at, i, v)
  PROVE  NetInv'
<1> DEFINE c == [at |-> at, ifc |-> i, fd |-> NoFd, value |-> v]
<1> USE DEF NetInv
<1>1. c \in Calls
  BY LowestIs DEF Calls, Trigger, Throttle
<1>2. c.at = at /\ c.ifc = i /\ c.fd = NoFd
  OBVIOUS
<1> HIDE DEF c
<1>3. call' = [call EXCEPT ![t] = c] /\ call[t] = None
  BY DEF Call, c
<1>4. call' \in [Threads -> {None} \cup Calls]
  BY <1>1, <1>3 DEF TypeOK
<1>5. call'[t] = c /\ \A u \in Threads \ {t} : call'[u] = call[u]
  BY <1>3 DEF TypeOK
<1>6. t \notin Holders /\ t \notin Holders'
  BY <1>2, <1>3, <1>5 DEF Holders, At, None
<1>7. descriptors = Cardinality(Holders) + leaks + Lost
  BY DEF DescriptorsClosed, Holders, Lost
<1>8. Cardinality(Holders') = Cardinality(Holders)
  BY <1>5, <1>6, OneHolder, HoldersCount
<1>9. DescriptorsClosed'
  BY <1>7, <1>8 DEF DescriptorsClosed, Holders, Lost, Call
<1>10. excused' = IF at = "disable" THEN [excused EXCEPT ![i] = FALSE] ELSE excused
  BY DEF Call
<1>11. TypeOK'
  BY <1>4, <1>10 DEF TypeOK, Call, kernel
<1>12. ASSUME NEW j \in Interfaces, disable_ipv6'[j], ~excused'[j]
       PROVE  Under(j)'
  <2>1. CASE at = "disable" /\ j = i
    BY <1>2, <1>5, <2>1 DEF Under, At
  <2>2. CASE ~(at = "disable" /\ j = i)
    <3>1. ~excused[j] /\ disable_ipv6[j]
      BY <1>10, <1>12, <2>2 DEF TypeOK, Call, kernel
    <3>2. PICK u \in Threads : At(u) \in {"disable", "enable"} /\ call[u].ifc = j
      BY <3>1 DEF Ipv6OffExcused, Under
    <3>3. u # t
      BY <1>3, <3>2 DEF At, None
    <3> QED
      BY <1>5, <3>2, <3>3 DEF Under, At
  <2> QED
    BY <2>1, <2>2
<1> QED
  BY <1>9, <1>11, <1>12 DEF Ipv6OffExcused

(* The two steps of setEnableIPv6 and setIPv6DefaultRoute. *)
LEMMA TriggerStep ==
  ASSUME NetInv, NEW t \in Threads, open(t) \/ write(t)
  PROVE  NetInv'
<1> USE DEF NetInv
<1>1. At(t) \in Trigger /\ At(t) # "none" /\ leaks' = leaks
      /\ netd' = netd /\ stdin' = stdin
  BY DEF open, write, Trigger
<1>2. \A ok \in BOOLEAN : after(At(t), ok) \in Trigger \cup {"none"}
  BY DEF after, Trigger
<1>3. call[t].ifc \in Interfaces
  <2>1. call[t] \in Calls
    BY <1>1 DEF TypeOK, None, At
  <2> QED
    BY <2>1 DEF Calls
<1>4. CASE Go(t, At(t), Lowest) /\ UNCHANGED excused /\ UNCHANGED kernel
  <2>1. /\ call' \in [Threads -> {None} \cup Calls] /\ DescriptorsClosed'
        /\ \A u \in Threads \ {t} : call'[u] = call[u]
        /\ At(t)' = At(t) /\ call'[t].ifc = call[t].ifc
    <3>1. At(t) \in Trigger \cup Throttle \cup Ioctl \cup {"none"}
      BY <1>1
    <3>2. DescriptorsClosed /\ TypeOK /\ Lowest \in Descriptors
      BY <1>4, LowestIs
    <3> HIDE DEF NetInv
    <3> QED
      BY <1>1, <1>4, <3>1, <3>2, GoStep
  <2>2. TypeOK'
    BY <1>1, <1>4, <2>1, DescriptorsBoundedNext DEF TypeOK, kernel
  <2>3. \A i \in Interfaces : Under(i) => Under(i)'
    BY <2>1 DEF Under, At
  <2> QED
    BY <1>4, <2>1, <2>2, <2>3 DEF Ipv6OffExcused, kernel
<1>5. ASSUME NEW ok \in BOOLEAN, Go(t, after(At(t), ok), NoFd), Excuse(t, ok),
             IF ok THEN written(t) ELSE UNCHANGED kernel
      PROVE  NetInv'
  <2>1. /\ call' \in [Threads -> {None} \cup Calls] /\ DescriptorsClosed'
        /\ \A u \in Threads \ {t} : call'[u] = call[u]
        /\ At(t)' = after(At(t), ok)
        /\ after(At(t), ok) # "none" => call'[t].ifc = call[t].ifc
    BY <1>1, <1>2, <1>5, LowestIs, GoStep
  <2>2. disable_ipv6' = IF ok /\ At(t) # "route"
          THEN [disable_ipv6 EXCEPT ![call[t].ifc] = (At(t) = "disable")]
          ELSE disable_ipv6
    BY <1>5 DEF written, kernel
  <2>3. /\ Ipv6OffExcused' /\ excused' \in [Interfaces -> BOOLEAN]
        /\ disable_ipv6' \in [Interfaces -> BOOLEAN]
    BY <1>1, <1>5, <2>1, <2>2, Solicitation
  <2>4. accept_ra_defrtr' \in [Interfaces -> BOOLEAN] /\ UNCHANGED ccmni
    BY <1>3, <1>5 DEF written, kernel, TypeOK
  <2>5. leaks' \in 0 .. MaxLeaks
    BY <1>1 DEF TypeOK
  <2>6. descriptors' \in 0 .. Cardinality(Threads) + MaxLeaks + 1
    BY <2>1, <2>5, DescriptorsBoundedNext
  <2>7. TypeOK'
    BY <1>1, <2>1, <2>3, <2>4, <2>6 DEF TypeOK
  <2> QED
    BY <2>1, <2>3, <2>7
<1> QED
  BY <1>4, <1>5 DEF open, write

(* The steps of the ioctl helpers and of the throttle request that close,  *)
(* keep or take their descriptor: IPv6 is none of their business.          *)
LEMMA GoElsewhere ==
  ASSUME NetInv, NEW t \in Threads, At(t) \in Throttle \cup Ioctl,
         NEW at \in Throttle \cup Ioctl \cup {"none"},
         NEW fd \in Descriptors, at = "none" => fd = NoFd, Go(t, at, fd),
         UNCHANGED <<disable_ipv6, accept_ra_defrtr, stdin, leaks, excused>>,
         netd' \in [Threads -> Answers \cup {0, Eof}],
         ccmni' \in [Interfaces -> [Ioctl -> Values]]
  PROVE  NetInv'
<1> USE DEF NetInv
<1>1. At(t) # "none" /\ At(t) \notin {"disable", "enable"}
  BY DEF Throttle, Ioctl
<1>2. /\ call' \in [Threads -> {None} \cup Calls] /\ DescriptorsClosed'
      /\ \A u \in Threads \ {t} : call'[u] = call[u]
  BY <1>1, GoStep
<1>3. Ipv6OffExcused'
  BY <1>1, <1>2, Bystander
<1>4. leaks' \in 0 .. MaxLeaks
  BY DEF TypeOK
<1>5. TypeOK'
  BY <1>2, <1>4, DescriptorsBoundedNext DEF TypeOK
<1> QED
  BY <1>2, <1>3, <1>5

(* ifc_set_txq_state and ifc_ccmni_md_cfg. *)
LEMMA IoctlStep ==
  ASSUME NetInv, NEW t \in Threads, ctl_socket(t) \/ ioctl(t)
  PROVE  NetInv'
<1>1. At(t) \in Throttle \cup Ioctl /\ At(t) \in Ioctl
  BY DEF ctl_socket, ioctl
<1>2. At(t) # "none"
  BY <1>1 DEF Ioctl, Throttle
<1>3. /\ UNCHANGED <<disable_ipv6, accept_ra_defrtr, stdin, leaks, excused>>
      /\ netd' = netd
  BY DEF ctl_socket, ioctl, kernel
<1>4. call[t].ifc \in Interfaces /\ call[t].value \in Values
  <2>1. call[t] \in Calls
    BY <1>2 DEF NetInv, TypeOK, None, At
  <2> QED
    BY <2>1 DEF Calls
<1>5. ccmni' \in [Interfaces -> [Ioctl -> Values]]
  <2>1. CASE UNCHANGED ccmni
    BY <2>1 DEF NetInv, TypeOK
  <2>2. CASE ccmni' = [ccmni EXCEPT ![call[t].ifc][At(t)] = call[t].value]
    <3>1. [ccmni[call[t].ifc] EXCEPT ![At(t)] = call[t].value] \in [Ioctl -> Values]
      BY <1>1, <1>4 DEF NetInv, TypeOK
    <3> QED
      BY <2>2, <3>1, <1>4 DEF NetInv, TypeOK
  <2> QED
    BY <2>1, <2>2 DEF ctl_socket, ioctl, kernel
<1>6. netd' \in [Threads -> Answers \cup {0, Eof}]
  BY <1>3 DEF NetInv, TypeOK
<1>7. CASE Go(t, At(t), Lowest)
  BY <1>1, <1>2, <1>3, <1>5, <1>6, <1>7, LowestIs, GoElsewhere
<1>8. CASE Go(t, "none", NoFd)
  BY <1>1, <1>3, <1>5, <1>6, <1>8, LowestIs, GoElsewhere
<1> QED
  BY <1>7, <1>8 DEF ctl_socket, ioctl

(* The throttle request, when it loses no descriptor.                      *)
LEMMA ThrottleStep ==
  ASSUME NetInv, NEW t \in Threads,
         \/ netd_sock_init(t) /\ UNCHANGED stdin
         \/ send(t) \/ fread(t)
         \/ fdopen(t) /\ UNCHANGED leaks
  PROVE  NetInv'
<1>1. At(t) \in Throttle /\ At(t) # "none"
  BY DEF netd_sock_init, send, fread, fdopen, Throttle
<1>2. /\ UNCHANGED <<disable_ipv6, accept_ra_defrtr, stdin, leaks, excused>>
      /\ ccmni' = ccmni
  BY DEF netd_sock_init, send, fread, fdopen, kernel
<1>3. ccmni' \in [Interfaces -> [Ioctl -> Values]]
  BY <1>2 DEF NetInv, TypeOK
<1>4. netd' \in [Threads -> Answers \cup {0, Eof}]
  BY DEF NetInv, TypeOK, netd_sock_init, send, fread, fdopen
<1>5. call[t].fd \in Descriptors /\ leaks \in Nat
  <2>1. call[t] \in Calls
    BY <1>1 DEF NetInv, TypeOK, None, At
  <2> QED
    BY <2>1 DEF Calls, NetInv, TypeOK
<1>6. ASSUME NEW at \in Throttle, NEW fd \in Descriptors, Go(t, at, fd)
      PROVE  NetInv'
  <2>1. at # "none"
    BY DEF Throttle
  <2> QED
    BY <1>1, <1>2, <1>3, <1>4, <1>6, <2>1, GoElsewhere
<1>7. CASE Go(t, "none", NoFd)
  BY <1>1, <1>2, <1>3, <1>4, <1>7, LowestIs, GoElsewhere
<1>8. CASE netd_sock_init(t) /\ UNCHANGED stdin /\ Go(t, "fdopen", Lowest)
  BY <1>6, <1>8, LowestIs DEF Throttle
<1>9. CASE netd_sock_init(t) /\ UNCHANGED stdin /\ Lowest = 0 /\ stdin' = "lost"
  BY <1>9 DEF Lowest
<1>10. CASE fdopen(t) /\ UNCHANGED leaks
  BY <1>5, <1>6, <1>10 DEF fdopen, Throttle
<1>11. CASE send(t)
  BY <1>5, <1>6, <1>7, <1>11 DEF send, Throttle
<1>12. CASE fread(t)
  BY <1>7, <1>12 DEF fread
<1> QED
  BY <1>7, <1>8, <1>9, <1>10, <1>11, <1>12 DEF netd_sock_init

(* When a throttle request gets descriptor 0, the call is over without     *)
(* having had one, and the descriptor stays open.                          *)
LEMMA LoseZeroStep ==
  ASSUME NetInv, NEW t \in Threads, call[t].fd = NoFd,
         netd_sock_init(t), stdin = "closed", stdin' = "lost",
         call' = [call EXCEPT ![t] = None], descriptors' = descriptors + 1
  PROVE  NetInv'
<1> USE DEF NetInv
<1>1. At(t) = "connect" /\ UNCHANGED <<netd, kernel, leaks, excused>>
  BY DEF netd_sock_init
<1>2. call'[t] = None /\ \A u \in Threads \ {t} : call'[u] = call[u]
  BY DEF TypeOK
<1>3. t \notin Holders /\ t \notin Holders'
  BY <1>1, <1>2 DEF Holders, At, None
<1>4. /\ descriptors = Cardinality(Holders) + leaks + Lost
      /\ Lost = 0 /\ Lost' = 1
  BY DEF DescriptorsClosed, Holders, Lost
<1>5. Cardinality(Holders') = Cardinality(Holders)
  BY <1>2, <1>3, OneHolder, HoldersCount
<1>6. descriptors' = Cardinality(Holders') + leaks' + Lost'
  BY <1>1, <1>4, <1>5, HoldersCount DEF TypeOK
<1>7. DescriptorsClosed'
  BY <1>6 DEF DescriptorsClosed, Holders, Lost
<1>8. Ipv6OffExcused'
  BY <1>1, <1>2, Bystander DEF kernel
<1>9. (leaks \in 0 .. MaxLeaks)'
  BY <1>1 DEF TypeOK
<1>10. TypeOK'
  BY <1>1, <1>7, <1>9, DescriptorsBoundedNext DEF TypeOK, kernel
<1> QED
  BY <1>7, <1>8, <1>10

(* When fdopen fails, the call is over and its descriptor is lost: one     *)
(* holder fewer, one leak more.                                            *)
LEMMA LeakStep ==
  ASSUME NetInv, NEW t \in Threads, fdopen(t), call[t].fd # NoFd,
         leaks < MaxLeaks, leaks' = leaks + 1,
         call' = [call EXCEPT ![t] = None], UNCHANGED descriptors
  PROVE  NetInv'
<1> USE DEF NetInv
<1>1. At(t) = "fdopen" /\ UNCHANGED <<netd, kernel, stdin, excused>>
  BY DEF fdopen
<1>2. call'[t] = None /\ \A u \in Threads \ {t} : call'[u] = call[u]
  BY DEF TypeOK
<1>3. t \in Holders /\ t \notin Holders'
  BY <1>1, <1>2 DEF Holders, At, None
<1>4. /\ descriptors = Cardinality(Holders) + leaks + Lost
      /\ Lost' = Lost /\ Lost \in 0 .. 1
  BY <1>1 DEF DescriptorsClosed, Holders, Lost
<1>5. Cardinality(Holders') = Cardinality(Holders) - 1
  BY <1>2, <1>3, OneHolder, HoldersCount
<1>6. descriptors' = Cardinality(Holders') + leaks' + Lost'
  BY <1>4, <1>5, HoldersCount DEF TypeOK
<1>7. DescriptorsClosed'
  BY <1>6 DEF DescriptorsClosed, Holders, Lost
<1>8. Ipv6OffExcused'
  BY <1>1, <1>2, Bystander DEF kernel
<1>9. TypeOK'
  BY <1>1 DEF TypeOK, kernel
<1> QED
  BY <1>7, <1>8, <1>9

-----------------------------------------------------------------------------
(* A throttle request has the descriptor that fdopen can lose when it is   *)
(* past its connect, and not before.                                       *)
Connected ==
  \A t \in Threads :
    /\ At(t) \in {"fdopen", "send", "read"} => call[t].fd # NoFd
    /\ At(t) = "connect" => call[t].fd = NoFd

(* What a step of a thread leaves it with, for Connected. *)
LEMMA ConnectedGo ==
  ASSUME TypeOK, Connected, NEW t \in Threads, At(t) # "none",
         NEW at, at # "connect", NEW fd \in Descriptors, Go(t, at, fd),
         at \in {"fdopen", "send", "read"} => fd # NoFd
  PROVE  Connected'
<1>1. call[t] \in Calls
  BY DEF TypeOK, None, At
<1>2. \A u \in Threads \ {t} : call'[u] = call[u]
  BY DEF Go, TypeOK
<1>3. call'[t] = IF at = "none" THEN None
                 ELSE [call[t] EXCEPT !.at = at, !.fd = fd]
  BY DEF Go, TypeOK
<1>4. At(t)' = at /\ (at # "none" => call'[t].fd = fd)
  BY <1>1, <1>3 DEF At, None, Calls
<1> QED
  BY <1>2, <1>4 DEF Connected, At

(* Every step keeps it. *)
LEMMA ConnectedStep ==
  ASSUME TypeOK, Connected, [Next]_vars
  PROVE  Connected'
<1>1. CASE UNCHANGED call
  BY <1>1 DEF Connected, At
<1>2. ASSUME NEW t \in Threads, NEW c, c.at \notin {"fdopen", "send", "read"},
             c.at = "connect" => c.fd = NoFd,
             call' = [call EXCEPT ![t] = c]
      PROVE  Connected'
  BY <1>2 DEF Connected, At, TypeOK
<1>3. ASSUME NEW t \in Threads, NEW i \in Interfaces, NEW v,
             NEW at \in {"disable", "connect"} \cup Ioctl, Call(t, at, i, v)
      PROVE  Connected'
  <2> DEFINE c == [at |-> at, ifc |-> i, fd |-> NoFd, value |-> v]
  <2>1. c.at \notin {"fdopen", "send", "read"} /\ c.fd = NoFd
    BY DEF Ioctl
  <2>2. call' = [call EXCEPT ![t] = c]
    BY <1>3 DEF Call
  <2> HIDE DEF c
  <2> QED
    BY <1>2, <2>1, <2>2
<1>4. ASSUME NEW t \in Threads, Step(t)
      PROVE  Connected'
  <2>1. CASE call' = [call EXCEPT ![t] = None]
    BY <1>2, <2>1 DEF None
  <2>2. At(t) # "none"
    BY <1>4 DEF Step, open, write, ctl_socket, ioctl, netd_sock_init, fdopen,
                send, fread, Trigger, Ioctl
  <2>3. ASSUME NEW at, at # "connect", Go(t, at, Lowest)
        PROVE  Connected'
    BY <2>2, <2>3, LowestIs, ConnectedGo
  <2>4. ASSUME NEW at, Go(t, at, NoFd),
               at \notin {"connect", "fdopen", "send", "read"}
        PROVE  Connected'
    BY <2>2, <2>4, LowestIs, ConnectedGo
  <2>5. \A at \in Trigger, ok \in BOOLEAN :
          after(at, ok) \notin {"connect", "fdopen", "send", "read"}
    BY DEF after, Trigger
  <2>6. CASE open(t) \/ write(t)
    BY <2>3, <2>4, <2>5, <2>6 DEF open, write, Trigger
  <2>7. CASE ctl_socket(t) \/ ioctl(t)
    BY <2>3, <2>4, <2>7 DEF ctl_socket, ioctl, Ioctl
  <2>8. CASE netd_sock_init(t)
    BY <2>1, <2>3, <2>4, <2>8 DEF netd_sock_init
  <2>9. ASSUME NEW at \in {"send", "read"}, Go(t, at, call[t].fd),
               At(t) \in {"fdopen", "send"}
        PROVE  Connected'
    <3>1. call[t].fd # NoFd /\ call[t].fd \in Descriptors
      <4>1. call[t] \in Calls
        BY <2>2 DEF TypeOK, None, At
      <4> QED
        BY <2>9, <4>1 DEF Connected, Calls
    <3> QED
      BY <2>2, <2>9, <3>1, ConnectedGo
  <2>10. CASE fdopen(t) \/ send(t) \/ fread(t)
    BY <2>1, <2>4, <2>9, <2>10 DEF fdopen, send, fread
  <2> QED
    BY <1>4, <2>6, <2>7, <2>8, <2>10 DEF Step
<1>5. CASE Die
  BY <1>5 DEF Die, Connected, At, None
<1>6. CASE \E t \in Threads : answer(t)
  BY <1>1, <1>6 DEF answer
<1>7. CASE NetdDies \/ Reopen
  BY <1>1, <1>7 DEF NetdDies, Reopen
<1> QED
  BY <1>1, <1>3, <1>4, <1>5, <1>6, <1>7 DEF Next, vars

-----------------------------------------------------------------------------
(* Every step keeps the invariant. *)
LEMMA NetStep ==
  ASSUME NetInv, Connected, [Next]_vars
  PROVE  NetInv'
<1>1. CASE UNCHANGED vars
  BY <1>1 DEF vars, kernel, NetInv, TypeOK, DescriptorsClosed, Ipv6OffExcused,
              Under, At
<1>2. ASSUME NEW t \in Threads, NEW i \in Interfaces, NEW v \in Values,
             NEW at \in {"disable", "connect"} \cup Ioctl, Call(t, at, i, v)
      PROVE  NetInv'
  BY <1>2, CallStep
<1>3. ASSUME NEW t \in Threads, Step(t)
      PROVE  NetInv'
  <2>1. CASE open(t) \/ write(t)
    BY <2>1, TriggerStep
  <2>2. CASE ctl_socket(t) \/ ioctl(t)
    BY <2>2, IoctlStep
  <2>3. CASE send(t) \/ fread(t)
    BY <2>3, ThrottleStep
  <2>5. CASE netd_sock_init(t)
    <3>1. CASE UNCHANGED stdin
      BY <2>5, <3>1, ThrottleStep
    <3>2. call[t].fd = NoFd
      BY <2>5 DEF netd_sock_init, Connected
    <3>3. Lowest = 0 => stdin = "closed"
      BY DEF Lowest
    <3> QED
      BY <2>5, <3>1, <3>2, <3>3, LoseZeroStep DEF netd_sock_init
  <2>4. CASE fdopen(t)
    <3>1. CASE UNCHANGED leaks
      BY <2>4, <3>1, ThrottleStep
    <3>2. call[t].fd # NoFd
      BY <2>4 DEF fdopen, Connected
    <3> QED
      BY <2>4, <3>1, <3>2, LeakStep DEF fdopen
  <2> QED
    BY <1>3, <2>1, <2>2, <2>3, <2>4, <2>5 DEF Step
<1>4. CASE (\E t \in Threads : answer(t)) \/ NetdDies
  <2>1. netd' \in [Threads -> Answers \cup {0, Eof}]
    BY <1>4 DEF NetInv, TypeOK, answer, NetdDies
  <2>2. UNCHANGED <<call, kernel, descriptors, stdin, leaks, excused>>
    BY <1>4 DEF answer, NetdDies
  <2> QED
    BY <2>1, <2>2
       DEF NetInv, TypeOK, kernel, DescriptorsClosed, Ipv6OffExcused,
                      Under, At
<1>7. CASE Reopen
  <2>1. /\ UNCHANGED <<call, netd, kernel, descriptors, leaks, excused>>
        /\ {stdin, stdin'} = {"open", "closed"}
    BY <1>7 DEF Reopen
  <2>2. DescriptorsClosed'
    BY <2>1 DEF NetInv, DescriptorsClosed, At
  <2> QED
    BY <2>1, <2>2 DEF NetInv, TypeOK, kernel, Ipv6OffExcused, Under, At
<1>5. CASE Die
  <2>1. Holders' = {}
    BY <1>5 DEF Die, Holders, At, None
  <2>2. Cardinality(Holders') = 0
    BY <2>1, FS_EmptySet
  <2>3. DescriptorsClosed'
    BY <1>5, <2>2 DEF DescriptorsClosed, Die, Holders
  <2>4. leaks' \in 0 .. MaxLeaks
    BY <1>5 DEF Die
  <2>5. TypeOK'
    BY <1>5, <2>3, <2>4, DescriptorsBoundedNext DEF NetInv, TypeOK, Die, kernel
  <2>6. Ipv6OffExcused'
    BY <1>5 DEF NetInv, Die, kernel, Ipv6OffExcused, TypeOK
  <2> QED
    BY <2>3, <2>5, <2>6 DEF NetInv
<1>6. (CHOOSE v \in Values : TRUE) \in Values
  OBVIOUS
<1> QED
  BY <1>1, <1>2, <1>3, <1>4, <1>5, <1>6, <1>7 DEF Next

(* However calls interleave, whichever system calls fail and whenever the  *)
(* process dies: IPv6 is off only under a call that is still to turn it on *)
(* or after one that could not, and every open descriptor belongs to a     *)
(* running call, is one that a failed fdopen lost, or is descriptor 0 left *)
(* open by a throttle request that took it for a failure.                  *)
THEOREM NetUtilsSafe == Spec => [](TypeOK /\ Ipv6OffExcused /\ DescriptorsClosed)
<1>1. Init => NetInv /\ Connected
  BY NetInitial DEF Init, Connected, At, None
<1>2. NetInv /\ Connected /\ [Next]_vars => (NetInv /\ Connected)'
  BY NetStep, ConnectedStep DEF NetInv
<1>3. NetInv => TypeOK /\ Ipv6OffExcused /\ DescriptorsClosed
  BY DEF NetInv
<1> QED
  BY <1>1, <1>2, <1>3, PTL DEF Spec
=============================================================================
