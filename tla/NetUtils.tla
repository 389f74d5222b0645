------------------------------ MODULE NetUtils ------------------------------
(***************************************************************************)
(* libshims/netutils.c, the interface helpers the vendor RIL calls: the    *)
(* IPv6 router solicitation, which turns IPv6 off and on through procfs,   *)
(* the throttle request to netd, and the two ioctls of a ccmni interface.  *)
(* Nothing is locked and any system call can fail.  Calls of several       *)
(* threads interleave between system calls, and the process can die with   *)
(* its calls half done.                                                    *)
(***************************************************************************)
EXTENDS Integers, FiniteSets

CONSTANTS Threads, Interfaces,
          Values,       \* what txq states and modem numbers are set to
          Answers,      \* the lengths of netd's answers, in bytes
          MaxLeaks      \* bound: descriptors lost

ASSUME ThreadsAssumption == IsFiniteSet(Threads)
ASSUME NumbersAssumption == /\ Values \subseteq Nat /\ Values # {}
                            /\ Answers \subseteq Nat \ {0} /\ MaxLeaks \in Nat

VARIABLES call,         \* the call of each thread: the step it is at, the
                        \* interface, the value, the descriptor it has
          netd,         \* external: the bytes netd has answered each thread, or Eof
          disable_ipv6, accept_ra_defrtr,   \* external: the procfs files
          ccmni,        \* external: the txq state and the modem, by interface
          descriptors,  \* external: how many descriptors the helpers have
                        \* opened that are still open
          stdin,        \* descriptor 0: "open" while the process has it
                        \* open itself, "closed" if not; "lost" once a call
                        \* has left it open
          leaks,        \* history: descriptors that fdopen has lost
          excused       \* history: no call since one that could not turn
                        \* IPv6 on again, or died before it did

kernel == <<disable_ipv6, accept_ra_defrtr, ccmni>>
vars == <<call, netd, kernel, descriptors, stdin, leaks, excused>>

None == [at |-> "none"]
Trigger == {"disable", "enable", "route"}       \* ifc_ipv6_trigger_rs
Throttle == {"connect", "fdopen", "send", "read"}  \* ifc_set_throttle
Ioctl == {"SIOCSTXQSTATE", "SIOCSCCMNICFG"}
At(t) == call[t].at
NoFd == -1
Descriptors == {NoFd, 0, 1}                     \* 1 stands for any but 0
ReadSize == 20
Eof == -1

Calls == [at : Trigger \cup Throttle \cup Ioctl, ifc : Interfaces,
          fd : Descriptors, value : Values]

TypeOK == /\ call \in [Threads -> {None} \cup Calls]
          /\ netd \in [Threads -> Answers \cup {0, Eof}]
          /\ disable_ipv6 \in [Interfaces -> BOOLEAN]
          /\ accept_ra_defrtr \in [Interfaces -> BOOLEAN]
          /\ ccmni \in [Interfaces -> [Ioctl -> Values]]
          /\ descriptors \in 0 .. Cardinality(Threads) + MaxLeaks + 1
          /\ stdin \in {"open", "closed", "lost"}
          /\ leaks \in 0 .. MaxLeaks
          /\ excused \in [Interfaces -> BOOLEAN]

Init == /\ call = [t \in Threads |-> None]
        /\ netd = [t \in Threads |-> Eof]
        /\ disable_ipv6 = [i \in Interfaces |-> FALSE]
        /\ accept_ra_defrtr = [i \in Interfaces |-> FALSE]
        /\ ccmni \in [Interfaces -> [Ioctl -> Values]]
        /\ descriptors = 0 /\ leaks = 0
        /\ stdin \in {"open", "closed"}
        /\ excused = [i \in Interfaces |-> FALSE]

-----------------------------------------------------------------------------
(* External: a thread of the vendor RIL calls one of the helpers. *)
Call(t, at, i, v) ==
  /\ call[t] = None
  /\ call' = [call EXCEPT ![t] = [at |-> at, ifc |-> i, fd |-> NoFd, value |-> v]]
  /\ excused' = IF at = "disable" THEN [excused EXCEPT ![i] = FALSE] ELSE excused
  /\ UNCHANGED <<netd, kernel, descriptors, stdin, leaks>>

(* The lowest descriptor that is free, which is what the kernel hands out. *)
Lowest == IF stdin = "closed" /\ \A t \in Threads : At(t) # "none" => call[t].fd # 0
          THEN 0 ELSE 1

Count(fd) == IF fd = NoFd THEN 0 ELSE 1

(* What a thread does after a step, with the descriptor it has then.       *)
Go(t, at, fd) ==
  /\ call' = [call EXCEPT ![t] =
                IF at = "none" THEN None ELSE [@ EXCEPT !.at = at, !.fd = fd]]
  /\ descriptors' = descriptors + Count(fd) - Count(call[t].fd)

(* Whatever failed, the next of the three steps follows, and the call      *)
(* returns 0.  As elsewhere, a name with a suffix is a plausible bug no    *)
(* action uses.                                                            *)
after_GiveUp(at, ok) ==
  CASE at = "disable" /\ ok -> "enable" [] at = "enable" -> "route"
    [] OTHER -> "none"
after(at, ok) ==
  CASE at = "disable" -> "enable" [] at = "enable" -> "route" [] OTHER -> "none"

(* History: a failure to turn IPv6 on again. *)
Excuse(t, ok) ==
  excused' = IF At(t) = "enable" /\ ~ok
             THEN [excused EXCEPT ![call[t].ifc] = TRUE] ELSE excused

-----------------------------------------------------------------------------
(* setEnableIPv6 and setIPv6DefaultRoute: open a file of procfs, write to  *)
(* it, and close it even if the write failed.                              *)

open(t) ==
  /\ At(t) \in Trigger /\ call[t].fd = NoFd
  /\ \/ Go(t, At(t), Lowest) /\ UNCHANGED excused
     \/ Go(t, after(At(t), FALSE), NoFd) /\ Excuse(t, FALSE)
  /\ UNCHANGED <<netd, kernel, stdin, leaks>>

(* The value of disable_ipv6 is "0" to enable IPv6. *)
written_Inverted(t) ==
  /\ disable_ipv6' = IF At(t) = "route" THEN disable_ipv6
                     ELSE [disable_ipv6 EXCEPT ![call[t].ifc] = (At(t) = "enable")]
  /\ accept_ra_defrtr' = IF At(t) = "route"
                         THEN [accept_ra_defrtr EXCEPT ![call[t].ifc] = TRUE]
                         ELSE accept_ra_defrtr
  /\ UNCHANGED ccmni
written(t) ==
  /\ disable_ipv6' = IF At(t) = "route" THEN disable_ipv6
                     ELSE [disable_ipv6 EXCEPT ![call[t].ifc] = (At(t) = "disable")]
  /\ accept_ra_defrtr' = IF At(t) = "route"
                         THEN [accept_ra_defrtr EXCEPT ![call[t].ifc] = TRUE]
                         ELSE accept_ra_defrtr
  /\ UNCHANGED ccmni

write(t) ==
  /\ At(t) \in Trigger /\ call[t].fd # NoFd
  /\ \E ok \in BOOLEAN : /\ IF ok THEN written(t) ELSE UNCHANGED kernel
                         /\ Go(t, after(At(t), ok), NoFd)
                         /\ Excuse(t, ok)
  /\ UNCHANGED <<netd, stdin, leaks>>

-----------------------------------------------------------------------------
(* ifc_set_txq_state and ifc_ccmni_md_cfg: a socket, one ioctl, close. *)

ctl_socket(t) ==
  /\ At(t) \in Ioctl /\ call[t].fd = NoFd
  /\ Go(t, At(t), Lowest) \/ Go(t, "none", NoFd)
  /\ UNCHANGED <<netd, kernel, stdin, leaks, excused>>

ioctl_NotClosed(t) ==
  /\ At(t) \in Ioctl /\ call[t].fd # NoFd
  /\ \/ /\ ccmni' = [ccmni EXCEPT ![call[t].ifc][At(t)] = call[t].value]
        /\ Go(t, "none", NoFd)
     \/ /\ UNCHANGED <<ccmni, descriptors>>
        /\ call' = [call EXCEPT ![t] = None]
  /\ UNCHANGED <<netd, disable_ipv6, accept_ra_defrtr, stdin, leaks, excused>>
ioctl(t) ==
  /\ At(t) \in Ioctl /\ call[t].fd # NoFd
  /\ \/ ccmni' = [ccmni EXCEPT ![call[t].ifc][At(t)] = call[t].value]
     \/ UNCHANGED ccmni
  /\ Go(t, "none", NoFd)
  /\ UNCHANGED <<netd, disable_ipv6, accept_ra_defrtr, stdin, leaks, excused>>

-----------------------------------------------------------------------------
(* ifc_set_throttle. *)

(* ifc_netd_sock_init closes a socket that it cannot connect.  One that is *)
(* connected is used, unless its number is 0: ifc_set_throttle takes that  *)
(* for a failure, and the socket stays open.                               *)
netd_sock_init_NotClosed(t) ==
  /\ At(t) = "connect"
  /\ \/ /\ Lowest > 0
        /\ Go(t, "fdopen", Lowest) /\ UNCHANGED stdin
     \/ /\ call' = [call EXCEPT ![t] = None]
        /\ descriptors' = descriptors + 1
        /\ stdin' = IF Lowest = 0 THEN "lost" ELSE stdin
  /\ UNCHANGED <<netd, kernel, leaks, excused>>
netd_sock_init(t) ==
  /\ At(t) = "connect"
  /\ \/ /\ Lowest > 0
        /\ Go(t, "fdopen", Lowest) /\ UNCHANGED stdin
     \/ /\ Lowest = 0
        /\ call' = [call EXCEPT ![t] = None]
        /\ descriptors' = descriptors + 1
        /\ stdin' = "lost"
     \/ Go(t, "none", NoFd) /\ UNCHANGED stdin
  /\ UNCHANGED <<netd, kernel, leaks, excused>>

(* If fdopen fails the socket is lost: only the stream is ever closed. *)
fdopen(t) ==
  /\ At(t) = "fdopen"
  /\ \/ Go(t, "send", call[t].fd) /\ UNCHANGED leaks
     \/ /\ leaks < MaxLeaks /\ leaks' = leaks + 1
        /\ call' = [call EXCEPT ![t] = None] /\ UNCHANGED descriptors
  /\ UNCHANGED <<netd, kernel, stdin, excused>>

(* fprintf, fputc and fflush; the stream is closed if one fails. *)
send(t) ==
  /\ At(t) = "send"
  /\ \/ Go(t, "read", call[t].fd) /\ netd' = [netd EXCEPT ![t] = 0]
     \/ Go(t, "none", NoFd) /\ UNCHANGED netd
  /\ UNCHANGED <<kernel, stdin, leaks, excused>>

(* External: netd answers and leaves the connection open; or netd dies. *)
answer(t) ==
  /\ netd[t] = 0
  /\ \E n \in Answers : netd' = [netd EXCEPT ![t] = n]
  /\ UNCHANGED <<call, kernel, descriptors, stdin, leaks, excused>>
NetdDies ==
  /\ \E t \in Threads : netd[t] # Eof
  /\ netd' = [t \in Threads |-> Eof]
  /\ UNCHANGED <<call, kernel, descriptors, stdin, leaks, excused>>

(* fread returns when it has all of ReadSize bytes, or at the end of the   *)
(* stream; what netd answered is not looked at.                            *)
Enough_Whole(t) == netd[t] = Eof
Enough(t) == netd[t] = Eof \/ netd[t] >= ReadSize
fread(t) ==
  /\ At(t) = "read"
  /\ Enough(t)
  /\ Go(t, "none", NoFd)
  /\ netd' = [netd EXCEPT ![t] = Eof]
  /\ UNCHANGED <<kernel, stdin, leaks, excused>>

-----------------------------------------------------------------------------
(* External: the process opens its standard input or closes it.            *)
Reopen ==
  /\ \A t \in Threads : At(t) # "none" => call[t].fd # 0
  /\ \/ stdin = "open" /\ stdin' = "closed"
     \/ stdin = "closed" /\ stdin' = "open"
  /\ UNCHANGED <<call, netd, kernel, descriptors, leaks, excused>>

(* External: the process dies with all its calls, and is started again. *)
Die ==
  /\ call' = [t \in Threads |-> None]
  /\ netd' = [t \in Threads |-> Eof]
  /\ descriptors' = 0 /\ leaks' = 0 /\ stdin' \in {"open", "closed"}
  /\ excused' = [i \in Interfaces |-> disable_ipv6[i]]
  /\ UNCHANGED kernel

Step(t) == \/ open(t) \/ write(t) \/ ctl_socket(t) \/ ioctl(t)
           \/ netd_sock_init(t) \/ fdopen(t) \/ send(t) \/ fread(t)

Next == \/ \E t \in Threads, i \in Interfaces :
             \/ \E at \in {"disable", "connect"} :
                  Call(t, at, i, CHOOSE v \in Values : TRUE)
             \/ \E at \in Ioctl, v \in Values : Call(t, at, i, v)
        \/ \E t \in Threads : Step(t) \/ answer(t)
        \/ NetdDies \/ Reopen \/ Die

(* A thread is scheduled until its call returns, and netd answers.         *)
Spec == /\ Init /\ [][Next]_vars
        /\ \A t \in Threads : WF_vars(Step(t)) /\ WF_vars(answer(t))

-----------------------------------------------------------------------------
(* Properties. *)

Under(i) == \E t \in Threads : At(t) \in {"disable", "enable"} /\ call[t].ifc = i

(* However calls of several threads interleave, IPv6 is off only while     *)
(* one of them is still to turn it on, or after one could not; and the     *)
(* next call makes up for that, even if it cannot turn IPv6 off itself.    *)
Ipv6OffExcused ==
  \A i \in Interfaces : disable_ipv6[i] => Under(i) \/ excused[i]

(* IPv6 that a call turned off comes back, unless turning it on failed or  *)
(* the process died: no order of the steps of two calls loses it.          *)
Ipv6ComesBack ==
  \A i \in Interfaces : disable_ipv6[i] ~> (~disable_ipv6[i] \/ excused[i])

(* Two ways through a helper leave a descriptor open, whichever calls fail *)
(* and however they interleave: one where fdopen fails, and one where the  *)
(* socket of a throttle request got number 0, which happens once at most.  *)
DescriptorsClosed ==
  descriptors = Cardinality({t \in Threads : At(t) # "none" /\ call[t].fd # NoFd})
                + leaks + (IF stdin = "lost" THEN 1 ELSE 0)

(* A throttle request returns, although netd keeps the connection open:    *)
(* only an answer shorter than what is read can keep the caller waiting.   *)
ThrottleReturns ==
  \A t \in Threads :
    At(t) \in Throttle ~> (At(t) \notin Throttle
                           \/ netd[t] \in 1 .. ReadSize - 1)
=============================================================================
