------------------------------ MODULE Capture ------------------------------
(***************************************************************************)
(* src/capture.c: a raw socket and the loop that hands its packets to a    *)
(* handler, next to the rest of the process, which opens and closes        *)
(* descriptors of its own, a signal handler that sets the stop flag, and a *)
(* network.  The caller may close a context twice, or after an open that   *)
(* failed, when sockfd is the number of a descriptor already closed        *)
(* (capture.c:33, 43).  recv restarts after a signal or returns EINTR.     *)
(* Time stamps and the snapshot length, which is never less than the       *)
(* buffer, are left out.                                                   *)
(***************************************************************************)
EXTENDS Integers, Sequences, FiniteSets, FiniteSetsExt

CONSTANTS Fds,      \* descriptor numbers; the kernel gives the lowest free
          Lens,     \* packet lengths
          MaxQueue, \* packets the socket holds
          MaxPkts   \* bound: packets that arrive, but for those after the last stop

\* What the constants are.
CaptureAssumption == Fds \subseteq Nat /\ Lens \subseteq Nat /\ {MaxQueue, MaxPkts} \subseteq Nat

NoFd == -1

VARIABLES sockfd, promiscuous, pkt_count, byte_count,  \* capture_ctx_t
          pc,        \* capture_loop: "out", "check", "recv" or "handler"
          buf,       \* the length of the packet in buf
          stop_flag,
          open_fds,  \* kernel: the descriptors in use
          member,    \* kernel: sockets with a PACKET_MR_PROMISC membership
          queue,     \* kernel: the packets the socket holds
          opened,    \* caller: whether capture_open last returned 0
          others,    \* the descriptors of the rest of the process
          astray,    \* history: did a close of a context last opened without
                     \* failure take one of these
          arrived,   \* bound
          handled,   \* history: packets and bytes the handler got
          late       \* history: packets it got after the stop

ctxVars == <<sockfd, promiscuous, pkt_count, byte_count>>
loopVars == <<pc, buf, stop_flag, queue, arrived, handled, late>>
fdVars == <<open_fds, member, opened, others, astray>>
captureVars == <<ctxVars, loopVars, fdVars>>

NoneHandled == [pkts |-> 0, bytes |-> 0]

Init == /\ sockfd = NoFd /\ promiscuous = FALSE /\ pkt_count = 0 /\ byte_count = 0
        /\ pc = "out" /\ buf = 0 /\ stop_flag = FALSE
        /\ open_fds = {} /\ member = {} /\ queue = <<>>
        /\ opened = FALSE /\ others = {} /\ astray = FALSE
        /\ arrived = 0 /\ handled = NoneHandled /\ late = 0

IsOpen == opened /\ sockfd # NoFd

\* The lowest free descriptor, or none if the table is full.
NewFd == IF open_fds = Fds THEN NoFd ELSE Min(Fds \ open_fds)

\* capture_open; each call may fail, and a membership refused is no failure.
Open(promisc) ==
    /\ ~IsOpen
    /\ promiscuous' = promisc /\ pkt_count' = 0 /\ byte_count' = 0
    /\ queue' = <<>> /\ arrived' = 0 /\ handled' = NoneHandled /\ late' = 0
    /\ \/ /\ NewFd = NoFd       \* socket fails
          /\ sockfd' = NoFd /\ opened' = FALSE
          /\ UNCHANGED <<open_fds, member>>
       \/ /\ NewFd # NoFd       \* SIOCGIFINDEX or bind fails
          /\ sockfd' = NewFd /\ opened' = FALSE
          /\ UNCHANGED <<open_fds, member>>
       \/ /\ NewFd # NoFd
          /\ sockfd' = NewFd /\ opened' = TRUE
          /\ open_fds' = open_fds \cup {NewFd}
          /\ \/ promisc /\ member' = member \cup {NewFd}
             \/ UNCHANGED member
    /\ UNCHANGED <<pc, buf, stop_flag, others, astray>>

\* Mutant of Given: sockfd keeps its number.
GivenNone == sockfd

Given == NoFd

\* capture_close.  What the rest of the process does with a descriptor of its
\* own that this closes is not modelled.
Close ==
    /\ pc = "out" /\ sockfd # NoFd
    /\ open_fds' = open_fds \ {sockfd} /\ member' = member \ {sockfd}
    /\ others' = others \ {sockfd}
    /\ astray' = (astray \/ (opened /\ sockfd \in others))
    /\ sockfd' = Given
    /\ UNCHANGED <<promiscuous, pkt_count, byte_count, opened, loopVars>>

\* The caller clears its flag and calls capture_loop.
Enter == /\ IsOpen /\ pc = "out" /\ arrived < MaxPkts
         /\ pc' = "check" /\ stop_flag' = FALSE /\ late' = 0
         /\ UNCHANGED <<ctxVars, buf, queue, arrived, handled, fdVars>>

\* Mutants of Stopped: the flag is not looked at while packets wait; nor ever.
StoppedDrained == stop_flag /\ queue = <<>>
StoppedNever == FALSE

Stopped == stop_flag

Check == /\ pc = "check"
         /\ pc' = IF Stopped THEN "out" ELSE "recv"
         /\ UNCHANGED <<ctxVars, buf, stop_flag, queue, arrived, handled, late, fdVars>>

Receive == /\ pc = "recv" /\ queue # <<>>
           /\ buf' = Head(queue) /\ queue' = Tail(queue)
           /\ pkt_count' = pkt_count + 1 /\ byte_count' = byte_count + Head(queue)
           /\ pc' = "handler"
           /\ UNCHANGED <<sockfd, promiscuous, stop_flag, arrived, handled, late, fdVars>>

\* recv fails: EINTR, or an error that ends the loop.
ReceiveFails == /\ pc = "recv"
                /\ pc' \in {"check", "out"}
                /\ UNCHANGED <<ctxVars, buf, stop_flag, queue, arrived, handled, late, fdVars>>

Handle == /\ pc = "handler"
          /\ handled' = [pkts |-> handled.pkts + 1, bytes |-> handled.bytes + buf]
          /\ late' = IF stop_flag THEN late + 1 ELSE late
          /\ pc' = "check"
          /\ UNCHANGED <<ctxVars, buf, stop_flag, queue, arrived, fdVars>>

\* The signal handler, at any time.
Stop == /\ ~stop_flag /\ pc # "out"
        /\ stop_flag' = TRUE
        /\ UNCHANGED <<ctxVars, pc, buf, queue, arrived, handled, late, fdVars>>

\* A packet arrives at the socket; one too many is dropped.
Arrive(len) == /\ IsOpen /\ Len(queue) < MaxQueue
               /\ stop_flag \/ arrived < MaxPkts
               /\ arrived' = arrived + 1
               /\ queue' = Append(queue, len)
               /\ UNCHANGED <<ctxVars, pc, buf, stop_flag, handled, late, fdVars>>

\* The rest of the process opens and closes descriptors.
OtherOpens == /\ NewFd # NoFd
              /\ open_fds' = open_fds \cup {NewFd} /\ others' = others \cup {NewFd}
              /\ UNCHANGED <<ctxVars, loopVars, member, opened, astray>>
OtherCloses(fd) == /\ fd \in others
                   /\ open_fds' = open_fds \ {fd} /\ others' = others \ {fd}
                   /\ UNCHANGED <<ctxVars, loopVars, member, opened, astray>>

LoopStep == Check \/ Receive \/ Handle

Next == \/ \E promisc \in BOOLEAN : Open(promisc)
        \/ Close \/ Enter \/ LoopStep \/ ReceiveFails \/ Stop
        \/ \E len \in Lens : Arrive(len)
        \/ OtherOpens
        \/ \E fd \in Fds : OtherCloses(fd)

Spec == Init /\ [][Next]_captureVars

\* The loop runs, on a network that need not send anything.
IdleSpec == Spec /\ WF_captureVars(LoopStep)

-----------------------------------------------------------------------------
\* Every variable has its type.
TypeOK == /\ sockfd \in Fds \cup {NoFd} /\ promiscuous \in BOOLEAN
          /\ pc \in {"out", "check", "recv", "handler"} /\ stop_flag \in BOOLEAN
          /\ queue \in Seq(Lens) /\ buf \in Lens \cup {0}
          /\ {pkt_count, byte_count, arrived, late} \subseteq Nat

\* The context holds its own descriptor and no other, through opens that fail
\* at any step and closes called twice (capture.c:24-45, 60-65): it leaks none,
\* and after an open that did not fail no close takes a descriptor the process
\* has opened since under the same number.  After one that failed it may.
FdsOwned == /\ LET own == IF IsOpen THEN {sockfd} ELSE {}
               IN  open_fds = others \cup own /\ own \cap others = {} /\ member \subseteq own
            /\ ~astray

\* Once the flag is set the handler gets at most one packet more, the one the
\* loop had committed to (capture.c:72-88), however many wait; and the counters
\* are of the packets it got.
OneAfterStop == /\ late <= 1
                /\ pkt_count = handled.pkts + (IF pc = "handler" THEN 1 ELSE 0)
                /\ byte_count = handled.bytes + (IF pc = "handler" THEN buf ELSE 0)

\* The loop "returns when *stop_flag becomes non-zero" (capture.h:37): it does
\* if packets keep coming, but not under IdleSpec, for recv has no timeout
\* (capture.c:72-73).
StopEnds == (stop_flag /\ pc # "out") ~> (pc = "out")
=============================================================================
