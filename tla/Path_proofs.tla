---------------------------- MODULE Path_proofs ----------------------------
(***************************************************************************)
(* Proofs about Path: any descriptor table, processes, options, limits,    *)
(* frames, blocks and traffic.                                             *)
(***************************************************************************)
EXTENDS Path, TableLemmas

\* Each part takes a step of its own or none.
LEMMA Steps ==
    ASSUME [Next]_vars
    PROVE  /\ Cap!Next \/ UNCHANGED capVars
           /\ Prom!Next \/ UNCHANGED promVars
           /\ Thr!Next \/ UNCHANGED thrVars
           /\ Pc!Next \/ UNCHANGED pcVars
           /\ Mn!Next \/ UNCHANGED mnVars
           /\ Dis!Next \/ UNCHANGED disVars
           /\ Fil!Next \/ UNCHANGED filVars
           /\ Out!Next \/ UNCHANGED outVars
           /\ Bpf!Next \/ UNCHANGED bpfVars
           /\ Ifs!Next \/ UNCHANGED ifVars
           /\ Hex!Next \/ UNCHANGED dumpVars
           /\ Met!Next \/ UNCHANGED metVars
<1>1. CASE UNCHANGED vars
  BY <1>1 DEF vars
<1>2. CASE Next
  BY <1>2 DEF Next, Only, vars
<1>3. QED BY <1>1, <1>2

-----------------------------------------------------------------------------
\* capture.c
LEMMA CapConstants == Fds \subseteq Nat /\ CapLens \subseteq Nat
BY PathAssumption, Zenon DEF Cap!CaptureAssumption

\* A descriptor the kernel gives is one that was free.
LEMMA NewFdIsFree ==
    ASSUME open_fds \subseteq Fds, Cap!NewFd # Cap!NoFd
    PROVE  Cap!NewFd \in Fds \ open_fds
<1>1. PICK S : S = Fds \ open_fds
  OBVIOUS
<1>2. S \in SUBSET Nat /\ S # {}
  <2>1. open_fds # Fds
    BY Zenon DEF Cap!NewFd
  <2>2. QED BY <1>1, <2>1, CapConstants
<1>3. Cap!NewFd = Min(S)
  BY <1>1, Zenon DEF Cap!NewFd, Cap!Min, Min
<1>4. Min(S) \in S
  BY <1>2, MinIsIn
<1>5. QED BY <1>1, <1>3, <1>4

\* The loop runs on an open socket, and only a packet it had begun when the
\* flag was set comes after it.
LoopOK == /\ pc \in {"out", "check", "recv", "handler"} /\ stop_flag \in BOOLEAN
          /\ pc # "out" => Cap!IsOpen
          /\ late \in Nat
          /\ ~stop_flag \/ pc \in {"recv", "handler"} => late = 0
          /\ queue \in Seq(CapLens) /\ (pc = "handler" => buf \in CapLens)
          /\ handled \in [pkts : Nat, bytes : Nat]

CapTypes == /\ promiscuous \in BOOLEAN /\ arrived \in Nat
            /\ buf \in CapLens \cup {0} /\ sockfd \in Fds \cup {Cap!NoFd}

\* The inductive invariant of capture.c: an open context has its descriptor to
\* itself, and the loop runs on an open one.
CapInv == open_fds \subseteq Fds /\ Cap!FdsOwned /\ LoopOK /\ Cap!OneAfterStop /\ CapTypes

LEMMA CapInit ==
    ASSUME Init
    PROVE  CapInv
<1>1. open_fds \subseteq Fds /\ Cap!FdsOwned
  BY DEF Init, Cap!Init, Cap!FdsOwned, Cap!IsOpen
<1>2. late = 0 /\ pc = "out" /\ stop_flag \in BOOLEAN
  BY Zenon DEF Init, Cap!Init
<1>3. queue = <<>> /\ handled = Cap!NoneHandled /\ pkt_count = 0 /\ byte_count = 0
  BY DEF Init, Cap!Init
<1>4. CapTypes
  BY Zenon DEF Init, Cap!Init, CapTypes
<1>5. QED
  BY <1>1, <1>2, <1>3, <1>4 DEF CapInv, LoopOK, Cap!OneAfterStop, Cap!NoneHandled

\* Who owns which descriptor.
LEMMA CapOwned ==
    ASSUME CapInv, [Next]_vars
    PROVE  (open_fds \subseteq Fds /\ Cap!FdsOwned)'
<1> USE DEF CapInv, Cap!FdsOwned, Cap!IsOpen
<1>0. Cap!NoFd \notin Fds
  BY CapConstants DEF Cap!NoFd
<1>1. ASSUME NEW promisc \in BOOLEAN, Cap!Open(promisc)
      PROVE  (open_fds \subseteq Fds /\ Cap!FdsOwned)'
  <2>1. CASE opened' = FALSE
    BY <1>1, <2>1 DEF Cap!Open
  <2>2. CASE opened' = TRUE
    <3>1. Cap!NewFd \in Fds \ open_fds
      BY <1>1, <2>2, NewFdIsFree DEF Cap!Open
    <3>2. QED BY <1>0, <1>1, <2>2, <3>1 DEF Cap!Open
  <2>3. QED BY <1>1, <2>1, <2>2 DEF Cap!Open
<1>2. CASE Cap!Close
  BY <1>0, <1>2 DEF Cap!Close, Cap!Given
<1>3. CASE Cap!OtherOpens
  <2>1. Cap!NewFd \in Fds \ open_fds
    BY <1>3, NewFdIsFree DEF Cap!OtherOpens
  <2>2. QED BY <1>3, <2>1 DEF Cap!OtherOpens, Cap!ctxVars, Cap!loopVars
<1>4. ASSUME NEW fd \in Fds, Cap!OtherCloses(fd)
      PROVE  (open_fds \subseteq Fds /\ Cap!FdsOwned)'
  BY <1>4 DEF Cap!OtherCloses, Cap!ctxVars, Cap!loopVars
<1>5. CASE UNCHANGED <<sockfd, Cap!fdVars>>
  BY <1>5 DEF Cap!fdVars
<1>6. QED
  BY <1>1, <1>2, <1>3, <1>4, <1>5, Steps
     DEF Cap!Next, Cap!Enter, Cap!LoopStep, Cap!Check, Cap!Receive, Cap!Handle,
         Cap!ReceiveFails, Cap!Stop, Cap!Arrive, Cap!ctxVars, Cap!fdVars, capVars

\* What the loop has read, handed on and counted.
LEMMA CapLoop ==
    ASSUME CapInv, [Next]_vars
    PROVE  (LoopOK /\ Cap!OneAfterStop)'
<1> USE DEF CapInv, LoopOK, Cap!OneAfterStop, Cap!IsOpen
<1>0. CapLens \subseteq Nat
  BY CapConstants
<1>1. ASSUME NEW promisc \in BOOLEAN, Cap!Open(promisc)
      PROVE  (LoopOK /\ Cap!OneAfterStop)'
  BY <1>1 DEF Cap!Open, Cap!NoneHandled
<1>2. CASE Cap!Close
  BY <1>2 DEF Cap!Close, Cap!loopVars
<1>3. CASE Cap!Enter
  <2>1. late' = 0 /\ pc' = "check" /\ Cap!IsOpen' /\ stop_flag' \in BOOLEAN
    BY <1>3, Zenon DEF Cap!Enter, Cap!ctxVars, Cap!fdVars
  <2>2. UNCHANGED <<pkt_count, byte_count, queue, handled>> /\ pc = "out"
    BY <1>3 DEF Cap!Enter, Cap!ctxVars
  <2>3. QED BY <2>1, <2>2
<1>4. CASE Cap!Check
  BY <1>4 DEF Cap!Check, Cap!Stopped, Cap!ctxVars, Cap!fdVars
<1>5. CASE Cap!Receive
  <2>1. Head(queue) \in CapLens /\ Tail(queue) \in Seq(CapLens)
    BY <1>5 DEF Cap!Receive
  <2>2. QED BY <1>0, <1>5, <2>1 DEF Cap!Receive, Cap!fdVars
<1>6. CASE Cap!Handle
  <2>1. /\ handled' = [pkts |-> handled.pkts + 1, bytes |-> handled.bytes + buf]
        /\ UNCHANGED <<sockfd, opened, pkt_count, byte_count, queue>>
        /\ pc = "handler" /\ pc' = "check"
    BY <1>6 DEF Cap!Handle, Cap!ctxVars, Cap!fdVars
  <2>2. /\ (late' = late /\ ~stop_flag') \/ (late' = late + 1 /\ stop_flag')
        /\ stop_flag' \in BOOLEAN
    <3>1. late' = (IF stop_flag THEN late + 1 ELSE late) /\ stop_flag' = stop_flag
      BY <1>6, Zenon DEF Cap!Handle
    <3>2. stop_flag \in BOOLEAN
      BY Zenon
    <3>3. QED BY <3>1, <3>2, Zenon
  <2>3. handled' \in [pkts : Nat, bytes : Nat]
    <3>1. buf \in Nat /\ handled.pkts \in Nat /\ handled.bytes \in Nat
      BY <1>0, <2>1
    <3>2. QED BY <2>1, <3>1
  <2>4. late = 0
    BY <2>1
  <2>5. late' \in Nat /\ late' <= 1 /\ (~stop_flag' => late' = 0)
    BY <2>2, <2>4
  <2>6. QED BY <2>1, <2>2, <2>3, <2>5
<1>7. CASE Cap!ReceiveFails
  BY <1>7 DEF Cap!ReceiveFails, Cap!ctxVars, Cap!fdVars
<1>8. CASE Cap!Stop
  BY <1>8 DEF Cap!Stop, Cap!ctxVars, Cap!fdVars
<1>9. ASSUME NEW len \in CapLens, Cap!Arrive(len)
      PROVE  (LoopOK /\ Cap!OneAfterStop)'
  BY <1>9 DEF Cap!Arrive, Cap!ctxVars, Cap!fdVars
<1>10. CASE UNCHANGED <<Cap!ctxVars, Cap!loopVars, opened>>
  BY <1>10 DEF Cap!ctxVars, Cap!loopVars
<1>11. QED
  BY <1>1, <1>2, <1>3, <1>4, <1>5, <1>6, <1>7, <1>8, <1>9, <1>10, Steps
     DEF Cap!Next, Cap!LoopStep, Cap!OtherOpens, Cap!OtherCloses, Cap!ctxVars, Cap!loopVars, capVars

LEMMA CapTyped ==
    ASSUME CapInv, [Next]_vars
    PROVE  CapTypes'
<1> USE DEF CapInv, CapTypes
<1>1. ASSUME NEW promisc \in BOOLEAN, Cap!Open(promisc)
      PROVE  CapTypes'
  <2>1. sockfd' \in Fds \cup {Cap!NoFd}
    <3>1. sockfd' = Cap!NoFd \/ (Cap!NewFd # Cap!NoFd /\ sockfd' = Cap!NewFd)
      BY <1>1 DEF Cap!Open
    <3>2. QED BY <3>1, NewFdIsFree
  <2>2. QED BY <1>1, <2>1 DEF Cap!Open
<1>2. CASE Cap!Close
  BY <1>2 DEF Cap!Close, Cap!Given, Cap!loopVars
<1>3. CASE Cap!Receive
  <2>1. Head(queue) \in CapLens
    BY <1>3 DEF Cap!Receive, LoopOK
  <2>2. QED BY <1>3, <2>1 DEF Cap!Receive
<1>4. ASSUME NEW len \in CapLens, Cap!Arrive(len)
      PROVE  CapTypes'
  BY <1>4 DEF Cap!Arrive, Cap!ctxVars
<1>5. CASE UNCHANGED <<Cap!ctxVars, buf, arrived>>
  BY <1>5 DEF Cap!ctxVars
<1>6. QED
  BY <1>1, <1>2, <1>3, <1>4, <1>5, Steps
     DEF Cap!Next, Cap!Enter, Cap!LoopStep, Cap!Check, Cap!Handle, Cap!ReceiveFails, Cap!Stop,
         Cap!OtherOpens, Cap!OtherCloses, Cap!ctxVars, Cap!loopVars, capVars

LEMMA CapStep == CapInv /\ [Next]_vars => CapInv'
BY CapOwned, CapLoop, CapTyped DEF CapInv

LEMMA CapImplied == CapInv => Cap!TypeOK
<1> SUFFICES ASSUME CapInv PROVE Cap!TypeOK
  OBVIOUS
<1>1. handled.pkts \in Nat /\ handled.bytes \in Nat
  BY DEF CapInv, LoopOK
<1>2. pc = "handler" => buf \in Nat
  BY CapConstants DEF CapInv, LoopOK
<1>3. pkt_count \in Nat /\ byte_count \in Nat
  <2>1. CASE pc = "handler"
    BY <1>1, <1>2, <2>1 DEF CapInv, Cap!OneAfterStop
  <2>2. CASE pc # "handler"
    BY <1>1, <2>2 DEF CapInv, Cap!OneAfterStop
  <2>3. QED BY <2>1, <2>2
<1>4. QED BY <1>3 DEF CapInv, LoopOK, CapTypes, Cap!TypeOK

\* A context owns one descriptor and no other (FdsOwned): through opens that fail
\* at any step and closes called twice, next to a process that opens and
\* closes its own (capture.c:24-45, 60-65).
THEOREM DescriptorsOwned == Spec => []FdsOwned
<1>1. CapInv => FdsOwned
  BY DEF CapInv, FdsOwned
<1>2. QED BY CapInit, CapStep, <1>1, PTL DEF Spec

\* One packet at most after the stop, whatever waits, and counters of what the
\* handler got (capture.c:72-88).
THEOREM OneMoreAtMost == Spec => []OneAfterStop
<1>1. CapInv => OneAfterStop
  BY DEF CapInv, OneAfterStop
<1>2. QED BY CapInit, CapStep, <1>1, PTL DEF Spec

-----------------------------------------------------------------------------
\* promisc.c

\* A context's copy of the flags is from before the administrator's last wish
\* only if that is noted when it is written.
PromInv == /\ flags \in [up : BOOLEAN, promisc : BOOLEAN]
           /\ copy \in [Ctxs -> [up : BOOLEAN, promisc : BOOLEAN]]
           /\ ctx \in [Ctxs -> [was : BOOLEAN, enabled : BOOLEAN]]
           /\ step \in [Ctxs -> {"none", "ready", "set", "clear"}]
           /\ wanted \in BOOLEAN /\ torn \in BOOLEAN /\ shared \subseteq Ctxs
           /\ Prom!FlagsKnown

LEMMA PromInit == Init => PromInv
<1> SUFFICES ASSUME Prom!Init PROVE PromInv
  BY DEF Init
<1>1. flags \in [up : BOOLEAN, promisc : BOOLEAN] /\ flags.up \in BOOLEAN
  BY DEF Prom!Init
<1>2. QED BY <1>1 DEF Prom!Init, Prom!Unset, PromInv, Prom!FlagsKnown

LEMMA PromStep == PromInv /\ [Next]_vars => PromInv'
<1> SUFFICES ASSUME PromInv, [Next]_vars PROVE PromInv'
  OBVIOUS
<1> USE DEF PromInv, Prom!FlagsKnown
<1>0. flags.up \in BOOLEAN /\ flags.promisc \in BOOLEAN
  OBVIOUS
<1>1. ASSUME NEW c \in Ctxs, Prom!Setup(c) PROVE PromInv'
  <2>1. Prom!Found \in [was : BOOLEAN, enabled : BOOLEAN] /\ Prom!Found.enabled = flags.promisc
    BY <1>0 DEF Prom!Found
  <2>2. QED BY <1>1, <2>1 DEF Prom!Setup
<1>2. ASSUME NEW c \in Ctxs, NEW to \in {"set", "clear"}, Prom!Read(c, to) PROVE PromInv'
  BY <1>2 DEF Prom!Read
<1>3. ASSUME NEW c \in Ctxs, Prom!Write(c) PROVE PromInv'
  <2>1. PICK on \in BOOLEAN : on = (step[c] = "set")
    OBVIOUS
  <2>2. /\ step' = [step EXCEPT ![c] = "ready"] /\ step[c] # "none"
        /\ UNCHANGED <<copy, wanted>>
    BY <1>3 DEF Prom!Write
  <2>3. CASE UNCHANGED <<flags, ctx, shared, torn>>
    BY <2>2, <2>3
  <2>4. CASE /\ flags' = [up |-> copy[c].up, promisc |-> on]
             /\ ctx' = [ctx EXCEPT ![c].enabled = on]
             /\ shared' = shared \cup (Ctxs \ {c})
             /\ torn' = (torn \/ copy[c].up # flags.up)
    <3>1. copy[c].up \in BOOLEAN
      OBVIOUS
    <3>2. flags' \in [up : BOOLEAN, promisc : BOOLEAN] /\ flags'.promisc = on
          /\ flags'.up = copy[c].up
      BY <2>4, <3>1
    <3>3. ctx' \in [Ctxs -> [was : BOOLEAN, enabled : BOOLEAN]] /\ ctx'[c].enabled = on
      BY <2>4
    <3>4. torn' \in BOOLEAN /\ (~torn' => ~torn /\ copy[c].up = flags.up)
      BY <2>4
    <3>5. QED BY <2>2, <2>4, <3>2, <3>3, <3>4
  <2>5. QED BY <1>3, <2>1, <2>3, <2>4 DEF Prom!Write
<1>4. ASSUME NEW c \in Ctxs, Prom!Release(c) PROVE PromInv'
  BY <1>4 DEF Prom!Release
<1>5. CASE Prom!Admin
  BY <1>0, <1>5 DEF Prom!Admin
<1>6. CASE UNCHANGED promVars
  BY <1>6 DEF promVars
<1>7. QED
  BY <1>1, <1>2, <1>3, <1>4, <1>5, <1>6, Steps DEF Prom!Next, Prom!Enable, Prom!Disable

\* A process that has the flag to itself knows it, and the other flags are the
\* administrator's unless changed between the two calls (promisc.c:47-79).
THEOREM FlagsAreKnown == Spec => []FlagsKnown
<1>1. PromInv => FlagsKnown
  BY DEF PromInv, FlagsKnown
<1>2. QED BY PromInit, PromStep, <1>1, PTL DEF Spec

-----------------------------------------------------------------------------
\* main.c

\* A reason to end is given once, and a signal lets through at most the packet
\* that capture_next had begun.
MainOK == /\ phase \in {"options", "open", "signals", "loop", "next", "close", "done"}
          /\ count \in Int /\ snaplen \in Int /\ captured \in Nat /\ after \in Nat
          /\ status \in {"none", "success", "failure", "killed"}
          /\ reason \in {"none", "count", "signal", "error"}
          /\ captured = printed /\ after <= 1
          /\ count > 0 => captured <= count
          /\ phase \notin {"close", "done"} => reason = "none"
          /\ phase \in {"options", "open", "signals"} => running /\ captured = 0
          /\ phase = "next" => (count = 0 \/ captured < count) /\ after = 0
          /\ running => after = 0
          /\ reason = "count" /\ count > 0 => captured = count
          /\ reason = "count" /\ count <= 0 => captured = 0 /\ count # 0
          /\ count < 0 => captured = 0
          /\ status \in {"success", "failure"} => ~handle_open
          /\ phase # "done" => status = "none"
          /\ phase \in {"options", "open"} => ~handle_open

MainFlags == running \in BOOLEAN /\ handle_open \in BOOLEAN

MainInv == MainFlags /\ MainOK

LEMMA MainConstants == Counts \subseteq Int /\ Snaplens \subseteq Int
BY PathAssumption, Zenon DEF Mn!MainAssumption

LEMMA MainInit == Init => MainInv
<1> SUFFICES ASSUME Mn!Init PROVE MainInv
  BY Zenon DEF Init
<1>1. /\ phase = "options" /\ count = 0 /\ snaplen = 1514 /\ captured = 0
      /\ running /\ ~handle_open /\ status = "none"
      /\ printed = 0 /\ after = 0 /\ reason = "none"
  BY Zenon DEF Mn!Init
<1>2. MainFlags
  <2>1. running = TRUE /\ handle_open = FALSE
    BY Zenon DEF Mn!Init
  <2>2. QED BY <2>1, Zenon DEF MainFlags
<1>3. MainOK
  BY <1>1 DEF MainOK
<1>4. QED BY <1>2, <1>3 DEF MainInv

LEMMA MainFlagsStep ==
    ASSUME MainFlags, [Next]_vars
    PROVE  MainFlags'
<1>1. CASE UNCHANGED <<running, handle_open>>
  BY <1>1, Zenon DEF MainFlags
<1>2. CASE UNCHANGED running /\ handle_open' \in BOOLEAN
  BY <1>2, Zenon DEF MainFlags
<1>3. CASE running' = FALSE /\ UNCHANGED handle_open
  BY <1>3, Zenon DEF MainFlags
<1>4. CASE Mn!OpenHandle
  BY <1>1, <1>2, <1>4, Zenon DEF Mn!OpenHandle
<1>5. CASE Mn!CloseHandle
  BY <1>2, <1>5, Zenon DEF Mn!CloseHandle
<1>6. CASE Mn!Signal
  BY <1>1, <1>3, <1>6, Zenon DEF Mn!Signal
<1>7. CASE Mn!Options \/ Mn!InstallHandlers \/ Mn!Loop \/ Mn!Packet \/ Mn!NoPacket
  <2>1. UNCHANGED <<running, handle_open>>
    BY <1>7 DEF Mn!Options, Mn!InstallHandlers, Mn!Loop, Mn!Packet, Mn!NoPacket
  <2>2. QED BY <1>1, <2>1
<1>8. CASE UNCHANGED mnVars
  BY <1>1, <1>8, Zenon DEF mnVars
<1>9. QED
  BY <1>4, <1>5, <1>6, <1>7, <1>8, Steps, Zenon DEF Mn!Next, Mn!Step, Mn!Return

LEMMA MainStep == MainInv /\ [Next]_vars => MainInv'
<1> SUFFICES ASSUME MainInv, [Next]_vars PROVE MainOK'
  BY MainFlagsStep DEF MainInv
<1> USE DEF MainInv, MainOK
<1>0. running' \in BOOLEAN /\ handle_open' \in BOOLEAN
  BY MainFlagsStep, Zenon DEF MainInv, MainFlags
<1>1. CASE Mn!Options
  <2>1. /\ UNCHANGED <<captured, running, handle_open, printed, after, reason>>
        /\ count' \in Int /\ snaplen' \in Int /\ phase = "options"
        /\ \/ phase' = "done" /\ status' \in {"success", "failure"}
           \/ phase' = "open" /\ UNCHANGED status
    BY <1>1, MainConstants DEF Mn!Options, Mn!Exit
  <2>2. QED BY <2>1
<1>2. CASE Mn!OpenHandle
  <2>1. /\ UNCHANGED <<count, snaplen, captured, running, printed, after, reason>>
        /\ phase = "open"
        /\ \/ phase' = "done" /\ status' = "failure" /\ UNCHANGED handle_open
           \/ phase' = "signals" /\ UNCHANGED status
    BY <1>2, Zenon DEF Mn!OpenHandle, Mn!Exit
  <2>2. QED BY <2>1
<1>3. CASE Mn!InstallHandlers
  BY <1>3 DEF Mn!InstallHandlers
<1>4. CASE Mn!Loop
  BY <1>4 DEF Mn!Loop, Mn!Goes
<1>5. CASE Mn!Packet
  BY <1>5 DEF Mn!Packet
<1>6. CASE Mn!NoPacket
  BY <1>6 DEF Mn!NoPacket
<1>7. CASE Mn!CloseHandle
  <2>1. /\ UNCHANGED <<count, snaplen, captured, running, printed, after, reason>>
        /\ phase' = "done" /\ status' = "success" /\ ~handle_open' /\ phase = "close"
    BY <1>7, Zenon DEF Mn!CloseHandle, Mn!Exit
  <2>2. QED BY <2>1
<1>8. CASE Mn!Signal
  <2>1. /\ UNCHANGED <<count, snaplen, captured, handle_open, printed, after, reason>>
        /\ \/ phase' = "done" /\ status' = "killed" /\ UNCHANGED running
           \/ ~running' /\ UNCHANGED <<phase, status>>
              /\ phase \notin {"options", "open", "signals"}
    BY <1>8, Zenon DEF Mn!Signal, Mn!Exit
  <2>2. QED BY <2>1
<1>9. CASE UNCHANGED mnVars
  BY <1>9 DEF mnVars
<1>10. QED
  BY <1>1, <1>2, <1>3, <1>4, <1>5, <1>6, <1>7, <1>8, <1>9, Steps
     DEF Mn!Next, Mn!Step, Mn!Return

\* However a capture ends, the number reported is that of the packets printed, at most one
\* comes after a signal, and the handle is closed (main.c:98-114).
THEOREM CapturesEnd == Spec => []CaptureEnds
<1>1. MainInv => CaptureEnds
  BY DEF MainInv, MainOK, CaptureEnds, Mn!CaptureEnds
<1>2. MainInv /\ [Next]_vars => MainInv'
  BY MainStep
<1>3. QED BY MainInit, <1>1, <1>2, PTL DEF Spec

-----------------------------------------------------------------------------
\* bpf_wrap.c

\* What BpfOwned leaves unsaid: the error texts are a map.
BpfInv == /\ heap = owned /\ progs = owned /\ compiled = owned /\ owned \subseteq Blocks
          /\ bpf_errbuf = failed /\ failed = [t \in Threads |-> failed[t]]

LEMMA BpfInit == Init => BpfInv
<1>1. Init => /\ bpf_errbuf = [t \in Threads |-> "none"] /\ failed = [t \in Threads |-> "none"]
              /\ heap = {} /\ compiled = {} /\ progs = {} /\ owned = {}
  BY Zenon DEF Init, Bpf!Init
<1>2. QED BY <1>1 DEF BpfInv

\* An error is told to its own thread alone.
LEMMA Fails ==
    ASSUME bpf_errbuf = failed, NEW t, NEW error, Bpf!Fails(t, error)
    PROVE  bpf_errbuf' = failed' /\ failed' = [failed EXCEPT ![t] = error]
BY Zenon DEF Bpf!Fails, Bpf!Told

LEMMA BpfStep == BpfInv /\ [Next]_vars => BpfInv'
<1> SUFFICES ASSUME BpfInv, [Next]_vars PROVE BpfInv'
  OBVIOUS
<1> USE DEF BpfInv
<1>1. ASSUME NEW t \in Threads, Bpf!Refuse(t) PROVE BpfInv'
  <2>1. PICK error : Bpf!Fails(t, error) /\ UNCHANGED <<heap, compiled, progs, owned>>
    BY <1>1, Zenon DEF Bpf!Refuse
  <2>2. bpf_errbuf' = failed' /\ failed' = [failed EXCEPT ![t] = error]
    BY <2>1, Fails
  <2>3. QED BY <2>1, <2>2
<1>2. ASSUME NEW t \in Threads, NEW b \in Blocks, Bpf!CompileFails(t, b) PROVE BpfInv'
  <2>1. Bpf!Fails(t, "compile failed") /\ UNCHANGED <<heap, compiled, progs, owned>>
    BY <1>2, Zenon DEF Bpf!CompileFails
  <2>2. bpf_errbuf' = failed' /\ failed' = [failed EXCEPT ![t] = "compile failed"]
    BY <2>1, Fails
  <2>3. QED BY <2>1, <2>2
<1>3. ASSUME NEW t \in Threads, NEW b \in Blocks, Bpf!Compile(t, b) PROVE BpfInv'
  BY <1>3 DEF Bpf!Compile
<1>4. ASSUME NEW b \in Blocks, Bpf!Free(b) PROVE BpfInv'
  BY <1>4 DEF Bpf!Free
<1>5. CASE UNCHANGED bpfVars
  BY <1>5 DEF bpfVars
<1>6. QED BY <1>1, <1>2, <1>3, <1>4, <1>5, Steps DEF Bpf!Next

\* Blocks and programs are those of the handles callers have, and a thread's error is
\* its own (bpf_wrap.c:18-85).
THEOREM NothingLeaks == Spec => []BpfOwned
<1>1. BpfInv => BpfOwned
  BY DEF BpfInv, BpfOwned, Bpf!BpfOwned
<1>2. QED BY BpfInit, BpfStep, <1>1, PTL DEF Spec

-----------------------------------------------------------------------------
\* hexdump.c
LEMMA DumpConstants == DumpLens \subseteq Nat /\ Sizes \subseteq Nat \ {0}
BY PathAssumption, Zenon DEF Hex!HexdumpAssumption

\* The buffer is written up to its NUL, and the loop is where the string ends.
HexInv == /\ dump_len \in Nat /\ out_sz \in Nat /\ at \in Nat
          /\ pos = 3 * at /\ reached = nul + 1 /\ Hex!WritesInside

LEMMA HexInit == Init => HexInv
<1> SUFFICES ASSUME Init PROVE HexInv
  OBVIOUS
<1>1. PICK n \in Nat, sz \in Nat \ {0} : Hex!Rendered(n, sz)
  <2>1. CASE part = "hexdump"
    BY <2>1, DumpConstants DEF Init, Hex!Init
  <2>2. CASE part # "hexdump"
    BY <2>2 DEF Init
  <2>3. QED BY <2>1, <2>2
<1>2. QED BY <1>1 DEF Hex!Rendered, HexInv, Hex!WritesInside

LEMMA HexStep == HexInv /\ [Next]_vars => HexInv'
<1> SUFFICES ASSUME HexInv, [Next]_vars PROVE HexInv'
  OBVIOUS
<1>1. CASE Hex!Byte
  BY <1>1 DEF Hex!Byte, Hex!Fits, HexInv, Hex!WritesInside
<1>2. ASSUME NEW n \in DumpLens, NEW sz \in Sizes, Hex!Call(n, sz) PROVE HexInv'
  BY <1>2, DumpConstants DEF Hex!Call, HexInv, Hex!WritesInside
<1>3. CASE UNCHANGED dumpVars
  BY <1>3 DEF dumpVars, HexInv, Hex!WritesInside
<1>4. QED BY <1>1, <1>2, <1>3, Steps DEF Hex!Next

-----------------------------------------------------------------------------
\* dissect.c
LEMMA DisConstants == /\ Ihls \subseteq 0 .. 15 /\ Doffs \subseteq 0 .. 15
                      /\ SizeSpace \in Nat \ {0} /\ FrameLens \subseteq 0 .. SizeSpace - 1
BY PathAssumption, Zenon DEF Dis!DissectAssumption

\* Fields that all end within the first n bytes.
Within(fields, n) == \A x \in DOMAIN fields : /\ fields[x][1] \in Nat /\ fields[x][2] \in Nat
                                              /\ fields[x][1] + fields[x][2] <= n

LEMMA OverWithin ==
    ASSUME NEW f, NEW g, NEW n, Within(f, n), Within(g, n)
    PROVE  Within(Dis!Over(f, g), n)
BY Zenon DEF Within, Dis!Over

LEMMA AtWithin ==
    ASSUME NEW f, NEW k \in Nat, NEW base \in Nat, NEW n \in Nat, Within(f, k), base + k <= n
    PROVE  Within(Dis!At(f, base), n)
<1>1. PICK g : g = Dis!At(f, base)
  OBVIOUS
<1>2. DOMAIN g = DOMAIN f /\ \A x \in DOMAIN f : g[x] = <<f[x][1] + base, f[x][2]>>
  BY <1>1, Zenon DEF Dis!At
<1>3. ASSUME NEW x \in DOMAIN f
      PROVE  g[x][1] \in Nat /\ g[x][2] \in Nat /\ g[x][1] + g[x][2] <= n
  <2>1. f[x][1] \in Nat /\ f[x][2] \in Nat /\ f[x][1] + f[x][2] <= k
    BY DEF Within
  <2>2. g[x][1] = f[x][1] + base /\ g[x][2] = f[x][2]
    BY <1>2
  <2>3. QED BY <2>1, <2>2
<1>4. QED BY <1>1, <1>2, <1>3, Zenon DEF Within

\* Where the headers' fields end (dissect.c:9-74).
LEMMA HeadersWithin == /\ Within(Dis!EthFields, 14) /\ Within(Dis!IpFields, 20)
                       /\ Within(Dis!TcpFields, 14) /\ Within(Dis!UdpFields, 6)
<1>1. Within(Dis!EthFields, 14)
  BY DEF Dis!EthFields, Within
<1>2. Within(Dis!IpFields, 20)
  BY DEF Dis!IpFields, Within
<1>3. Within(Dis!TcpFields, 14)
  BY DEF Dis!TcpFields, Within
<1>4. Within(Dis!UdpFields, 6)
  BY DEF Dis!UdpFields, Within
<1>5. QED BY <1>1, <1>2, <1>3, <1>4

LEMMA WithinGrows ==
    ASSUME NEW f, NEW k \in Nat, NEW n \in Nat, Within(f, k), k <= n
    PROVE  Within(f, n)
BY DEF Within

\* What dissect_packet makes of a frame, header by header.
Result(fields, top, payload, payload_len) ==
    [fields |-> fields, top |-> top, payload |-> payload, payload_len |-> payload_len]

EthOut == Dis!Over(Dis!EthFields, <<>>)
IpOut == Dis!Over(Dis!At(Dis!IpFields, 14), EthOut)
EthResult(top) == Result(EthOut, top, 0, 0)
IpResult(top) == Result(IpOut, top, 0, 0)

\* A header of the given fields and size at base, in a frame of len bytes.
FullResult(fields, top, base, size, len) ==
    Result(Dis!Over(Dis!At(fields, base), IpOut), top, base + size,
           IF len - base > size THEN len - base - size ELSE 0)

AnyFrame == [type : {"ipv4", "arp", "ipv6", "unknown"}, len : FrameLens, ihl : Ihls,
             proto : {"tcp", "udp", "icmp", "unknown"}, doff : Doffs]

LEMMA FrameNumbers ==
    ASSUME NEW f \in AnyFrame
    PROVE  /\ f.len \in 0 .. SizeSpace - 1 /\ f.ihl \in 0 .. 15 /\ f.doff \in 0 .. 15
           /\ f.type \in {"ipv4", "arp", "ipv6", "unknown"}
           /\ f.proto \in {"tcp", "udp", "icmp", "unknown"}
<1>1. f.len \in FrameLens /\ f.ihl \in Ihls /\ f.doff \in Doffs
  BY DEF AnyFrame
<1>2. /\ f.type \in {"ipv4", "arp", "ipv6", "unknown"}
      /\ f.proto \in {"tcp", "udp", "icmp", "unknown"}
  BY DEF AnyFrame
<1>3. QED BY <1>1, <1>2, DisConstants

\* The ethernet header is there in any case.
LEMMA EthIs ==
    ASSUME NEW top
    PROVE  /\ [Dis!Cleared EXCEPT !.fields = Dis!Over(Dis!EthFields, @)] = EthResult("unknown")
           /\ [EthResult("unknown") EXCEPT !.top = top] = EthResult(top)
           /\ [EthResult("unknown") EXCEPT !.fields = Dis!Over(Dis!At(Dis!IpFields, 14), @)]
                = IpResult("unknown")
           /\ [IpResult("unknown") EXCEPT !.top = top] = IpResult(top)
BY DEF Dis!Cleared, Dis!Nothing, EthResult, IpResult, Result, EthOut, IpOut

\* A frame of another type is not looked into; nor is a header that does not fit.
LEMMA ParsedEth ==
    ASSUME NEW f \in AnyFrame, f.type # "ipv4" \/ ~Dis!IpFits(f.len - 14, f.ihl)
    PROVE  Dis!Parsed(f) = EthResult(IF f.type = "ipv4" THEN "unknown" ELSE f.type)
<1>1. CASE f.type # "ipv4"
  BY <1>1, EthIs, Zenon DEF Dis!Parsed
<1>2. CASE f.type = "ipv4"
  BY <1>2, EthIs, Zenon DEF Dis!Parsed
<1>3. QED BY <1>1, <1>2

\* The bytes that the transport protocol is given are those behind the header: the
\* subtraction does not wrap (dissect.c:96-100).
LEMMA ParsedIp ==
    ASSUME NEW f \in AnyFrame, f.type = "ipv4", Dis!IpFits(f.len - 14, f.ihl)
    PROVE  LET base == 14 + 4 * f.ihl
           IN  /\ f.len - base \in Nat /\ base \in Nat
               /\ Dis!Parsed(f) = Dis!Transport(f, base, f.len - base, IpResult("unknown"))
<1>1. PICK base : base = 14 + 4 * f.ihl
  OBVIOUS
<1>2. f.len - 14 - 4 * f.ihl = f.len - base /\ f.len - base \in 0 .. SizeSpace - 1
      /\ SizeSpace \in Nat \ {0}
  BY <1>1, FrameNumbers, DisConstants DEF Dis!IpFits
<1>3. (f.len - base) % SizeSpace = f.len - base
  BY <1>2
<1>4. Dis!Parsed(f) = Dis!Ipv4(f, EthResult("unknown"))
  BY EthIs, Zenon DEF Dis!Parsed
<1>5. Dis!Ipv4(f, EthResult("unknown"))
        = Dis!Transport(f, base, f.len - base, IpResult("unknown"))
  BY <1>1, <1>2, <1>3, EthIs, Zenon DEF Dis!Ipv4
<1>6. base \in Nat
  BY <1>1, FrameNumbers
<1>7. QED BY <1>1, <1>2, <1>4, <1>5, <1>6

\* The header of the transport protocol, if its least bytes are there.
LEMMA Headed ==
    ASSUME NEW fields, NEW base \in Nat, NEW len \in Nat, NEW size \in Nat, NEW top
    PROVE  Dis!WithHeader(IpResult("unknown"), fields, base, len - base, size, top)
             = FullResult(fields, top, base, size, len)
<1>1. IpResult("unknown").fields = IpOut
  BY DEF IpResult, Result
<1>2. QED BY <1>1, Zenon DEF Dis!WithHeader, FullResult, Result

LEMMA TransportIs ==
    ASSUME NEW f \in AnyFrame, NEW base \in Nat, f.len - base \in Nat
    PROVE  LET out == Dis!Transport(f, base, f.len - base, IpResult("unknown"))
           IN  /\ f.proto = "tcp" /\ f.len - base >= 20 =>
                    out = FullResult(Dis!TcpFields, "tcp", base, 4 * f.doff, f.len)
               /\ f.proto = "udp" /\ f.len - base >= 8 =>
                    out = FullResult(Dis!UdpFields, "udp", base, 8, f.len)
               /\ ~(f.proto = "tcp" /\ f.len - base >= 20)
                  /\ ~(f.proto = "udp" /\ f.len - base >= 8) =>
                    out = IpResult(IF f.proto = "icmp" THEN "icmp" ELSE "unknown")
<1>1. f.len \in Nat /\ 4 * f.doff \in Nat
  BY FrameNumbers
<1>2. f.proto = "tcp" /\ f.len - base >= 20 =>
        Dis!Transport(f, base, f.len - base, IpResult("unknown"))
          = FullResult(Dis!TcpFields, "tcp", base, 4 * f.doff, f.len)
  <2>1. f.proto = "tcp" /\ f.len - base >= 20 =>
          Dis!Transport(f, base, f.len - base, IpResult("unknown"))
            = Dis!WithHeader(IpResult("unknown"), Dis!TcpFields, base, f.len - base, 4 * f.doff, "tcp")
    BY DEF Dis!Transport
  <2>2. QED BY <1>1, <2>1, Headed
<1>3. f.proto = "udp" /\ f.len - base >= 8 =>
        Dis!Transport(f, base, f.len - base, IpResult("unknown"))
          = FullResult(Dis!UdpFields, "udp", base, 8, f.len)
  <2>1. f.proto = "udp" /\ f.len - base >= 8 =>
          Dis!Transport(f, base, f.len - base, IpResult("unknown"))
            = Dis!WithHeader(IpResult("unknown"), Dis!UdpFields, base, f.len - base, 8, "udp")
    BY DEF Dis!Transport
  <2>2. QED BY <1>1, <2>1, Headed
<1>4. ~(f.proto = "tcp" /\ f.len - base >= 20) /\ ~(f.proto = "udp" /\ f.len - base >= 8) =>
        Dis!Transport(f, base, f.len - base, IpResult("unknown"))
          = IpResult(IF f.proto = "icmp" THEN "icmp" ELSE "unknown")
  BY EthIs, Zenon DEF Dis!Transport
<1>5. QED BY <1>2, <1>3, <1>4

InsideFrame(out, len) ==
    /\ Within(out.fields, len)
    /\ out.payload_len > 0 => out.payload + out.payload_len = len

LEMMA ResultInside ==
    ASSUME NEW fields, NEW top, NEW payload, NEW left, NEW len, Within(fields, len),
           left > 0 => payload + left = len
    PROVE  InsideFrame(Result(fields, top, payload, left), len)
BY DEF InsideFrame, Result

LEMMA EthWithin ==
    ASSUME NEW len \in Nat, len >= 14
    PROVE  Within(EthOut, len)
<1>1. Within(<<>>, len)
  BY DEF Within
<1>2. Within(Dis!EthFields, len)
  BY HeadersWithin, WithinGrows
<1>3. QED BY <1>1, <1>2, OverWithin DEF EthOut

LEMMA IpWithin ==
    ASSUME NEW len \in Nat, len >= 34
    PROVE  Within(IpOut, len)
<1>1. Within(Dis!At(Dis!IpFields, 14), len)
  BY HeadersWithin, AtWithin
<1>2. Within(EthOut, len)
  BY EthWithin
<1>3. QED BY <1>1, <1>2, OverWithin DEF IpOut

LEMMA FullInside ==
    ASSUME NEW fields, NEW least \in Nat, Within(fields, least), NEW top, NEW base \in Nat,
           NEW size \in Nat, NEW len \in Nat, len >= 34, base + least <= len
    PROVE  InsideFrame(FullResult(fields, top, base, size, len), len)
<1>1. Within(Dis!At(fields, base), len)
  BY AtWithin
<1>2. Within(IpOut, len)
  BY IpWithin
<1>3. PICK all : all = Dis!Over(Dis!At(fields, base), IpOut)
  OBVIOUS
<1>4. Within(all, len)
  BY <1>1, <1>2, <1>3, OverWithin
<1>5. PICK left : left = IF len - base > size THEN len - base - size ELSE 0
  OBVIOUS
<1>6. left > 0 => base + size + left = len
  BY <1>5
<1>7. InsideFrame(Result(all, top, base + size, left), len)
  BY <1>4, <1>6, ResultInside
<1>8. QED BY <1>3, <1>5, <1>7, Zenon DEF FullResult

\* Whatever lengths a frame claims, its fields and its payload lie inside it.
LEMMA ParsedInside ==
    ASSUME NEW f \in AnyFrame, f.len >= 14
    PROVE  InsideFrame(Dis!Parsed(f), f.len)
<1>1. f.len \in Nat /\ f.ihl \in Nat /\ 4 * f.doff \in Nat
  BY FrameNumbers
<1>2. CASE f.type # "ipv4" \/ ~Dis!IpFits(f.len - 14, f.ihl)
  <2>1. PICK top : top = IF f.type = "ipv4" THEN "unknown" ELSE f.type
    OBVIOUS
  <2>2. Dis!Parsed(f) = EthResult(top)
    BY <1>2, <2>1, ParsedEth, Zenon
  <2>3. InsideFrame(EthResult(top), f.len)
    BY <1>1, EthWithin, ResultInside DEF EthResult
  <2>4. QED BY <2>2, <2>3
<1>3. CASE f.type = "ipv4" /\ Dis!IpFits(f.len - 14, f.ihl)
  <2>1. PICK base \in Nat : base = 14 + 4 * f.ihl
    BY <1>1
  <2>2. f.len - base \in Nat
        /\ Dis!Parsed(f) = Dis!Transport(f, base, f.len - base, IpResult("unknown"))
    BY <1>3, <2>1, ParsedIp
  <2>3. f.len >= 34
    BY <1>1, <1>3 DEF Dis!IpFits
  <2>4. CASE f.proto = "tcp" /\ f.len - base >= 20
    <3>1. Dis!Parsed(f) = FullResult(Dis!TcpFields, "tcp", base, 4 * f.doff, f.len)
      BY <2>2, <2>4, TransportIs
    <3>2. base + 14 <= f.len
      BY <1>1, <2>4
    <3>3. InsideFrame(FullResult(Dis!TcpFields, "tcp", base, 4 * f.doff, f.len), f.len)
      BY <1>1, <2>3, <3>2, FullInside, HeadersWithin
    <3>4. QED BY <3>1, <3>3
  <2>5. CASE f.proto = "udp" /\ f.len - base >= 8
    <3>1. Dis!Parsed(f) = FullResult(Dis!UdpFields, "udp", base, 8, f.len)
      BY <2>2, <2>5, TransportIs
    <3>2. base + 6 <= f.len
      BY <1>1, <2>5
    <3>3. InsideFrame(FullResult(Dis!UdpFields, "udp", base, 8, f.len), f.len)
      BY <1>1, <2>3, <3>2, FullInside, HeadersWithin
    <3>4. QED BY <3>1, <3>3
  <2>6. CASE ~(f.proto = "tcp" /\ f.len - base >= 20) /\ ~(f.proto = "udp" /\ f.len - base >= 8)
    <3>1. PICK top : top = IF f.proto = "icmp" THEN "icmp" ELSE "unknown"
      OBVIOUS
    <3>2. Dis!Parsed(f) = IpResult(top)
      BY <2>2, <2>6, <3>1, TransportIs
    <3>3. InsideFrame(IpResult(top), f.len)
      BY <1>1, <2>3, IpWithin, ResultInside DEF IpResult
    <3>4. QED BY <3>2, <3>3
  <2>7. QED BY <2>4, <2>5, <2>6
<1>4. QED BY <1>2, <1>3

\* The structure is that of the last frame that had an ethernet header.
DisInv == /\ frame.len \in Nat /\ frame.ihl \in Nat /\ frame.doff \in Nat
          /\ frame.len >= 14 => /\ frame \in AnyFrame
                                /\ info = Dis!Parsed(frame)
                                /\ ret = IF Dis!Refused(frame) THEN -1 ELSE 0

LEMMA DisInit == Init => DisInv
<1> SUFFICES ASSUME Dis!Init PROVE DisInv
  BY Zenon DEF Init
<1>1. frame.len = 0 /\ frame.ihl = 5 /\ frame.doff = 5
  BY DEF Dis!Init
<1>2. QED BY <1>1 DEF DisInv

LEMMA DisStep == DisInv /\ [Next]_vars => DisInv'
<1> SUFFICES ASSUME DisInv, [Next]_vars PROVE DisInv'
  OBVIOUS
<1>1. ASSUME NEW f \in Dis!Frames, Dis!DissectPacket(f) PROVE DisInv'
  <2>1. f \in AnyFrame
    BY Zenon DEF Dis!Frames, AnyFrame
  <2>2. f.len \in Nat /\ f.ihl \in Nat /\ f.doff \in Nat
    BY <2>1, FrameNumbers
  <2>3. frame' = f /\ ret' = (IF Dis!Refused(f) THEN -1 ELSE 0)
    BY <1>1, Zenon DEF Dis!DissectPacket
  <2>4. f.len >= 14 => info' = Dis!Parsed(f)
    <3>1. info' = IF f.len < 14 THEN info ELSE Dis!Parsed(f)
      BY <1>1, Zenon DEF Dis!DissectPacket
    <3>2. QED BY <2>2, <3>1
  <2>5. QED BY <2>1, <2>2, <2>3, <2>4 DEF DisInv
<1>2. CASE UNCHANGED disVars
  BY <1>2 DEF disVars, DisInv
<1>3. QED BY <1>1, <1>2, Steps DEF Dis!Next

\* No frame is read, and no buffer written, behind its end, whatever lengths a
\* frame claims or a caller passes (dissect.c:32-104, hexdump.c:39-58).
THEOREM NothingOutside == Spec => []StaysInside
<1>1. DisInv /\ HexInv => StaysInside
  <2> SUFFICES ASSUME DisInv, HexInv, frame.len >= 14 PROVE Dis!ReadsInside
    BY DEF HexInv, StaysInside, Dis!ReadsInside
  <2>1. InsideFrame(info, frame.len)
    BY ParsedInside, Zenon DEF DisInv
  <2>2. QED BY <2>1, Zenon DEF InsideFrame, Within, Dis!ReadsInside
<1>2. QED BY DisInit, DisStep, HexInit, HexStep, <1>1, PTL DEF Spec

\* A function as a set of pairs, and what a decoder of decode.c finds of those fields.
Graph(f) == {<<x, f[x]>> : x \in DOMAIN f}
Found(fields, base) ==
    {<<x, <<base + fields[x][1], fields[x][2]>>>> : x \in Dis!Kept \cap DOMAIN fields}

LEMMA OverGraph ==
    ASSUME NEW f, NEW g, DOMAIN f \cap DOMAIN g = {}
    PROVE  Graph(Dis!Over(f, g)) = Graph(f) \cup Graph(g)
<1>1. PICK h : h = Dis!Over(f, g)
  OBVIOUS
<1>2. /\ DOMAIN h = DOMAIN f \cup DOMAIN g
      /\ \A x \in DOMAIN f : h[x] = f[x]
      /\ \A x \in DOMAIN g : h[x] = g[x]
  BY <1>1 DEF Dis!Over
<1>3. Graph(h) = Graph(f) \cup Graph(g)
  BY <1>2, Zenon DEF Graph
<1>4. QED BY <1>1, <1>3

\* Two descriptions of a header that agree, where the first has only fields
\* that are kept.
LEMMA Agreed ==
    ASSUME NEW f, NEW d, NEW base \in Nat, Dis!Kept \cap DOMAIN d = DOMAIN f,
           \A x \in DOMAIN f : d[x] = f[x] /\ f[x][1] \in Nat
    PROVE  Graph(Dis!At(f, base)) = Found(d, base)
<1>1. PICK h : h = Dis!At(f, base)
  OBVIOUS
<1>2. DOMAIN h = DOMAIN f /\ \A x \in DOMAIN f : h[x] = <<f[x][1] + base, f[x][2]>>
  BY <1>1, Zenon DEF Dis!At
<1>3. \A x \in DOMAIN f : h[x] = <<base + d[x][1], d[x][2]>>
  BY <1>2
<1>4. ASSUME NEW y \in Graph(h) PROVE y \in Found(d, base)
  <2>1. PICK x \in DOMAIN f : y = <<x, h[x]>>
    BY <1>2 DEF Graph
  <2>2. y = <<x, <<base + d[x][1], d[x][2]>>>>
    BY <1>3, <2>1
  <2>3. QED BY <2>2 DEF Found
<1>5. ASSUME NEW y \in Found(d, base) PROVE y \in Graph(h)
  <2>1. PICK x \in DOMAIN f : y = <<x, <<base + d[x][1], d[x][2]>>>>
    BY DEF Found
  <2>2. y = <<x, h[x]>>
    BY <1>3, <2>1
  <2>3. QED BY <1>2, <2>2 DEF Graph
<1>6. Graph(h) = Found(d, base)
  BY <1>4, <1>5
<1>7. QED BY <1>1, <1>6

LEMMA KeptIs == Dis!Kept = {"dst_mac", "src_mac", "ethertype",
                            "ttl", "protocol", "tot_len", "src_ip", "dst_ip",
                            "src_port", "dst_port", "seq", "ack", "flags", "length"}
<1>1. DOMAIN Dis!EthFields = {"dst_mac", "src_mac", "ethertype"}
  BY DEF Dis!EthFields
<1>2. DOMAIN Dis!IpFields = {"ttl", "protocol", "tot_len", "src_ip", "dst_ip"}
  BY DEF Dis!IpFields
<1>3. DOMAIN Dis!TcpFields = {"src_port", "dst_port", "seq", "ack", "flags"}
  BY DEF Dis!TcpFields
<1>4. DOMAIN Dis!UdpFields = {"src_port", "dst_port", "length"}
  BY DEF Dis!UdpFields
<1>5. QED BY <1>1, <1>2, <1>3, <1>4 DEF Dis!Kept

\* dissect.c and decode.c agree about every header.
LEMMA HeadersAgree ==
    ASSUME NEW base \in Nat
    PROVE  /\ Graph(Dis!At(Dis!IpFields, base)) = Found(Dis!Decoded["ipv4"].fields, base)
           /\ Graph(Dis!At(Dis!TcpFields, base)) = Found(Dis!Decoded["tcp"].fields, base)
           /\ Graph(Dis!At(Dis!UdpFields, base)) = Found(Dis!Decoded["udp"].fields, base)
<1>1. Graph(Dis!At(Dis!IpFields, base)) = Found(Dis!Decoded["ipv4"].fields, base)
  <2>1. PICK d : d = Dis!Decoded["ipv4"].fields
    OBVIOUS
  <2>2. PICK f : f = Dis!IpFields
    OBVIOUS
  <2>3. DOMAIN d = {"version", "ihl", "tos", "tot_len", "ttl", "protocol", "src_ip", "dst_ip"}
    BY <2>1 DEF Dis!Decoded
  <2>4. DOMAIN f = {"ttl", "protocol", "tot_len", "src_ip", "dst_ip"}
    BY <2>2 DEF Dis!IpFields
  <2>5. \A x \in DOMAIN f : d[x] = f[x] /\ f[x][1] \in Nat
    BY <2>1, <2>2, <2>4 DEF Dis!Decoded, Dis!IpFields
  <2>6. Dis!Kept \cap DOMAIN d = DOMAIN f
    BY <2>3, <2>4, KeptIs
  <2>7. Graph(Dis!At(f, base)) = Found(d, base)
    BY <2>5, <2>6, Agreed
  <2>8. QED BY <2>1, <2>2, <2>7
<1>2. Graph(Dis!At(Dis!TcpFields, base)) = Found(Dis!Decoded["tcp"].fields, base)
  <2>1. PICK d : d = Dis!Decoded["tcp"].fields
    OBVIOUS
  <2>2. PICK f : f = Dis!TcpFields
    OBVIOUS
  <2>3. DOMAIN d = {"src_port", "dst_port", "seq", "ack", "flags", "window"}
    BY <2>1 DEF Dis!Decoded
  <2>4. DOMAIN f = {"src_port", "dst_port", "seq", "ack", "flags"}
    BY <2>2 DEF Dis!TcpFields
  <2>5. \A x \in DOMAIN f : d[x] = f[x] /\ f[x][1] \in Nat
    BY <2>1, <2>2, <2>4 DEF Dis!Decoded, Dis!TcpFields
  <2>6. Dis!Kept \cap DOMAIN d = DOMAIN f
    BY <2>3, <2>4, KeptIs
  <2>7. Graph(Dis!At(f, base)) = Found(d, base)
    BY <2>5, <2>6, Agreed
  <2>8. QED BY <2>1, <2>2, <2>7
<1>3. Graph(Dis!At(Dis!UdpFields, base)) = Found(Dis!Decoded["udp"].fields, base)
  <2>1. PICK d : d = Dis!Decoded["udp"].fields
    OBVIOUS
  <2>2. PICK f : f = Dis!UdpFields
    OBVIOUS
  <2>3. DOMAIN d = {"src_port", "dst_port", "length", "checksum"}
    BY <2>1 DEF Dis!Decoded
  <2>4. DOMAIN f = {"src_port", "dst_port", "length"}
    BY <2>2 DEF Dis!UdpFields
  <2>5. \A x \in DOMAIN f : d[x] = f[x] /\ f[x][1] \in Nat
    BY <2>1, <2>2, <2>4 DEF Dis!Decoded, Dis!UdpFields
  <2>6. Dis!Kept \cap DOMAIN d = DOMAIN f
    BY <2>3, <2>4, KeptIs
  <2>7. Graph(Dis!At(f, base)) = Found(d, base)
    BY <2>5, <2>6, Agreed
  <2>8. QED BY <2>1, <2>2, <2>7
<1>4. QED BY <1>1, <1>2, <1>3

LEMMA EthAgrees == Graph(EthOut) = Found(Dis!Decoded["ethernet"].fields, 0)
                   /\ DOMAIN EthOut = {"dst_mac", "src_mac", "ethertype"}
<1>1. PICK d : d = Dis!Decoded["ethernet"].fields
  OBVIOUS
<1>2. PICK f : f = EthOut
  OBVIOUS
<1>3. DOMAIN Dis!EthFields = {"dst_mac", "src_mac", "ethertype"}
  BY DEF Dis!EthFields
<1>4. DOMAIN f = {"dst_mac", "src_mac", "ethertype"}
      /\ \A x \in DOMAIN f : f[x] = Dis!EthFields[x]
  BY <1>2, <1>3 DEF EthOut, Dis!Over
<1>5. DOMAIN d = {"dst_mac", "src_mac", "ethertype"}
  BY <1>1 DEF Dis!Decoded
<1>6. \A x \in DOMAIN f : /\ d[x] = f[x] /\ f[x] = <<0 + d[x][1], d[x][2]>>
  BY <1>1, <1>4 DEF Dis!Decoded, Dis!EthFields
<1>7. Dis!Kept \cap DOMAIN d = DOMAIN f
  BY <1>4, <1>5, KeptIs
<1>8. Graph(f) = Found(d, 0)
  BY <1>6, <1>7, Zenon DEF Graph, Found
<1>9. QED BY <1>1, <1>2, <1>4, <1>8

\* The fields of the headers up to the network's and up to the transport's.
LEMMA IpAgrees == Graph(IpOut) = Found(Dis!Decoded["ethernet"].fields, 0)
                                   \cup Found(Dis!Decoded["ipv4"].fields, 14)
                  /\ DOMAIN IpOut = {"dst_mac", "src_mac", "ethertype",
                                     "ttl", "protocol", "tot_len", "src_ip", "dst_ip"}
<1>1. PICK g : g = Dis!At(Dis!IpFields, 14)
  OBVIOUS
<1>2. DOMAIN g = {"ttl", "protocol", "tot_len", "src_ip", "dst_ip"}
  BY <1>1 DEF Dis!At, Dis!IpFields
<1>3. DOMAIN g \cap DOMAIN EthOut = {} /\ DOMAIN IpOut = DOMAIN g \cup DOMAIN EthOut
  BY <1>1, <1>2, EthAgrees DEF IpOut, Dis!Over
<1>4. Graph(IpOut) = Graph(g) \cup Graph(EthOut)
  BY <1>1, <1>3, OverGraph DEF IpOut
<1>5. Graph(g) = Found(Dis!Decoded["ipv4"].fields, 14)
  BY <1>1, HeadersAgree
<1>6. QED BY <1>2, <1>3, <1>4, <1>5, EthAgrees

LEMMA FullAgrees ==
    ASSUME NEW base \in Nat, NEW f, DOMAIN f \cap DOMAIN IpOut = {}
    PROVE  Graph(Dis!Over(Dis!At(f, base), IpOut)) = Graph(Dis!At(f, base)) \cup Graph(IpOut)
<1>1. PICK g : g = Dis!At(f, base)
  OBVIOUS
<1>2. DOMAIN g \cap DOMAIN IpOut = {}
  BY <1>1 DEF Dis!At
<1>3. QED BY <1>1, <1>2, OverGraph

LEMMA TransportDisjoint == /\ DOMAIN Dis!TcpFields \cap DOMAIN IpOut = {}
                           /\ DOMAIN Dis!UdpFields \cap DOMAIN IpOut = {}
<1>1. DOMAIN Dis!TcpFields = {"src_port", "dst_port", "seq", "ack", "flags"}
  BY DEF Dis!TcpFields
<1>2. DOMAIN Dis!UdpFields = {"src_port", "dst_port", "length"}
  BY DEF Dis!UdpFields
<1>3. QED BY <1>1, <1>2, IpAgrees

\* What DissectRight says of a frame f, an information structure and a result.
LeastHeader(name) == Dis!Decoded[name].least
LEMMA LeastIs == /\ LeastHeader("ethernet") = 14 /\ LeastHeader("ipv4") = 20
                 /\ LeastHeader("tcp") = 20 /\ LeastHeader("udp") = 8
BY DEF LeastHeader, Dis!Decoded

Union(f) == UNION {Found(Dis!Decoded[l[1]].fields, l[2]) : l \in Dis!Layers(f)}

Right(f, out) ==
    /\ \A l \in Dis!Layers(f) : f.len - l[2] >= LeastHeader(l[1])
    /\ Graph(out.fields) = Union(f)
    /\ out.top = IF f.type = "ipv4" THEN f.proto ELSE f.type
    /\ f.type = "ipv4" /\ f.proto \in {"tcp", "udp"} =>
         /\ out.payload = Dis!HeaderEnd(f)
         /\ out.payload_len = f.len - Dis!HeaderEnd(f)

LEMMA LayersEth ==
    ASSUME NEW f \in AnyFrame, f.type # "ipv4", Dis!WellFormed(f)
    PROVE  /\ \A l \in Dis!Layers(f) : f.len - l[2] >= LeastHeader(l[1])
           /\ Union(f) = Graph(EthOut)
           /\ f.len >= 14
<1>1. Dis!Layers(f) = {<<"ethernet", 0>>}
  BY DEF Dis!Layers
<1>2. f.len >= 14 /\ f.len \in Nat
  BY FrameNumbers DEF Dis!WellFormed, Dis!HeaderEnd
<1>3. Union(f) = Found(Dis!Decoded["ethernet"].fields, 0)
  BY <1>1 DEF Union
<1>4. QED BY <1>1, <1>2, <1>3, EthAgrees, LeastIs

LEMMA LayersIp ==
    ASSUME NEW f \in AnyFrame, f.type = "ipv4", Dis!WellFormed(f), f.proto \notin {"tcp", "udp"}
    PROVE  /\ \A l \in Dis!Layers(f) : f.len - l[2] >= LeastHeader(l[1])
           /\ Union(f) = Graph(IpOut)
           /\ Dis!IpFits(f.len - 14, f.ihl) /\ f.len >= 34
<1>1. Dis!Layers(f) = {<<"ethernet", 0>>, <<"ipv4", 14>>}
  BY DEF Dis!Layers
<1>2. f.len \in Nat /\ f.ihl \in Nat /\ f.len >= 14 + 4 * f.ihl /\ f.ihl >= 5
  BY FrameNumbers DEF Dis!WellFormed, Dis!HeaderEnd
<1>3. Union(f) = Found(Dis!Decoded["ethernet"].fields, 0)
                   \cup Found(Dis!Decoded["ipv4"].fields, 14)
  BY <1>1 DEF Union
<1>4. f.len - 14 >= 20 /\ f.len - 14 >= 4 * f.ihl
  BY <1>2
<1>5. \A l \in Dis!Layers(f) : f.len - l[2] >= LeastHeader(l[1])
  BY <1>1, <1>2, <1>4, LeastIs
<1>6. QED BY <1>2, <1>3, <1>4, <1>5, IpAgrees DEF Dis!IpFits

LEMMA LayersFull ==
    ASSUME NEW f \in AnyFrame, f.type = "ipv4", Dis!WellFormed(f), NEW base, base = 14 + 4 * f.ihl,
           NEW proto \in {"tcp", "udp"}, f.proto = proto,
           NEW fields, DOMAIN fields \cap DOMAIN IpOut = {},
           Graph(Dis!At(fields, base)) = Found(Dis!Decoded[proto].fields, base)
    PROVE  /\ \A l \in Dis!Layers(f) : f.len - l[2] >= LeastHeader(l[1])
           /\ Union(f) = Graph(Dis!Over(Dis!At(fields, base), IpOut))
           /\ Dis!IpFits(f.len - 14, f.ihl) /\ f.len >= 34 /\ base \in Nat
           /\ f.len - base >= LeastHeader(proto)
           /\ f.len - base >= (IF proto = "tcp" THEN 4 * f.doff ELSE 8)
           /\ Dis!HeaderEnd(f) = base + (IF proto = "tcp" THEN 4 * f.doff ELSE 8)
<1>1. Dis!Layers(f) = {<<"ethernet", 0>>, <<"ipv4", 14>>, <<proto, base>>}
  BY DEF Dis!Layers
<1>2. f.len \in Nat /\ f.ihl \in Nat /\ f.doff \in Nat /\ f.ihl >= 5 /\ base \in Nat
      /\ (proto = "tcp" => f.doff >= 5)
  BY FrameNumbers DEF Dis!WellFormed
<1>3. Dis!HeaderEnd(f) = base + (IF proto = "tcp" THEN 4 * f.doff ELSE 8)
      /\ f.len >= Dis!HeaderEnd(f)
  BY DEF Dis!WellFormed, Dis!HeaderEnd
<1>4. f.len - 14 >= 20 /\ f.len - 14 >= 4 * f.ihl
  BY <1>2, <1>3
<1>5. f.len - base >= LeastHeader(proto) /\ f.len - base >= (IF proto = "tcp" THEN 4 * f.doff ELSE 8)
  BY <1>2, <1>3, LeastIs
<1>6. \A l \in Dis!Layers(f) : f.len - l[2] >= LeastHeader(l[1])
  BY <1>1, <1>2, <1>4, <1>5, LeastIs
<1>7. Union(f) = Found(Dis!Decoded["ethernet"].fields, 0)
                   \cup Found(Dis!Decoded["ipv4"].fields, 14)
                   \cup Found(Dis!Decoded[proto].fields, base)
  BY <1>1 DEF Union
<1>8. Union(f) = Graph(Dis!Over(Dis!At(fields, base), IpOut))
  <2>1. PICK g : g = Graph(Dis!At(fields, base))
    OBVIOUS
  <2>2. Graph(Dis!Over(Dis!At(fields, base), IpOut)) = g \cup Graph(IpOut)
    BY <1>2, <2>1, FullAgrees
  <2>3. QED BY <1>7, <2>1, <2>2, IpAgrees
<1>9. QED BY <1>2, <1>3, <1>4, <1>5, <1>6, <1>8 DEF Dis!IpFits

LEMMA ResultOf ==
    ASSUME NEW fields, NEW top, NEW payload, NEW left, NEW r, r = Result(fields, top, payload, left)
    PROVE  r.fields = fields /\ r.top = top /\ r.payload = payload /\ r.payload_len = left
BY DEF Result

LEMMA FullRight ==
    ASSUME NEW f \in AnyFrame, f.type = "ipv4", Dis!WellFormed(f), NEW base, base = 14 + 4 * f.ihl,
           NEW proto \in {"tcp", "udp"}, f.proto = proto,
           NEW fields, DOMAIN fields \cap DOMAIN IpOut = {},
           Graph(Dis!At(fields, base)) = Found(Dis!Decoded[proto].fields, base),
           NEW size \in Nat, size = (IF proto = "tcp" THEN 4 * f.doff ELSE 8),
           NEW out, out = FullResult(fields, proto, base, size, f.len)
    PROVE  Right(f, out)
<1>1. PICK all : all = Dis!Over(Dis!At(fields, base), IpOut)
  OBVIOUS
<1>2. PICK left : left = IF f.len - base > size THEN f.len - base - size ELSE 0
  OBVIOUS
<1>3. out.fields = all /\ out.top = proto /\ out.payload = base + size /\ out.payload_len = left
  BY <1>1, <1>2, ResultOf DEF FullResult
<1>4. /\ \A l \in Dis!Layers(f) : f.len - l[2] >= LeastHeader(l[1])
      /\ Union(f) = Graph(all)
      /\ base \in Nat /\ f.len - base >= size /\ Dis!HeaderEnd(f) = base + size
  BY <1>1, LayersFull
<1>5. left = f.len - Dis!HeaderEnd(f)
  BY <1>2, <1>4, FrameNumbers
<1>6. QED BY <1>3, <1>4, <1>5, Zenon DEF Right

\* A well formed frame is described by what decode.c's decoders find in it.
LEMMA ParsedRight ==
    ASSUME NEW f \in AnyFrame, Dis!WellFormed(f)
    PROVE  f.len >= 14 /\ ~Dis!Refused(f) /\ Right(f, Dis!Parsed(f))
<1>1. CASE f.type # "ipv4"
  <2>1. PICK out : out = Dis!Parsed(f)
    OBVIOUS
  <2>2. out.fields = EthOut /\ out.top = f.type
    BY <1>1, <2>1, ParsedEth, ResultOf DEF EthResult
  <2>3. f.len >= 14 /\ f.len \in Nat
    BY <1>1, LayersEth, FrameNumbers
  <2>4. Right(f, out)
    BY <1>1, <2>2, LayersEth, Zenon DEF Right
  <2>5. QED BY <1>1, <2>1, <2>3, <2>4 DEF Dis!Refused
<1>2. CASE f.type = "ipv4" /\ f.proto \notin {"tcp", "udp"}
  <2>1. PICK out : out = Dis!Parsed(f)
    OBVIOUS
  <2>2. Dis!IpFits(f.len - 14, f.ihl) /\ f.len >= 34 /\ f.len \in Nat
    BY <1>2, LayersIp, FrameNumbers
  <2>3. PICK base : base = 14 + 4 * f.ihl
    OBVIOUS
  <2>4. /\ f.len - base \in Nat /\ base \in Nat
        /\ out = Dis!Transport(f, base, f.len - base, IpResult("unknown"))
    BY <1>2, <2>1, <2>2, <2>3, ParsedIp
  <2>5. out = IpResult(IF f.proto = "icmp" THEN "icmp" ELSE "unknown")
    BY <1>2, <2>4, TransportIs
  <2>6. out.fields = IpOut /\ out.top = f.proto
    BY <1>2, <2>5, ResultOf, FrameNumbers DEF IpResult
  <2>7. Right(f, out)
    BY <1>2, <2>6, LayersIp, Zenon DEF Right
  <2>8. QED BY <2>1, <2>2, <2>7 DEF Dis!Refused
<1>3. CASE f.type = "ipv4" /\ f.proto \in {"tcp", "udp"}
  <2>1. PICK out : out = Dis!Parsed(f)
    OBVIOUS
  <2>2. PICK base : base = 14 + 4 * f.ihl
    OBVIOUS
  <2>3. PICK fields : fields = IF f.proto = "tcp" THEN Dis!TcpFields ELSE Dis!UdpFields
    OBVIOUS
  <2>4. PICK size : size = IF f.proto = "tcp" THEN 4 * f.doff ELSE 8
    OBVIOUS
  <2>5. size \in Nat /\ f.len \in Nat /\ f.ihl \in Nat
    BY <2>4, FrameNumbers
  <2>6. base \in Nat
    BY <2>2, <2>5
  <2>7. DOMAIN fields \cap DOMAIN IpOut = {}
    BY <2>3, TransportDisjoint
  <2>8. Graph(Dis!At(fields, base)) = Found(Dis!Decoded[f.proto].fields, base)
    <3>1. CASE f.proto = "tcp"
      BY <2>3, <2>6, <3>1, HeadersAgree
    <3>2. CASE f.proto = "udp"
      BY <2>3, <2>6, <3>2, HeadersAgree
    <3>3. QED BY <1>3, <3>1, <3>2
  <2>9. /\ Dis!IpFits(f.len - 14, f.ihl) /\ f.len >= 34
        /\ f.len - base >= LeastHeader(f.proto) /\ f.len - base >= size
    BY <1>3, <2>2, <2>4, <2>7, <2>8, LayersFull
  <2>10. f.len - base \in Nat
    BY <2>5, <2>6, <2>9
  <2>11. out = Dis!Transport(f, base, f.len - base, IpResult("unknown"))
    BY <1>3, <2>1, <2>2, <2>9, ParsedIp
  <2>12. out = FullResult(fields, f.proto, base, size, f.len)
    BY <1>3, <2>3, <2>4, <2>6, <2>9, <2>10, <2>11, TransportIs, LeastIs
  <2>13. Right(f, out)
    BY <1>3, <2>2, <2>4, <2>5, <2>7, <2>8, <2>12, FullRight
  <2>14. QED BY <2>1, <2>5, <2>9, <2>13 DEF Dis!Refused
<1>4. QED BY <1>1, <1>2, <1>3

\* A well formed frame is taken, and described by just the fields that the decoders of
\* decode.c find at the same places (dissect.c:76-104).
THEOREM DissectsRight == Spec => []DissectRight
<1>1. DisInv => DissectRight
  <2> SUFFICES ASSUME DisInv, Dis!WellFormed(frame)
               PROVE  /\ ret = 0
                      /\ Right(frame, info)
    BY Zenon DEF DissectRight, Dis!DissectRight, Right, Graph, Union, Found, LeastHeader
  <2>1. frame.len >= 14
    BY DEF DisInv, Dis!WellFormed, Dis!HeaderEnd
  <2>2. frame \in AnyFrame /\ info = Dis!Parsed(frame)
        /\ ret = IF Dis!Refused(frame) THEN -1 ELSE 0
    BY <2>1, Zenon DEF DisInv
  <2>3. ~Dis!Refused(frame) /\ Right(frame, Dis!Parsed(frame))
    BY <2>2, ParsedRight, Zenon
  <2>4. QED BY <2>2, <2>3
<1>2. QED BY DisInit, DisStep, <1>1, PTL DEF Spec

-----------------------------------------------------------------------------
\* output.c
Handle == [path : Paths, open : BOOLEAN, from : Nat, upto : Nat \cup {-1}]

\* The handles hs end, but for the one fp in use, which is the last; the packets that a
\* file should hold after n of them.
InUse(hs, fp) == fp \in {0, -1} \/ (fp = Len(hs) /\ fp \in DOMAIN hs /\ hs[fp].open)
Ended(hs, fp, n) == \A h \in DOMAIN hs : /\ hs[h].upto = -1 <=> h = fp
                                         /\ hs[h].from <= n /\ hs[h].upto <= n
                                         /\ h # fp => hs[h].from <= hs[h].upto
Latest(hs, h) == \A later \in DOMAIN hs : later > h => hs[later].path # hs[h].path
Length(hs, h, n) == IF hs[h].upto = -1 THEN n - hs[h].from ELSE hs[h].upto - hs[h].from
Holding(records, from, n) == /\ Len(records) = n
                             /\ \A k \in 1 .. n : records[k][1] = from + k
AllHold(hs, files, n) ==
    \A h \in DOMAIN hs :
        Latest(hs, h) => Holding(files[hs[h].path], hs[h].from, Length(hs, h, n))

\* Only the last handle is in use, and every file holds what its latest handle was given.
OutInv == /\ handles \in Seq(Handle) /\ written \in Nat
          /\ out_disk \in [Paths -> Seq(Nat \X Out!Formats)] /\ format \in Out!Formats
          /\ InUse(handles, out_fp) /\ Ended(handles, out_fp, written)
          /\ AllHold(handles, out_disk, written)

LEMMA OutInit == Init => OutInv
<1> SUFFICES ASSUME Out!Init PROVE OutInv
  BY Zenon DEF Init
<1>1. /\ handles = <<>> /\ written = 0 /\ format = "text" /\ out_fp = 0
      /\ out_disk = [p \in Paths |-> <<>>]
  BY Zenon DEF Out!Init, Out!Null
<1>2. handles \in Seq(Handle) /\ DOMAIN handles = {}
  BY <1>1
<1>3. out_disk \in [Paths -> Seq(Nat \X Out!Formats)] /\ format \in Out!Formats
  BY <1>1 DEF Out!Formats
<1>4. QED BY <1>1, <1>2, <1>3 DEF OutInv, InUse, Ended, AllHold

\* The handles once the one in use has seen its last record.
LEMMA ReplacedIs ==
    ASSUME OutInv, NEW hs, hs = Out!Replaced
    PROVE  /\ hs \in Seq(Handle) /\ DOMAIN hs = DOMAIN handles /\ Len(hs) = Len(handles)
           /\ \A h \in DOMAIN hs : /\ hs[h].path = handles[h].path /\ hs[h].open = handles[h].open
                                   /\ hs[h].from = handles[h].from
                                   /\ hs[h].upto = IF h = out_fp THEN written ELSE handles[h].upto
<1>0. 0 \notin DOMAIN handles /\ -1 \notin DOMAIN handles /\ handles \in Seq(Handle)
  BY DEF OutInv
<1>1. CASE out_fp \in {0, -1}
  <2>1. hs = handles
    BY <1>1, Zenon DEF Out!Replaced, Out!NoHandle, Out!Null, Out!Stdout
  <2>2. QED BY <1>0, <1>1, <2>1
<1>2. CASE out_fp \notin {0, -1}
  <2>1. out_fp \in DOMAIN handles /\ written \in Nat
    BY <1>2 DEF OutInv, InUse
  <2>2. hs = [handles EXCEPT ![out_fp].upto = written]
    BY <1>2, Zenon DEF Out!Replaced, Out!NoHandle, Out!Null, Out!Stdout
  <2>3. PICK r : r = [handles[out_fp] EXCEPT !.upto = written]
    OBVIOUS
  <2>4. handles[out_fp] \in Handle
    BY <1>0, <2>1
  <2>5. /\ r \in Handle /\ r.path = handles[out_fp].path /\ r.open = handles[out_fp].open
        /\ r.from = handles[out_fp].from /\ r.upto = written
    BY <2>1, <2>3, <2>4 DEF Handle
  <2>6. hs = [handles EXCEPT ![out_fp] = r]
    BY <2>2, <2>3, Zenon
  <2>7. QED BY <1>0, <2>1, <2>5, <2>6
<1>3. QED BY <1>1, <1>2

\* As long as nothing is written, a handle that ends does not matter to the files.
LEMMA EndedIs ==
    ASSUME OutInv, NEW hs, hs = Out!Replaced
    PROVE  /\ Ended(hs, 0, written) /\ AllHold(hs, out_disk, written)
<1>1. handles \in Seq(Handle) /\ written \in Nat /\ 0 \notin DOMAIN handles
  BY DEF OutInv
<1>2. /\ DOMAIN hs = DOMAIN handles
      /\ \A h \in DOMAIN hs : /\ hs[h].path = handles[h].path
                              /\ hs[h].from = handles[h].from
                              /\ hs[h].upto = IF h = out_fp THEN written ELSE handles[h].upto
  BY ReplacedIs
<1>3. \A h \in DOMAIN handles : handles[h].from \in Nat /\ handles[h].upto \in Nat \cup {-1}
  <2>1. \A h \in DOMAIN handles : handles[h] \in Handle
    BY <1>1
  <2>2. QED BY <2>1 DEF Handle
<1>4. Ended(hs, 0, written)
  BY <1>1, <1>2, <1>3 DEF OutInv, Ended
<1>5. ASSUME NEW h \in DOMAIN hs, Latest(hs, h)
      PROVE  Holding(out_disk[hs[h].path], hs[h].from, Length(hs, h, written))
  <2>1. Latest(handles, h)
    BY <1>2, <1>5 DEF Latest
  <2>2. Holding(out_disk[handles[h].path], handles[h].from, Length(handles, h, written))
    BY <1>2, <2>1 DEF OutInv, AllHold
  <2>3. Length(hs, h, written) = Length(handles, h, written)
    BY <1>1, <1>2, <1>3 DEF OutInv, Ended, Length
  <2>4. QED BY <1>2, <2>2, <2>3
<1>6. QED BY <1>4, <1>5 DEF AllHold

\* A handle that is not in use may be any number that no handle has.
LEMMA NoneInUse ==
    ASSUME NEW hs \in Seq(Handle), NEW n, NEW fp \in {0, -1}, Ended(hs, 0, n)
    PROVE  Ended(hs, fp, n) /\ InUse(hs, fp)
BY DEF Ended, InUse

\* A file opened holds nothing, and its handle is the only one in use.
LEMMA OutOpen ==
    ASSUME OutInv, NEW fmt \in Out!Formats, NEW path \in Paths, Out!Open(fmt, path)
    PROVE  OutInv'
<1>1. PICK hs : hs = Out!Replaced
  OBVIOUS
<1>2. PICK r : r = [path |-> path, open |-> TRUE, from |-> written, upto |-> -1]
  OBVIOUS
<1>3. /\ format' = fmt /\ handles' = Append(hs, r) /\ out_fp' = Len(handles) + 1
      /\ out_disk' = [out_disk EXCEPT ![path] = <<>>] /\ written' = written
  BY <1>1, <1>2, Zenon DEF Out!Open
<1>4. written \in Nat /\ out_disk \in [Paths -> Seq(Nat \X Out!Formats)]
  BY DEF OutInv
<1>5. /\ r \in Handle /\ r.path = path /\ r.open /\ r.from = written /\ r.upto = -1
  BY <1>2, <1>4 DEF Handle
<1>6. hs \in Seq(Handle) /\ Len(hs) = Len(handles)
  BY <1>1, ReplacedIs
<1>7. Ended(hs, 0, written) /\ AllHold(hs, out_disk, written)
  BY <1>1, EndedIs
<1>8. PICK n \in Nat : n = Len(hs) + 1
  BY <1>6
<1>9. /\ handles' \in Seq(Handle) /\ Len(handles') = n /\ out_fp' = n
      /\ DOMAIN handles' = DOMAIN hs \cup {n} /\ n \notin DOMAIN hs /\ handles'[n] = r
      /\ \A h \in DOMAIN hs : handles'[h] = hs[h] /\ h < n /\ h # 0
  BY <1>3, <1>5, <1>6, <1>8
<1>10. InUse(handles', out_fp')
  BY <1>5, <1>9 DEF InUse
<1>11. Ended(handles', out_fp', written')
  BY <1>3, <1>4, <1>5, <1>7, <1>9 DEF Ended
<1>12. out_disk' \in [Paths -> Seq(Nat \X Out!Formats)] /\ out_disk'[path] = <<>>
       /\ \A p \in Paths : p # path => out_disk'[p] = out_disk[p]
  BY <1>3, <1>4
<1>13. ASSUME NEW h \in DOMAIN handles', Latest(handles', h)
       PROVE  Holding(out_disk'[handles'[h].path], handles'[h].from, Length(handles', h, written'))
  <2>1. CASE h = n
    <3>1. handles'[h].path = path /\ handles'[h].from = written /\ handles'[h].upto = -1
      BY <1>5, <1>9, <2>1
    <3>2. Length(handles', h, written') = 0
      BY <1>3, <1>4, <3>1 DEF Length
    <3>3. QED BY <1>12, <3>1, <3>2 DEF Holding
  <2>2. CASE h \in DOMAIN hs
    <3>1. hs[h].path # path
      BY <1>5, <1>9, <1>13, <2>2 DEF Latest
    <3>2. Latest(hs, h)
      BY <1>9, <1>13, <2>2 DEF Latest
    <3>3. Holding(out_disk[hs[h].path], hs[h].from, Length(hs, h, written))
      BY <1>7, <2>2, <3>2 DEF AllHold
    <3>4. hs[h].path \in Paths
      <4>1. hs[h] \in Handle
        BY <1>6, <2>2
      <4>2. QED BY <4>1 DEF Handle
    <3>5. Length(handles', h, written') = Length(hs, h, written)
      BY <1>3, <1>9, <2>2, Zenon DEF Length
    <3>6. QED BY <1>9, <1>12, <2>2, <3>1, <3>3, <3>4, <3>5
  <2>3. QED BY <1>9, <2>1, <2>2
<1>14. AllHold(handles', out_disk', written')
  BY <1>13 DEF AllHold
<1>15. QED BY <1>3, <1>4, <1>9, <1>10, <1>11, <1>12, <1>14 DEF OutInv

\* A handle taken out of use, and maybe closed.
LEMMA OutEnds ==
    ASSUME OutInv, NEW hs, hs = Out!Replaced, UNCHANGED <<out_disk, written>>,
           handles' \in Seq(Handle), DOMAIN handles' = DOMAIN hs, out_fp' \in {0, -1},
           \A h \in DOMAIN hs : /\ handles'[h].path = hs[h].path /\ handles'[h].from = hs[h].from
                                /\ handles'[h].upto = hs[h].upto,
           format' \in Out!Formats
    PROVE  OutInv'
<1>1. Ended(hs, 0, written) /\ AllHold(hs, out_disk, written)
  BY EndedIs
<1>2. Ended(handles', 0, written')
  BY <1>1 DEF Ended
<1>3. InUse(handles', out_fp') /\ Ended(handles', out_fp', written')
  BY <1>2, NoneInUse
<1>4. ASSUME NEW h \in DOMAIN handles', Latest(handles', h)
      PROVE  Holding(out_disk'[handles'[h].path], handles'[h].from, Length(handles', h, written'))
  <2>1. Latest(hs, h)
    BY <1>4 DEF Latest
  <2>2. Holding(out_disk[hs[h].path], hs[h].from, Length(hs, h, written))
    BY <1>1, <2>1 DEF AllHold
  <2>3. Length(handles', h, written') = Length(hs, h, written)
    BY Zenon DEF Length
  <2>4. QED BY <2>2, <2>3
<1>5. AllHold(handles', out_disk', written')
  BY <1>4 DEF AllHold
<1>6. QED BY <1>3, <1>5 DEF OutInv

LEMMA OutClose ==
    ASSUME OutInv, Out!Close
    PROVE  OutInv'
<1>1. PICK hs : hs = Out!Replaced
  OBVIOUS
<1>2. /\ handles' = [hs EXCEPT ![out_fp].open = FALSE] /\ out_fp' = 0 /\ out_fp \notin {0, -1}
      /\ UNCHANGED <<format, out_disk, written>>
  BY <1>1, Zenon DEF Out!Close, Out!Closed, Out!Null, Out!Stdout, Out!NoHandle
<1>3. hs \in Seq(Handle) /\ DOMAIN hs = DOMAIN handles
  BY <1>1, ReplacedIs
<1>4. out_fp \in DOMAIN hs /\ format \in Out!Formats
  BY <1>2, <1>3 DEF OutInv, InUse
<1>5. PICK r : r = [hs[out_fp] EXCEPT !.open = FALSE]
  OBVIOUS
<1>6. hs[out_fp] \in Handle
  BY <1>3, <1>4
<1>7. /\ r \in Handle /\ r.path = hs[out_fp].path /\ r.from = hs[out_fp].from
      /\ r.upto = hs[out_fp].upto
  BY <1>5, <1>6 DEF Handle
<1>8. handles' = [hs EXCEPT ![out_fp] = r]
  BY <1>2, <1>5, Zenon
<1>9. /\ handles' \in Seq(Handle) /\ DOMAIN handles' = DOMAIN hs
      /\ \A h \in DOMAIN hs : /\ handles'[h].path = hs[h].path /\ handles'[h].from = hs[h].from
                              /\ handles'[h].upto = hs[h].upto
  BY <1>3, <1>4, <1>7, <1>8
<1>10. format' \in Out!Formats /\ UNCHANGED <<out_disk, written>> /\ out_fp' \in {0, -1}
  BY <1>2, <1>4
<1>11. QED BY <1>1, <1>9, <1>10, OutEnds, Zenon

LEMMA OutToStdout ==
    ASSUME OutInv, NEW fmt \in Out!Formats, Out!ToStdout(fmt)
    PROVE  OutInv'
<1>1. PICK hs : hs = Out!Replaced
  OBVIOUS
<1>2. /\ handles' = hs /\ out_fp' = -1 /\ format' = fmt /\ UNCHANGED <<out_disk, written>>
  BY <1>1, Zenon DEF Out!ToStdout, Out!Stdout
<1>3. hs \in Seq(Handle)
  BY <1>1, ReplacedIs
<1>4. /\ handles' \in Seq(Handle) /\ DOMAIN handles' = DOMAIN hs
      /\ \A h \in DOMAIN hs : /\ handles'[h].path = hs[h].path /\ handles'[h].from = hs[h].from
                              /\ handles'[h].upto = hs[h].upto
  BY <1>2, <1>3, Zenon
<1>5. out_fp' \in {0, -1} /\ format' \in Out!Formats
  BY <1>2
<1>6. QED BY <1>1, <1>2, <1>4, <1>5, OutEnds, Zenon

LEMMA HoldsNext ==
    ASSUME NEW S, NEW records \in Seq(S), NEW e \in S, NEW from \in Nat, NEW n \in Nat,
           Holding(records, from, n), e[1] = from + n + 1
    PROVE  Holding(Append(records, e), from, n + 1)
<1>1. Len(records) = n /\ \A k \in 1 .. n : records[k][1] = from + k
  BY DEF Holding
<1>2. PICK s : s = Append(records, e)
  OBVIOUS
<1>3. Len(s) = n + 1 /\ s[n + 1] = e /\ \A k \in 1 .. n : s[k] = records[k]
  BY <1>1, <1>2
<1>4. ASSUME NEW k \in 1 .. n + 1 PROVE s[k][1] = from + k
  <2>1. CASE k \in 1 .. n
    BY <1>1, <1>3, <2>1
  <2>2. CASE k = n + 1
    BY <1>3, <2>2
  <2>3. QED BY <2>1, <2>2
<1>5. QED BY <1>2, <1>3, <1>4 DEF Holding

\* A record goes to the file of the handle in use, and there it is the next.
LEMMA OutWrite ==
    ASSUME OutInv, Out!Write
    PROVE  OutInv'
<1>1. /\ written' = written + 1 /\ UNCHANGED <<format, out_fp, handles>>
      /\ out_disk' = IF out_fp \in {0, -1} THEN out_disk
                     ELSE [out_disk EXCEPT ![handles[out_fp].path] = Append(@, <<written', format>>)]
  BY Zenon DEF Out!Write, Out!NoHandle, Out!Null, Out!Stdout
<1>2. /\ handles \in Seq(Handle) /\ written \in Nat /\ format \in Out!Formats
      /\ out_disk \in [Paths -> Seq(Nat \X Out!Formats)]
      /\ InUse(handles, out_fp) /\ Ended(handles, out_fp, written)
      /\ AllHold(handles, out_disk, written)
  BY DEF OutInv
<1>3. \A h \in DOMAIN handles : /\ handles[h].path \in Paths /\ handles[h].from \in Nat
                                /\ handles[h].upto \in Nat \cup {-1}
  <2>1. \A h \in DOMAIN handles : handles[h] \in Handle
    BY <1>2
  <2>2. QED BY <2>1 DEF Handle
<1>4. Ended(handles', out_fp', written')
  BY <1>1, <1>2, <1>3 DEF Ended
<1>45. InUse(handles', out_fp') /\ written' \in Nat
  BY <1>1, <1>2
<1>5. CASE out_fp \in {0, -1}
  <2>1. out_disk' = out_disk
    BY <1>1, <1>5
  <2>2. ASSUME NEW h \in DOMAIN handles, Latest(handles, h)
        PROVE  Holding(out_disk'[handles'[h].path], handles'[h].from, Length(handles', h, written'))
    <3>1. h # out_fp
      BY <1>2, <1>5
    <3>2. Length(handles', h, written') = Length(handles, h, written)
      BY <1>1, <1>2, <3>1 DEF Ended, Length
    <3>3. QED BY <1>1, <1>2, <2>1, <2>2, <3>2 DEF AllHold
  <2>3. AllHold(handles', out_disk', written')
    BY <1>1, <2>2 DEF AllHold
  <2>4. QED BY <1>1, <1>2, <1>4, <1>45, <2>1, <2>3 DEF OutInv
<1>6. CASE out_fp \notin {0, -1}
  <2>1. out_fp = Len(handles) /\ out_fp \in DOMAIN handles
    BY <1>2, <1>6 DEF InUse
  <2>2. PICK path \in Paths : path = handles[out_fp].path
    BY <1>3, <2>1
  <2>3. PICK e \in Nat \X Out!Formats : e = <<written', format>> /\ e[1] = written + 1
    <3>1. written' \in Nat /\ format \in Out!Formats
      BY <1>2, <1>45
    <3>2. PICK e : e = <<written', format>>
      OBVIOUS
    <3>3. e \in Nat \X Out!Formats
      BY <3>1, <3>2, Zenon
    <3>4. e[1] = written + 1
      BY <1>1, <3>2
    <3>5. QED BY <3>2, <3>3, <3>4
  <2>9. PICK s \in Seq(Nat \X Out!Formats) : s = Append(out_disk[path], e)
    <3>1. out_disk[path] \in Seq(Nat \X Out!Formats)
      BY <1>2
    <3>2. PICK old \in Seq(Nat \X Out!Formats) : old = out_disk[path]
      BY <3>1
    <3>3. Append(old, e) \in Seq(Nat \X Out!Formats)
      OBVIOUS
    <3>4. QED BY <3>2, <3>3, Zenon
  <2>4. out_disk' = [out_disk EXCEPT ![path] = s]
    BY <1>1, <1>6, <2>2, <2>3, <2>9, Zenon
  <2>5. out_disk' \in [Paths -> Seq(Nat \X Out!Formats)] /\ out_disk'[path] = s
        /\ \A p \in Paths : p # path => out_disk'[p] = out_disk[p]
    BY <1>2, <2>4
  <2>6. ASSUME NEW h \in DOMAIN handles, Latest(handles, h)
        PROVE  Holding(out_disk'[handles'[h].path], handles'[h].from, Length(handles', h, written'))
    <3>0. Holding(out_disk[handles[h].path], handles[h].from, Length(handles, h, written))
      BY <1>2, <2>6 DEF AllHold
    <3>1. CASE h = out_fp
      <4>1. PICK from \in Nat : from = handles[h].from
        BY <1>3
      <4>2. handles[h].upto = -1 /\ from <= written
        BY <1>2, <3>1, <4>1 DEF Ended
      <4>3. Length(handles, h, written) = written - from
        BY <4>1, <4>2 DEF Length
      <4>7. PICK m \in Nat : m = written'
        BY <1>45
      <4>8. Length(handles', h, written') = m - from
        <5>1. handles'[h].upto = -1 /\ handles'[h].from = from
          BY <1>1, <4>1, <4>2
        <5>2. QED BY <4>7, <5>1, Zenon DEF Length
      <4>4. Holding(out_disk[path], from, written - from)
        BY <2>2, <3>0, <3>1, <4>1, <4>3
      <4>5. Holding(s, from, m - from)
        <5>1. PICK old \in Seq(Nat \X Out!Formats) : old = out_disk[path]
          BY <1>2
        <5>2. PICK n \in Nat : n = written - from /\ m - from = n + 1
          BY <1>1, <1>2, <4>2, <4>7
        <5>4. e[1] = from + n + 1
          BY <1>2, <2>3, <5>2
        <5>5. Holding(Append(old, e), from, n + 1)
          BY <4>4, <5>1, <5>2, <5>4, HoldsNext
        <5>6. QED BY <2>9, <5>1, <5>2, <5>5
      <4>6. QED BY <1>1, <2>2, <2>5, <3>1, <4>1, <4>5, <4>8
    <3>2. CASE h # out_fp
      <4>1. handles[h].path # path
        BY <1>2, <2>1, <2>2, <2>6, <3>2 DEF Latest
      <4>2. Length(handles', h, written') = Length(handles, h, written)
        BY <1>1, <1>2, <3>2 DEF Ended, Length
      <4>3. QED BY <1>1, <1>3, <2>5, <3>0, <4>1, <4>2
    <3>3. QED BY <3>1, <3>2
  <2>7. AllHold(handles', out_disk', written')
    BY <1>1, <2>6 DEF AllHold
  <2>8. QED BY <1>1, <1>2, <1>4, <1>45, <2>5, <2>7 DEF OutInv
<1>7. QED BY <1>5, <1>6

LEMMA OutStep == OutInv /\ [Next]_vars => OutInv'
<1> SUFFICES ASSUME OutInv, [Next]_vars PROVE OutInv'
  OBVIOUS
<1>1. ASSUME NEW fmt \in Out!Formats, Out!SetFormat(fmt) PROVE OutInv'
  BY <1>1 DEF Out!SetFormat, OutInv
<1>2. CASE UNCHANGED outVars
  BY <1>2 DEF outVars, OutInv
<1>3. QED
  BY <1>1, <1>2, OutOpen, OutClose, OutToStdout, OutWrite, Steps DEF Out!Next

\* No record goes to a handle that was closed; a file holds what was written
\* between its latest opening and the end of that handle's use (output.c:11-29, 68-73).
THEOREM RecordsGo == Spec => []OutputGoes
<1>1. OutInv => OutputGoes
  <2> SUFFICES ASSUME OutInv PROVE Out!OutputGoes
    BY DEF OutputGoes
  <2>1. out_fp \notin Out!NoHandle => handles[out_fp].open /\ handles[out_fp].upto = -1
    BY DEF OutInv, InUse, Ended, Out!NoHandle, Out!Null, Out!Stdout
  <2>2. ASSUME NEW h \in DOMAIN handles, Latest(handles, h), NEW upto,
               upto = IF handles[h].upto = -1 THEN written ELSE handles[h].upto
        PROVE  [i \in DOMAIN out_disk[handles[h].path] |-> out_disk[handles[h].path][i][1]]
                 = [i \in 1 .. upto - handles[h].from |-> handles[h].from + i]
    <3>1. handles[h].path \in Paths
      <4>1. handles[h] \in Handle
        BY DEF OutInv
      <4>2. QED BY <4>1 DEF Handle
    <3>2. PICK s \in Seq(Nat \X Out!Formats) : s = out_disk[handles[h].path]
      BY <3>1 DEF OutInv
    <3>3. Holding(s, handles[h].from, upto - handles[h].from)
      BY <2>2, <3>2 DEF OutInv, AllHold, Length
    <3>4. DOMAIN s = 1 .. upto - handles[h].from
      BY <3>2, <3>3 DEF Holding
    <3>5. [i \in DOMAIN s |-> s[i][1]]
            = [i \in 1 .. upto - handles[h].from |-> handles[h].from + i]
      BY <3>3, <3>4 DEF Holding
    <3>6. QED BY <3>2, <3>5
  <2>3. QED BY <2>1, <2>2, Zenon DEF Out!OutputGoes, Latest
<1>2. QED BY OutInit, OutStep, <1>1, PTL DEF Spec

-----------------------------------------------------------------------------
\* pcap.c
LEMMA PcConstants == PcapLens \subseteq Nat \ {0} /\ Snaplen \in Nat
BY PathAssumption, Zenon DEF Pc!PcapAssumption

Piece == [kind : {"header", "data", "part"}, len : Nat]
Pair(f, i) == f[2 * i - 1].kind = "header" /\ f[2 * i] = Pc!Data(f[2 * i - 1].len)

\* The first a records of f are whole.
Holds(f, a) == a \in Nat /\ 2 * a <= Len(f) /\ \A i \in 1 .. a : Pair(f, i)

\* A reader gets at least the records that are whole, and no more than there are.
LEMMA ReadableIs ==
    ASSUME NEW f \in Seq(Piece), NEW a, Holds(f, a)
    PROVE  Pc!Readable(f) >= a /\ (Len(f) = 2 * a => Pc!Readable(f) = a)
<1>1. PICK L \in Nat : L = Len(f) \div 2 /\ 2 * L <= Len(f) /\ a <= L /\ (Len(f) = 2 * a => L = a)
  <2>1. Len(f) \in Nat /\ a \in Nat /\ 2 * a <= Len(f)
    BY DEF Holds
  <2>2. QED BY <2>1
<1>2. PICK S : S = {n \in 0 .. L : \A i \in 1 .. n : Pair(f, i)}
  OBVIOUS
<1>3. Pc!Readable(f) = CHOOSE n \in S : \A m \in S : n >= m
  <2>1. S = {n \in 0 .. Len(f) \div 2 :
                \A i \in 1 .. n : /\ f[2 * i - 1].kind = "header"
                                  /\ f[2 * i] = Pc!Data(f[2 * i - 1].len)}
    BY <1>1, <1>2 DEF Pair
  <2>2. QED BY <2>1, Zenon DEF Pc!Readable, Pc!Max
<1>4. a \in S /\ \A n \in S : n \in 0 .. L
  BY <1>1, <1>2 DEF Holds
<1>5. PICK c \in S : \A m \in S : c >= m
  <2>1. PICK T : T = {L - n : n \in S}
    OBVIOUS
  <2>2. T \in SUBSET Nat /\ T # {}
    BY <1>4, <2>1
  <2>3. PICK t \in T : \A m \in T : t <= m
    BY <2>2, Least
  <2>4. PICK c \in S : t = L - c
    BY <2>1, <2>3
  <2>5. ASSUME NEW m \in S PROVE c >= m
    <3>1. L - c <= L - m
      BY <2>1, <2>3, <2>4
    <3>2. c \in 0 .. L /\ m \in 0 .. L
      BY <1>4
    <3>3. QED BY <1>1, <3>1, <3>2
  <2>6. QED BY <2>5
<1>6. PICK r : r = Pc!Readable(f)
  OBVIOUS
<1>7. r \in S /\ \A m \in S : r >= m
  BY <1>3, <1>5, <1>6, Zenon
<1>8. r >= a /\ r \in 0 .. L
  BY <1>4, <1>7
<1>9. QED BY <1>1, <1>6, <1>8

\* Two files that are the same as far as their first n pieces.
Agree(f, g, n) == /\ f \in Seq(Piece) /\ g \in Seq(Piece)
                  /\ n \in 0 .. Len(f) /\ n <= Len(g)
                  /\ \A i \in 1 .. n : g[i] = f[i]

LEMMA AgreeHolds ==
    ASSUME NEW f, NEW g, NEW n, Agree(f, g, n), NEW a, Holds(f, a), 2 * a <= n
    PROVE  Holds(g, a)
<1>1. a \in Nat /\ n \in Nat /\ Len(g) \in Nat /\ 2 * a <= Len(g)
  BY DEF Agree, Holds
<1>2. ASSUME NEW i \in 1 .. a PROVE Pair(g, i)
  <2>1. 2 * i - 1 \in 1 .. n /\ 2 * i \in 1 .. n
    BY <1>1
  <2>2. g[2 * i - 1] = f[2 * i - 1] /\ g[2 * i] = f[2 * i]
    BY <2>1 DEF Agree
  <2>3. Pair(f, i)
    BY DEF Holds
  <2>4. QED BY <2>2, <2>3 DEF Pair
<1>3. QED BY <1>1, <1>2 DEF Holds

\* Pieces at the end of a file leave what is before them.
LEMMA JoinAgrees ==
    ASSUME NEW f \in Seq(Piece), NEW p \in Seq(Piece)
    PROVE  Agree(f, f \o p, Len(f)) /\ Len(f \o p) = Len(f) + Len(p)
BY DEF Agree

\* f with h and d after it.
Joined(f, g, h, d) == /\ Agree(f, g, Len(f)) /\ Len(g) = Len(f) + 2
                      /\ g[Len(f) + 1] = h /\ g[Len(f) + 2] = d

LEMMA PairJoined ==
    ASSUME NEW f \in Seq(Piece), NEW h \in Piece, NEW d \in Piece
    PROVE  Joined(f, f \o <<h, d>>, h, d)
<1>1. PICK g : g = f \o <<h, d>>
  OBVIOUS
<1>2. <<h, d>> \in Seq(Piece) /\ Len(<<h, d>>) = 2
  OBVIOUS
<1>3. Agree(f, g, Len(f)) /\ Len(g) = Len(f) + 2
  BY <1>1, <1>2, JoinAgrees
<1>4. g[Len(f) + 1] = h /\ g[Len(f) + 2] = d
  BY <1>1
<1>5. Joined(f, g, h, d)
  BY <1>3, <1>4, Zenon DEF Joined
<1>6. QED BY <1>1, <1>5, Zenon

LEMMA CutAgrees ==
    ASSUME NEW f \in Seq(Piece), NEW n \in 0 .. Len(f)
    PROVE  Agree(f, SubSeq(f, 1, n), n) /\ Len(SubSeq(f, 1, n)) = n
BY DEF Agree

\* Whatever a failing call leaves, what had reached the disk is still there.
LEMMA LeftAgrees ==
    ASSUME NEW f \in Seq(Piece), NEW n \in 0 .. Len(f), NEW g \in Pc!Left(f, n)
    PROVE  Agree(f, g, n)
<1>1. PICK m : m = SubSeq(f, 1, n)
  OBVIOUS
<1>2. Agree(f, m, n) /\ Len(m) = n
  BY <1>1, CutAgrees
<1>3. g = f \/ g = m \/ g = Append(m, Pc!Part)
  BY <1>1 DEF Pc!Left
<1>4. CASE g = f
  BY <1>4 DEF Agree
<1>5. CASE g = Append(m, Pc!Part)
  <2>1. m \in Seq(Piece) /\ Pc!Part \in Piece
    BY <1>2 DEF Agree, Piece, Pc!Part
  <2>2. g \in Seq(Piece) /\ n <= Len(g) /\ \A i \in 1 .. n : g[i] = m[i]
    BY <1>2, <1>5, <2>1
  <2>3. QED BY <1>2, <2>2 DEF Agree
<1>6. QED BY <1>2, <1>3, <1>4, <1>5

LEMMA WriteLeaves ==
    ASSUME NEW len \in PcapLens
    PROVE  /\ \E h, d \in Piece : /\ Pc!Whole(len) = <<h, d>>
                                  /\ h.kind = "header" /\ d = Pc!Data(h.len)
           /\ Pc!Torn(len) \subseteq Seq(Piece)
<1>1. PICK n : n = Pc!Included(len)
  OBVIOUS
<1>2. n \in Nat
  BY <1>1, PcConstants DEF Pc!Included
<1>3. PICK h \in Piece : h = Pc!RecHeader(n) /\ h.kind = "header" /\ h.len = n
  <2>1. /\ Pc!RecHeader(n) \in Piece
        /\ Pc!RecHeader(n).kind = "header" /\ Pc!RecHeader(n).len = n
    BY <1>2 DEF Piece, Pc!RecHeader
  <2>2. QED BY <2>1, Zenon
<1>4. Pc!Data(n) \in Piece /\ Pc!Part \in Piece
  BY <1>2 DEF Piece, Pc!Data, Pc!Part
<1>5. Pc!Whole(len) = <<h, Pc!Data(n)>>
  BY <1>1, <1>3, Zenon DEF Pc!Whole
<1>6. Pc!Torn(len) = {<<>>, <<Pc!Part>>, <<h>>, <<h, Pc!Part>>}
  BY <1>1, <1>3, Zenon DEF Pc!Torn
<1>7. QED BY <1>3, <1>4, <1>5, <1>6

\* The inductive invariant of pcap.c: the packets of the last flush before a failure
\* are on the disk; without one the file is the records accepted, all of them on
\* the disk once it is closed.
PcInv == /\ file \in Seq(Piece) /\ disk \in 0 .. Len(file)
         /\ accepted \in Nat /\ saved \in Nat
         /\ io_failed \in BOOLEAN /\ writing \in BOOLEAN
         /\ Holds(file, flushed) /\ 2 * flushed <= disk
         /\ ~io_failed => /\ Len(file) = 2 * accepted /\ saved = accepted
                          /\ Holds(file, accepted)
                          /\ ~writing => disk = Len(file)

LEMMA PcFresh == <<>> \in Seq(Piece) /\ Len(<<>>) = 0 /\ Holds(<<>>, 0)
BY DEF Holds

LEMMA PcFails ==
    ASSUME PcInv, NEW f, Agree(file, f, Len(file)), Pc!Fails(f),
           saved' = saved, writing' \in BOOLEAN
    PROVE  PcInv'
<1>1. PICK n \in disk .. Len(f) : disk' = n /\ file' \in Pc!Left(f, n)
  BY DEF Pc!Fails
<1>2. /\ accepted' = accepted /\ flushed' = flushed /\ io_failed' /\ io_failed' \in BOOLEAN
  BY Zenon DEF Pc!Fails
<1>3. /\ f \in Seq(Piece) /\ n \in 0 .. Len(f) /\ disk \in Nat /\ disk <= n
      /\ flushed \in Nat /\ 2 * flushed <= disk
  BY <1>1 DEF Agree, PcInv, Holds
<1>4. PICK g : g = file'
  OBVIOUS
<1>5. Agree(f, g, n)
  BY <1>1, <1>3, <1>4, LeftAgrees
<1>6. Holds(f, flushed)
  <2>1. Holds(file, flushed) /\ 2 * flushed <= Len(file)
    BY DEF PcInv, Holds
  <2>2. QED BY <2>1, AgreeHolds
<1>7. Holds(g, flushed) /\ 2 * flushed <= n
  <2>1. 2 * flushed <= n
    BY <1>3
  <2>2. QED BY <1>5, <1>6, <2>1, AgreeHolds
<1>8. g \in Seq(Piece) /\ n \in 0 .. Len(g)
  BY <1>3, <1>5 DEF Agree
<1>9. accepted \in Nat /\ saved \in Nat
  BY DEF PcInv
<1>10. QED BY <1>1, <1>2, <1>4, <1>7, <1>8, <1>9 DEF PcInv

LEMMA PcMoves ==
    ASSUME PcInv, Pc!Moves, UNCHANGED saved, writing' \in BOOLEAN
    PROVE  PcInv'
<1>1. /\ file' = file /\ io_failed' = io_failed /\ accepted' = accepted
      /\ disk' = Len(file) /\ (io_failed => flushed' = flushed) /\ (~io_failed => flushed' = accepted)
  BY DEF Pc!Moves
<1>2. Holds(file, flushed') /\ 2 * flushed' <= Len(file) /\ Len(file) \in 0 .. Len(file)
  BY <1>1 DEF PcInv, Holds
<1>3. QED BY <1>1, <1>2 DEF PcInv

LEMMA PcWrite ==
    ASSUME PcInv, NEW len \in PcapLens, Pc!Write(len)
    PROVE  PcInv'
<1>0. writing' = writing /\ writing
  BY DEF Pc!Write
<1>1. CASE /\ file' = file \o Pc!Whole(len) /\ saved' = saved + 1
           /\ accepted' = (IF io_failed THEN accepted ELSE accepted + 1)
           /\ UNCHANGED <<disk, io_failed, flushed>>
  <2>1. PICK h \in Piece, d \in Piece :
               Pc!Whole(len) = <<h, d>> /\ h.kind = "header" /\ d = Pc!Data(h.len)
    BY WriteLeaves
  <2>2. PICK g : g = file \o <<h, d>>
    OBVIOUS
  <2>3. /\ Agree(file, g, Len(file)) /\ Len(g) = Len(file) + 2
        /\ g[Len(file) + 1] = h /\ g[Len(file) + 2] = d
    <3>1. file \in Seq(Piece)
      BY Zenon DEF PcInv
    <3>2. Joined(file, g, h, d)
      BY <2>1, <2>2, <3>1, PairJoined, Zenon
    <3>3. QED BY <3>2, Zenon DEF Joined
  <2>4. Holds(g, flushed) /\ 2 * flushed <= disk
    BY <2>3, AgreeHolds DEF PcInv, Holds
  <2>5. g \in Seq(Piece) /\ disk \in 0 .. Len(g)
    BY <2>3 DEF PcInv, Agree
  <2>6. ~io_failed => Len(g) = 2 * (accepted + 1) /\ Holds(g, accepted + 1)
    <3> SUFFICES ASSUME ~io_failed PROVE Len(g) = 2 * (accepted + 1) /\ Holds(g, accepted + 1)
      OBVIOUS
    <3>1. Len(file) = 2 * accepted /\ accepted \in Nat /\ Holds(file, accepted)
      BY DEF PcInv
    <3>2. Holds(g, accepted)
      BY <2>3, <3>1, AgreeHolds
    <3>3. Pair(g, accepted + 1)
      <4>1. g[2 * (accepted + 1) - 1] = h /\ g[2 * (accepted + 1)] = d
        BY <2>3, <3>1
      <4>2. QED BY <2>1, <4>1 DEF Pair
    <3>4. \A i \in 1 .. accepted + 1 : i \in 1 .. accepted \/ i = accepted + 1
      BY <3>1
    <3>5. \A i \in 1 .. accepted + 1 : Pair(g, i)
      BY <3>2, <3>3, <3>4, Zenon DEF Holds
    <3>6. QED BY <2>3, <3>1, <3>5 DEF Holds
  <2>7. file' = g
    BY <1>1, <2>1, <2>2
  <2>8. QED BY <1>0, <1>1, <2>4, <2>5, <2>6, <2>7 DEF PcInv
<1>2. CASE (\E pieces \in Pc!Torn(len) : Pc!Fails(file \o pieces)) /\ UNCHANGED saved
  <2>1. PICK pieces \in Pc!Torn(len) : Pc!Fails(file \o pieces)
    BY <1>2
  <2>2. file \in Seq(Piece) /\ pieces \in Seq(Piece) /\ writing' \in BOOLEAN /\ saved' = saved
    BY <1>0, <1>2, WriteLeaves DEF PcInv
  <2>3. Agree(file, file \o pieces, Len(file))
    BY <2>2, JoinAgrees
  <2>4. QED BY <2>1, <2>2, <2>3, PcFails
<1>3. QED BY <1>1, <1>2 DEF Pc!Write

LEMMA PcKept ==
    ASSUME PcInv, [Next]_vars
    PROVE  PcInv'
<1>1. CASE UNCHANGED pcVars
  BY <1>1 DEF PcInv, pcVars
<1>2. ASSUME NEW len \in PcapLens, Pc!Write(len)
      PROVE  PcInv'
  BY <1>2, PcWrite
<1>3. CASE Pc!Flush \/ Pc!Close
  <2>1. /\ Pc!Moves \/ Pc!Fails(file)
        /\ saved' = saved /\ writing' \in BOOLEAN
    BY <1>3 DEF Pc!Flush, Pc!Close, PcInv
  <2>2. Agree(file, file, Len(file))
    BY DEF Agree, PcInv
  <2>3. QED BY <2>1, <2>2, PcMoves, PcFails
<1>4. CASE Pc!Spill
  <2>1. /\ writing /\ disk' \in disk .. Len(file)
        /\ UNCHANGED <<file, saved, writing, io_failed, accepted, flushed>>
    BY <1>4, Zenon DEF Pc!Spill
  <2>2. disk' \in 0 .. Len(file) /\ 2 * flushed <= disk'
    BY <2>1 DEF PcInv, Holds
  <2>3. QED BY <2>1, <2>2 DEF PcInv
<1>5. CASE Pc!Reopen
  <2>1. /\ file' = <<>> /\ disk' = 0 /\ saved' = 0 /\ accepted' = 0 /\ flushed' = 0
        /\ io_failed' = FALSE /\ writing' = TRUE
    BY <1>5, Zenon DEF Pc!Reopen
  <2>2. io_failed' \in BOOLEAN /\ writing' \in BOOLEAN /\ ~io_failed' /\ writing'
    BY <2>1, Zenon
  <2>3. QED BY <2>1, <2>2, PcFresh DEF PcInv
<1>6. QED BY <1>1, <1>2, <1>3, <1>4, <1>5, Steps DEF Pc!Next

LEMMA PcInit ==
    ASSUME Init
    PROVE  PcInv
<1>1. Pc!Init
  BY Zenon DEF Init
<1>2. /\ file = <<>> /\ disk = 0 /\ saved = 0 /\ accepted = 0 /\ flushed = 0
      /\ io_failed = FALSE /\ writing = TRUE
  BY <1>1, Zenon DEF Pc!Init
<1>3. io_failed \in BOOLEAN /\ writing \in BOOLEAN /\ ~io_failed /\ writing
  BY <1>2, Zenon
<1>4. QED BY <1>2, <1>3, PcFresh DEF PcInv

LEMMA PcMeans ==
    ASSUME PcInv
    PROVE  PcapReadable
<1>1. /\ file \in Seq(Piece) /\ disk \in 0 .. Len(file)
      /\ Holds(file, flushed) /\ 2 * flushed <= disk
  BY DEF PcInv
<1>2. PICK g : g = Pc!OnDisk
  OBVIOUS
<1>3. Agree(file, g, disk) /\ Len(g) = disk
  BY <1>1, <1>2, CutAgrees DEF Pc!OnDisk
<1>4. Holds(g, flushed) /\ g \in Seq(Piece)
  BY <1>1, <1>3, AgreeHolds DEF Agree
<1>5. Pc!Readable(g) >= flushed
  BY <1>4, ReadableIs
<1>6. ~io_failed => Pc!Readable(file) = accepted /\ saved = accepted
  <2> SUFFICES ASSUME ~io_failed PROVE Pc!Readable(file) = accepted /\ saved = accepted
    OBVIOUS
  <2>1. Len(file) = 2 * accepted /\ saved = accepted /\ Holds(file, accepted)
    BY DEF PcInv
  <2>2. QED BY <1>1, <2>1, ReadableIs
<1>7. ~io_failed /\ ~writing => Pc!Readable(g) = accepted
  <2> SUFFICES ASSUME ~io_failed, ~writing PROVE Pc!Readable(g) = accepted
    OBVIOUS
  <2>1. Len(file) = 2 * accepted /\ Holds(file, accepted) /\ disk = Len(file)
    BY DEF PcInv
  <2>2. Holds(g, accepted) /\ Len(g) = 2 * accepted
    BY <1>3, <2>1, AgreeHolds DEF Holds
  <2>3. QED BY <1>4, <2>2, ReadableIs
<1>8. QED BY <1>2, <1>5, <1>6, <1>7 DEF PcapReadable, Pc!PcapReadable

\* pcap.c:16-71: as long as stdio does not fail a reader gets every packet accepted, at
\* least the flushed ones after a crash and all after a close; and those flushed before
\* a failure whatever is lost by it and after it.
THEOREM ReadersGet == Spec => []PcapReadable
<1>1. PcInv /\ [Next]_vars => PcInv'
  BY PcKept
<1>2. QED BY <1>1, PcInit, PcMeans, PTL DEF Spec

-----------------------------------------------------------------------------
\* throttle.c
LEMMA Product ==
    ASSUME NEW a \in Nat, NEW b \in Nat
    PROVE  a * b \in Nat
OBVIOUS

\* What was admitted from a steps ago to b steps ago.
Part(P, a, b) == SumFunctionOnSet(P, a .. b)

\* From there to there all are amounts, the same ones, or those of a step earlier.
Numbers(P, a, b) == a \in Nat \ {0} /\ b \in Nat /\ \A i \in a .. b : P[i] \in Nat
Same(P, Q, a, b) == \A i \in a .. b : Q[i] = P[i]
Shifted(P, Q, a, b) == \A i \in a .. b : Q[i + 1] = P[i]

LEMMA NumbersFinite ==
    ASSUME NEW P, NEW a, NEW b, Numbers(P, a, b)
    PROVE  IsFiniteSet(a .. b)
<1>1. a \in Int /\ b \in Int
  BY DEF Numbers
<1>2. QED BY <1>1, FS_Interval

\* A sum by its first and by its last term.
Ends(P, a, b) == /\ Part(P, a, b) = P[a] + Part(P, a + 1, b)
                 /\ Part(P, a, b) = P[b] + Part(P, a, b - 1)

LEMMA PartIs ==
    ASSUME NEW P, NEW a, NEW b, Numbers(P, a, b)
    PROVE  /\ Part(P, a, b) \in Nat
           /\ a > b => Part(P, a, b) = 0
           /\ a <= b => Ends(P, a, b)
<1>1. PICK S : S = a .. b
  OBVIOUS
<1>2. IsFiniteSet(S)
  BY <1>1, NumbersFinite
<1>3. \A x \in S : P[x] \in Nat
  BY <1>1 DEF Numbers
<1>4. /\ SumFunctionOnSet(P, S) \in Nat
      /\ S = {} => SumFunctionOnSet(P, S) = 0
      /\ \A x \in S : SumFunctionOnSet(P, S) = P[x] + SumFunctionOnSet(P, S \ {x})
  BY <1>2, <1>3, SumRemove
<1>5. a > b => S = {}
  BY <1>1 DEF Numbers
<1>6. a <= b => a \in S /\ b \in S /\ S \ {a} = a + 1 .. b /\ S \ {b} = a .. b - 1
  BY <1>1 DEF Numbers
<1>7. a <= b => /\ SumFunctionOnSet(P, S) = P[a] + SumFunctionOnSet(P, a + 1 .. b)
                /\ SumFunctionOnSet(P, S) = P[b] + SumFunctionOnSet(P, a .. b - 1)
  BY <1>4, <1>6
<1>8. QED BY <1>1, <1>4, <1>5, <1>7 DEF Part, Ends

LEMMA PartEnds ==
    ASSUME NEW P, NEW a \in Nat, NEW b \in Nat, Numbers(P, a, b), a <= b
    PROVE  Ends(P, a, b)
BY PartIs

LEMMA PartSplit ==
    ASSUME NEW P, NEW n, Numbers(P, 1, n), NEW k \in 1 .. n
    PROVE  Part(P, 1, n) = Part(P, 1, k) + Part(P, k + 1, n)
<1>1. PICK S : S = 1 .. n
  OBVIOUS
<1>2. PICK T : T = 1 .. k
  OBVIOUS
<1>3. IsFiniteSet(S) /\ \A x \in S : P[x] \in Nat
  BY <1>1, NumbersFinite DEF Numbers
<1>4. T \in SUBSET S /\ S \ T = k + 1 .. n
  BY <1>1, <1>2 DEF Numbers
<1>5. SumFunctionOnSet(P, S) = SumFunctionOnSet(P, T) + SumFunctionOnSet(P, S \ T)
  BY <1>3, <1>4, SumSplit
<1>6. QED BY <1>1, <1>2, <1>4, <1>5 DEF Part

LEMMA PartSame ==
    ASSUME NEW P, NEW Q, NEW a, NEW b, Numbers(P, a, b), Same(P, Q, a, b)
    PROVE  Part(Q, a, b) = Part(P, a, b)
<1>1. PICK S : S = a .. b
  OBVIOUS
<1>2. IsFiniteSet(S) /\ \A x \in S : P[x] \in Nat
  BY <1>1, NumbersFinite DEF Numbers
<1>3. \A x \in S : Q[x] = P[x]
  BY <1>1 DEF Same
<1>4. SumFunctionOnSet(P, S) = SumFunctionOnSet(Q, S)
  BY <1>2, <1>3, SumSame
<1>5. QED BY <1>1, <1>4 DEF Part

LEMMA PartShifted ==
    ASSUME NEW P, NEW Q, NEW a, NEW b, Numbers(P, a, b), Shifted(P, Q, a, b)
    PROVE  Part(Q, a + 1, b + 1) = Part(P, a, b)
<1>1. PICK S : S = a .. b
  OBVIOUS
<1>2. PICK m : m = [i \in Nat |-> i + 1]
  OBVIOUS
<1>3. IsFiniteSet(S) /\ \A x \in S : P[x] \in Nat
  BY <1>1, NumbersFinite DEF Numbers
<1>4. \A x \in S : x \in Nat /\ m[x] = x + 1 /\ Q[x + 1] = P[x]
  BY <1>1, <1>2 DEF Shifted, Numbers
<1>5. \A x \in S : Q[m[x]] = P[x]
  BY <1>4
<1>6. \A x, y \in S : m[x] = m[y] => x = y
  <2>1. ASSUME NEW x \in S, NEW y \in S, m[x] = m[y] PROVE x = y
    BY <1>4, <2>1
  <2>2. QED BY <2>1
<1>7. {m[x] : x \in S} = a + 1 .. b + 1
  <2>1. ASSUME NEW j \in a + 1 .. b + 1 PROVE j \in {m[x] : x \in S}
    <3>1. j - 1 \in S
      BY <1>1, <2>1 DEF Numbers
    <3>2. m[j - 1] = j
      BY <1>4, <2>1, <3>1
    <3>3. QED BY <3>1, <3>2
  <2>2. ASSUME NEW x \in S PROVE m[x] \in a + 1 .. b + 1
    BY <1>1, <1>4 DEF Numbers
  <2>3. QED BY <2>1, <2>2
<1>8. SumFunctionOnSet(Q, {m[x] : x \in S}) = SumFunctionOnSet(P, S)
  BY <1>3, <1>5, <1>6, SumMapped
<1>9. QED BY <1>1, <1>7, <1>8 DEF Part

Span == Thr!Span

LEMMA Rates ==
    /\ Tock \in Nat \ {0} /\ Ms \in Nat \ {0} /\ SecondMs \in Nat \ {0}
    /\ WindowMs \in 1 .. SecondMs /\ Thr!Second = SecondMs * Ms
    /\ Thr!Second \in Nat \ {0} /\ Tock <= Thr!Second
    /\ (WindowMs - 1) * Ms \in Nat
<1>1. /\ SecondMs \in Nat /\ Ms \in Nat \ {0}
      /\ WindowMs \in 1 .. SecondMs /\ Tock \in 1 .. SecondMs * Ms
  BY PathAssumption, Zenon DEF Thr!ThrottleAssumption
<1>2. SecondMs \in Nat \ {0} /\ WindowMs - 1 \in Nat
  BY <1>1
<1>3. PICK second \in Nat, rest \in Nat : second = SecondMs * Ms /\ rest = (WindowMs - 1) * Ms
  BY <1>1, <1>2, Product
<1>4. Tock \in Nat \ {0} /\ Tock <= second /\ second # 0
  BY <1>1, <1>3
<1>5. QED BY <1>1, <1>2, <1>3, <1>4 DEF Thr!Second

LEMMA DivIs ==
    ASSUME NEW a \in Nat, NEW b \in Nat \ {0}
    PROVE  a \div b \in Nat /\ (a \div b) * b <= a /\ a < (a \div b) * b + b
OBVIOUS

\* More than a ms less than a window is as many steps as a span has.
LEMMA SpanIs ==
    /\ Span \in Nat \ {0}
    /\ \A e \in Nat : e * Tock > (WindowMs - 1) * Ms => e >= Span
<1>1. PICK m \in Nat : m = (WindowMs - 1) * Ms
  BY Rates
<1>2. PICK n \in Nat : n = m \div Tock /\ n * Tock <= m
  BY Rates, DivIs
<1>3. Span = n + 1
  BY <1>1, <1>2 DEF Span, Thr!Span
<1>4. ASSUME NEW e \in Nat, e * Tock > m
      PROVE  e >= n + 1
  <2>1. CASE e <= n
    <3>1. PICK d \in Nat : n = e + d
      BY <2>1
    <3>2. n * Tock = e * Tock + d * Tock
      BY <3>1, Rates
    <3>3. d * Tock \in Nat /\ e * Tock \in Nat
      BY Rates, Product
    <3>4. QED BY <1>2, <1>4, <3>2, <3>3
  <2>2. QED BY <2>1
<1>5. QED BY <1>1, <1>3, <1>4

\* Cutting towards zero adds less than one.
LEMMA QuotientIs ==
    ASSUME NEW d \in Int
    PROVE  /\ Thr!Quotient(d, Ms) \in Int /\ Thr!Quotient(d, Ms) * Ms < d + Ms
           /\ d = 0 => Thr!Quotient(d, Ms) = 0
<1>1. PICK b \in Nat \ {0} : b = Ms
  BY Rates
<1>2. CASE d >= 0
  <2>1. PICK q \in Nat : q = d \div b /\ q * b <= d
    BY <1>2, DivIs
  <2>2. d = 0 => q = 0
    BY <2>1
  <2>3. Thr!Quotient(d, Ms) = q
    BY <1>1, <1>2, <2>1 DEF Thr!Quotient
  <2>4. q * b < d + b
    BY <2>1
  <2>5. QED BY <1>1, <2>1, <2>2, <2>3, <2>4
<1>3. CASE d < 0
  <2>1. PICK p \in Nat : p = (-d) \div b /\ -d < p * b + b
    BY <1>3, DivIs
  <2>2. Thr!Quotient(d, Ms) = -p
    BY <1>1, <1>3, <2>1 DEF Thr!Quotient
  <2>3. (-p) * b < d + b
    BY <2>1
  <2>4. QED BY <1>1, <1>3, <2>1, <2>2, <2>3
<1>4. QED BY <1>2, <1>3

\* A window that began at this place of its second, e steps before the clock came
\* to that of its own; and whether it is over.
Aged(from, to, sec, e) ==
    /\ from \in 0 .. Thr!Second - 1 /\ to \in 0 .. Thr!Second - 1 /\ sec \in 0 .. 2
    /\ sec = 0 => to - from = e * Tock
    /\ sec = 1 => Thr!Second + to - from = e * Tock
    /\ sec = 2 => e * Tock >= Thr!Second

Over(from, to, sec) == sec * SecondMs + Thr!Quotient(to - from, Ms) >= WindowMs

LEMMA OverIs == Thr!WindowOver <=> Over(window_start, nsec, secs)
BY DEF Thr!WindowOver, Thr!ElapsedMs, Over

LEMMA NewAge ==
    ASSUME NEW now_at \in 0 .. Thr!Second - 1
    PROVE  Aged(now_at, now_at, 0, 0) /\ ~Over(now_at, now_at, 0)
<1>1. now_at - now_at = 0 /\ 0 * Tock = 0 /\ 0 * SecondMs = 0
  BY Rates
<1>2. Thr!Quotient(0, Ms) = 0
  BY QuotientIs
<1>3. ~(0 + 0 >= WindowMs)
  BY Rates
<1>4. QED BY <1>1, <1>2, <1>3 DEF Aged, Over

\* A window that is over has lasted a span, though elapsed_ms may round up.
LEMMA OverAge ==
    ASSUME NEW from, NEW to, NEW sec, NEW e \in Nat, Aged(from, to, sec, e), Over(from, to, sec)
    PROVE  e >= Span
<1>1. PICK s \in Nat \ {0}, m \in Nat \ {0}, w \in Nat \ {0} :
         s = SecondMs /\ m = Ms /\ w = WindowMs /\ w <= s /\ Thr!Second = s * m
  BY Rates
<1>2. PICK t \in Nat : t = e * Tock
  BY Rates, Product
<1>3. PICK d \in Int : d = to - from
  BY DEF Aged
<1>4. PICK q \in Int : q = Thr!Quotient(d, Ms) /\ q * m < d + m
  BY <1>1, QuotientIs
<1>5. w * m - m < t
  <2>1. CASE sec = 0
    <3>1. q >= w
      BY <1>1, <1>3, <1>4, <2>1 DEF Over
    <3>2. q * m >= w * m
      BY <1>1, <1>4, <3>1
    <3>3. d = t
      BY <1>2, <1>3, <2>1 DEF Aged
    <3>4. QED BY <1>1, <1>4, <3>2, <3>3
  <2>2. CASE sec = 1
    <3>1. s + q >= w
      BY <1>1, <1>3, <1>4, <2>2 DEF Over
    <3>2. (s + q) * m >= w * m
      BY <1>1, <1>4, <3>1
    <3>3. (s + q) * m = s * m + q * m
      BY <1>1, <1>4
    <3>4. s * m + d = t
      BY <1>1, <1>2, <1>3, <2>2 DEF Aged
    <3>5. s * m \in Int /\ q * m \in Int /\ w * m \in Int
      BY <1>1, <1>4
    <3>6. QED BY <1>1, <1>4, <3>2, <3>3, <3>4, <3>5
  <2>3. CASE sec = 2
    <3>1. t >= s * m
      BY <1>1, <1>2, <2>3 DEF Aged
    <3>2. s * m >= w * m
      BY <1>1
    <3>3. s * m \in Int /\ w * m \in Int
      BY <1>1
    <3>4. QED BY <1>1, <1>2, <3>1, <3>2, <3>3
  <2>4. QED BY <2>1, <2>2, <2>3 DEF Aged
<1>6. (WindowMs - 1) * Ms = w * m - m
  BY <1>1
<1>7. QED BY <1>2, <1>5, <1>6, SpanIs

\* A step of the clock makes it a step older.
LEMMA OneStepOlder ==
    ASSUME NEW from, NEW to, NEW sec, NEW e \in Nat, Aged(from, to, sec, e)
    PROVE  /\ to + Tock < Thr!Second => Aged(from, to + Tock, sec, e + 1)
           /\ ~(to + Tock < Thr!Second) =>
                 Aged(from, to + Tock - Thr!Second, IF sec < 2 THEN sec + 1 ELSE 2, e + 1)
<1>1. PICK s \in Nat \ {0}, k \in Nat \ {0} : s = Thr!Second /\ k = Tock /\ k <= s
  BY Rates
<1>2. PICK t \in Nat : t = e * Tock
  BY Rates, Product
<1>3. (e + 1) * Tock = t + k
  BY <1>1, <1>2
<1>4. /\ from \in 0 .. s - 1 /\ to \in 0 .. s - 1 /\ sec \in {0, 1, 2}
      /\ sec = 0 => to - from = t
      /\ sec = 1 => s + to - from = t
      /\ sec = 2 => t >= s
  BY <1>1, <1>2 DEF Aged
<1>5. to + k < s => Aged(from, to + k, sec, e + 1)
  BY <1>1, <1>3, <1>4 DEF Aged
<1>6. ASSUME ~(to + k < s)
      PROVE  Aged(from, to + k - s, IF sec < 2 THEN sec + 1 ELSE 2, e + 1)
  <2>1. PICK n : n = to + k - s
    OBVIOUS
  <2>2. n \in 0 .. s - 1
    BY <1>1, <1>4, <1>6, <2>1
  <2>3. CASE sec = 0
    BY <1>1, <1>3, <1>4, <2>1, <2>2, <2>3 DEF Aged
  <2>4. CASE sec = 1
    BY <1>1, <1>3, <1>4, <1>6, <2>1, <2>2, <2>4 DEF Aged
  <2>5. CASE sec = 2
    BY <1>1, <1>3, <1>4, <2>1, <2>2, <2>5 DEF Aged
  <2>6. QED BY <1>4, <2>3, <2>4, <2>5
<1>7. QED BY <1>1, <1>5, <1>6

\* A window of n steps, in its k-th one, has let c through, and no window more than cap.
Fair(P, c, k, n, cap) == Part(P, 1, k) <= c /\ Part(P, k + 1, n) <= cap /\ c <= cap

LEMMA FairParts ==
    ASSUME NEW n \in Nat \ {0}, NEW P \in [1 .. n -> Nat], NEW k \in 1 .. n
    PROVE  /\ Numbers(P, 1, k) /\ Numbers(P, k + 1, n) /\ Numbers(P, 2, k) /\ Numbers(P, 1, n)
           /\ Part(P, 1, k) \in Nat /\ Part(P, k + 1, n) \in Nat
           /\ Part(P, 2, k) \in Nat /\ P[1] \in Nat
           /\ Part(P, 1, k) = P[1] + Part(P, 2, k)
<1>1. /\ Numbers(P, 1, k) /\ Numbers(P, k + 1, n) /\ Numbers(P, 2, k) /\ Numbers(P, 1, n)
      /\ P[1] \in Nat /\ 1 <= k /\ 2 = 1 + 1
  BY DEF Numbers
<1>2. Part(P, 1, k) \in Nat /\ Ends(P, 1, k)
  BY <1>1, PartIs, PartEnds
<1>3. Part(P, k + 1, n) \in Nat
  BY <1>1, PartIs
<1>4. Part(P, 2, k) \in Nat
  BY <1>1, PartIs
<1>5. QED BY <1>1, <1>2, <1>3, <1>4 DEF Ends

LEMMA FairNone ==
    ASSUME NEW n \in Nat \ {0}, NEW P \in [1 .. n -> Nat], NEW cap \in Nat,
           \A i \in 1 .. n : P[i] = 0
    PROVE  Fair(P, 0, 1, n, cap)
<1>1. PICK S : S = 1 .. 1
  OBVIOUS
<1>2. PICK T : T = 2 .. n
  OBVIOUS
<1>3. IsFiniteSet(S) /\ IsFiniteSet(T)
  <2>1. 1 \in Int /\ 2 \in Int /\ n \in Int
    OBVIOUS
  <2>2. QED BY <1>1, <1>2, <2>1, FS_Interval
<1>4. (\A i \in S : P[i] = 0) /\ (\A i \in T : P[i] = 0)
  BY <1>1, <1>2
<1>5. SumFunctionOnSet(P, S) = 0 /\ SumFunctionOnSet(P, T) = 0
  BY <1>3, <1>4, SumZero
<1>6. QED BY <1>1, <1>2, <1>5 DEF Fair, Part

LEMMA FairAdded ==
    ASSUME NEW n \in Nat \ {0}, NEW P \in [1 .. n -> Nat], NEW Q \in [1 .. n -> Nat],
           NEW k \in 1 .. n, NEW c \in Nat, NEW cap \in Nat, Fair(P, c, k, n, cap),
           NEW d \in Nat, Q[1] = P[1] + d, c + d <= cap, \A i \in 2 .. n : Q[i] = P[i]
    PROVE  Fair(Q, c + d, k, n, cap)
<1>1. Same(P, Q, 2, k) /\ Same(P, Q, k + 1, n)
  BY DEF Same
<1>2. Numbers(P, 2, k) /\ Numbers(P, k + 1, n)
  BY FairParts
<1>3. /\ Part(P, 1, k) = P[1] + Part(P, 2, k) /\ Part(P, 2, k) \in Nat /\ P[1] \in Nat
      /\ Part(Q, 1, k) = Q[1] + Part(Q, 2, k)
  BY FairParts
<1>4. Part(Q, 2, k) = Part(P, 2, k)
  BY <1>1, <1>2, PartSame
<1>5. Part(Q, k + 1, n) = Part(P, k + 1, n)
  BY <1>1, <1>2, PartSame
<1>6. QED BY <1>3, <1>4, <1>5 DEF Fair

LEMMA FairAgain ==
    ASSUME NEW n \in Nat \ {0}, NEW P \in [1 .. n -> Nat], NEW Q \in [1 .. n -> Nat],
           NEW c \in Nat, NEW cap \in Nat, Fair(P, c, n, n, cap), P[1] = 0,
           NEW d \in Nat, Q[1] = d, d <= cap, \A i \in 2 .. n : Q[i] = P[i]
    PROVE  Fair(Q, d, 1, n, cap)
<1>1. 1 \in 1 .. n /\ n \in 1 .. n /\ Same(P, Q, 2, n) /\ 2 > 1 /\ 1 + 1 = 2
  BY DEF Same
<1>2. /\ Part(P, 1, n) = P[1] + Part(P, 2, n) /\ Part(P, 2, n) \in Nat
      /\ Numbers(P, 2, n)
  BY <1>1, FairParts
<1>3. Part(Q, 1, 1) = Q[1] + Part(Q, 2, 1) /\ Numbers(Q, 2, 1)
  BY <1>1, FairParts
<1>4. Part(Q, 2, n) = Part(P, 2, n) /\ Part(Q, 2, 1) = 0
  BY <1>1, <1>2, <1>3, PartSame, PartIs
<1>5. Part(P, 1, n) <= c /\ c <= cap
  BY DEF Fair
<1>6. QED BY <1>1, <1>2, <1>3, <1>4, <1>5 DEF Fair

LEMMA FairShifted ==
    ASSUME NEW n \in Nat \ {0}, NEW P \in [1 .. n -> Nat], NEW Q \in [1 .. n -> Nat],
           NEW k \in 1 .. n, NEW c \in Nat, NEW cap \in Nat, Fair(P, c, k, n, cap),
           Q[1] = 0, \A i \in 1 .. n - 1 : Q[i + 1] = P[i]
    PROVE  Fair(Q, c, IF k < n THEN k + 1 ELSE n, n, cap)
<1>0. Part(P, 1, k) <= c /\ Part(P, k + 1, n) <= cap /\ c <= cap
  BY DEF Fair
<1>1. PICK m \in Nat : m = n - 1 /\ n = m + 1
  OBVIOUS
<1>2. P[n] \in Nat /\ \A a \in 1 .. n, b \in 0 .. n - 1 : Numbers(P, a, b) /\ Shifted(P, Q, a, b)
  BY DEF Numbers, Shifted
<1>3. CASE k < n
  <2>1. PICK j \in Nat : j = k + 1
    OBVIOUS
  <2>2. j \in 1 .. n /\ j <= n /\ k \in 0 .. n - 1 /\ m \in 0 .. n - 1 /\ 1 \in 1 .. n
    BY <1>1, <1>3, <2>1
  <2>3. Part(Q, 1 + 1, k + 1) = Part(P, 1, k)
    <3>1. Numbers(P, 1, k) /\ Shifted(P, Q, 1, k)
      BY <1>2, <2>2
    <3>2. QED BY <3>1, PartShifted
  <2>4. Part(Q, j + 1, m + 1) = Part(P, j, m)
    <3>1. Numbers(P, j, m) /\ Shifted(P, Q, j, m)
      BY <1>2, <2>2
    <3>2. QED BY <3>1, PartShifted
  <2>5. Part(Q, 1, j) = Q[1] + Part(Q, 2, j) /\ Part(Q, 2, j) \in Nat
    BY <2>2, FairParts
  <2>6. Numbers(P, j, n) /\ Numbers(P, j, m)
    BY <1>2, <2>2 DEF Numbers
  <2>7. Ends(P, j, n)
    BY <2>2, <2>6, PartEnds
  <2>8. Part(P, j, m) \in Nat
    BY <2>6, PartIs
  <2>9. Part(Q, 1, j) <= c
    BY <1>0, <2>1, <2>3, <2>5
  <2>10. Part(Q, j + 1, n) <= cap
    BY <1>0, <1>1, <1>2, <2>1, <2>4, <2>7, <2>8 DEF Ends
  <2>11. QED BY <1>0, <1>3, <2>1, <2>9, <2>10 DEF Fair
<1>4. CASE k = n
  <2>1. 1 \in 1 .. n /\ m \in 0 .. n - 1 /\ n \in 1 .. n /\ 1 <= n /\ n + 1 > n
    BY <1>1
  <2>2. Part(Q, 1 + 1, m + 1) = Part(P, 1, m)
    <3>1. Numbers(P, 1, m) /\ Shifted(P, Q, 1, m)
      BY <1>2, <2>1
    <3>2. QED BY <3>1, PartShifted
  <2>3. Part(Q, 1, n) = Q[1] + Part(Q, 2, n) /\ Numbers(P, 1, n) /\ Numbers(Q, n + 1, n)
    BY <2>1, FairParts
  <2>4. Ends(P, 1, n)
    BY <2>1, <2>3, PartEnds
  <2>5. Numbers(P, 1, m)
    BY <1>2, <2>1
  <2>6. Part(P, 1, m) \in Nat
    BY <2>5, PartIs
  <2>7. Part(Q, n + 1, n) = 0
    BY <2>1, <2>3, PartIs
  <2>8. Part(Q, 1, n) <= c
    BY <1>0, <1>1, <1>2, <1>4, <2>2, <2>3, <2>4, <2>6 DEF Ends
  <2>9. QED BY <1>0, <1>4, <2>7, <2>8 DEF Fair
<1>5. QED BY <1>3, <1>4

LEMMA FairTwice ==
    ASSUME NEW n \in Nat \ {0}, NEW P \in [1 .. n -> Nat], NEW k \in 1 .. n,
           NEW c \in Nat, NEW cap \in Nat, Fair(P, c, k, n, cap)
    PROVE  Part(P, 1, n) <= 2 * cap
<1>1. Part(P, 1, k) \in Nat /\ Part(P, k + 1, n) \in Nat
  BY FairParts
<1>2. Part(P, 1, n) = Part(P, 1, k) + Part(P, k + 1, n)
  BY FairParts, PartSplit
<1>3. QED BY <1>1, <1>2 DEF Fair

\* The step of the current window, e steps after it began.
StepOf(e) == IF e < Span THEN e + 1 ELSE Span

Recent == [1 .. Span -> [pkts : Nat, bytes : Nat]]
PktsOf(r) == [i \in 1 .. Span |-> r[i].pkts]
BytesOf(r) == [i \in 1 .. Span |-> r[i].bytes]

ThrTypes == /\ <<max_pps, max_bps>> \in Limits /\ max_pps \in Nat /\ max_bps \in Nat
            /\ win_pkts \in Nat /\ win_bytes \in Nat
            /\ recent \in Recent /\ checked \in 0 .. MaxPerStep /\ admitted \in BOOLEAN

\* The window began e steps ago and has let through what is counted; when it is over,
\* nothing was admitted in this step.
Shares(e) ==
    /\ Aged(window_start, nsec, secs, e)
    /\ Over(window_start, nsec, secs) => recent[1] = Thr!NoneYet
    /\ max_pps # 0 => Fair(PktsOf(recent), win_pkts, StepOf(e), Span, Thr!Scaled(max_pps))
    /\ max_bps # 0 => Fair(BytesOf(recent), win_bytes, StepOf(e), Span, Thr!Scaled(max_bps))

\* The inductive invariant of throttle.c.
ThrInv == ThrTypes /\ \E e \in Nat : Shares(e)

LEMMA ThrConstants ==
    /\ Span \in Nat \ {0} /\ ThrLens \subseteq Nat /\ MaxPerStep \in Nat
    /\ Limits \subseteq Nat \X Nat
    /\ \A max \in Nat : Thr!Scaled(max) \in Nat
<1>1. /\ WindowMs \in Nat /\ Limits \subseteq Nat \X Nat /\ ThrLens \subseteq Nat
      /\ MaxPerStep \in Nat
  <2>1. /\ Limits \subseteq Nat \X Nat /\ ThrLens \subseteq Nat
        /\ MaxPerStep \in Nat
    BY PathAssumption, Zenon DEF Thr!ThrottleAssumption
  <2>2. QED BY <2>1, Rates
<1>2. Span \in Nat \ {0} /\ SecondMs \in Nat \ {0}
  BY SpanIs, Rates
<1>3. ASSUME NEW max \in Nat PROVE Thr!Scaled(max) \in Nat
  <2>1. PICK m \in Nat : m = max * WindowMs
    BY <1>1, Product
  <2>2. m \div SecondMs \in Nat
    BY <1>2, DivIs
  <2>3. QED BY <2>1, <2>2 DEF Thr!Scaled
<1>4. QED BY <1>1, <1>2, <1>3

LEMMA Amounts ==
    ASSUME NEW r \in Recent
    PROVE  /\ PktsOf(r) \in [1 .. Span -> Nat] /\ BytesOf(r) \in [1 .. Span -> Nat]
           /\ \A i \in 1 .. Span : /\ r[i] \in [pkts : Nat, bytes : Nat]
                                   /\ PktsOf(r)[i] = r[i].pkts /\ BytesOf(r)[i] = r[i].bytes
<1>1. \A i \in 1 .. Span : r[i] \in [pkts : Nat, bytes : Nat]
  BY DEF Recent
<1>2. \A i \in 1 .. Span : r[i].pkts \in Nat /\ r[i].bytes \in Nat
  BY <1>1
<1>3. QED BY <1>1, <1>2 DEF PktsOf, BytesOf

\* The history when the clock moves on by a step.
LEMMA Moved ==
    ASSUME NEW q \in Recent, NEW r, r = <<Thr!NoneYet>> \o SubSeq(q, 1, Len(q) - 1)
    PROVE  r \in Recent /\ r[1] = Thr!NoneYet /\ \A i \in 1 .. Span - 1 : r[i + 1] = q[i]
<1>1. PICK R : R = [pkts : Nat, bytes : Nat]
  OBVIOUS
<1>2. PICK n \in Nat \ {0} : n = Span
  BY ThrConstants
<1>3. q \in [1 .. n -> R]
  BY <1>1, <1>2 DEF Recent
<1>4. q \in Seq(R) /\ Len(q) = n
  BY <1>3
<1>5. PICK f : f = SubSeq(q, 1, n - 1)
  OBVIOUS
<1>6. f \in Seq(R) /\ Len(f) = n - 1 /\ \A i \in 1 .. n - 1 : f[i] = q[i]
  <2>1. n - 1 \in 0 .. Len(q)
    BY <1>4
  <2>2. QED BY <1>4, <1>5, <2>1
<1>7. Thr!NoneYet \in R
  BY <1>1 DEF Thr!NoneYet
<1>8. PICK y : y = Thr!NoneYet
  OBVIOUS
<1>9. r = <<y>> \o f
  BY <1>4, <1>5, <1>8
<1>10. /\ r \in Seq(R) /\ Len(r) = n /\ r[1] = y
       /\ \A i \in 1 .. n - 1 : r[i + 1] = f[i]
  <2>1. y \in R
    BY <1>7, <1>8
  <2>2. <<y>> \in Seq(R) /\ Len(<<y>>) = 1
    BY <2>1
  <2>3. r \in Seq(R) /\ Len(r) = 1 + Len(f)
    BY <1>6, <1>9, <2>2
  <2>4. r[1] = y /\ \A i \in 1 .. n - 1 : r[i + 1] = f[i]
    BY <1>6, <1>9, <2>1
  <2>5. QED BY <1>6, <2>3, <2>4
<1>11. r \in [1 .. n -> R]
  <2>1. r \in Seq(R) /\ Len(r) = n
    BY <1>10
  <2>2. DOMAIN r = 1 .. n /\ \A i \in 1 .. n : r[i] \in R
    BY <2>1
  <2>3. r = [i \in DOMAIN r |-> r[i]]
    BY <2>1
  <2>4. QED BY <2>2, <2>3
<1>12. QED BY <1>1, <1>2, <1>6, <1>8, <1>10, <1>11 DEF Recent

LEMMA NoneFair ==
    /\ Thr!NoneRecent \in Recent /\ StepOf(0) = 1
    /\ \A cap \in Nat : /\ Fair(PktsOf(Thr!NoneRecent), 0, 1, Span, cap)
                        /\ Fair(BytesOf(Thr!NoneRecent), 0, 1, Span, cap)
<1>1. PICK r : r = Thr!NoneRecent
  OBVIOUS
<1>2. r \in Recent /\ \A i \in 1 .. Span : r[i].pkts = 0 /\ r[i].bytes = 0
  BY <1>1 DEF Recent, Thr!NoneRecent, Thr!NoneYet, Span
<1>3. ASSUME NEW cap \in Nat
      PROVE  Fair(PktsOf(r), 0, 1, Span, cap) /\ Fair(BytesOf(r), 0, 1, Span, cap)
  <2>1. PICK n \in Nat \ {0} : n = Span
    BY ThrConstants
  <2>2. PICK P \in [1 .. n -> Nat], Q \in [1 .. n -> Nat] : P = PktsOf(r) /\ Q = BytesOf(r)
    BY <1>2, <2>1, Amounts
  <2>3. \A i \in 1 .. n : P[i] = 0 /\ Q[i] = 0
    BY <1>2, <2>1, <2>2, Amounts
  <2>4. Fair(P, 0, 1, n, cap) /\ Fair(Q, 0, 1, n, cap)
    BY <2>3, FairNone
  <2>5. QED BY <2>1, <2>2, <2>4
<1>4. StepOf(0) = 1
  BY ThrConstants DEF StepOf
<1>5. QED BY <1>1, <1>2, <1>3, <1>4

LEMMA ThrInit ==
    ASSUME Init
    PROVE  ThrInv
<1>1. Thr!Init
  BY Zenon DEF Init
<1>2. PICK l \in Limits : max_pps = l[1] /\ max_bps = l[2]
  BY <1>1 DEF Thr!Init
<1>3. /\ win_pkts = 0 /\ win_bytes = 0
      /\ window_start \in 0 .. Thr!Second - 1 /\ nsec = window_start /\ secs = 0
      /\ checked = 0 /\ admitted \in BOOLEAN /\ recent = Thr!NoneRecent
  BY <1>1, Zenon DEF Thr!Init
<1>4. <<max_pps, max_bps>> \in Limits /\ max_pps \in Nat /\ max_bps \in Nat
  BY <1>2, ThrConstants
<1>5. Shares(0)
  BY <1>3, <1>4, NewAge, NoneFair, ThrConstants DEF Shares
<1>6. QED BY <1>3, <1>4, <1>5, NoneFair, ThrConstants DEF ThrInv, ThrTypes

LEMMA ThrReset ==
    ASSUME ThrInv, Thr!Reset
    PROVE  ThrInv'
<1>1. /\ win_pkts' = 0 /\ win_bytes' = 0 /\ admitted' \in BOOLEAN
      /\ window_start' = nsec /\ nsec' = nsec /\ secs' = 0
      /\ recent' = Thr!NoneRecent
      /\ max_pps' = max_pps /\ max_bps' = max_bps /\ checked' = checked
  BY Zenon DEF Thr!Reset
<1>2. Shares(0)'
  <2>1. nsec \in 0 .. Thr!Second - 1
    BY DEF ThrInv, Shares, Aged
  <2>2. max_pps \in Nat /\ max_bps \in Nat
    BY DEF ThrInv, ThrTypes
  <2>3. QED BY <1>1, <2>1, <2>2, NewAge, NoneFair, ThrConstants DEF Shares
<1>3. QED BY <1>1, <1>2, NoneFair, ThrConstants DEF ThrInv, ThrTypes

\* What was admitted moves on by a step.
LEMMA ThrTick ==
    ASSUME ThrInv, Thr!Tick
    PROVE  ThrInv'
<1>1. PICK e \in Nat : Shares(e)
  BY DEF ThrInv
<1>2. ThrTypes
  BY DEF ThrInv
<1>3. PICK r : r = recent'
  OBVIOUS
<1>4. /\ r \in Recent /\ r[1] = Thr!NoneYet
      /\ \A i \in 1 .. Span - 1 : r[i + 1] = recent[i]
  <2>1. recent \in Recent
    BY <1>2 DEF ThrTypes
  <2>2. r = <<Thr!NoneYet>> \o SubSeq(recent, 1, Len(recent) - 1)
    BY <1>3, Zenon DEF Thr!Tick, Thr!Front
  <2>3. QED BY <2>1, <2>2, Moved
<1>5. /\ PktsOf(r)[1] = 0 /\ BytesOf(r)[1] = 0
      /\ \A i \in 1 .. Span - 1 : /\ PktsOf(r)[i + 1] = PktsOf(recent)[i]
                                  /\ BytesOf(r)[i + 1] = BytesOf(recent)[i]
  <2>1. recent \in Recent
    BY <1>2 DEF ThrTypes
  <2>2. 1 \in 1 .. Span /\ \A i \in 1 .. Span - 1 : i \in 1 .. Span /\ i + 1 \in 1 .. Span
    BY ThrConstants
  <2>3. r[1].pkts = 0 /\ r[1].bytes = 0
    BY <1>4 DEF Thr!NoneYet
  <2>4. /\ PktsOf(r)[1] = r[1].pkts /\ BytesOf(r)[1] = r[1].bytes
        /\ \A i \in 1 .. Span : /\ PktsOf(r)[i] = r[i].pkts /\ BytesOf(r)[i] = r[i].bytes
                                /\ PktsOf(recent)[i] = recent[i].pkts
                                /\ BytesOf(recent)[i] = recent[i].bytes
    BY <2>2 DEF PktsOf, BytesOf
  <2>5. QED BY <1>4, <2>2, <2>3, <2>4
<1>6. PICK k : k = StepOf(e)
  OBVIOUS
<1>7. k \in 1 .. Span
  BY <1>6, ThrConstants DEF StepOf
<1>8. PICK d \in Nat : d = e + 1
  OBVIOUS
<1>9. StepOf(d) = (IF k < Span THEN k + 1 ELSE Span)
  BY <1>6, <1>8, ThrConstants DEF StepOf
<1>10. Aged(window_start', nsec', secs', d)
  <2>1. /\ window_start' = window_start
        /\ \/ nsec + Tock < Thr!Second /\ nsec' = nsec + Tock /\ secs' = secs
           \/ /\ ~(nsec + Tock < Thr!Second)
              /\ nsec' = nsec + Tock - Thr!Second /\ secs' = IF secs < 2 THEN secs + 1 ELSE 2
    BY Zenon DEF Thr!Tick
  <2>2. Aged(window_start, nsec, secs, e)
    BY <1>1 DEF Shares
  <2>3. QED BY <1>8, <2>1, <2>2, OneStepOlder
<1>11. /\ max_pps' = max_pps /\ max_bps' = max_bps /\ checked' = 0 /\ admitted' \in BOOLEAN
       /\ win_pkts' = win_pkts /\ win_bytes' = win_bytes
  BY Zenon DEF Thr!Tick
<1>12. /\ max_pps # 0 => Fair(PktsOf(r), win_pkts, StepOf(d), Span, Thr!Scaled(max_pps))
       /\ max_bps # 0 => Fair(BytesOf(r), win_bytes, StepOf(d), Span, Thr!Scaled(max_bps))
  <2>1. /\ PktsOf(recent) \in [1 .. Span -> Nat] /\ BytesOf(recent) \in [1 .. Span -> Nat]
        /\ PktsOf(r) \in [1 .. Span -> Nat] /\ BytesOf(r) \in [1 .. Span -> Nat]
    BY <1>2, <1>4, Amounts DEF ThrTypes
  <2>2. /\ max_pps # 0 => Fair(PktsOf(recent), win_pkts, k, Span, Thr!Scaled(max_pps))
        /\ max_bps # 0 => Fair(BytesOf(recent), win_bytes, k, Span, Thr!Scaled(max_bps))
    BY <1>1, <1>6 DEF Shares
  <2>3. /\ win_pkts \in Nat /\ win_bytes \in Nat
        /\ Thr!Scaled(max_pps) \in Nat /\ Thr!Scaled(max_bps) \in Nat
    BY <1>2, ThrConstants DEF ThrTypes
  <2>4. ASSUME NEW P \in [1 .. Span -> Nat], NEW Q \in [1 .. Span -> Nat], NEW c \in Nat,
               NEW cap \in Nat, Fair(P, c, k, Span, cap),
               Q[1] = 0, \A i \in 1 .. Span - 1 : Q[i + 1] = P[i]
        PROVE  Fair(Q, c, StepOf(d), Span, cap)
    <3>1. Fair(Q, c, IF k < Span THEN k + 1 ELSE Span, Span, cap)
      BY <1>7, <2>4, ThrConstants, FairShifted
    <3>2. QED BY <1>9, <3>1
  <2>5. max_pps # 0 => Fair(PktsOf(r), win_pkts, StepOf(d), Span, Thr!Scaled(max_pps))
    BY <1>5, <2>1, <2>2, <2>3, <2>4
  <2>6. max_bps # 0 => Fair(BytesOf(r), win_bytes, StepOf(d), Span, Thr!Scaled(max_bps))
    BY <1>5, <2>1, <2>2, <2>3, <2>4
  <2>7. QED BY <2>5, <2>6
<1>13. Shares(d)'
  BY <1>3, <1>4, <1>10, <1>11, <1>12 DEF Shares
<1>14. ThrTypes'
  BY <1>2, <1>3, <1>4, <1>11, ThrConstants DEF ThrTypes
<1>15. QED BY <1>13, <1>14 DEF ThrInv

\* The history when a packet is admitted.
Added(q, d, b) == [q EXCEPT ![1].pkts = @ + d, ![1].bytes = @ + b]

LEMMA AddedTo ==
    ASSUME NEW q \in Recent, NEW d \in Nat, NEW b \in Nat
    PROVE  /\ Added(q, d, b) \in Recent
           /\ Added(q, d, b)[1].pkts = q[1].pkts + d /\ Added(q, d, b)[1].bytes = q[1].bytes + b
           /\ \A i \in 2 .. Span : Added(q, d, b)[i] = q[i]
<1>0. PICK r : r = Added(q, d, b)
  OBVIOUS
<1>1. 1 \in 1 .. Span /\ \A i \in 2 .. Span : i \in 1 .. Span /\ i # 1
  BY ThrConstants
<1>2. PICK x \in [pkts : Nat, bytes : Nat] : x = q[1]
  BY <1>1, Amounts
<1>3. PICK y : y = [x EXCEPT !.pkts = @ + d, !.bytes = @ + b]
  OBVIOUS
<1>4. y \in [pkts : Nat, bytes : Nat] /\ y.pkts = x.pkts + d /\ y.bytes = x.bytes + b
  <2>1. x.pkts + d \in Nat /\ x.bytes + b \in Nat
    BY <1>2
  <2>2. y = [pkts |-> x.pkts + d, bytes |-> x.bytes + b]
    BY <1>2, <1>3
  <2>3. QED BY <2>1, <2>2
<1>5. r = [q EXCEPT ![1] = y]
  BY <1>0, <1>1, <1>2, <1>3 DEF Recent, Added
<1>6. r \in Recent /\ r[1] = y /\ \A i \in 2 .. Span : r[i] = q[i]
  <2>1. PICK R : R = [pkts : Nat, bytes : Nat]
    OBVIOUS
  <2>2. y \in R /\ q \in [1 .. Span -> R]
    BY <1>4, <2>1 DEF Recent
  <2>3. r \in [1 .. Span -> R] /\ r[1] = y /\ \A i \in 2 .. Span : r[i] = q[i]
    <3>1. r = [i \in 1 .. Span |-> IF i = 1 THEN y ELSE q[i]]
      BY <1>1, <1>5, <2>2
    <3>2. \A i \in 1 .. Span : q[i] \in R
      BY <2>2
    <3>3. QED BY <1>1, <2>2, <3>1, <3>2
  <2>4. QED BY <2>1, <2>3 DEF Recent
<1>7. QED BY <1>0, <1>2, <1>4, <1>6

\* A packet takes its share of the window, of a new one if that is over.
LEMMA ThrCheck ==
    ASSUME ThrInv, NEW len \in ThrLens, Thr!Check(len)
    PROVE  ThrInv'
<1>1. PICK e \in Nat : Shares(e)
  BY DEF ThrInv
<1>2. ThrTypes
  BY DEF ThrInv
<1>3. PICK c : c = Thr!Counted
  OBVIOUS
<1>4. Thr!WindowOver <=> Over(window_start, nsec, secs)
  BY OverIs
<1>5. /\ c.pkts = IF Thr!WindowOver THEN 0 ELSE win_pkts
      /\ c.bytes = IF Thr!WindowOver THEN 0 ELSE win_bytes
  BY <1>3, <1>4 DEF Thr!Counted, Thr!NoneYet
<1>6. len \in Nat /\ c.pkts \in Nat /\ c.bytes \in Nat
  BY <1>2, <1>5, ThrConstants DEF ThrTypes
<1>7. PICK d \in Nat, b \in Nat :
         /\ win_pkts' = c.pkts + d /\ win_bytes' = c.bytes + b
         /\ max_pps # 0 => c.pkts + d <= Thr!Scaled(max_pps) \/ d = 0
         /\ max_bps # 0 => c.bytes + b <= Thr!Scaled(max_bps) \/ b = 0
         /\ recent' = [recent EXCEPT ![1].pkts = @ + d, ![1].bytes = @ + b]
  <2>1. CASE Thr!Admits(c, len)
    <3>1. /\ win_pkts' = c.pkts + 1 /\ win_bytes' = c.bytes + len
          /\ recent' = [recent EXCEPT ![1].pkts = @ + 1, ![1].bytes = @ + len]
      BY <1>3, <2>1 DEF Thr!Check
    <3>2. /\ max_pps # 0 => c.pkts + 1 <= Thr!Scaled(max_pps)
          /\ max_bps # 0 => c.bytes + len <= Thr!Scaled(max_bps)
      BY <2>1 DEF Thr!Admits, Thr!WithinPkts, Thr!WithinBytes
    <3>3. QED BY <1>6, <3>1, <3>2
  <2>2. CASE ~Thr!Admits(c, len)
    <3>1. win_pkts' = c.pkts + 0 /\ win_bytes' = c.bytes + 0 /\ recent' = recent
      BY <1>3, <2>2 DEF Thr!Check
    <3>2. recent = [recent EXCEPT ![1].pkts = @ + 0, ![1].bytes = @ + 0]
      <4>1. 1 \in 1 .. Span /\ recent \in Recent
        BY <1>2, ThrConstants DEF ThrTypes
      <4>2. PICK q \in [pkts : Nat, bytes : Nat] : q = recent[1]
        BY <4>1, Amounts
      <4>3. q = [q EXCEPT !.pkts = @ + 0, !.bytes = @ + 0]
        <5>1. q.pkts + 0 = q.pkts /\ q.bytes + 0 = q.bytes
          BY <4>2
        <5>2. QED BY <4>2, <5>1
      <4>4. recent = [recent EXCEPT ![1] = [q EXCEPT !.pkts = @ + 0, !.bytes = @ + 0]]
        BY <4>1, <4>2, <4>3 DEF Recent
      <4>5. QED BY <4>1, <4>2, <4>4 DEF Recent
    <3>3. QED BY <3>1, <3>2
  <2>3. QED BY <2>1, <2>2
<1>8. PICK r : r = recent'
  OBVIOUS
<1>9. /\ r \in Recent /\ r[1].pkts = recent[1].pkts + d /\ r[1].bytes = recent[1].bytes + b
      /\ \A i \in 2 .. Span : r[i] = recent[i]
  <2>1. recent \in Recent
    BY <1>2 DEF ThrTypes
  <2>2. r = Added(recent, d, b)
    BY <1>7, <1>8 DEF Added
  <2>3. Added(recent, d, b) \in Recent
    BY <2>1, AddedTo, Zenon
  <2>4. /\ Added(recent, d, b)[1].pkts = recent[1].pkts + d
        /\ Added(recent, d, b)[1].bytes = recent[1].bytes + b
        /\ \A i \in 2 .. Span : Added(recent, d, b)[i] = recent[i]
    BY <2>1, AddedTo, Zenon
  <2>5. QED BY <2>2, <2>3, <2>4, Zenon
<1>10. /\ PktsOf(recent) \in [1 .. Span -> Nat] /\ BytesOf(recent) \in [1 .. Span -> Nat]
       /\ PktsOf(r) \in [1 .. Span -> Nat] /\ BytesOf(r) \in [1 .. Span -> Nat]
       /\ PktsOf(r)[1] = PktsOf(recent)[1] + d /\ BytesOf(r)[1] = BytesOf(recent)[1] + b
       /\ \A i \in 2 .. Span : /\ PktsOf(r)[i] = PktsOf(recent)[i]
                               /\ BytesOf(r)[i] = BytesOf(recent)[i]
       /\ PktsOf(recent)[1] = recent[1].pkts /\ BytesOf(recent)[1] = recent[1].bytes
  <2>1. recent \in Recent
    BY <1>2 DEF ThrTypes
  <2>2. 1 \in 1 .. Span /\ \A i \in 2 .. Span : i \in 1 .. Span
    BY ThrConstants
  <2>3. \A q \in Recent :
           /\ PktsOf(q) \in [1 .. Span -> Nat] /\ BytesOf(q) \in [1 .. Span -> Nat]
           /\ PktsOf(q)[1] = q[1].pkts /\ BytesOf(q)[1] = q[1].bytes
           /\ \A i \in 2 .. Span : PktsOf(q)[i] = q[i].pkts /\ BytesOf(q)[i] = q[i].bytes
    BY <2>2, Amounts
  <2>4. QED BY <1>9, <2>1, <2>3
<1>11. /\ win_pkts \in Nat /\ win_bytes \in Nat
       /\ Thr!Scaled(max_pps) \in Nat /\ Thr!Scaled(max_bps) \in Nat
  BY <1>2, ThrConstants DEF ThrTypes
<1>12. /\ max_pps' = max_pps /\ max_bps' = max_bps
       /\ checked < MaxPerStep /\ checked' = checked + 1
       /\ Thr!WindowOver => window_start' = nsec /\ secs' = 0
       /\ ~Thr!WindowOver => window_start' = window_start /\ secs' = secs
       /\ nsec' = nsec
  BY Zenon DEF Thr!Check
<1>13. admitted' \in BOOLEAN
  BY Zenon DEF Thr!Check, Thr!Admits, Thr!WithinPkts, Thr!WithinBytes
<1>14. ThrTypes'
  <2>1. checked' \in 0 .. MaxPerStep
    BY <1>2, <1>12, ThrConstants DEF ThrTypes
  <2>2. win_pkts' \in Nat /\ win_bytes' \in Nat
    BY <1>6, <1>7
  <2>3. QED BY <1>2, <1>8, <1>9, <1>12, <1>13, <2>1, <2>2, Zenon DEF ThrTypes
<1>15. CASE Thr!WindowOver
  <2>0. e >= Span
    BY <1>1, <1>4, <1>15, OverAge DEF Shares
  <2>1. /\ max_pps # 0 => Fair(PktsOf(recent), win_pkts, Span, Span, Thr!Scaled(max_pps))
        /\ max_bps # 0 => Fair(BytesOf(recent), win_bytes, Span, Span, Thr!Scaled(max_bps))
        /\ recent[1].pkts = 0 /\ recent[1].bytes = 0
    <3>1. StepOf(e) = Span
      BY <2>0, ThrConstants DEF StepOf
    <3>2. QED BY <1>1, <1>4, <1>15, <3>1 DEF Shares, Thr!NoneYet
  <2>2. /\ PktsOf(recent)[1] = 0 /\ PktsOf(r)[1] = d
        /\ BytesOf(recent)[1] = 0 /\ BytesOf(r)[1] = b
    BY <1>10, <2>1
  <2>3. ASSUME max_pps # 0
        PROVE  Fair(PktsOf(r), d, 1, Span, Thr!Scaled(max_pps))
    <3>1. d <= Thr!Scaled(max_pps)
      BY <1>5, <1>7, <1>11, <1>15, <2>3
    <3>2. PICK n \in Nat \ {0} : n = Span
      BY ThrConstants
    <3>3. PICK P \in [1 .. n -> Nat], Q \in [1 .. n -> Nat] : P = PktsOf(recent) /\ Q = PktsOf(r)
      BY <1>10, <3>2
    <3>4. PICK cap \in Nat : cap = Thr!Scaled(max_pps)
      BY <1>11
    <3>5. /\ Fair(P, win_pkts, n, n, cap) /\ P[1] = 0 /\ Q[1] = d /\ d <= cap
          /\ \A i \in 2 .. n : Q[i] = P[i]
      BY <1>10, <2>1, <2>2, <2>3, <3>1, <3>2, <3>3, <3>4
    <3>6. Fair(Q, d, 1, n, cap)
      BY <1>11, <3>5, FairAgain
    <3>7. QED BY <3>2, <3>3, <3>4, <3>6
  <2>4. ASSUME max_bps # 0
        PROVE  Fair(BytesOf(r), b, 1, Span, Thr!Scaled(max_bps))
    <3>1. b <= Thr!Scaled(max_bps)
      BY <1>5, <1>7, <1>11, <1>15, <2>4
    <3>2. PICK n \in Nat \ {0} : n = Span
      BY ThrConstants
    <3>3. PICK P \in [1 .. n -> Nat], Q \in [1 .. n -> Nat] : P = BytesOf(recent) /\ Q = BytesOf(r)
      BY <1>10, <3>2
    <3>4. PICK cap \in Nat : cap = Thr!Scaled(max_bps)
      BY <1>11
    <3>5. /\ Fair(P, win_bytes, n, n, cap) /\ P[1] = 0 /\ Q[1] = b /\ b <= cap
          /\ \A i \in 2 .. n : Q[i] = P[i]
      BY <1>10, <2>1, <2>2, <2>4, <3>1, <3>2, <3>3, <3>4
    <3>6. Fair(Q, b, 1, n, cap)
      BY <1>11, <3>5, FairAgain
    <3>7. QED BY <3>2, <3>3, <3>4, <3>6
  <2>5. win_pkts' = d /\ win_bytes' = b
    BY <1>5, <1>7, <1>15
  <2>6. Aged(window_start', nsec', secs', 0) /\ ~Over(window_start', nsec', secs')
    <3>1. window_start' = nsec /\ nsec' = nsec /\ secs' = 0
      BY <1>4, <1>12, <1>15
    <3>2. nsec \in 0 .. Thr!Second - 1
      BY <1>1 DEF Shares, Aged
    <3>3. QED BY <3>1, <3>2, NewAge
  <2>7. Shares(0)'
    BY <1>8, <1>12, <2>3, <2>4, <2>5, <2>6, NoneFair DEF Shares
  <2>8. QED BY <1>14, <2>7 DEF ThrInv
<1>16. CASE ~Thr!WindowOver
  <2>1. PICK k : k = StepOf(e)
    OBVIOUS
  <2>2. k \in 1 .. Span
    BY <2>1, ThrConstants DEF StepOf
  <2>3. /\ max_pps # 0 => Fair(PktsOf(recent), win_pkts, k, Span, Thr!Scaled(max_pps))
        /\ max_bps # 0 => Fair(BytesOf(recent), win_bytes, k, Span, Thr!Scaled(max_bps))
    BY <1>1, <2>1 DEF Shares
  <2>4. ASSUME max_pps # 0
        PROVE  Fair(PktsOf(r), win_pkts + d, k, Span, Thr!Scaled(max_pps))
    <3>1. win_pkts + d <= Thr!Scaled(max_pps)
      BY <1>5, <1>7, <1>11, <1>16, <2>3, <2>4 DEF Fair
    <3>2. PICK n \in Nat \ {0} : n = Span
      BY ThrConstants
    <3>3. PICK P \in [1 .. n -> Nat], Q \in [1 .. n -> Nat] : P = PktsOf(recent) /\ Q = PktsOf(r)
      BY <1>10, <3>2
    <3>4. PICK cap \in Nat : cap = Thr!Scaled(max_pps)
      BY <1>11
    <3>5. /\ k \in 1 .. n /\ Fair(P, win_pkts, k, n, cap) /\ Q[1] = P[1] + d
          /\ win_pkts + d <= cap /\ \A i \in 2 .. n : Q[i] = P[i]
      BY <1>10, <2>2, <2>3, <2>4, <3>1, <3>2, <3>3, <3>4
    <3>6. Fair(Q, win_pkts + d, k, n, cap)
      BY <1>11, <3>5, FairAdded
    <3>7. QED BY <3>2, <3>3, <3>4, <3>6
  <2>5. ASSUME max_bps # 0
        PROVE  Fair(BytesOf(r), win_bytes + b, k, Span, Thr!Scaled(max_bps))
    <3>1. win_bytes + b <= Thr!Scaled(max_bps)
      BY <1>5, <1>7, <1>11, <1>16, <2>3, <2>5 DEF Fair
    <3>2. PICK n \in Nat \ {0} : n = Span
      BY ThrConstants
    <3>3. PICK P \in [1 .. n -> Nat], Q \in [1 .. n -> Nat] : P = BytesOf(recent) /\ Q = BytesOf(r)
      BY <1>10, <3>2
    <3>4. PICK cap \in Nat : cap = Thr!Scaled(max_bps)
      BY <1>11
    <3>5. /\ k \in 1 .. n /\ Fair(P, win_bytes, k, n, cap) /\ Q[1] = P[1] + b
          /\ win_bytes + b <= cap /\ \A i \in 2 .. n : Q[i] = P[i]
      BY <1>10, <2>2, <2>3, <2>5, <3>1, <3>2, <3>3, <3>4
    <3>6. Fair(Q, win_bytes + b, k, n, cap)
      BY <1>11, <3>5, FairAdded
    <3>7. QED BY <3>2, <3>3, <3>4, <3>6
  <2>6. /\ window_start' = window_start /\ nsec' = nsec /\ secs' = secs
        /\ win_pkts' = win_pkts + d /\ win_bytes' = win_bytes + b
    BY <1>4, <1>5, <1>7, <1>12, <1>16
  <2>7. Shares(e)'
    BY <1>1, <1>4, <1>8, <1>12, <1>16, <2>1, <2>4, <2>5, <2>6 DEF Shares
  <2>8. QED BY <1>14, <2>7 DEF ThrInv
<1>17. QED BY <1>15, <1>16

LEMMA ThrKept ==
    ASSUME ThrInv, [Next]_vars
    PROVE  ThrInv'
<1>1. CASE UNCHANGED thrVars
  BY <1>1 DEF ThrInv, ThrTypes, Shares, thrVars
<1>2. CASE Thr!Next
  <2>1. CASE Thr!Reset
    BY <2>1, ThrReset
  <2>2. CASE Thr!Tick
    BY <2>2, ThrTick
  <2>3. ASSUME NEW len \in ThrLens, Thr!Check(len)
        PROVE  ThrInv'
    BY <2>3, ThrCheck
  <2>4. QED BY <1>2, <2>1, <2>2, <2>3, Zenon DEF Thr!Next
<1>3. QED BY <1>1, <1>2, Steps

LEMMA ThrMeans ==
    ASSUME ThrInv
    PROVE  AtMostTwice
<1>1. PICK e \in Nat : Shares(e)
  BY DEF ThrInv
<1>2. ThrTypes
  BY DEF ThrInv
<1>3. DOMAIN recent = 1 .. Span
  BY <1>2 DEF ThrTypes, Recent
<1>4. Thr!Pkts = PktsOf(recent) /\ Thr!Bytes = BytesOf(recent)
  BY <1>3 DEF Thr!Pkts, Thr!Bytes, PktsOf, BytesOf
<1>5. /\ Thr!Total(Thr!Pkts) = Part(PktsOf(recent), 1, Span)
      /\ Thr!Total(Thr!Bytes) = Part(BytesOf(recent), 1, Span)
  <2>1. \A f, S : Thr!SumFunctionOnSet(f, S) = SumFunctionOnSet(f, S)
    BY Zenon DEF SumFunctionOnSet, Thr!SumFunctionOnSet, FoldFunctionOnSet, Thr!FoldFunctionOnSet,
       MapThenFoldSet, Thr!MapThenFoldSet
  <2>2. DOMAIN PktsOf(recent) = 1 .. Span /\ DOMAIN BytesOf(recent) = 1 .. Span
    BY DEF PktsOf, BytesOf
  <2>3. QED BY <1>4, <2>1, <2>2 DEF Thr!Total, Part
<1>6. PICK k : k = StepOf(e)
  OBVIOUS
<1>7. k \in 1 .. Span
  BY <1>6, ThrConstants DEF StepOf
<1>8. /\ PktsOf(recent) \in [1 .. Span -> Nat] /\ BytesOf(recent) \in [1 .. Span -> Nat]
      /\ win_pkts \in Nat /\ win_bytes \in Nat
      /\ Thr!Scaled(max_pps) \in Nat /\ Thr!Scaled(max_bps) \in Nat
  BY <1>2, Amounts, ThrConstants DEF ThrTypes
<1>9. /\ max_pps # 0 => Fair(PktsOf(recent), win_pkts, k, Span, Thr!Scaled(max_pps))
      /\ max_bps # 0 => Fair(BytesOf(recent), win_bytes, k, Span, Thr!Scaled(max_bps))
  BY <1>1, <1>6 DEF Shares
<1>10. max_pps # 0 => Part(PktsOf(recent), 1, Span) <= 2 * Thr!Scaled(max_pps)
  BY <1>7, <1>8, <1>9, ThrConstants, FairTwice
<1>11. max_bps # 0 => Part(BytesOf(recent), 1, Span) <= 2 * Thr!Scaled(max_bps)
  BY <1>7, <1>8, <1>9, ThrConstants, FairTwice
<1>12. QED BY <1>5, <1>10, <1>11 DEF AtMostTwice, Thr!AtMostTwice

\* throttle.c:8-50: whatever the limits, the traffic and the clock's grain, any 99 ms see
\* no more than two windows' packets, and no more than two windows' bytes.
THEOREM NoMoreThanTwice == Spec => []AtMostTwice
<1>1. ThrInv /\ [Next]_vars => ThrInv'
  BY ThrKept
<1>2. QED BY <1>1, ThrInit, ThrMeans, PTL DEF Spec

-----------------------------------------------------------------------------
\* snaplen.c, truncate.c and stats.c
Pairs == Nat \X Nat
LogOK(s) == s \in Seq(Pairs) /\ \A i \in 1 .. Len(s) : s[i][2] <= s[i][1]

\* What a log says: the packets that were shortened, the bytes lost, the bytes given.
Shorter(s) == {i \in DOMAIN s : s[i][2] < s[i][1]}
LostIn(s) == [i \in DOMAIN s |-> s[i][1] - s[i][2]]
GivenIn(s) == [i \in DOMAIN s |-> s[i][1]]
Amount(f) == SumFunctionOnSet(f, DOMAIN f)

\* The sum of a sequence that is one longer.
LEMMA OneMore ==
    ASSUME NEW n \in Nat, NEW f, NEW g, DOMAIN f = 1 .. n, DOMAIN g = 1 .. n + 1,
           \A i \in 1 .. n : f[i] \in Nat /\ g[i] = f[i], g[n + 1] \in Nat
    PROVE  Amount(f) \in Nat /\ Amount(g) = Amount(f) + g[n + 1]
<1>1. PICK m \in Nat : m = n + 1 /\ n = m - 1
  OBVIOUS
<1>2. \A i \in 1 .. m : g[i] \in Nat
  BY <1>1
<1>3. Numbers(g, 1, m) /\ Numbers(f, 1, n) /\ Same(f, g, 1, n) /\ 1 <= m
  BY <1>1, <1>2 DEF Numbers, Same
<1>4. Part(g, 1, n) = Part(f, 1, n) /\ Part(f, 1, n) \in Nat
  BY <1>3, PartSame, PartIs
<1>5. Ends(g, 1, m)
  BY <1>3, PartEnds
<1>6. Part(g, 1, m) = g[m] + Part(g, 1, n)
  BY <1>1, <1>5 DEF Ends
<1>7. Amount(f) = Part(f, 1, n) /\ Amount(g) = Part(g, 1, m)
  BY <1>1 DEF Amount, Part
<1>8. QED BY <1>1, <1>4, <1>6, <1>7

LEMMA EmptyLog ==
    /\ LogOK(<<>>) /\ Len(<<>>) = 0 /\ Cardinality(Shorter(<<>>)) = 0
    /\ Amount(LostIn(<<>>)) = 0 /\ Amount(GivenIn(<<>>)) = 0
<1>1. LogOK(<<>>) /\ Len(<<>>) = 0
  BY DEF LogOK
<1>2. DOMAIN <<>> = {}
  OBVIOUS
<1>3. Shorter(<<>>) = {} /\ DOMAIN LostIn(<<>>) = {} /\ DOMAIN GivenIn(<<>>) = {}
  BY <1>2 DEF Shorter, LostIn, GivenIn
<1>4. \A f : SumFunctionOnSet(f, {}) = 0
  BY FS_EmptySet, SumRemove
<1>5. QED BY <1>1, <1>3, <1>4, FS_EmptySet DEF Amount

\* One more packet in a log, of a bytes of which b are left.
Longer(s, t, a, b) ==
    /\ LogOK(t) /\ Len(s) \in Nat /\ Len(t) = Len(s) + 1
    /\ Cardinality(Shorter(s)) \in Nat
    /\ Cardinality(Shorter(t)) = Cardinality(Shorter(s)) + (IF b < a THEN 1 ELSE 0)
    /\ Amount(LostIn(s)) \in Nat /\ Amount(LostIn(t)) = Amount(LostIn(s)) + (a - b)
    /\ Amount(GivenIn(s)) \in Nat /\ Amount(GivenIn(t)) = Amount(GivenIn(s)) + a

LEMMA Logged ==
    ASSUME NEW s, LogOK(s), NEW a \in Nat, NEW b \in Nat, b <= a,
           NEW t, t = Append(s, <<a, b>>)
    PROVE  Longer(s, t, a, b)
<1>1. PICK n \in Nat : n = Len(s)
  BY DEF LogOK
<1>2. <<a, b>> \in Pairs /\ <<a, b>>[1] = a /\ <<a, b>>[2] = b
  BY DEF Pairs
<1>3. PICK e \in Pairs : e = <<a, b>> /\ e[1] = a /\ e[2] = b
  BY <1>2
<1>4. /\ s \in Seq(Pairs) /\ t \in Seq(Pairs) /\ Len(t) = n + 1
      /\ t[n + 1] = e /\ \A i \in 1 .. n : t[i] = s[i] /\ s[i] \in Pairs
      /\ DOMAIN s = 1 .. n /\ DOMAIN t = 1 .. n + 1
  BY <1>1, <1>3 DEF LogOK
<1>5. \A i \in 1 .. n : s[i][1] \in Nat /\ s[i][2] \in Nat /\ s[i][2] <= s[i][1]
  BY <1>1, <1>4 DEF LogOK, Pairs
<1>6. \A i \in 1 .. n + 1 : i \in 1 .. n \/ i = n + 1
  BY <1>1
<1>7. LogOK(t)
  BY <1>3, <1>4, <1>5, <1>6 DEF LogOK
<1>8. /\ Cardinality(Shorter(s)) \in Nat
      /\ Cardinality(Shorter(t)) = Cardinality(Shorter(s)) + (IF b < a THEN 1 ELSE 0)
  <2>1. PICK S : S = Shorter(s)
    OBVIOUS
  <2>2. S \in SUBSET (1 .. n) /\ n + 1 \notin S
    BY <1>4, <2>1 DEF Shorter
  <2>3. IsFiniteSet(S) /\ Cardinality(S) \in Nat
    <3>1. IsFiniteSet(1 .. n)
      BY FS_Interval
    <3>2. QED BY <2>2, <3>1, FS_Subset, FS_CardinalityType
  <2>4. CASE b < a
    <3>1. Shorter(t) = S \cup {n + 1}
      BY <1>3, <1>4, <1>6, <2>1, <2>4 DEF Shorter
    <3>2. Cardinality(S \cup {n + 1}) = Cardinality(S) + 1
      BY <2>2, <2>3, FS_AddElement
    <3>3. QED BY <2>1, <2>3, <2>4, <3>1, <3>2
  <2>5. CASE ~(b < a)
    <3>1. Shorter(t) = S
      BY <1>3, <1>4, <1>6, <2>1, <2>5 DEF Shorter
    <3>2. QED BY <2>1, <2>3, <2>5, <3>1
  <2>6. QED BY <2>4, <2>5
<1>9. Amount(LostIn(s)) \in Nat /\ Amount(LostIn(t)) = Amount(LostIn(s)) + (a - b)
  <2>1. PICK f : f = LostIn(s)
    OBVIOUS
  <2>2. PICK g : g = LostIn(t)
    OBVIOUS
  <2>3. /\ DOMAIN f = 1 .. n /\ DOMAIN g = 1 .. n + 1 /\ g[n + 1] = a - b
        /\ \A i \in 1 .. n : f[i] = s[i][1] - s[i][2] /\ g[i] = f[i]
    BY <1>3, <1>4, <2>1, <2>2 DEF LostIn
  <2>4. a - b \in Nat /\ \A i \in 1 .. n : f[i] \in Nat
    <3>1. ASSUME NEW i \in 1 .. n PROVE f[i] \in Nat
      <4>1. PICK x \in Nat, y \in Nat : x = s[i][1] /\ y = s[i][2] /\ y <= x
        BY <1>5
      <4>2. f[i] = x - y
        BY <2>3, <4>1
      <4>3. QED BY <4>1, <4>2
    <3>2. QED BY <3>1
  <2>5. Amount(f) \in Nat /\ Amount(g) = Amount(f) + g[n + 1]
    BY <2>3, <2>4, OneMore
  <2>6. QED BY <2>1, <2>2, <2>3, <2>5
<1>10. Amount(GivenIn(s)) \in Nat /\ Amount(GivenIn(t)) = Amount(GivenIn(s)) + a
  <2>1. PICK f : f = GivenIn(s)
    OBVIOUS
  <2>2. PICK g : g = GivenIn(t)
    OBVIOUS
  <2>3. /\ DOMAIN f = 1 .. n /\ DOMAIN g = 1 .. n + 1 /\ g[n + 1] = a
        /\ \A i \in 1 .. n : f[i] = s[i][1] /\ g[i] = f[i]
    BY <1>3, <1>4, <2>1, <2>2 DEF GivenIn
  <2>4. \A i \in 1 .. n : f[i] \in Nat
    BY <1>5, <2>3
  <2>5. Amount(f) \in Nat /\ Amount(g) = Amount(f) + g[n + 1]
    BY <2>3, <2>4, OneMore
  <2>6. QED BY <2>1, <2>2, <2>3, <2>5
<1>11. QED BY <1>1, <1>4, <1>7, <1>8, <1>9, <1>10 DEF Longer

LEMMA MetConstants == MeterLens \subseteq Nat /\ Caps \subseteq Nat
BY PathAssumption, Zenon DEF Met!MetersAssumption

LEMMA MetMin ==
    ASSUME NEW a \in Nat, NEW b \in Nat
    PROVE  Met!Min({a, b}) = IF a <= b THEN a ELSE b
BY DEF Met!Min

\* Each meter's numbers are those of its log.
SnapOK == /\ snap \in [value : Nat, total : Nat, truncated : Nat]
          /\ LogOK(seen["snap"])
          /\ snap.total = Len(seen["snap"])
          /\ snap.truncated = Cardinality(Shorter(seen["snap"]))
          /\ snap.value = 0 \/ Met!Valid(snap.value)
          /\ valid => snap.value >= 14

Payload(n) == n \in Nat /\ 1 <= n /\ n <= 65535
CutShape == DOMAIN cut = {"max_payload", "enabled", "bytes", "packets"}
CutOK == /\ Payload(cut.max_payload) /\ cut.bytes \in Nat /\ cut.packets \in Nat
         /\ LogOK(seen["cut"])
         /\ cut.packets = Cardinality(Shorter(seen["cut"]))
         /\ cut.bytes = Amount(LostIn(seen["cut"]))

StatsOK == /\ stats \in [packets : [Met!Classes -> Nat], total : Nat, bytes : Nat, dropped : Nat]
           /\ LogOK(seen["stats"])
           /\ stats.total = Len(seen["stats"])
           /\ stats.total = Amount(stats.packets)
           /\ stats.bytes = Amount(GivenIn(seen["stats"]))

\* The inductive invariant of the meters.
MetInv == SnapOK /\ CutShape /\ CutOK /\ StatsOK /\ DOMAIN seen = Met!Meter

LEMMA ClassesSum ==
    /\ IsFiniteSet(Met!Classes)
    /\ Met!NoStats \in [packets : [Met!Classes -> Nat], total : Nat, bytes : Nat, dropped : Nat]
    /\ Met!NoStats.total = 0 /\ Met!NoStats.bytes = 0 /\ Amount(Met!NoStats.packets) = 0
    /\ \A f \in [Met!Classes -> Nat] : \A c \in Met!Classes :
          Amount([f EXCEPT ![c] = @ + 1]) = Amount(f) + 1 /\ Amount(f) \in Nat
<1>1. IsFiniteSet(Met!Classes)
  <2>1. PICK m : m = <<"tcp", "udp", "icmp", "arp", "other">>
    OBVIOUS
  <2>2. {m[x] : x \in 1 .. 5} = Met!Classes
    BY <2>1 DEF Met!Classes
  <2>3. IsFiniteSet(1 .. 5)
    <3>1. \A a, b \in Int : IsFiniteSet(a .. b)
      BY FS_Interval
    <3>2. 1 \in Int /\ 5 \in Int
      OBVIOUS
    <3>3. QED BY <3>1, <3>2, Zenon
  <2>4. QED BY <2>2, <2>3, ImageFinite
<1>2. PICK S : S = Met!Classes
  OBVIOUS
<1>3. Amount([c \in S |-> 0]) = 0
  <2>1. PICK f : f = [c \in S |-> 0]
    OBVIOUS
  <2>2. DOMAIN f = S /\ \A c \in S : f[c] = 0
    BY <2>1
  <2>3. SumFunctionOnSet(f, S) = 0
    BY <1>1, <1>2, <2>2, SumZero
  <2>4. QED BY <2>1, <2>2, <2>3 DEF Amount
<1>4. ASSUME NEW f \in [S -> Nat], NEW c \in S
      PROVE  Amount([f EXCEPT ![c] = @ + 1]) = Amount(f) + 1 /\ Amount(f) \in Nat
  <2>1. PICK g : g = [f EXCEPT ![c] = @ + 1]
    OBVIOUS
  <2>2. PICK T : T = S \ {c}
    OBVIOUS
  <2>3. /\ DOMAIN f = S /\ DOMAIN g = S /\ g[c] = f[c] + 1 /\ f[c] \in Nat
        /\ \A x \in S : f[x] \in Nat /\ g[x] \in Nat
        /\ \A x \in T : g[x] = f[x] /\ f[x] \in Nat
    BY <2>1, <2>2
  <2>4. IsFiniteSet(T)
    BY <1>1, <1>2, <2>2, FS_Subset
  <2>5. SumFunctionOnSet(f, T) = SumFunctionOnSet(g, T) /\ SumFunctionOnSet(f, T) \in Nat
    BY <2>3, <2>4, SumSame, SumRemove
  <2>6. /\ SumFunctionOnSet(f, S) = f[c] + SumFunctionOnSet(f, T)
        /\ SumFunctionOnSet(g, S) = g[c] + SumFunctionOnSet(g, T)
    BY <1>1, <1>2, <2>2, <2>3, SumRemove
  <2>7. QED BY <2>1, <2>3, <2>5, <2>6 DEF Amount
<1>5. /\ Met!NoStats \in [packets : [S -> Nat], total : Nat, bytes : Nat, dropped : Nat]
      /\ Met!NoStats.total = 0 /\ Met!NoStats.bytes = 0
      /\ Met!NoStats.packets = [c \in S |-> 0]
  BY <1>2 DEF Met!NoStats
<1>6. QED BY <1>1, <1>2, <1>3, <1>4, <1>5

LEMMA FreshIs ==
    ASSUME NEW max \in Nat, NEW f, f = Met!Fresh(max)
    PROVE  /\ DOMAIN f = {"max_payload", "enabled", "bytes", "packets"}
           /\ Payload(f.max_payload) /\ f.bytes = 0 /\ f.packets = 0
<1>1. Payload(Met!MaxPayload(max))
  BY DEF Met!MaxPayload, Payload
<1>2. PICK on : on = TRUE
  OBVIOUS
<1>3. f = [max_payload |-> Met!MaxPayload(max), enabled |-> on, bytes |-> 0, packets |-> 0]
  BY <1>2, Zenon DEF Met!Fresh
<1>4. QED BY <1>1, <1>3

LEMMA MetInit ==
    ASSUME Init
    PROVE  MetInv
<1>1. Met!Init
  BY Zenon DEF Init
<1>2. /\ snap = [value |-> 65535, total |-> 0, truncated |-> 0]
      /\ cut = Met!Fresh(0) /\ stats = Met!NoStats /\ seen = [m \in Met!Meter |-> <<>>]
  BY <1>1 DEF Met!Init
<1>4. seen["snap"] = <<>> /\ seen["cut"] = <<>> /\ seen["stats"] = <<>> /\ DOMAIN seen = Met!Meter
  BY <1>2 DEF Met!Meter
<1>5. SnapOK
  BY <1>2, <1>4, EmptyLog DEF SnapOK, Met!Valid
<1>6. CutShape /\ CutOK
  <2>1. /\ DOMAIN cut = {"max_payload", "enabled", "bytes", "packets"}
        /\ Payload(cut.max_payload) /\ cut.bytes = 0 /\ cut.packets = 0
    BY <1>2, FreshIs
  <2>2. QED BY <1>4, <2>1, EmptyLog DEF CutShape, CutOK
<1>7. StatsOK
  BY <1>2, <1>4, EmptyLog, ClassesSum DEF StatsOK
<1>8. QED BY <1>4, <1>5, <1>6, <1>7 DEF MetInv

\* A meter that starts anew, or is given a packet, leaves the others' logs.
LEMMA LogsNext ==
    ASSUME DOMAIN seen = Met!Meter, NEW m \in Met!Meter
    PROVE  /\ seen' = Met!Forgotten(m) =>
                /\ DOMAIN (seen') = Met!Meter /\ seen'[m] = <<>>
                /\ \A k \in Met!Meter \ {m} : seen'[k] = seen[k]
           /\ \A len, left : Met!Metered(m, len, left) =>
                /\ DOMAIN (seen') = Met!Meter /\ seen'[m] = Append(seen[m], <<len, left>>)
                /\ \A k \in Met!Meter \ {m} : seen'[k] = seen[k]
<1>1. ASSUME NEW len, NEW left, Met!Metered(m, len, left)
      PROVE  seen' = [seen EXCEPT ![m] = Append(@, <<len, left>>)]
  BY <1>1, Zenon DEF Met!Metered
<1>2. QED BY <1>1 DEF Met!Forgotten

LEMMA SnapKept ==
    ASSUME MetInv, Met!Next
    PROVE  SnapOK'
<1>1. SnapOK /\ DOMAIN seen = Met!Meter
  BY DEF MetInv
<1>2. CASE UNCHANGED <<snap, valid>> /\ seen'["snap"] = seen["snap"]
  BY <1>1, <1>2 DEF SnapOK
<1>3. ASSUME NEW len \in Caps, Met!SnapInit(len)
      PROVE  SnapOK'
  <2>1. snap' = [value |-> IF Met!Valid(len) THEN len ELSE 0, total |-> 0, truncated |-> 0]
        /\ (valid' <=> Met!Valid(len)) /\ seen' = Met!Forgotten("snap")
    BY <1>3, Zenon DEF Met!SnapInit
  <2>2. seen'["snap"] = <<>>
    BY <1>1, <2>1, LogsNext DEF Met!Meter
  <2>3. QED BY <1>3, <2>1, <2>2, EmptyLog, MetConstants DEF SnapOK, Met!Valid
<1>4. ASSUME NEW len \in Caps, Met!SnapSet(len)
      PROVE  SnapOK'
  <2>1. Met!Valid(len) /\ snap' = [snap EXCEPT !.value = len] /\ seen' = seen
    BY <1>4, Zenon DEF Met!SnapSet
  <2>2. len \in Nat
    BY <1>4, MetConstants
  <2>3. QED BY <1>1, <2>1, <2>2 DEF SnapOK, Met!Valid
<1>5. ASSUME NEW len \in MeterLens, Met!Clamp(len)
      PROVE  SnapOK'
  <2>1. len \in Nat /\ snap.value \in Nat /\ snap.total \in Nat /\ snap.truncated \in Nat
    BY <1>1, MetConstants DEF SnapOK
  <2>2. PICK left : left = Met!Min({len, snap.value})
    OBVIOUS
  <2>3. left \in Nat /\ left <= len
    BY <2>1, <2>2, MetMin
  <2>4. /\ snap' = [snap EXCEPT !.total = @ + 1, !.truncated = IF len > left THEN @ + 1 ELSE @]
        /\ Met!Metered("snap", len, left) /\ valid' = valid
    BY <1>5, <2>2, Zenon DEF Met!Clamp
  <2>5. seen'["snap"] = Append(seen["snap"], <<len, left>>)
    BY <1>1, <2>4, LogsNext DEF Met!Meter
  <2>6. PICK t : t = seen'["snap"]
    OBVIOUS
  <2>7. PICK s : s = seen["snap"]
    OBVIOUS
  <2>8. Longer(s, t, len, left)
    BY <1>1, <2>1, <2>3, <2>5, <2>6, <2>7, Logged DEF SnapOK
  <2>9. /\ snap.total = Len(s) /\ snap.truncated = Cardinality(Shorter(s))
        /\ (snap.value = 0 \/ Met!Valid(snap.value)) /\ (valid => snap.value >= 14)
    BY <1>1, <2>7 DEF SnapOK
  <2>10. PICK n : n = IF len > left THEN snap.truncated + 1 ELSE snap.truncated
    OBVIOUS
  <2>11. snap' = [snap EXCEPT !.total = snap.total + 1, !.truncated = n]
    BY <2>4, <2>10, Zenon
  <2>12. snap' = [value |-> snap.value, total |-> snap.total + 1, truncated |-> n]
    BY <1>1, <2>11 DEF SnapOK
  <2>13. snap.total + 1 = Len(t) /\ n = Cardinality(Shorter(t)) /\ n \in Nat /\ LogOK(t)
    BY <2>1, <2>3, <2>8, <2>9, <2>10 DEF Longer
  <2>14. valid' = valid
    BY <2>4
  <2>15. /\ snap'.value = snap.value /\ snap'.total = Len(t) /\ snap'.truncated = Cardinality(Shorter(t))
         /\ snap' \in [value : Nat, total : Nat, truncated : Nat]
    BY <2>1, <2>12, <2>13
  <2>16. QED BY <2>6, <2>9, <2>13, <2>14, <2>15 DEF SnapOK
<1>6. ASSUME NEW m \in {"cut", "stats"}, UNCHANGED <<snap, valid>>,
             \/ seen' = seen \/ seen' = Met!Forgotten(m)
             \/ \E len, left : Met!Metered(m, len, left)
      PROVE  SnapOK'
  <2>1. m \in Met!Meter /\ "snap" \in Met!Meter \ {m}
    BY DEF Met!Meter
  <2>2. seen'["snap"] = seen["snap"]
    BY <1>1, <1>6, <2>1, LogsNext
  <2>3. QED BY <1>2, <1>6, <2>2
<1>7. ASSUME NEW len \in MeterLens, Met!Apply(len) PROVE SnapOK'
  BY <1>6, <1>7, Zenon DEF Met!Apply
<1>8. ASSUME NEW class, NEW len, Met!Update(class, len) PROVE SnapOK'
  BY <1>6, <1>8, Zenon DEF Met!Update
<1>9. ASSUME NEW max, Met!CutInit(max) PROVE SnapOK'
  BY <1>6, <1>9, Zenon DEF Met!CutInit
<1>10. ASSUME NEW on, Met!Enable(on) PROVE SnapOK'
  BY <1>6, <1>10, Zenon DEF Met!Enable
<1>11. CASE Met!CutReset
  BY <1>6, <1>11, Zenon DEF Met!CutReset
<1>12. CASE Met!StatsInit
  BY <1>6, <1>12, Zenon DEF Met!StatsInit
<1>13. CASE Met!Drop
  BY <1>6, <1>13, Zenon DEF Met!Drop
<1>14. QED
  BY <1>3, <1>4, <1>5, <1>7, <1>8, <1>9, <1>10, <1>11, <1>12, <1>13, Zenon DEF Met!Next

LEMMA CutKept ==
    ASSUME MetInv, Met!Next
    PROVE  CutShape' /\ CutOK'
<1>1. CutShape /\ CutOK /\ DOMAIN seen = Met!Meter
  BY DEF MetInv
<1>2. CASE cut' = cut /\ seen'["cut"] = seen["cut"]
  BY <1>1, <1>2 DEF CutShape, CutOK
<1>3. ASSUME NEW max \in Caps, Met!CutInit(max)
      PROVE  CutShape' /\ CutOK'
  <2>1. cut' = Met!Fresh(max) /\ seen' = Met!Forgotten("cut")
    BY <1>3, Zenon DEF Met!CutInit
  <2>2. seen'["cut"] = <<>>
    BY <1>1, <2>1, LogsNext DEF Met!Meter
  <2>3. PICK f : f = cut'
    OBVIOUS
  <2>4. /\ DOMAIN f = {"max_payload", "enabled", "bytes", "packets"}
        /\ Payload(f.max_payload) /\ f.bytes = 0 /\ f.packets = 0
    BY <2>1, <2>3, MetConstants, FreshIs
  <2>5. QED BY <2>2, <2>3, <2>4, EmptyLog DEF CutShape, CutOK
<1>4. ASSUME NEW on, Met!Enable(on)
      PROVE  CutShape' /\ CutOK'
  <2>1. cut' = [cut EXCEPT !.enabled = on] /\ seen' = seen
    BY <1>4, Zenon DEF Met!Enable
  <2>2. /\ DOMAIN (cut') = DOMAIN cut /\ cut'.max_payload = cut.max_payload
        /\ cut'.bytes = cut.bytes /\ cut'.packets = cut.packets
    BY <1>1, <2>1 DEF CutShape
  <2>3. QED BY <1>1, <2>1, <2>2 DEF CutShape, CutOK
<1>5. CASE Met!CutReset
  <2>1. cut' = [cut EXCEPT !.bytes = 0, !.packets = 0] /\ seen' = Met!Forgotten("cut")
    BY <1>5, Zenon DEF Met!CutReset, Met!Cleared
  <2>2. seen'["cut"] = <<>>
    BY <1>1, <2>1, LogsNext DEF Met!Meter
  <2>3. /\ DOMAIN (cut') = DOMAIN cut /\ cut'.max_payload = cut.max_payload
        /\ cut'.bytes = 0 /\ cut'.packets = 0
    BY <1>1, <2>1 DEF CutShape
  <2>4. QED BY <1>1, <2>2, <2>3, EmptyLog DEF CutShape, CutOK
<1>6. ASSUME NEW len \in MeterLens, Met!Apply(len)
      PROVE  CutShape' /\ CutOK'
  <2>1. len \in Nat /\ cut.max_payload \in Nat /\ cut.bytes \in Nat /\ cut.packets \in Nat
    BY <1>1, MetConstants DEF CutOK, Payload
  <2>2. PICK left : left = IF cut.enabled THEN Met!Min({len, cut.max_payload}) ELSE len
    OBVIOUS
  <2>3. left \in Nat /\ left <= len
    <3>1. CASE cut.enabled
      <4>1. left = Met!Min({len, cut.max_payload})
        BY <2>2, <3>1, Zenon
      <4>2. QED BY <2>1, <4>1, MetMin
    <3>2. CASE ~cut.enabled
      <4>1. left = len
        BY <2>2, <3>2, Zenon
      <4>2. QED BY <2>1, <4>1
    <3>3. QED BY <3>1, <3>2, Zenon
  <2>4. /\ cut' = IF len > left
                    THEN [cut EXCEPT !.bytes = @ + (len - left), !.packets = @ + 1] ELSE cut
        /\ Met!Metered("cut", len, left)
    BY <1>6, <2>2, Zenon DEF Met!Apply
  <2>5. seen'["cut"] = Append(seen["cut"], <<len, left>>)
    BY <1>1, <2>4, LogsNext DEF Met!Meter
  <2>6. PICK t : t = seen'["cut"]
    OBVIOUS
  <2>7. PICK s : s = seen["cut"]
    OBVIOUS
  <2>8. Longer(s, t, len, left)
    BY <1>1, <2>1, <2>3, <2>5, <2>6, <2>7, Logged DEF CutOK
  <2>9. /\ cut.packets = Cardinality(Shorter(s)) /\ cut.bytes = Amount(LostIn(s))
        /\ Payload(cut.max_payload) /\ DOMAIN cut = {"max_payload", "enabled", "bytes", "packets"}
    BY <1>1, <2>7 DEF CutOK, CutShape
  <2>10. CASE len > left
    <3>1. cut' = [cut EXCEPT !.bytes = cut.bytes + (len - left), !.packets = cut.packets + 1]
      BY <2>4, <2>10
    <3>2. /\ DOMAIN (cut') = DOMAIN cut /\ cut'.max_payload = cut.max_payload
          /\ cut'.bytes = cut.bytes + (len - left) /\ cut'.packets = cut.packets + 1
      BY <2>9, <3>1
    <3>3. /\ cut'.bytes = Amount(LostIn(t)) /\ cut'.packets = Cardinality(Shorter(t))
          /\ cut'.bytes \in Nat /\ cut'.packets \in Nat /\ LogOK(t)
      BY <2>1, <2>3, <2>8, <2>9, <2>10, <3>2 DEF Longer
    <3>4. QED BY <2>6, <2>9, <3>2, <3>3 DEF CutOK, CutShape
  <2>11. CASE ~(len > left)
    <3>1. cut' = cut
      BY <2>4, <2>11
    <3>2. /\ cut.bytes = Amount(LostIn(t)) /\ cut.packets = Cardinality(Shorter(t)) /\ LogOK(t)
      BY <2>1, <2>3, <2>8, <2>9, <2>11 DEF Longer
    <3>3. QED BY <2>1, <2>6, <2>9, <3>1, <3>2 DEF CutOK, CutShape
  <2>12. QED BY <2>10, <2>11
<1>7. ASSUME NEW m \in {"snap", "stats"}, cut' = cut,
             \/ seen' = seen \/ seen' = Met!Forgotten(m)
             \/ \E len, left : Met!Metered(m, len, left)
      PROVE  CutShape' /\ CutOK'
  <2>1. m \in Met!Meter /\ "cut" \in Met!Meter \ {m}
    BY DEF Met!Meter
  <2>2. seen'["cut"] = seen["cut"]
    BY <1>1, <1>7, <2>1, LogsNext
  <2>3. QED BY <1>2, <1>7, <2>2
<1>8. ASSUME NEW len, Met!Clamp(len) PROVE CutShape' /\ CutOK'
  BY <1>7, <1>8, Zenon DEF Met!Clamp
<1>9. ASSUME NEW class, NEW len, Met!Update(class, len) PROVE CutShape' /\ CutOK'
  BY <1>7, <1>9, Zenon DEF Met!Update
<1>10. ASSUME NEW len, Met!SnapInit(len) PROVE CutShape' /\ CutOK'
  BY <1>7, <1>10, Zenon DEF Met!SnapInit
<1>11. ASSUME NEW len, Met!SnapSet(len) PROVE CutShape' /\ CutOK'
  BY <1>7, <1>11, Zenon DEF Met!SnapSet
<1>12. CASE Met!StatsInit
  BY <1>7, <1>12, Zenon DEF Met!StatsInit
<1>13. CASE Met!Drop
  BY <1>7, <1>13, Zenon DEF Met!Drop
<1>14. QED
  BY <1>3, <1>4, <1>5, <1>6, <1>8, <1>9, <1>10, <1>11, <1>12, <1>13, Zenon DEF Met!Next

LEMMA StatsKept ==
    ASSUME MetInv, Met!Next
    PROVE  StatsOK'
<1>1. StatsOK /\ DOMAIN seen = Met!Meter
  BY DEF MetInv
<1>2. CASE stats' = stats /\ seen'["stats"] = seen["stats"]
  BY <1>1, <1>2 DEF StatsOK
<1>3. CASE Met!StatsInit
  <2>1. stats' = Met!NoStats /\ seen' = Met!Forgotten("stats")
    BY <1>3, Zenon DEF Met!StatsInit
  <2>2. seen'["stats"] = <<>>
    BY <1>1, <2>1, LogsNext DEF Met!Meter
  <2>3. QED BY <2>1, <2>2, EmptyLog, ClassesSum DEF StatsOK
<1>4. CASE Met!Drop
  <2>1. stats' = [stats EXCEPT !.dropped = @ + 1] /\ seen' = seen
    BY <1>4, Zenon DEF Met!Drop
  <2>2. /\ stats' \in [packets : [Met!Classes -> Nat], total : Nat, bytes : Nat, dropped : Nat]
        /\ stats'.packets = stats.packets /\ stats'.total = stats.total
        /\ stats'.bytes = stats.bytes
    BY <1>1, <2>1 DEF StatsOK
  <2>3. QED BY <1>1, <2>1, <2>2 DEF StatsOK
<1>5. ASSUME NEW class \in Met!Classes, NEW len \in MeterLens, Met!Update(class, len)
      PROVE  StatsOK'
  <2>1. len \in Nat
    BY MetConstants
  <2>2. PICK f \in [Met!Classes -> Nat] : f = stats.packets
    BY <1>1 DEF StatsOK
  <2>3. PICK g : g = [f EXCEPT ![class] = @ + 1]
    OBVIOUS
  <2>4. /\ stats' = [stats EXCEPT !.packets[class] = @ + 1, !.total = @ + 1, !.bytes = @ + len]
        /\ Met!Metered("stats", len, len)
    BY <1>5, Zenon DEF Met!Update
  <2>5. seen'["stats"] = Append(seen["stats"], <<len, len>>)
    BY <1>1, <2>4, LogsNext DEF Met!Meter
  <2>6. PICK t : t = seen'["stats"]
    OBVIOUS
  <2>7. PICK s : s = seen["stats"]
    OBVIOUS
  <2>8. Longer(s, t, len, len)
    <3>1. LogOK(s) /\ t = Append(s, <<len, len>>) /\ len <= len
      BY <1>1, <2>1, <2>5, <2>6, <2>7 DEF StatsOK
    <3>2. QED BY <2>1, <3>1, Logged
  <2>9. g \in [Met!Classes -> Nat] /\ Amount(g) = Amount(f) + 1 /\ Amount(f) \in Nat
    <3>1. Amount(g) = Amount(f) + 1 /\ Amount(f) \in Nat
      BY <2>3, ClassesSum
    <3>2. g \in [Met!Classes -> Nat]
      BY <2>3
    <3>3. QED BY <3>1, <3>2
  <2>10. /\ stats.packets = f /\ stats.total \in Nat /\ stats.bytes \in Nat
         /\ stats.dropped \in Nat /\ stats.total = Len(s) /\ stats.total = Amount(f)
         /\ stats.bytes = Amount(GivenIn(s))
    BY <1>1, <2>2, <2>7 DEF StatsOK
  <2>11. stats' = [packets |-> g, total |-> stats.total + 1, bytes |-> stats.bytes + len,
                   dropped |-> stats.dropped]
    BY <1>1, <2>3, <2>4, <2>10 DEF StatsOK
  <2>12. /\ LogOK(t) /\ stats.total + 1 = Len(t) /\ stats.total + 1 = Amount(g)
         /\ stats.bytes + len = Amount(GivenIn(t))
    BY <2>1, <2>8, <2>9, <2>10 DEF Longer
  <2>13. QED BY <2>1, <2>6, <2>9, <2>10, <2>11, <2>12 DEF StatsOK
<1>6. ASSUME NEW m \in {"snap", "cut"}, stats' = stats,
             \/ seen' = seen \/ seen' = Met!Forgotten(m)
             \/ \E len, left : Met!Metered(m, len, left)
      PROVE  StatsOK'
  <2>1. m \in Met!Meter /\ "stats" \in Met!Meter \ {m}
    BY DEF Met!Meter
  <2>2. seen'["stats"] = seen["stats"]
    BY <1>1, <1>6, <2>1, LogsNext
  <2>3. QED BY <1>2, <1>6, <2>2
<1>7. ASSUME NEW len, Met!Clamp(len) PROVE StatsOK'
  BY <1>6, <1>7, Zenon DEF Met!Clamp
<1>8. ASSUME NEW len, Met!Apply(len) PROVE StatsOK'
  BY <1>6, <1>8, Zenon DEF Met!Apply
<1>9. ASSUME NEW len, Met!SnapInit(len) PROVE StatsOK'
  BY <1>6, <1>9, Zenon DEF Met!SnapInit
<1>10. ASSUME NEW len, Met!SnapSet(len) PROVE StatsOK'
  BY <1>6, <1>10, Zenon DEF Met!SnapSet
<1>11. ASSUME NEW max, Met!CutInit(max) PROVE StatsOK'
  BY <1>6, <1>11, Zenon DEF Met!CutInit
<1>12. ASSUME NEW on, Met!Enable(on) PROVE StatsOK'
  BY <1>6, <1>12, Zenon DEF Met!Enable
<1>13. CASE Met!CutReset
  BY <1>6, <1>13, Zenon DEF Met!CutReset
<1>14. QED
  BY <1>3, <1>4, <1>5, <1>7, <1>8, <1>9, <1>10, <1>11, <1>12, <1>13, Zenon DEF Met!Next

LEMMA MetKept ==
    ASSUME MetInv, [Next]_vars
    PROVE  MetInv'
<1>1. CASE UNCHANGED <<snap, cut, stats, seen, valid>>
  BY <1>1 DEF MetInv, SnapOK, CutShape, CutOK, StatsOK
<1>2. CASE Met!Next
  <2>1. DOMAIN (seen') = Met!Meter
    <3>1. DOMAIN seen = Met!Meter
      BY DEF MetInv
    <3>2. ASSUME NEW m \in Met!Meter,
                 \/ seen' = seen \/ seen' = Met!Forgotten(m)
                 \/ \E len, left : Met!Metered(m, len, left)
          PROVE  DOMAIN (seen') = Met!Meter
      BY <3>1, <3>2, LogsNext
    <3>3. "snap" \in Met!Meter /\ "cut" \in Met!Meter /\ "stats" \in Met!Meter
      BY DEF Met!Meter
    <3>4. ASSUME NEW len PROVE /\ Met!Clamp(len) => DOMAIN (seen') = Met!Meter
                               /\ Met!Apply(len) => DOMAIN (seen') = Met!Meter
                               /\ \A class : Met!Update(class, len) => DOMAIN (seen') = Met!Meter
                               /\ Met!SnapInit(len) => DOMAIN (seen') = Met!Meter
                               /\ Met!SnapSet(len) => DOMAIN (seen') = Met!Meter
                               /\ Met!CutInit(len) => DOMAIN (seen') = Met!Meter
                               /\ Met!Enable(len) => DOMAIN (seen') = Met!Meter
      BY <3>2, <3>3, Zenon
         DEF Met!Clamp, Met!Apply, Met!Update, Met!SnapInit, Met!SnapSet, Met!CutInit, Met!Enable
    <3>5. Met!CutReset \/ Met!StatsInit \/ Met!Drop => DOMAIN (seen') = Met!Meter
      BY <3>2, <3>3, Zenon DEF Met!CutReset, Met!StatsInit, Met!Drop
    <3>6. QED BY <1>2, <3>4, <3>5, Zenon DEF Met!Next
  <2>2. QED BY <1>2, <2>1, SnapKept, CutKept, StatsKept DEF MetInv
<1>3. QED BY <1>1, <1>2, Steps DEF metVars

LEMMA MetMeans ==
    ASSUME MetInv
    PROVE  Met!CountersAdd
<1>1. Met!Shortened("snap") = Shorter(seen["snap"]) /\ Met!Shortened("cut") = Shorter(seen["cut"])
  BY DEF Met!Shortened, Shorter
<1>2. Met!Lost("cut") = LostIn(seen["cut"]) /\ Met!Given("stats") = GivenIn(seen["stats"])
  BY DEF Met!Lost, Met!Given, LostIn, GivenIn
<1>3. \A f : Met!Total(f) = Amount(f)
  <2>1. \A f, S : Met!SumFunctionOnSet(f, S) = SumFunctionOnSet(f, S)
    BY Zenon DEF SumFunctionOnSet, Met!SumFunctionOnSet, FoldFunctionOnSet, Met!FoldFunctionOnSet,
       MapThenFoldSet, Met!MapThenFoldSet
  <2>2. QED BY <2>1, Zenon DEF Met!Total, Amount
<1>4. \A S : Met!Cardinality(S) = Cardinality(S)
  BY DEF Met!Cardinality, Cardinality
<1>5. /\ snap.total = Len(seen["snap"]) /\ snap.truncated = Met!Cardinality(Met!Shortened("snap"))
      /\ cut.packets = Met!Cardinality(Met!Shortened("cut")) /\ cut.bytes = Met!Total(Met!Lost("cut"))
      /\ stats.total = Len(seen["stats"]) /\ stats.total = Met!Total(stats.packets)
      /\ stats.bytes = Met!Total(Met!Given("stats")) /\ (valid => snap.value >= 14)
  BY <1>1, <1>2, <1>3, <1>4, Zenon DEF MetInv, SnapOK, CutOK, StatsOK
<1>6. QED BY <1>5, Zenon DEF Met!CountersAdd

-----------------------------------------------------------------------------
\* ifstats.c

\* A remainder is the only one.
Splits(x, w, q, r) == x = q * w + r /\ r < w

LEMMA OnlyRemainder ==
    ASSUME NEW w \in Nat \ {0}, NEW q \in Int, NEW r \in Nat, NEW x \in Int, Splits(x, w, q, r)
    PROVE  x % w = r
BY DEF Splits

LEMMA Division ==
    ASSUME NEW w \in Nat \ {0}, NEW a \in Nat
    PROVE  \E r \in Nat, q \in Int : r = a % w /\ Splits(a, w, q, r)
BY DEF Splits

\* The difference of two remainders gives back that of the numbers, if it is below w.
LEMMA DifferenceIs ==
    ASSUME NEW w \in Nat \ {0}, NEW a \in Nat, NEW b \in Nat, NEW d \in Nat, b = a + d, d < w
    PROVE  ((b % w) - (a % w)) % w = d
<1>1. PICK r \in Nat, q \in Int : r = a % w /\ Splits(a, w, q, r)
  BY Division
<1>2. CASE r + d < w
  <2>1. PICK s \in Nat : s = r + d /\ Splits(b, w, q, s)
    BY <1>1, <1>2 DEF Splits
  <2>2. b % w = s
    BY <2>1, OnlyRemainder
  <2>3. Splits(d, w, 0, d)
    BY DEF Splits
  <2>4. d % w = d
    BY <2>3, OnlyRemainder
  <2>5. (b % w) - (a % w) = d
    BY <1>1, <2>1, <2>2
  <2>6. QED BY <2>4, <2>5
<1>3. CASE r + d >= w
  <2>1. PICK p \in Int : p = q + 1 /\ p * w = q * w + w
    OBVIOUS
  <2>2. PICK s \in Nat : s = r + d - w
    BY <1>3
  <2>3. Splits(b, w, p, s)
    BY <1>1, <2>1, <2>2 DEF Splits
  <2>4. b % w = s
    BY <2>3, OnlyRemainder
  <2>5. PICK x \in Int : x = d - w
    OBVIOUS
  <2>6. Splits(x, w, -1, d)
    BY <2>5 DEF Splits
  <2>7. x % w = d
    BY <2>6, OnlyRemainder
  <2>8. (b % w) - (a % w) = x
    BY <1>1, <2>2, <2>4, <2>5
  <2>9. QED BY <2>7, <2>8
<1>4. QED BY <1>1, <1>2, <1>3

\* Each snapshot is what was read, as far as a counter holds it.
IfsInv == /\ passed \in [Ifaces -> Nat]
          /\ DOMAIN snapshots = Ifs!Slots /\ DOMAIN was = Ifs!Slots
          /\ \A s \in Ifs!Slots : was[s][3] \in Nat /\ snapshots[s] = was[s][3] % Wrap

LEMMA WrapType == Wrap \in Nat \ {0}
BY PathAssumption, Zenon DEF Ifs!IfStatsAssumption

LEMMA IfsInit ==
    ASSUME Init
    PROVE  IfsInv
<1>1. Ifs!Init
  BY Zenon DEF Init
<1>2. 0 % Wrap = 0
  BY WrapType
<1>3. /\ passed = [i \in Ifaces |-> 0] /\ snapshots = [s \in Ifs!Slots |-> 0]
      /\ was = [s \in Ifs!Slots |-> <<"nothing", 0, 0>>]
  BY <1>1 DEF Ifs!Init
<1>4. QED BY <1>2, <1>3 DEF IfsInv

LEMMA IfsKept ==
    ASSUME IfsInv, [Next]_vars
    PROVE  IfsInv'
<1>1. CASE UNCHANGED <<there, passed, life, snapshots, was>>
  BY <1>1 DEF IfsInv
<1>2. CASE Ifs!Next
  <2>1. ASSUME NEW i \in Ifaces, Ifs!Pass(i) \/ Ifs!Vanish(i) \/ Ifs!Appear(i)
        PROVE  IfsInv'
    <3>1. passed' \in [Ifaces -> Nat] /\ snapshots' = snapshots /\ was' = was
      BY <2>1 DEF IfsInv, Ifs!Pass, Ifs!Vanish, Ifs!Appear
    <3>2. QED BY <3>1 DEF IfsInv
  <2>2. ASSUME NEW i \in Ifaces, NEW s \in Ifs!Slots, Ifs!Read(i, s)
        PROVE  IfsInv'
    <3>1. CASE UNCHANGED <<there, passed, life, snapshots, was>>
      BY <3>1 DEF IfsInv
    <3>2. CASE /\ snapshots' = [snapshots EXCEPT ![s] = passed[i] % Wrap]
               /\ was' = [was EXCEPT ![s] = <<i, life[i], passed[i]>>]
               /\ UNCHANGED <<there, passed, life>>
      <4>1. PICK n \in Nat : n = passed[i]
        BY DEF IfsInv
      <4>2. PICK r : r = n % Wrap
        OBVIOUS
      <4>3. PICK e : e = <<i, life[i], n>>
        OBVIOUS
      <4>4. e[3] = n
        BY <4>3
      <4>5. snapshots' = [snapshots EXCEPT ![s] = r] /\ was' = [was EXCEPT ![s] = e]
        BY <3>2, <4>1, <4>2, <4>3
      <4>6. QED BY <3>2, <4>1, <4>2, <4>4, <4>5 DEF IfsInv
    <3>3. QED BY <2>2, <3>1, <3>2, Zenon DEF Ifs!Read
  <2>3. QED BY <1>2, <2>1, <2>2, Zenon DEF Ifs!Next
<1>3. QED BY <1>1, <1>2, Steps DEF ifVars

LEMMA IfsMeans ==
    ASSUME IfsInv
    PROVE  Ifs!DeltaExact
<1>1. "before" \in Ifs!Slots /\ "after" \in Ifs!Slots
  BY DEF Ifs!Slots
<1>2. PICK a \in Nat, b \in Nat : a = was["before"][3] /\ b = was["after"][3]
  BY <1>1 DEF IfsInv
<1>3. snapshots["before"] = a % Wrap /\ snapshots["after"] = b % Wrap
  BY <1>1, <1>2 DEF IfsInv
<1>4. ASSUME b - a \in 0 .. Wrap - 1
      PROVE  Ifs!Delta = b - a
  <2>1. PICK d \in Nat : d = b - a /\ b = a + d /\ d < Wrap
    BY <1>4, WrapType
  <2>2. ((b % Wrap) - (a % Wrap)) % Wrap = d
    BY <2>1, WrapType, DifferenceIs
  <2>3. QED BY <1>3, <2>1, <2>2 DEF Ifs!Delta
<1>5. QED BY <1>2, <1>4 DEF Ifs!DeltaExact

\* snaplen.c:5-45, truncate.c:5-45, stats.c:12-31, ifstats.c:15-78: for packets and
\* limits of any lengths, the counters say what was done to the packets, and the
\* difference of two snapshots is what passed in between, across a wrap of any width.
THEOREM CountersRight == Spec => []CountersAdd
<1>1. MetInv /\ [Next]_vars => MetInv'
  BY MetKept
<1>2. IfsInv /\ [Next]_vars => IfsInv'
  BY IfsKept
<1>3. MetInv /\ IfsInv => CountersAdd
  BY MetMeans, IfsMeans DEF CountersAdd
<1>4. QED BY <1>1, <1>2, <1>3, MetInit, IfsInit, PTL DEF Spec

-----------------------------------------------------------------------------
\* filter.c
Words == {"port", "host"}

\* What a primitive looks like, the flags that it sets and the value that it writes.
IsProto(x) == Len(x) = 1 /\ x[1] \in Fil!Protos
IsPair(x, k) == Len(x) = 2 /\ x[1] = k
IsTriple(x, s, k) == Len(x) = 3 /\ x[1] = s /\ x[2] = k
IsPrim(x) == \/ IsProto(x) \/ IsPair(x, "port") \/ IsPair(x, "host")
             \/ \E s \in Fil!Sides : IsTriple(x, s, "port") \/ IsTriple(x, s, "host")

FlagsOf(x) == CASE Len(x) = 1 -> {}
                [] Len(x) = 2 /\ x[1] = "port" -> {<<"port">>}
                [] OTHER -> Fil!Sets(x)
Number(x) == Atoi[x[Len(x)]] % 65536
Address(x) == InetAddr[x[Len(x)]]

Both(k) == {<<s, k>> : s \in Fil!Sides}

LEMMA ProtoIs ==
    ASSUME NEW x, IsProto(x)
    PROVE  /\ Len(x) = 1 /\ x[1] \in Fil!Protos
           /\ Fil!Sets(x) = {<<"proto">>} /\ FlagsOf(x) = {}
           /\ \A p : Fil!Holds(x, p) <=> p.proto = x[1]
<1>2. Len(x) = 1 /\ x[1] \in Fil!Protos
  BY DEF IsProto
<1>3. Fil!Sets(x) = {<<"proto">>} /\ FlagsOf(x) = {}
  BY <1>2 DEF Fil!Sets, FlagsOf
<1>4. \A p : Fil!Holds(x, p) <=> p.proto = x[1]
  BY <1>2 DEF Fil!Holds
<1>5. QED BY <1>2, <1>3, <1>4

LEMMA PairIs ==
    ASSUME NEW x, NEW k \in Words, IsPair(x, k)
    PROVE  /\ Len(x) = 2 /\ x[1] = k
           /\ Fil!Sets(x) = Both(k)
           /\ FlagsOf(x) = IF k = "port" THEN {<<"port">>} ELSE Both(k)
           /\ k = "port" => \A p : Fil!Holds(x, p) <=> \E s \in Fil!Sides : p.port[s] = Number(x)
           /\ k = "host" => \A p : Fil!Holds(x, p) <=>
                                       \A s \in Fil!Sides : Address(x) \in {0, p.ip[s]}
<1>2. Len(x) = 2 /\ x[1] = k
  BY DEF IsPair
<1>3. Fil!Of(Fil!Front(x)) = Fil!Sides
  <2>1. Len(Fil!Front(x)) = 1
    BY <1>2 DEF Fil!Front
  <2>2. QED BY <2>1 DEF Fil!Of
<1>4. Fil!Sets(x) = Both(k)
  BY <1>2, <1>3 DEF Fil!Sets, Both
<1>5. FlagsOf(x) = IF k = "port" THEN {<<"port">>} ELSE Both(k)
  BY <1>2, <1>4 DEF FlagsOf
<1>6. ASSUME k = "port", NEW p
      PROVE  Fil!Holds(x, p) <=> \E s \in Fil!Sides : p.port[s] = Number(x)
  BY <1>2, <1>3, <1>6 DEF Fil!Holds, Number
<1>7. ASSUME k = "host", NEW p
      PROVE  Fil!Holds(x, p) <=> \A s \in Fil!Sides : Address(x) \in {0, p.ip[s]}
  BY <1>2, <1>3, <1>7 DEF Fil!Holds, Address
<1>8. QED BY <1>2, <1>4, <1>5, <1>6, <1>7

LEMMA TripleIs ==
    ASSUME NEW x, NEW s \in Fil!Sides, NEW k \in Words, IsTriple(x, s, k)
    PROVE  /\ Len(x) = 3 /\ x[2] = k
           /\ Fil!Sets(x) = {<<s, k>>} /\ FlagsOf(x) = {<<s, k>>}
           /\ k = "port" => \A p : Fil!Holds(x, p) <=> Number(x) \in {0, p.port[s]}
           /\ k = "host" => \A p : Fil!Holds(x, p) <=> Address(x) \in {0, p.ip[s]}
<1>2. Len(x) = 3 /\ x[1] = s /\ x[2] = k
  BY DEF IsTriple
<1>3. Fil!Of(Fil!Front(x)) = {s}
  <2>1. PICK f : f = Fil!Front(x)
    OBVIOUS
  <2>2. Len(f) = 2 /\ f[1] = s
    BY <1>2, <2>1 DEF Fil!Front
  <2>3. QED BY <2>1, <2>2 DEF Fil!Of
<1>4. Fil!Sets(x) = {<<s, k>>}
  BY <1>2, <1>3 DEF Fil!Sets
<1>5. FlagsOf(x) = {<<s, k>>}
  BY <1>2, <1>4 DEF FlagsOf
<1>6. ASSUME k = "port", NEW p
      PROVE  Fil!Holds(x, p) <=> Number(x) \in {0, p.port[s]}
  BY <1>2, <1>3, <1>6 DEF Fil!Holds, Number
<1>7. ASSUME k = "host", NEW p
      PROVE  Fil!Holds(x, p) <=> Address(x) \in {0, p.ip[s]}
  BY <1>2, <1>3, <1>7 DEF Fil!Holds, Address
<1>8. QED BY <1>2, <1>4, <1>5, <1>6, <1>7

\* A field of the context is the protocol, a port or an address of one side.
Field(c, f) == IF f = <<"proto">> THEN c.proto ELSE IF f[2] = "port" THEN c.port[f[1]] ELSE c.ip[f[1]]
Fields == {<<"proto">>} \cup Both("port") \cup Both("host")
Written(x) == IF Len(x) = 1 THEN x[1] ELSE IF x[Len(x) - 1] = "port" THEN Number(x) ELSE Address(x)

CtxShape(c) == /\ DOMAIN c = {"proto", "port", "ip", "flags"}
               /\ DOMAIN c.port = Fil!Sides /\ DOMAIN c.ip = Fil!Sides

\* A primitive x makes of the context c one that differs in what x sets.
Takes(c, d, x) ==
    /\ CtxShape(d) /\ d.flags = c.flags \cup FlagsOf(x)
    /\ \A f \in Fields : Field(d, f) = IF f \in Fil!Sets(x) THEN Written(x) ELSE Field(c, f)

LEMMA FieldIs ==
    /\ \A c : Field(c, <<"proto">>) = c.proto
    /\ \A c, s : Field(c, <<s, "port">>) = c.port[s] /\ Field(c, <<s, "host">>) = c.ip[s]
<1> SUFFICES ASSUME NEW c, NEW s
             PROVE  /\ Field(c, <<"proto">>) = c.proto
                    /\ Field(c, <<s, "port">>) = c.port[s] /\ Field(c, <<s, "host">>) = c.ip[s]
  OBVIOUS
<1>1. <<s, "port">> # <<"proto">> /\ <<s, "host">> # <<"proto">>
  <2>1. Len(<<s, "port">>) = 2 /\ Len(<<s, "host">>) = 2 /\ Len(<<"proto">>) = 1
    OBVIOUS
  <2>2. QED BY <2>1, Zenon
<1>2. <<s, "port">>[1] = s /\ <<s, "host">>[1] = s /\ <<s, "port">>[2] = "port" /\ <<s, "host">>[2] = "host"
  OBVIOUS
<1>3. QED BY <1>1, <1>2 DEF Field

\* The three kinds of fields are different ones.
LEMMA FieldsDiffer ==
    /\ \A s, k : <<s, k>> # <<"proto">>
    /\ \A s, k, r, l : <<s, k>> = <<r, l>> <=> s = r /\ k = l
    /\ \A s \in Fil!Sides, k \in Words : <<s, k>> \in Fields
    /\ \A f \in Fields : f = <<"proto">> \/ \E s \in Fil!Sides, k \in Words : f = <<s, k>>
<1>1. ASSUME NEW s, NEW k PROVE <<s, k>> # <<"proto">>
  <2>1. Len(<<s, k>>) = 2 /\ Len(<<"proto">>) = 1
    OBVIOUS
  <2>2. QED BY <2>1, Zenon
<1>2. ASSUME NEW s, NEW k, NEW r, NEW l, <<s, k>> = <<r, l>> PROVE s = r /\ k = l
  <2>1. <<s, k>>[1] = s /\ <<s, k>>[2] = k /\ <<r, l>>[1] = r /\ <<r, l>>[2] = l
    OBVIOUS
  <2>2. QED BY <1>2, <2>1, Zenon
<1>3. QED BY <1>1, <1>2 DEF Fields, Both, Words

\* A protocol.
LEMMA TakesProto ==
    ASSUME NEW c, CtxShape(c), NEW n \in Fil!Protos, NEW d, d = [c EXCEPT !.proto = n]
    PROVE  Takes(c, d, <<n>>)
<1>1. PICK x : x = <<n>>
  OBVIOUS
<1>2. IsProto(x) /\ Len(x) = 1 /\ x[1] = n
  BY <1>1 DEF IsProto
<1>3. Fil!Sets(x) = {<<"proto">>} /\ FlagsOf(x) = {} /\ Written(x) = n
  BY <1>2, ProtoIs DEF Written
<1>4. CtxShape(d) /\ d.proto = n /\ d.port = c.port /\ d.ip = c.ip /\ d.flags = c.flags
  BY DEF CtxShape
<1>5. ASSUME NEW f \in Fields
      PROVE  Field(d, f) = IF f \in Fil!Sets(x) THEN Written(x) ELSE Field(c, f)
  <2>1. CASE f = <<"proto">>
    BY <1>3, <1>4, <2>1, FieldIs
  <2>2. CASE f # <<"proto">>
    BY <1>3, <1>4, <2>2 DEF Field
  <2>3. QED BY <2>1, <2>2
<1>6. QED BY <1>1, <1>3, <1>4, <1>5 DEF Takes

\* A port or an address of both sides, or of one.
LEMMA TakesArgument ==
    ASSUME NEW c, CtxShape(c), NEW w, NEW k \in Words, NEW t \in Tokens,
           w = <<k>> \/ \E s \in Fil!Sides : w = <<s, k>>,
           NEW d, d = Fil!Assign(c, w, t), NEW x, x = Append(w, t)
    PROVE  Takes(c, d, x) /\ (IsPair(x, k) \/ \E s \in Fil!Sides : IsTriple(x, s, k))
<1>1. /\ w[Len(w)] = k /\ x[Len(x) - 1] = k /\ x[Len(x)] = t /\ Len(x) # 1
      /\ \/ Len(w) = 1 /\ w = <<k>> /\ IsPair(x, k)
         \/ \E s \in Fil!Sides : Len(w) = 2 /\ w[1] = s /\ w = <<s, k>> /\ IsTriple(x, s, k)
  <2>1. CASE w = <<k>>
    <3>2. Len(x) = 2 /\ x[1] = k /\ x[2] = t /\ Len(w) = 1 /\ w[1] = k
      BY <2>1
    <3>3. w[Len(w)] = k /\ x[Len(x) - 1] = k /\ x[Len(x)] = t /\ Len(x) # 1
      BY <3>2
    <3>4. IsPair(x, k)
      BY <3>2, Zenon DEF IsPair
    <3>5. QED BY <2>1, <3>2, <3>3, <3>4, Zenon
  <2>2. ASSUME NEW s \in Fil!Sides, w = <<s, k>>
        PROVE  /\ w[Len(w)] = k /\ x[Len(x) - 1] = k /\ x[Len(x)] = t /\ Len(x) # 1
               /\ Len(w) = 2 /\ w[1] = s /\ w = <<s, k>> /\ IsTriple(x, s, k)
    <3>2. /\ Len(x) = 3 /\ x[1] = s /\ x[2] = k /\ x[3] = t
          /\ Len(w) = 2 /\ w[1] = s /\ w[2] = k
      BY <2>2
    <3>3. w[Len(w)] = k /\ x[Len(x) - 1] = k /\ x[Len(x)] = t /\ Len(x) # 1
      BY <3>2
    <3>4. IsTriple(x, s, k)
      BY <3>2, Zenon DEF IsTriple
    <3>5. QED BY <2>2, <3>2, <3>3, <3>4, Zenon
  <2>3. QED BY <2>1, <2>2
<1>2. /\ Fil!Sets(x) = {<<s, k>> : s \in Fil!Of(w)} /\ Fil!Of(w) \subseteq Fil!Sides
      /\ FlagsOf(x) = IF k = "port" THEN {w} ELSE Fil!Sets(x)
  <2>1. CASE Len(w) = 1 /\ w = <<k>> /\ IsPair(x, k)
    <3>1. Fil!Of(w) = Fil!Sides
      BY <2>1 DEF Fil!Of
    <3>2. Fil!Sets(x) = Both(k) /\ FlagsOf(x) = IF k = "port" THEN {<<"port">>} ELSE Both(k)
      BY <2>1, PairIs
    <3>3. QED BY <2>1, <3>1, <3>2 DEF Both
  <2>2. ASSUME NEW s \in Fil!Sides, Len(w) = 2 /\ w[1] = s /\ w = <<s, k>> /\ IsTriple(x, s, k)
        PROVE  /\ Fil!Sets(x) = {<<r, k>> : r \in Fil!Of(w)} /\ Fil!Of(w) \subseteq Fil!Sides
               /\ FlagsOf(x) = IF k = "port" THEN {w} ELSE Fil!Sets(x)
    <3>1. Fil!Of(w) = {s}
      BY <2>2 DEF Fil!Of
    <3>2. Fil!Sets(x) = {<<s, k>>} /\ FlagsOf(x) = {<<s, k>>}
      BY <2>2, TripleIs
    <3>3. QED BY <2>2, <3>1, <3>2
  <2>3. QED BY <1>1, <2>1, <2>2, Zenon
<1>3. <<"proto">> \notin Fil!Sets(x)
  BY <1>2, FieldsDiffer
<1>4. CASE k = "port"
  <2>1. PICK v : v = Atoi[t] % 65536
    OBVIOUS
  <2>2. Written(x) = v
    BY <1>1, <1>4, <2>1 DEF Written, Number
  <2>3. PICK m : m = [s \in Fil!Sides |-> IF s \in Fil!Of(w) THEN v ELSE c.port[s]]
    OBVIOUS
  <2>4. d = [c EXCEPT !.port = m, !.flags = c.flags \cup {w}]
    BY <1>1, <1>4, <2>1, <2>3 DEF Fil!Assign, Fil!Flagged
  <2>5. d.proto = c.proto /\ d.port = m /\ d.ip = c.ip /\ d.flags = c.flags \cup {w} /\ CtxShape(d)
    BY <2>3, <2>4 DEF CtxShape
  <2>6. ASSUME NEW f \in Fields
        PROVE  Field(d, f) = IF f \in Fil!Sets(x) THEN v ELSE Field(c, f)
    <3>1. CASE f = <<"proto">>
      BY <1>3, <2>5, <3>1, FieldIs
    <3>2. ASSUME NEW s \in Fil!Sides, f = <<s, "port">>
          PROVE  Field(d, f) = IF f \in Fil!Sets(x) THEN v ELSE Field(c, f)
      <4>1. f \in Fil!Sets(x) <=> s \in Fil!Of(w)
        BY <1>2, <1>4, <3>2, FieldsDiffer
      <4>2. Field(d, f) = m[s] /\ Field(c, f) = c.port[s]
        BY <2>5, <3>2, FieldIs
      <4>3. QED BY <2>3, <4>1, <4>2
    <3>3. ASSUME NEW s \in Fil!Sides, f = <<s, "host">>
          PROVE  Field(d, f) = IF f \in Fil!Sets(x) THEN v ELSE Field(c, f)
      <4>1. f \notin Fil!Sets(x)
        BY <1>2, <1>4, <3>3, FieldsDiffer
      <4>2. QED BY <2>5, <3>3, <4>1, FieldIs
    <3>4. QED BY <3>1, <3>2, <3>3, FieldsDiffer DEF Words
  <2>7. QED BY <1>1, <1>2, <1>4, <2>2, <2>5, <2>6 DEF Takes
<1>5. CASE k = "host"
  <2>1. PICK v : v = InetAddr[t]
    OBVIOUS
  <2>2. Written(x) = v
    BY <1>1, <1>5, <2>1 DEF Written, Address
  <2>3. PICK m : m = [s \in Fil!Sides |-> IF s \in Fil!Of(w) THEN v ELSE c.ip[s]]
    OBVIOUS
  <2>4. PICK g : g = Fil!Sets(x)
    OBVIOUS
  <2>5. g = {<<s, "host">> : s \in Fil!Of(w)}
    BY <1>2, <1>5, <2>4
  <2>6. d = [c EXCEPT !.ip = m, !.flags = c.flags \cup g]
    BY <1>1, <1>5, <2>1, <2>3, <2>5 DEF Fil!Assign, Fil!Flagged
  <2>7. d.proto = c.proto /\ d.port = c.port /\ d.ip = m /\ d.flags = c.flags \cup g /\ CtxShape(d)
    BY <2>3, <2>6 DEF CtxShape
  <2>8. ASSUME NEW f \in Fields
        PROVE  Field(d, f) = IF f \in Fil!Sets(x) THEN v ELSE Field(c, f)
    <3>1. CASE f = <<"proto">>
      BY <1>3, <2>7, <3>1, FieldIs
    <3>2. ASSUME NEW s \in Fil!Sides, f = <<s, "host">>
          PROVE  Field(d, f) = IF f \in Fil!Sets(x) THEN v ELSE Field(c, f)
      <4>1. f \in Fil!Sets(x) <=> s \in Fil!Of(w)
        BY <2>4, <2>5, <3>2, FieldsDiffer
      <4>2. Field(d, f) = m[s] /\ Field(c, f) = c.ip[s]
        BY <2>7, <3>2, FieldIs
      <4>3. QED BY <2>3, <4>1, <4>2
    <3>3. ASSUME NEW s \in Fil!Sides, f = <<s, "port">>
          PROVE  Field(d, f) = IF f \in Fil!Sets(x) THEN v ELSE Field(c, f)
      <4>1. f \notin Fil!Sets(x)
        BY <2>4, <2>5, <3>3, FieldsDiffer
      <4>2. QED BY <2>7, <3>3, <4>1, FieldIs
    <3>4. QED BY <3>1, <3>2, <3>3, FieldsDiffer DEF Words
  <2>9. QED BY <1>1, <1>2, <1>5, <2>2, <2>4, <2>7, <2>8 DEF Takes
<1>6. QED BY <1>4, <1>5 DEF Words

\* The primitives a field or a flag can come from, and what they ask of a packet.
LEMMA PrimFields ==
    ASSUME NEW x, IsPrim(x)
    PROVE  /\ Fil!Sets(x) \subseteq Fields
           /\ <<"proto">> \in Fil!Sets(x) => IsProto(x) /\ Written(x) = x[1]
           /\ \A s \in Fil!Sides : <<s, "port">> \in Fil!Sets(x) => Written(x) = Number(x)
           /\ <<"port">> \in FlagsOf(x) => IsPair(x, "port")
           /\ \A s \in Fil!Sides : <<s, "port">> \in FlagsOf(x) => IsTriple(x, s, "port")
           /\ \A s \in Fil!Sides : <<s, "host">> \in FlagsOf(x) =>
                 IsPair(x, "host") \/ IsTriple(x, s, "host")
           /\ FlagsOf(x) \subseteq {<<"port">>} \cup Both("port") \cup Both("host")
<1>1. "port" \in Words /\ "host" \in Words /\ "port" # "host"
  BY DEF Words
<1>2. <<"port">> # <<"proto">> /\ \A s, k : <<s, k>> # <<"port">>
  <2>1. <<"port">>[1] = "port" /\ <<"proto">>[1] = "proto" /\ Len(<<"port">>) = 1
    OBVIOUS
  <2>2. \A s, k : Len(<<s, k>>) = 2
    OBVIOUS
  <2>3. QED BY <2>1, <2>2
<1>3. CASE IsProto(x)
  <2>1. Len(x) = 1 /\ Fil!Sets(x) = {<<"proto">>} /\ FlagsOf(x) = {}
    BY <1>3, ProtoIs
  <2>2. QED BY <1>3, <2>1, FieldsDiffer DEF Fields, Written
<1>4. CASE IsPair(x, "port")
  <2>1. Len(x) = 2 /\ x[1] = "port" /\ Fil!Sets(x) = Both("port") /\ FlagsOf(x) = {<<"port">>}
    BY <1>1, <1>4, PairIs
  <2>2. Written(x) = Number(x) /\ <<"proto">> \notin Fil!Sets(x)
    BY <2>1, FieldsDiffer DEF Written, Both
  <2>3. QED BY <1>2, <1>4, <2>1, <2>2 DEF Fields
<1>5. CASE IsPair(x, "host")
  <2>1. Fil!Sets(x) = Both("host") /\ FlagsOf(x) = Both("host")
    BY <1>1, <1>5, PairIs
  <2>2. /\ <<"proto">> \notin Both("host") /\ <<"port">> \notin Both("host")
        /\ \A s : <<s, "port">> \notin Both("host")
    BY <1>1, <1>2, FieldsDiffer DEF Both
  <2>3. QED BY <1>5, <2>1, <2>2 DEF Fields
<1>6. ASSUME NEW r \in Fil!Sides, IsTriple(x, r, "port")
      PROVE  /\ Fil!Sets(x) = {<<r, "port">>} /\ FlagsOf(x) = {<<r, "port">>}
             /\ <<r, "port">> \in Both("port") /\ Written(x) = Number(x)
  <2>1. Len(x) = 3 /\ x[2] = "port" /\ Fil!Sets(x) = {<<r, "port">>} /\ FlagsOf(x) = {<<r, "port">>}
    BY <1>1, <1>6, TripleIs
  <2>2. QED BY <2>1 DEF Both, Written
<1>7. ASSUME NEW r \in Fil!Sides, IsTriple(x, r, "host")
      PROVE  /\ Fil!Sets(x) = {<<r, "host">>} /\ FlagsOf(x) = {<<r, "host">>}
             /\ <<r, "host">> \in Both("host")
  <2>1. Fil!Sets(x) = {<<r, "host">>} /\ FlagsOf(x) = {<<r, "host">>}
    BY <1>1, <1>7, TripleIs
  <2>2. QED BY <2>1 DEF Both
<1>8. CASE \E r \in Fil!Sides : IsTriple(x, r, "port")
  <2>1. PICK r \in Fil!Sides : IsTriple(x, r, "port")
    BY <1>8
  <2>2. PICK f : f = <<r, "port">>
    OBVIOUS
  <2>3. /\ f # <<"proto">> /\ f # <<"port">> /\ \A s : f # <<s, "host">>
        /\ \A s : f = <<s, "port">> => s = r
    BY <1>1, <1>2, <2>2, FieldsDiffer
  <2>4. Fil!Sets(x) = {f} /\ FlagsOf(x) = {f} /\ f \in Both("port") /\ Written(x) = Number(x)
    BY <1>6, <2>1, <2>2
  <2>5. QED BY <2>1, <2>3, <2>4 DEF Fields
<1>9. CASE \E r \in Fil!Sides : IsTriple(x, r, "host")
  <2>1. PICK r \in Fil!Sides : IsTriple(x, r, "host")
    BY <1>9
  <2>2. PICK f : f = <<r, "host">>
    OBVIOUS
  <2>3. /\ f # <<"proto">> /\ f # <<"port">> /\ \A s : f # <<s, "port">>
        /\ \A s : f = <<s, "host">> => s = r
    BY <1>1, <1>2, <2>2, FieldsDiffer
  <2>4. Fil!Sets(x) = {f} /\ FlagsOf(x) = {f} /\ f \in Both("host")
    BY <1>7, <2>1, <2>2
  <2>5. QED BY <2>1, <2>3, <2>4 DEF Fields
<1>10. QED BY <1>3, <1>4, <1>5, <1>8, <1>9 DEF IsPrim

\* No two primitives of a set write the same field.
Apart(S) == \A a, b \in S : a # b => Fil!Sets(a) \cap Fil!Sets(b) = {}

\* The context has of each primitive in force what it sets, unless two of them met.
FilWords == /\ words \in Seq(Tokens)
            /\ \/ words = <<>> \/ \E k \in Words : words = <<k>>
               \/ \E s \in Fil!Sides : words = <<s>> \/ \E k \in Words : words = <<s, k>>
FilTypes == /\ CtxShape(filter) /\ filter.proto \in Fil!Protos \cup {"any"}
            /\ \A s \in Fil!Sides : 0 <= filter.port[s] /\ filter.port[s] < 65536
            /\ parse_ret \in {-1, 0}
FilAsked == /\ asked \subseteq Seq(Tokens) /\ \A x \in asked : IsPrim(x)
            /\ filter.flags = UNION {FlagsOf(x) : x \in asked}
            /\ filter.proto = "any" \/ \E x \in asked : <<"proto">> \in Fil!Sets(x)
            /\ Apart(asked) => \A x \in asked : \A f \in Fil!Sets(x) : Field(filter, f) = Written(x)
FilInv == FilWords /\ FilTypes /\ FilAsked

LEMMA FilInit ==
    ASSUME Init
    PROVE  FilInv
<1>1. Fil!Init
  BY Zenon DEF Init
<1>2. PICK c : c = Fil!PassAll
  OBVIOUS
<1>3. /\ DOMAIN c = {"proto", "port", "ip", "flags"} /\ c.proto = "any" /\ c.flags = {}
      /\ DOMAIN c.port = Fil!Sides /\ DOMAIN c.ip = Fil!Sides
      /\ \A s \in Fil!Sides : c.port[s] = 0
  BY <1>2 DEF Fil!PassAll
<1>4. filter = c /\ words = <<>> /\ parse_ret = 0 /\ asked = {}
  BY <1>1, <1>2 DEF Fil!Init
<1>5. QED BY <1>3, <1>4 DEF FilInv, FilWords, FilTypes, FilAsked, CtxShape

\* One more primitive, which writes its fields and leaves the others.
LEMMA PrimAdded ==
    ASSUME FilInv, NEW x \in Seq(Tokens), IsPrim(x), x # <<>>,
           NEW d, Takes(filter, d, x), filter' = d, asked' = asked \cup {x},
           words' = <<>>, parse_ret' = parse_ret
    PROVE  FilInv'
<1>1. FilTypes /\ FilAsked
  BY DEF FilInv
<1>2. /\ CtxShape(d) /\ d.flags = filter.flags \cup FlagsOf(x)
      /\ \A f \in Fields : Field(d, f) = IF f \in Fil!Sets(x) THEN Written(x) ELSE Field(filter, f)
  BY DEF Takes
<1>3. /\ Fil!Sets(x) \subseteq Fields
      /\ <<"proto">> \in Fil!Sets(x) => IsProto(x) /\ Written(x) = x[1]
      /\ \A s \in Fil!Sides : <<s, "port">> \in Fil!Sets(x) => Written(x) = Number(x)
  BY PrimFields
<1>4. FilWords'
  BY DEF FilWords
<1>5. FilTypes'
  <2>1. d.proto \in Fil!Protos \cup {"any"}
    <3>1. <<"proto">> \in Fields
      BY DEF Fields
    <3>2. d.proto = IF <<"proto">> \in Fil!Sets(x) THEN Written(x) ELSE filter.proto
      BY <1>2, <3>1, FieldIs
    <3>3. <<"proto">> \in Fil!Sets(x) => Written(x) \in Fil!Protos
      BY <1>3 DEF IsProto
    <3>4. QED BY <1>1, <3>2, <3>3 DEF FilTypes
  <2>2. ASSUME NEW s \in Fil!Sides
        PROVE  0 <= d.port[s] /\ d.port[s] < 65536
    <3>1. <<s, "port">> \in Fields
      BY FieldsDiffer DEF Words
    <3>2. d.port[s] = IF <<s, "port">> \in Fil!Sets(x) THEN Written(x) ELSE filter.port[s]
      BY <1>2, <3>1, FieldIs
    <3>3. 0 <= Number(x) /\ Number(x) < 65536
      <4>1. PICK t \in Tokens : t = x[Len(x)]
        BY DEF IsPrim
      <4>2. PICK n \in Int : n = Atoi[t]
        <5>1. Atoi \in [Tokens -> Int]
          BY PathAssumption, Zenon DEF Fil!FilterAssumption
        <5>2. QED BY <5>1
      <4>3. Number(x) = n % 65536
        BY <4>1, <4>2 DEF Number
      <4>4. QED BY <4>3
    <3>4. QED BY <1>1, <1>3, <3>2, <3>3 DEF FilTypes
  <2>3. QED BY <1>1, <1>2, <2>1, <2>2 DEF FilTypes
<1>6. d.flags = UNION {FlagsOf(y) : y \in asked \cup {x}}
  BY <1>1, <1>2 DEF FilAsked
<1>7. d.proto = "any" \/ \E y \in asked \cup {x} : <<"proto">> \in Fil!Sets(y)
  <2>1. <<"proto">> \in Fields
    BY DEF Fields
  <2>2. <<"proto">> \notin Fil!Sets(x) => d.proto = filter.proto
    BY <1>2, <2>1, FieldIs
  <2>3. QED BY <1>1, <2>2 DEF FilAsked
<1>8. ASSUME Apart(asked \cup {x}), NEW y \in asked \cup {x}, NEW f \in Fil!Sets(y)
      PROVE  Field(d, f) = Written(y)
  <2>1. CASE y = x
    BY <1>2, <1>3, <2>1
  <2>2. CASE y # x
    <3>1. y \in asked /\ f \notin Fil!Sets(x)
      BY <1>8, <2>2 DEF Apart
    <3>2. Apart(asked)
      BY <1>8 DEF Apart
    <3>3. f \in Fields
      BY <1>1, <1>8, <3>1, PrimFields DEF FilAsked
    <3>4. Field(filter, f) = Written(y)
      BY <1>1, <3>1, <3>2 DEF FilAsked
    <3>5. QED BY <1>2, <3>1, <3>3, <3>4
  <2>3. QED BY <2>1, <2>2
<1>9. FilAsked'
  <2>1. asked' \subseteq Seq(Tokens) /\ \A y \in asked' : IsPrim(y)
    BY <1>1 DEF FilAsked
  <2>2. QED BY <1>6, <1>7, <1>8, <2>1, Zenon DEF FilAsked
<1>10. QED BY <1>4, <1>5, <1>9 DEF FilInv

LEMMA AppendOne ==
    ASSUME NEW k, NEW t
    PROVE  Append(<<k>>, t) = <<k, t>>
<1>1. PICK S : S = {k, t}
  OBVIOUS
<1>2. <<k>> \in Seq(S) /\ t \in S /\ <<k, t>> \in Seq(S) /\ Len(<<k>>) = 1 /\ Len(<<k, t>>) = 2
  BY <1>1
<1>3. PICK a \in Seq(S) : a = <<k>> /\ Len(a) = 1 /\ a[1] = k
  BY <1>2
<1>4. PICK b \in Seq(S) : b = <<k, t>> /\ Len(b) = 2 /\ b[1] = k /\ b[2] = t
  BY <1>2
<1>5. Append(a, t) \in Seq(S) /\ Len(Append(a, t)) = 2 /\ Append(a, t)[1] = k /\ Append(a, t)[2] = t
  BY <1>2, <1>3
<1>6. \A i \in 1 .. 2 : Append(a, t)[i] = b[i]
  <2>1. \A i \in 1 .. 2 : i = 1 \/ i = 2
    OBVIOUS
  <2>2. QED BY <1>4, <1>5, <2>1
<1>7. Append(a, t) = b
  BY <1>4, <1>5, <1>6, SeqEqual
<1>8. QED BY <1>3, <1>4, <1>7, Zenon

LEMMA FilToken ==
    ASSUME FilInv, NEW t \in Tokens, Fil!Token(t)
    PROVE  FilInv'
<1>1. FilWords /\ FilTypes /\ FilAsked /\ CtxShape(filter)
  BY DEF FilInv, FilTypes
<1>2. \A k : <<k>>[Len(<<k>>)] = k /\ \A s : <<s, k>>[Len(<<s, k>>)] = k
  OBVIOUS
<1>3. CASE Fil!Complete /\ Fil!Add(Append(words, t), Fil!Assign(filter, words, t))
  <2>1. PICK x : x = Append(words, t)
    OBVIOUS
  <2>2. PICK d : d = Fil!Assign(filter, words, t)
    OBVIOUS
  <2>3. PICK k \in Words : words = <<k>> \/ \E s \in Fil!Sides : words = <<s, k>>
    <3>1. words # <<>> /\ words[Len(words)] \in Words
      BY <1>3 DEF Fil!Complete, Words
    <3>2. \A s \in Fil!Sides : words # <<s>>
      BY <1>2, <3>1 DEF Words, Fil!Sides
    <3>3. QED BY <1>1, <3>1, <3>2 DEF FilWords
  <2>4. Takes(filter, d, x) /\ (IsPair(x, k) \/ \E s \in Fil!Sides : IsTriple(x, s, k))
    BY <1>1, <2>1, <2>2, <2>3, TakesArgument
  <2>5. IsPrim(x)
    BY <2>4 DEF IsPrim, Words
  <2>6. x \in Seq(Tokens) /\ x # <<>>
    BY <1>1, <2>1 DEF FilWords
  <2>7. filter' = d /\ asked' = asked \cup {x} /\ words' = <<>> /\ parse_ret' = parse_ret
    BY <1>3, <2>1, <2>2, Zenon DEF Fil!Add
  <2>8. QED BY <2>4, <2>5, <2>6, <2>7, PrimAdded
<1>4. CASE words = <<>> /\ t \in Fil!Protos /\ Fil!Add(<<t>>, [filter EXCEPT !.proto = t])
  <2>1. PICK x : x = <<t>>
    OBVIOUS
  <2>2. PICK d : d = [filter EXCEPT !.proto = t]
    OBVIOUS
  <2>3. x \in Seq(Tokens) /\ x # <<>> /\ Len(x) = 1 /\ x[1] = t
    BY <2>1
  <2>4. IsPrim(x)
    BY <1>4, <2>3 DEF IsPrim, IsProto
  <2>5. Takes(filter, d, x)
    BY <1>1, <1>4, <2>1, <2>2, TakesProto
  <2>6. filter' = d /\ asked' = asked \cup {x} /\ words' = <<>> /\ parse_ret' = parse_ret
    BY <1>4, <2>1, <2>2, Zenon DEF Fil!Add
  <2>7. QED BY <2>3, <2>4, <2>5, <2>6, PrimAdded
<1>5. CASE /\ ~Fil!Complete
           /\ words' = IF t \in {"port", "host"} \/ (words = <<>> /\ t \in Fil!Sides)
                       THEN Append(words, t) ELSE <<>>
           /\ UNCHANGED <<filter, parse_ret, asked>>
  <2>1. FilTypes' /\ FilAsked'
    BY <1>1, <1>5 DEF FilTypes, FilAsked
  <2>2. ASSUME words' = <<>>
        PROVE  FilWords'
    BY <2>2 DEF FilWords
  <2>3. ASSUME words' = Append(words, t), t \in Words \/ (words = <<>> /\ t \in Fil!Sides)
        PROVE  FilWords'
    <3>1. words' \in Seq(Tokens)
      BY <1>1, <2>3 DEF FilWords
    <3>2. ASSUME words = <<>>
          PROVE  FilWords'
      <4>1. words' = <<t>>
        BY <2>3, <3>2
      <4>2. QED BY <2>3, <3>1, <4>1 DEF FilWords
    <3>3. ASSUME NEW s \in Fil!Sides, words = <<s>>
          PROVE  FilWords'
      <4>1. words # <<>>
        BY <3>3
      <4>2. words' = <<s, t>> /\ t \in Words
        BY <2>3, <3>3, <4>1, AppendOne, Zenon
      <4>3. QED BY <3>1, <4>2 DEF FilWords
    <3>4. ASSUME NEW k \in Words, words = <<k>> \/ \E s \in Fil!Sides : words = <<s, k>>
          PROVE  FALSE
      <4>1. words[Len(words)] = k /\ words # <<>>
        BY <1>2, <3>4
      <4>2. QED BY <1>5, <4>1 DEF Fil!Complete, Words
    <3>5. QED BY <1>1, <3>2, <3>3, <3>4 DEF FilWords
  <2>4. FilWords'
    BY <1>5, <2>2, <2>3 DEF Words
  <2>5. QED BY <2>1, <2>4 DEF FilInv
<1>6. QED BY <1>3, <1>4, <1>5, Zenon DEF Fil!Token

LEMMA FilKept ==
    ASSUME FilInv, [Next]_vars
    PROVE  FilInv'
<1>1. CASE UNCHANGED filVars
  BY <1>1 DEF filVars, FilInv, FilWords, FilTypes, FilAsked
<1>2. CASE Fil!Next
  <2>1. CASE Fil!FilterInit
    <3>1. PICK c : c = Fil!PassAll
      OBVIOUS
    <3>2. /\ DOMAIN c = {"proto", "port", "ip", "flags"} /\ c.proto = "any" /\ c.flags = {}
          /\ DOMAIN c.port = Fil!Sides /\ DOMAIN c.ip = Fil!Sides
          /\ \A s \in Fil!Sides : c.port[s] = 0
      BY <3>1 DEF Fil!PassAll
    <3>3. filter' = c /\ words' = words /\ parse_ret' = parse_ret /\ asked' = {}
      BY <2>1, <3>1, Zenon DEF Fil!FilterInit
    <3>4. QED BY <3>2, <3>3 DEF FilInv, FilWords, FilTypes, FilAsked, CtxShape
  <2>2. CASE Fil!Return
    <3>1. /\ words' = <<>> /\ filter' = filter /\ asked' = asked
          /\ parse_ret' = IF words = <<>> THEN 0 ELSE -1
      BY <2>2, Zenon DEF Fil!Return
    <3>2. QED BY <3>1 DEF FilInv, FilWords, FilTypes, FilAsked
  <2>3. QED BY <1>2, <2>1, <2>2, FilToken, Zenon DEF Fil!Next
<1>3. QED BY <1>1, <1>2, Steps

\* A packet that matches fits every primitive, and one that fits them matches.
LEMMA FilMeans ==
    ASSUME FilInv
    PROVE  FilterMeans
<1>1. SUFFICES ASSUME Apart(asked), NEW p \in Packets
               PROVE  Fil!Match(filter, p) <=> \A x \in asked : Fil!Holds(x, p)
  BY DEF FilterMeans, Fil!FilterMeans, Apart
<1>2. FilAsked /\ "port" \in Words /\ "host" \in Words
  BY DEF FilInv, Words
<1>3. /\ \A x \in asked : IsPrim(x) /\ \A f \in Fil!Sets(x) : Field(filter, f) = Written(x)
      /\ filter.flags = UNION {FlagsOf(x) : x \in asked}
      /\ filter.proto = "any" \/ \E x \in asked : <<"proto">> \in Fil!Sets(x)
  BY <1>1, <1>2 DEF FilAsked
<1>4. ASSUME NEW x \in asked, IsProto(x)
      PROVE  filter.proto = x[1] /\ filter.proto # "any" /\ (Fil!Holds(x, p) <=> p.proto = x[1])
  <2>1. Fil!Sets(x) = {<<"proto">>} /\ Len(x) = 1 /\ (Fil!Holds(x, p) <=> p.proto = x[1])
    BY <1>4, ProtoIs
  <2>2. Field(filter, <<"proto">>) = x[1]
    BY <1>3, <2>1 DEF Written
  <2>3. QED BY <1>4, <2>1, <2>2, FieldIs DEF IsProto, Fil!Protos
<1>5. ASSUME NEW x \in asked, IsPair(x, "port")
      PROVE  /\ <<"port">> \in filter.flags
             /\ Fil!Holds(x, p) <=> \E s \in Fil!Sides : p.port[s] = filter.port[s]
  <2>1. /\ Fil!Sets(x) = Both("port") /\ FlagsOf(x) = {<<"port">>} /\ Len(x) = 2 /\ x[1] = "port"
        /\ Fil!Holds(x, p) <=> \E s \in Fil!Sides : p.port[s] = Number(x)
    BY <1>2, <1>5, PairIs
  <2>2. Written(x) = Number(x)
    BY <2>1 DEF Written
  <2>3. ASSUME NEW s \in Fil!Sides PROVE filter.port[s] = Number(x)
    <3>1. <<s, "port">> \in Fil!Sets(x)
      BY <2>1 DEF Both
    <3>2. QED BY <1>3, <2>2, <3>1, FieldIs
  <2>4. QED BY <1>3, <2>1, <2>3
<1>6. ASSUME NEW x \in asked, IsPair(x, "host")
      PROVE  /\ \A s \in Fil!Sides : <<s, "host">> \in filter.flags
             /\ Fil!Holds(x, p) <=> \A s \in Fil!Sides : filter.ip[s] \in {0, p.ip[s]}
  <2>1. /\ Fil!Sets(x) = Both("host") /\ FlagsOf(x) = Both("host") /\ Len(x) = 2 /\ x[1] = "host"
        /\ Fil!Holds(x, p) <=> \A s \in Fil!Sides : Address(x) \in {0, p.ip[s]}
    BY <1>2, <1>6, PairIs
  <2>2. Written(x) = Address(x)
    BY <2>1 DEF Written
  <2>3. ASSUME NEW s \in Fil!Sides PROVE filter.ip[s] = Address(x) /\ <<s, "host">> \in FlagsOf(x)
    <3>1. <<s, "host">> \in Both("host")
      BY DEF Both
    <3>2. QED BY <1>3, <2>1, <2>2, <3>1, FieldIs
  <2>4. QED BY <1>3, <2>1, <2>3
<1>7. ASSUME NEW x \in asked, NEW s \in Fil!Sides, IsTriple(x, s, "port")
      PROVE  <<s, "port">> \in filter.flags /\ (Fil!Holds(x, p) <=> filter.port[s] \in {0, p.port[s]})
  <2>1. /\ Fil!Sets(x) = {<<s, "port">>} /\ FlagsOf(x) = {<<s, "port">>} /\ Len(x) = 3 /\ x[2] = "port"
        /\ Fil!Holds(x, p) <=> Number(x) \in {0, p.port[s]}
    BY <1>2, <1>7, TripleIs
  <2>2. Written(x) = Number(x)
    BY <2>1 DEF Written
  <2>3. filter.port[s] = Number(x)
    <3>1. Field(filter, <<s, "port">>) = Number(x)
      BY <1>3, <2>1, <2>2
    <3>2. QED BY <3>1, FieldIs
  <2>4. QED BY <1>3, <2>1, <2>3
<1>8. ASSUME NEW x \in asked, NEW s \in Fil!Sides, IsTriple(x, s, "host")
      PROVE  <<s, "host">> \in filter.flags /\ (Fil!Holds(x, p) <=> filter.ip[s] \in {0, p.ip[s]})
  <2>1. /\ Fil!Sets(x) = {<<s, "host">>} /\ FlagsOf(x) = {<<s, "host">>} /\ Len(x) = 3 /\ x[2] = "host"
        /\ Fil!Holds(x, p) <=> Address(x) \in {0, p.ip[s]}
    BY <1>2, <1>8, TripleIs
  <2>2. Written(x) = Address(x)
    BY <2>1 DEF Written
  <2>3. filter.ip[s] = Address(x)
    <3>1. Field(filter, <<s, "host">>) = Address(x)
      BY <1>3, <2>1, <2>2
    <3>2. QED BY <3>1, FieldIs
  <2>4. QED BY <1>3, <2>1, <2>3
<1>9. ASSUME Fil!Match(filter, p), NEW x \in asked
      PROVE  Fil!Holds(x, p)
  <2>1. /\ filter.proto \in {"any", p.proto}
        /\ \A s \in Fil!Sides : <<s, "host">> \in filter.flags => filter.ip[s] \in {0, p.ip[s]}
        /\ <<"port">> \in filter.flags => \E s \in Fil!Sides : p.port[s] = filter.port[s]
        /\ \A s \in Fil!Sides : <<s, "port">> \in filter.flags => filter.port[s] \in {0, p.port[s]}
    BY <1>9, Zenon DEF Fil!Match
  <2>2. IsPrim(x)
    BY <1>3
  <2>3. QED BY <1>4, <1>5, <1>6, <1>7, <1>8, <2>1, <2>2 DEF IsPrim
<1>10. ASSUME \A x \in asked : Fil!Holds(x, p)
       PROVE  Fil!Match(filter, p)
  <2>1. filter.proto \in {"any", p.proto}
    <3>1. CASE filter.proto = "any"
      BY <3>1
    <3>2. ASSUME NEW x \in asked, <<"proto">> \in Fil!Sets(x)
          PROVE  filter.proto = p.proto
      <4>1. IsProto(x)
        BY <1>3, <3>2, PrimFields
      <4>2. QED BY <1>4, <1>10, <4>1
    <3>3. QED BY <1>3, <3>1, <3>2
  <2>2. ASSUME NEW f \in filter.flags
        PROVE  \E x \in asked : f \in FlagsOf(x) /\ IsPrim(x) /\ Fil!Holds(x, p)
    BY <1>3, <1>10
  <2>3. ASSUME NEW s \in Fil!Sides, <<s, "host">> \in filter.flags
        PROVE  filter.ip[s] \in {0, p.ip[s]}
    <3>1. PICK x \in asked : <<s, "host">> \in FlagsOf(x) /\ IsPrim(x) /\ Fil!Holds(x, p)
      BY <2>2, <2>3
    <3>2. IsPair(x, "host") \/ IsTriple(x, s, "host")
      BY <3>1, PrimFields
    <3>3. QED BY <1>6, <1>8, <3>1, <3>2
  <2>4. ASSUME <<"port">> \in filter.flags
        PROVE  \E s \in Fil!Sides : p.port[s] = filter.port[s]
    <3>1. PICK x \in asked : <<"port">> \in FlagsOf(x) /\ IsPrim(x) /\ Fil!Holds(x, p)
      BY <2>2, <2>4
    <3>2. QED BY <1>5, <3>1, PrimFields
  <2>5. ASSUME NEW s \in Fil!Sides, <<s, "port">> \in filter.flags
        PROVE  filter.port[s] \in {0, p.port[s]}
    <3>1. PICK x \in asked : <<s, "port">> \in FlagsOf(x) /\ IsPrim(x) /\ Fil!Holds(x, p)
      BY <2>2, <2>5
    <3>2. IsTriple(x, s, "port")
      BY <3>1, PrimFields
    <3>3. QED BY <1>7, <3>1, <3>2
  <2>6. QED BY <2>1, <2>3, <2>4, <2>5, Zenon DEF Fil!Match
<1>11. QED BY <1>9, <1>10

\* filter.c:48-154: for any tokens, whatever atoi and inet_addr make of them, and any
\* number of expressions, also of refused ones, a packet matches just if it fits every
\* primitive, as long as no two of them wrote to the same field.
THEOREM FilterIsMeant == Spec => []FilterMeans
BY FilInit, FilKept, FilMeans, PTL DEF Spec

-----------------------------------------------------------------------------
\* Every variable has its type: what the invariants above leave open.
Tops == {"tcp", "udp", "icmp", "arp", "ipv6", "unknown"}
Others == /\ writes \in Nat /\ there \subseteq Ifaces
          /\ ret \in {-1, 0} /\ info.top \in Tops

LEMMA OthersInit ==
    ASSUME Init
    PROVE  Others
<1>1. Pc!Init /\ Dis!Init /\ Ifs!Init
  BY Zenon DEF Init
<1>2. writes = 0 /\ there = Ifaces /\ ret = -1 /\ info = Dis!Nothing
  BY <1>1, Zenon DEF Pc!Init, Dis!Init, Ifs!Init
<1>3. Dis!Nothing.top = "unknown"
  BY DEF Dis!Nothing
<1>4. QED BY <1>2, <1>3 DEF Others, Tops

\* A frame is of one of the protocols.
LEMMA ParsedTop ==
    ASSUME NEW f \in AnyFrame
    PROVE  Dis!Parsed(f).top \in Tops
<1>1. \A fields, top, payload, left : Result(fields, top, payload, left).top = top
  BY DEF Result
<1>2. f.type \in {"ipv4", "arp", "ipv6", "unknown"}
  BY FrameNumbers
<1>3. CASE f.type # "ipv4" \/ ~Dis!IpFits(f.len - 14, f.ihl)
  <2>1. PICK top : top = IF f.type = "ipv4" THEN "unknown" ELSE f.type
    OBVIOUS
  <2>2. Dis!Parsed(f) = EthResult(top)
    BY <1>3, <2>1, ParsedEth, Zenon
  <2>3. EthResult(top).top = top
    BY DEF EthResult, Result
  <2>4. QED BY <1>2, <2>1, <2>2, <2>3 DEF Tops
<1>4. CASE f.type = "ipv4" /\ Dis!IpFits(f.len - 14, f.ihl)
  <2>1. PICK base \in Nat : base = 14 + 4 * f.ihl
    BY FrameNumbers
  <2>2. f.len - base \in Nat
        /\ Dis!Parsed(f) = Dis!Transport(f, base, f.len - base, IpResult("unknown"))
    BY <1>4, <2>1, ParsedIp
  <2>3. \/ Dis!Parsed(f) = FullResult(Dis!TcpFields, "tcp", base, 4 * f.doff, f.len)
        \/ Dis!Parsed(f) = FullResult(Dis!UdpFields, "udp", base, 8, f.len)
        \/ Dis!Parsed(f) = IpResult("icmp") \/ Dis!Parsed(f) = IpResult("unknown")
    BY <2>2, TransportIs
  <2>4. ASSUME NEW fields, NEW top, NEW size
        PROVE  FullResult(fields, top, base, size, f.len).top = top /\ IpResult(top).top = top
    BY DEF FullResult, IpResult, Result
  <2>5. QED BY <2>3, <2>4 DEF Tops
<1>5. QED BY <1>3, <1>4

LEMMA OthersKept ==
    ASSUME Others, [Next]_vars
    PROVE  Others'
<1>1. writes' \in Nat
  <2>1. writes' = writes \/ writes' = writes + 1 \/ writes' = 0
    BY Steps, Zenon DEF pcVars, Pc!Next, Pc!Write, Pc!Flush, Pc!Close, Pc!Reopen, Pc!Spill
  <2>2. QED BY <2>1 DEF Others
<1>2. there' \subseteq Ifaces
  <2>1. CASE UNCHANGED ifVars
    BY <2>1 DEF ifVars, Others
  <2>2. CASE Ifs!Next
    <3>1. PICK i \in Ifaces : there' \in {there, there \ {i}, there \cup {i}}
      <4>1. PICK i \in Ifaces : \/ Ifs!Pass(i) \/ Ifs!Vanish(i) \/ Ifs!Appear(i)
                                \/ \E slot \in Ifs!Slots : Ifs!Read(i, slot)
        BY <2>2, Zenon DEF Ifs!Next
      <4>2. there' = there \/ there' = there \ {i} \/ there' = there \cup {i}
        BY <4>1, Zenon DEF Ifs!Pass, Ifs!Vanish, Ifs!Appear, Ifs!Read
      <4>3. QED BY <4>2
    <3>2. QED BY <3>1 DEF Others
  <2>3. QED BY <2>1, <2>2, Steps
<1>3. ret' \in {-1, 0} /\ info'.top \in Tops
  <2>1. CASE UNCHANGED disVars
    BY <2>1 DEF disVars, Others
  <2>2. CASE Dis!Next
    <3>1. PICK f \in Dis!Frames : Dis!DissectPacket(f)
      BY <2>2, Zenon DEF Dis!Next
    <3>2. f \in AnyFrame
      BY Zenon DEF Dis!Frames, AnyFrame
    <3>3. /\ ret' = (IF Dis!Refused(f) THEN -1 ELSE 0)
          /\ info' = IF f.len < 14 THEN info ELSE Dis!Parsed(f)
      BY <3>1, Zenon DEF Dis!DissectPacket
    <3>4. ret' = -1 \/ ret' = 0
      BY <3>3, Zenon
    <3>5. info' = info \/ info' = Dis!Parsed(f)
      BY <3>3, Zenon
    <3>6. Dis!Parsed(f).top \in Tops
      BY <3>2, ParsedTop
    <3>7. QED BY <3>4, <3>5, <3>6 DEF Others
  <2>3. QED BY <2>1, <2>2, Steps
<1>4. QED BY <1>1, <1>2, <1>3 DEF Others

LEMMA PromTyped ==
    ASSUME PromInv
    PROVE  Prom!TypeOK
BY DEF PromInv, Prom!TypeOK

\* A window never holds more than its share.
LEMMA ThrTyped ==
    ASSUME ThrInv
    PROVE  Thr!TypeOK
<1>1. PICK e \in Nat : Shares(e)
  BY DEF ThrInv
<1>2. /\ <<max_pps, max_bps>> \in Limits /\ win_pkts \in Nat /\ win_bytes \in Nat
      /\ checked \in 0 .. MaxPerStep /\ admitted \in BOOLEAN
  BY DEF ThrInv, ThrTypes
<1>3. recent \in [1 .. Thr!Span -> [pkts : Nat, bytes : Nat]]
  BY Zenon DEF ThrInv, ThrTypes, Recent, Span
<1>4. Thr!WithinPkts(win_pkts)
  BY <1>1, Zenon DEF Shares, Fair, Thr!WithinPkts
<1>5. Thr!WithinBytes(win_bytes)
  BY <1>1, Zenon DEF Shares, Fair, Thr!WithinBytes
<1>6. {window_start, nsec} \subseteq 0 .. Thr!Second - 1 /\ secs \in 0 .. 2
  BY <1>1 DEF Shares, Aged
<1>7. QED BY <1>2, <1>3, <1>4, <1>5, <1>6, Zenon DEF Thr!TypeOK

LEMMA PcTyped ==
    ASSUME PcInv, Others
    PROVE  Pc!TypeOK
<1>1. /\ file \in Seq(Piece) /\ disk \in 0 .. Len(file)
      /\ {writing, io_failed} \subseteq BOOLEAN
      /\ saved \in Nat /\ accepted \in Nat /\ flushed \in Nat
  BY DEF PcInv, Holds
<1>2. {saved, writes, accepted, flushed} \subseteq Nat
  BY <1>1 DEF Others
<1>3. QED BY <1>1, <1>2, Zenon DEF Piece, Pc!TypeOK

LEMMA MainTyped ==
    ASSUME MainInv
    PROVE  Mn!TypeOK
<1>1. /\ phase \in {"options", "open", "signals", "loop", "next", "close", "done"}
      /\ status \in {"none", "success", "failure", "killed"}
      /\ reason \in {"none", "count", "signal", "error"}
      /\ running \in BOOLEAN /\ handle_open \in BOOLEAN
  BY Zenon DEF MainInv, MainOK, MainFlags
<1>2. count \in Int /\ snaplen \in Int /\ captured \in Nat /\ after \in Nat /\ printed = captured
  BY Zenon DEF MainInv, MainOK
<1>3. {count, snaplen} \subseteq Int /\ {captured, printed, after} \subseteq Nat
  BY <1>2
<1>4. QED BY <1>1, <1>3, Zenon DEF Mn!TypeOK

LEMMA OutTyped ==
    ASSUME OutInv
    PROVE  Out!TypeOK
BY DEF OutInv, InUse, Out!TypeOK, Out!NoHandle, Out!Null, Out!Stdout

LEMMA BpfTyped ==
    ASSUME BpfInv
    PROVE  Bpf!TypeOK
BY DEF BpfInv, Bpf!TypeOK

LEMMA IfsTyped ==
    ASSUME IfsInv, Others
    PROVE  Ifs!TypeOK
<1>1. ASSUME NEW s \in Ifs!Slots
      PROVE  snapshots[s] \in 0 .. Wrap - 1
  <2>1. PICK n \in Nat : n = was[s][3]
    BY DEF IfsInv
  <2>2. snapshots[s] = n % Wrap
    BY <2>1 DEF IfsInv
  <2>3. n % Wrap \in 0 .. Wrap - 1
    BY WrapType
  <2>4. QED BY <2>2, <2>3
<1>2. QED BY <1>1 DEF Others, Ifs!TypeOK

LEMMA MetTyped ==
    ASSUME MetInv
    PROVE  Met!TypeOK
<1>1. snap.value = 0 \/ Met!Valid(snap.value)
  BY Zenon DEF MetInv, SnapOK
<1>2. 1 <= cut.max_payload /\ cut.max_payload <= 65535
  BY DEF MetInv, CutOK, Payload
<1>3. QED BY <1>1, <1>2 DEF Met!TypeOK

LEMMA FilTyped ==
    ASSUME FilInv
    PROVE  Fil!TypeOK
<1>1. /\ filter.proto \in Fil!Protos \cup {"any"} /\ parse_ret \in {-1, 0}
      /\ \A s \in Fil!Sides : 0 <= filter.port[s] /\ filter.port[s] < 65536
      /\ asked \subseteq Seq(Tokens)
  BY DEF FilInv, FilTypes, FilAsked
<1>2. filter.flags \subseteq {<<"port">>} \cup (Fil!Sides \X {"port", "host"})
  <2>1. \A x \in asked : FlagsOf(x) \subseteq {<<"port">>} \cup Both("port") \cup Both("host")
    BY PrimFields DEF FilInv, FilAsked
  <2>2. filter.flags = UNION {FlagsOf(x) : x \in asked}
    BY Zenon DEF FilInv, FilAsked
  <2>3. Both("port") \cup Both("host") \subseteq Fil!Sides \X {"port", "host"}
    BY DEF Both
  <2>4. QED BY <2>1, <2>2, <2>3
<1>3. words \in {<<>>} \cup {<<w>> : w \in Fil!Sides \cup {"port", "host"}}
               \cup (Fil!Sides \X {"port", "host"})
  <2>1. CASE words = <<>>
    BY <2>1
  <2>2. CASE \E k \in Words : words = <<k>>
    BY <2>2, Zenon DEF Words
  <2>3. CASE \E s \in Fil!Sides : words = <<s>>
    BY <2>3, Zenon
  <2>4. CASE \E s \in Fil!Sides : \E k \in Words : words = <<s, k>>
    BY <2>4 DEF Words
  <2>5. FilWords
    BY Zenon DEF FilInv
  <2>6. QED BY <2>1, <2>2, <2>3, <2>4, <2>5, Zenon DEF FilWords
<1>4. QED BY <1>1, <1>2, <1>3 DEF Fil!TypeOK

\* Every variable keeps its type, a window of throttle.c never holds more than its share
\* (throttle.c:53-56), and a filter's words are those of a primitive that has begun.
THEOREM PathTyped == Spec => []TypeOK
<1> DEFINE IInv == /\ CapInv /\ PromInv /\ ThrInv /\ PcInv /\ MainInv /\ FilInv /\ OutInv
                   /\ BpfInv /\ IfsInv /\ MetInv /\ Others
<1>1. Init => IInv
  BY CapInit, PromInit, ThrInit, PcInit, MainInit, FilInit, OutInit, BpfInit, IfsInit,
     MetInit, OthersInit
<1>2. IInv /\ [Next]_vars => IInv'
  <2> SUFFICES ASSUME IInv, [Next]_vars PROVE IInv'
    OBVIOUS
  <2>1. CapInv' /\ PromInv' /\ MainInv' /\ OutInv' /\ BpfInv'
    BY CapStep, PromStep, MainStep, OutStep, BpfStep, Zenon
  <2>2. ThrInv' /\ PcInv' /\ FilInv' /\ IfsInv' /\ MetInv' /\ Others'
    BY ThrKept, PcKept, FilKept, IfsKept, MetKept, OthersKept, Zenon
  <2>3. QED BY <2>1, <2>2
<1>3. IInv => TypeOK
  <2> SUFFICES ASSUME IInv PROVE TypeOK
    OBVIOUS
  <2>1. Dis!TypeOK
    BY Zenon DEF Others, Tops, Dis!TypeOK
  <2>2. Cap!TypeOK /\ Prom!TypeOK /\ Thr!TypeOK /\ Pc!TypeOK /\ Mn!TypeOK
    BY CapImplied, PromTyped, ThrTyped, PcTyped, MainTyped, Zenon
  <2>3. Fil!TypeOK /\ Out!TypeOK /\ Bpf!TypeOK /\ Ifs!TypeOK /\ Met!TypeOK
    BY FilTyped, OutTyped, BpfTyped, IfsTyped, MetTyped, Zenon
  <2>4. QED BY <2>1, <2>2, <2>3, Zenon DEF TypeOK
<1>4. QED BY <1>1, <1>2, <1>3, PTL DEF Spec
=============================================================================
