------------------------------ MODULE BpfWrap ------------------------------
(***************************************************************************)
(* src/bpf_wrap.c: filters compiled by libpcap, and the error text that    *)
(* each thread has of its own.  What a program matches is libpcap's; the   *)
(* text kept for bpf_wrap_expr is left out.                                *)
(***************************************************************************)
EXTENDS Integers, FiniteSets

CONSTANTS Threads, Blocks  \* the threads, and the blocks calloc has

VARIABLES bpf_errbuf,  \* each thread's last error
          heap,        \* blocks in use
          compiled,    \* blocks whose compiled flag is set
          progs,       \* blocks whose program libpcap has allocated
          owned,       \* history: the handles callers have
          failed       \* history: each thread's last failure

Init == /\ bpf_errbuf = [t \in Threads |-> "none"] /\ failed = [t \in Threads |-> "none"]
        /\ heap = {} /\ compiled = {} /\ progs = {} /\ owned = {}

\* Mutant of Told: one buffer for all threads.
ToldAll(t, error) == [u \in Threads |-> error]

Told(t, error) == [bpf_errbuf EXCEPT ![t] = error]

Fails(t, error) == bpf_errbuf' = Told(t, error) /\ failed' = [failed EXCEPT ![t] = error]

\* A NULL or too long expression, a length of zero or less, or no memory; bpf_wrap_match
\* without a filter or a packet fails alike, and changes nothing else.
Refuse(t) == /\ \E error \in {"invalid arguments", "too long", "out of memory",
                              "invalid handle or packet"} : Fails(t, error)
             /\ UNCHANGED <<heap, compiled, progs, owned>>

\* libpcap refuses the expression: the block it was kept in is freed again.
CompileFails(t, b) == /\ b \notin heap
                      /\ Fails(t, "compile failed")
                      /\ UNCHANGED <<heap, compiled, progs, owned>>

Compile(t, b) == /\ b \notin heap
                 /\ heap' = heap \cup {b} /\ progs' = progs \cup {b}
                 /\ compiled' = compiled \cup {b} /\ owned' = owned \cup {b}
                 /\ UNCHANGED <<bpf_errbuf, failed>>

\* bpf_wrap_free: any thread may free, the caller has the handle no more.
Free(b) == /\ b \in owned /\ owned' = owned \ {b}
           /\ progs' = IF b \in compiled THEN progs \ {b} ELSE progs
           /\ heap' = heap \ {b} /\ compiled' = compiled \ {b}
           /\ UNCHANGED <<bpf_errbuf, failed>>

Next == \/ \E t \in Threads : Refuse(t) \/ \E b \in Blocks : CompileFails(t, b) \/ Compile(t, b)
        \/ \E b \in Blocks : Free(b)

-----------------------------------------------------------------------------
TypeOK == heap \cup compiled \cup progs \cup owned \subseteq Blocks

\* bpf_wrap.c:18-85.  Blocks and programs are just those of the handles callers
\* have, however a compilation ends, and a thread reads the error of its own
\* last failure whatever other threads did since.
BpfOwned == heap = owned /\ progs = owned /\ compiled = owned /\ bpf_errbuf = failed
=============================================================================
