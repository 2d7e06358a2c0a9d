------------------------------ MODULE Promisc ------------------------------
(***************************************************************************)
(* src/promisc.c: the promiscuous flag of an interface, toggled by several *)
(* processes.  Each reads all flags of the interface and writes them back, *)
(* in two system calls; an administrator changes the others in between.    *)
(* A call that changes nothing, because the flag is believed to be as      *)
(* wanted or a system call failed, is left out; so are the sockets.        *)
(***************************************************************************)
EXTENDS Integers

CONSTANT Ctxs  \* promisc_ctx_t, one per process

VARIABLES flags,    \* kernel: the interface's flags, up and promisc
          ctx,      \* each context: was_promisc, enabled
          step,     \* "none", "ready", or the flags read are about to be written
          copy,     \* the flags read
          wanted,   \* the administrator's latest wish for up
          shared,   \* history: contexts whose flag another process wrote since
                    \* they read it
          torn      \* history: was a wish undone by flags read before it

promiscVars == <<flags, ctx, step, copy, wanted, shared, torn>>

Unset == [was |-> FALSE, enabled |-> FALSE]

Init == /\ flags \in [up : BOOLEAN, promisc : BOOLEAN]
        /\ ctx = [c \in Ctxs |-> Unset]
        /\ step = [c \in Ctxs |-> "none"]
        /\ copy = [c \in Ctxs |-> flags]
        /\ wanted = flags.up
        /\ shared = {} /\ torn = FALSE

\* Mutant of Found: the flag is taken to be off.
FoundOff == Unset

Found == [was |-> flags.promisc, enabled |-> flags.promisc]

\* promisc_init
Setup(c) == /\ step[c] = "none"
            /\ step' = [step EXCEPT ![c] = "ready"]
            /\ ctx' = [ctx EXCEPT ![c] = Found]
            /\ shared' = shared \ {c}
            /\ UNCHANGED <<flags, copy, wanted, torn>>

\* promisc_enable and promisc_disable, up to their get_flags.
Read(c, to) == /\ step[c] = "ready"
               /\ step' = [step EXCEPT ![c] = to]
               /\ copy' = [copy EXCEPT ![c] = flags]
               /\ UNCHANGED <<flags, ctx, wanted, shared, torn>>
Enable(c) == ~ctx[c].enabled /\ Read(c, "set")
Disable(c) == ctx[c].enabled /\ ~ctx[c].was /\ Read(c, "clear")

\* The rest of them: set_flags, and what it was believed to do.
Write(c) ==
    /\ step[c] \in {"set", "clear"}
    /\ step' = [step EXCEPT ![c] = "ready"]
    /\ LET on == step[c] = "set" IN
       \/ /\ flags' = [up |-> copy[c].up, promisc |-> on]
          /\ ctx' = [ctx EXCEPT ![c].enabled = on]
          /\ shared' = shared \cup (Ctxs \ {c})
          /\ torn' = (torn \/ copy[c].up # flags.up)
       \/ UNCHANGED <<flags, ctx, shared, torn>>  \* it fails
    /\ UNCHANGED <<copy, wanted>>

\* promisc_free, which leaves the flag as it is.
Release(c) == /\ step[c] = "ready"
              /\ step' = [step EXCEPT ![c] = "none"]
              /\ UNCHANGED <<flags, ctx, copy, wanted, shared, torn>>

Admin == /\ flags' = [flags EXCEPT !.up = ~@]
         /\ wanted' = ~flags.up /\ torn' = FALSE
         /\ UNCHANGED <<ctx, step, copy, shared>>

Next == \/ \E c \in Ctxs : Setup(c) \/ Enable(c) \/ Disable(c) \/ Write(c) \/ Release(c)
        \/ Admin

Spec == Init /\ [][Next]_promiscVars

-----------------------------------------------------------------------------
\* Every variable has its type.
TypeOK == /\ {flags} \cup {copy[c] : c \in Ctxs} \subseteq [up : BOOLEAN, promisc : BOOLEAN]
          /\ ctx \in [Ctxs -> [was : BOOLEAN, enabled : BOOLEAN]]
          /\ step \in [Ctxs -> {"none", "ready", "set", "clear"}]
          /\ wanted \in BOOLEAN /\ shared \subseteq Ctxs

\* A process that has the flag to itself knows it: enabled says how the
\* interface is, through failures of either system call, so that disabling
\* restores it (promisc.h:9-10, promisc.c:47-79); and the other flags are as
\* the administrator left them unless they were changed between the two calls.
FlagsKnown == /\ \A c \in Ctxs : step[c] # "none" /\ c \notin shared =>
                                    ctx[c].enabled = flags.promisc
              /\ ~torn => flags.up = wanted
=============================================================================
