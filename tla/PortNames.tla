----------------------------- MODULE PortNames -----------------------------
(***************************************************************************)
(* What portmap.c promises: a finite map from ports to names that may be   *)
(* full.                                                                   *)
(***************************************************************************)
EXTENDS Integers, FiniteSets

CONSTANTS Ports, Names, Capacity, Defaults

VARIABLES names,
          call   \* the latest call

vars == <<names, call>>

Init == names = Defaults /\ call = <<"init">>

Register(p, n) == /\ Cardinality(DOMAIN names) < Capacity
                  /\ names' = [q \in DOMAIN names \cup {p} |-> IF q = p THEN n ELSE names[q]]
                  /\ call' = <<"register", p, n>>

Remove(p) == /\ p \in DOMAIN names
             /\ names' = [q \in DOMAIN names \ {p} |-> names[q]]
             /\ call' = <<"remove", p>>

Clear == names' = <<>> /\ call' = <<"clear">>
Restart == names' = Defaults /\ call' = <<"init">>

Next == \/ \E p \in Ports, n \in Names : Register(p, n)
        \/ \E p \in Ports : Remove(p)
        \/ Clear
        \/ Restart

Spec == Init /\ [][Next]_vars
=============================================================================
