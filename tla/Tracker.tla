------------------------------ MODULE Tracker ------------------------------
(***************************************************************************)
(* What the slot tables of flowtrack.c and mactrack.c promise, slots aside: *)
(* a finite map from keys to packet counts and times, with a size, which    *)
(* every call changes where it says.                                      *)
(***************************************************************************)
EXTENDS Integers, FiniteSets

CONSTANTS Keys, Capacity,
          Ages     \* an entry this old is swept

VARIABLES known, size, now,
          call  \* the latest call

vars == <<known, size, now, call>>

Init == known = <<>> /\ size = 0 /\ now = 0 /\ call = <<"init">>

Sized == size' = Cardinality(DOMAIN known')

Seen(pkts) == [pkts |-> pkts, last |-> now]

See(k) == /\ \/ /\ k \in DOMAIN known
                /\ known' = [known EXCEPT ![k] = Seen(@.pkts + 1)]
             \/ /\ k \notin DOMAIN known /\ size < Capacity
                /\ known' = [q \in DOMAIN known \cup {k} |-> IF q = k THEN Seen(1) ELSE known[q]]
          /\ Sized /\ call' = <<"see", k>>
          /\ UNCHANGED now

Forget(S) == /\ known' = [k \in DOMAIN known \ S |-> known[k]]
             /\ Sized
             /\ UNCHANGED now

Old(age) == {k \in DOMAIN known : now - known[k].last >= age}

Expire(age) == Forget(Old(age)) /\ call' = <<"expire", age>>
Restart == Forget(Keys) /\ call' = <<"init">>

Tick == now' = now + 1 /\ UNCHANGED <<known, size, call>>

Next == \/ \E k \in Keys : See(k)
        \/ \E age \in Ages : Expire(age)
        \/ Restart
        \/ Tick

Spec == Init /\ [][Next]_vars
=============================================================================
