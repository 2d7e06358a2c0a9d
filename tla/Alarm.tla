------------------------------- MODULE Alarm -------------------------------
(***************************************************************************)
(* src/alarm.c: rules that trigger when the packet rate reaches their      *)
(* threshold.  Names and levels are left out, and calls that fail.         *)
(***************************************************************************)
EXTENDS Integers, Sequences, FiniteSets, FiniteSetsExt

CONSTANTS Thresholds, Rates,
          Capacity,  \* the argument of alarm_init
          MaxEvals   \* bound on the evaluations since alarm_init

\* What the constants are.
AlarmAssumption == /\ Thresholds \subseteq Nat /\ Rates \subseteq Nat
                   /\ Capacity \in Nat /\ MaxEvals \in Nat

VARIABLES rules,     \* count of them
          capacity,  \* 0 once freed
          callback,  \* whether one is set
          rates,     \* history: rates evaluated since alarm_init
          calls      \* history: the calls of the callback: rule and rate number

alarmVars == <<rules, capacity, callback, rates, calls>>

Init == /\ rules = <<>> /\ capacity = Capacity /\ callback = FALSE
        /\ rates = <<>> /\ calls = {}

Free == /\ rules' = <<>> /\ capacity' = 0
        /\ rates' = <<>> /\ calls' = {}
        /\ UNCHANGED callback

\* alarm_init of a context that was freed.
Restart == /\ capacity = 0
           /\ rules' = <<>> /\ capacity' = Capacity /\ callback' = FALSE
           /\ rates' = <<>> /\ calls' = {}

\* history: since is the number of rates evaluated before the rule was added.
AddRule(threshold) ==
    /\ Len(rules) < capacity
    /\ rules' = Append(rules, [threshold |-> threshold, triggered |-> FALSE,
                               trigger_count |-> 0, since |-> Len(rates)])
    /\ UNCHANGED <<capacity, callback, rates, calls>>

SetCallback(set) == callback' = set /\ UNCHANGED <<rules, capacity, rates, calls>>

\* Mutant of Rises: a rule that stays triggered rises again.
RisesAgain(r, pps) == pps >= r.threshold

\* A rule that was not triggered and is now.
Rises(r, pps) == pps >= r.threshold /\ ~r.triggered

Evaluate(pps) ==
    /\ Len(rates) < MaxEvals
    /\ rates' = Append(rates, [pps |-> pps, heard |-> callback])
    /\ rules' = [i \in DOMAIN rules |->
                    [rules[i] EXCEPT !.triggered = pps >= rules[i].threshold,
                                     !.trigger_count = IF Rises(rules[i], pps) THEN @ + 1 ELSE @]]
    /\ calls' = IF callback
                THEN calls \cup {<<i, Len(rates) + 1>> : i \in {j \in DOMAIN rules : Rises(rules[j], pps)}}
                ELSE calls
    /\ UNCHANGED <<capacity, callback>>

Next == \/ Free \/ Restart
        \/ \E threshold \in Thresholds : AddRule(threshold)
        \/ \E set \in BOOLEAN : SetCallback(set)
        \/ \E pps \in Rates : Evaluate(pps)

Spec == Init /\ [][Next]_alarmVars

-----------------------------------------------------------------------------
\* Every variable has its type; the rules keep to the array allocated.
TypeOK == /\ rules \in Seq([threshold : Thresholds, triggered : BOOLEAN,
                            trigger_count : Nat, since : Nat])
          /\ Len(rules) <= capacity
          /\ callback \in BOOLEAN

High(r, i) == i > r.since /\ rates[i].pps >= r.threshold

\* The evaluations at which rule r went from below its threshold to it.
Crossings(r) == {i \in DOMAIN rates : High(r, i) /\ ~(i > 1 /\ High(r, i - 1))}

\* A rule counts each time the rate reached its threshold, from the first
\* evaluation after it was added, once for as long as the rate stays up, and
\* the callback is called at each of those if it is set then (alarm.c:51-65).
CrossingsCounted ==
    \A i \in DOMAIN rules :
        /\ rules[i].trigger_count = Cardinality(Crossings(rules[i]))
        /\ {c[2] : c \in {d \in calls : d[1] = i}} = {n \in Crossings(rules[i]) : rates[n].heard}
=============================================================================
