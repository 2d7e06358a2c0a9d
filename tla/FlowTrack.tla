----------------------------- MODULE FlowTrack -----------------------------
(***************************************************************************)
(* src/flowtrack.c: flows in a fixed table of slots.  flow_insert looks    *)
(* for no other entry of its key and flow_update trusts its pointer; the   *)
(* caller modelled is the one of the tests, which for every packet looks   *)
(* the flow up, inserts it if there is none, and updates what it got.      *)
(* Bytes and first_seen are left out, and packets a full table refuses.    *)
(***************************************************************************)
EXTENDS Integers, FiniteSets, FiniteSetsExt

CONSTANTS Flows, NoFlow,
          Size,      \* FLOW_TABLE_SIZE
          Timeouts,  \* arguments of flow_expire
          MaxTime, MaxPkts  \* bounds on the clock and on an entry's packets

\* What the constants are.
FlowTrackAssumption ==
    /\ NoFlow \notin Flows /\ Size \in Nat \ {0} /\ Timeouts \subseteq Nat
    /\ MaxTime \in Nat /\ MaxPkts \in Nat \ {0}

VARIABLES flows, flow_count,  \* flow_table_t
          now,                \* CLOCK_MONOTONIC, in seconds
          call                \* history: the latest call

flowVars == <<flows, flow_count, now, call>>

Slots == 1 .. Size
Zeroed == [key |-> NoFlow, pkt_count |-> 0, last_seen |-> 0, active |-> FALSE]

Init == /\ flows = [s \in Slots |-> Zeroed] /\ flow_count = 0 /\ now = 0
        /\ call = <<"init">>

Active == {s \in Slots : flows[s].active}

\* flow_lookup; the slots it finds, of which it returns the first.
Lookup(key) == {s \in Active : flows[s].key = key}

\* flow_insert; the slot it takes.
Inserted(key) == LET s == Min(Slots \ Active)
                 IN  [flows EXCEPT ![s] = [Zeroed EXCEPT !.key = key, !.active = TRUE,
                                                         !.last_seen = now]]

\* flow_update of slot s in table fs.
Updated(fs, s) == [fs EXCEPT ![s].pkt_count = @ + 1, ![s].last_seen = now]

Packet(key) ==
    \/ /\ Lookup(key) # {} /\ flows[Min(Lookup(key))].pkt_count < MaxPkts
       /\ flows' = Updated(flows, Min(Lookup(key)))
       /\ call' = <<"see", key>>
       /\ UNCHANGED <<flow_count, now>>
    \/ /\ Lookup(key) = {} /\ Active # Slots
       /\ flows' = Updated(Inserted(key), Min(Slots \ Active))
       /\ flow_count' = flow_count + 1
       /\ call' = <<"see", key>>
       /\ UNCHANGED now

Stale(timeout) == {s \in Active : now - flows[s].last_seen >= timeout}

\* flow_expire leaves the key and the counts of the entries it frees.
Expire(timeout) ==
    /\ flows' = [s \in Slots |-> IF s \in Stale(timeout)
                                 THEN [flows[s] EXCEPT !.active = FALSE] ELSE flows[s]]
    /\ flow_count' = flow_count - Cardinality(Stale(timeout))
    /\ call' = <<"expire", timeout>>
    /\ UNCHANGED now

Restart == /\ flows' = [s \in Slots |-> Zeroed] /\ flow_count' = 0 /\ call' = <<"init">>
           /\ UNCHANGED now

Tick == now < MaxTime /\ now' = now + 1 /\ UNCHANGED <<flows, flow_count, call>>

Next == \/ \E key \in Flows : Packet(key)
        \/ \E timeout \in Timeouts : Expire(timeout)
        \/ Restart
        \/ Tick

Spec == Init /\ [][Next]_flowVars

-----------------------------------------------------------------------------
\* Every variable has its type.
TypeOK == /\ flows \in [Slots -> [key : Flows \cup {NoFlow}, pkt_count : 0 .. MaxPkts,
                                  last_seen : 0 .. now, active : BOOLEAN]]
          /\ flow_count \in 0 .. Size

Known == [key \in {flows[s].key : s \in Active} |->
             LET s == Min(Lookup(key))
             IN  [pkts |-> flows[s].pkt_count, last |-> flows[s].last_seen]]

Map == INSTANCE Tracker WITH Keys <- Flows, Capacity <- Size, Ages <- Timeouts,
                             known <- Known, size <- flow_count

\* With that caller the slots, their stale leftovers included, are one map
\* from keys to flows (flowtrack.c:14-56): a flow has one entry, packets are
\* counted where they belong, and flow_count is the size of the map.
IsTracker == Map!Spec
=============================================================================
