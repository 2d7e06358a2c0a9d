------------------------------ MODULE Conntrack ------------------------------
(***************************************************************************)
(* src/conntrack.c: the connection table, open addressing with linear      *)
(* probing.  Idle connections are marked CLOSED in place; a slot that is   *)
(* CLOSED or was never used takes the next new connection that probes it.  *)
(* Bytes are counted exactly as packets are and are left out, as are calls *)
(* that change nothing: NULL arguments and an update of a full table.      *)
(***************************************************************************)
EXTENDS Integers, FiniteSets, FiniteSetsExt

CONSTANTS Keys,      \* conn_key_t: addresses, ports and protocol
          NoKey,     \* the zeroed key of a slot never used
          Size,      \* max_entries
          Hash,      \* conn_hash, the home slot of each key
          Timeouts,  \* what callers pass to conntrack_expire, in seconds
          MaxTime,   \* bound on the clock
          MaxUpdates \* bound on the packets accepted

Slots == 0 .. Size - 1
Dirs == {"fwd", "rev"}

ASSUME ConntrackAssumption == /\ Size \in Nat \ {0}
                              /\ Hash \in [Keys -> Slots]
                              /\ NoKey \notin Keys
                              /\ Timeouts \subseteq Nat
                              /\ MaxTime \in Nat \ {0}
                              /\ MaxUpdates \in Nat

VARIABLES entries,   \* the array of conn_entry_t
          count,     \* what conntrack_count returns
          now,       \* time(NULL), assumed not to go back
          accepted,  \* history: packets recorded, per direction
          retired,   \* history: of those, the ones in entries since expired
          latest     \* history: when a packet of each key was last recorded

vars == <<entries, count, now, accepted, retired, latest>>

Nothing == [d \in Dirs |-> 0]
Unused == [key |-> NoKey, state |-> "new", first |-> 0, last |-> 0, pkts |-> Nothing]

Init == /\ entries = [s \in Slots |-> Unused]
        /\ count = 0
        /\ now = 1
        /\ accepted = Nothing /\ retired = Nothing
        /\ latest = [k \in Keys |-> 0]

Closed(e) == e.state = "closed"

\* Mutant of Vacant: a closed slot is not reused.
VacantOnlyUnused(e) == e.state = "new" /\ e.first = 0

\* conntrack.c:49-51: a slot that takes a new connection.
Vacant(e) == Closed(e) \/ (e.state = "new" /\ e.first = 0)

\* conntrack.c:93, 113: a slot that expiry and the dump look at.
Active(e) == e.first # 0 /\ ~Closed(e)

\* How many probes after its home slot a key reaches slot s.
Dist(k, s) == (s - Hash[k] + Size) % Size

\* The first slot of S that the probes for k reach.
FirstProbed(k, S) == CHOOSE s \in S : \A t \in S : Dist(k, s) <= Dist(k, t)

\* The slots that would end the probe loop of conntrack_update.
Stops(k) == {s \in Slots : Vacant(entries[s]) \/ entries[s].key = k}

Fresh(k, d) == [key |-> k, state |-> "new", first |-> now, last |-> now,
                pkts |-> [Nothing EXCEPT ![d] = 1]]

\* Mutants of Again: the reverse packets are counted as forward ones; the
\* entry keeps its old time.
AgainForward(e, d) == [e EXCEPT !.last = now, !.state = "established", !.pkts["fwd"] = @ + 1]
AgainStale(e, d) == [e EXCEPT !.state = "established", !.pkts[d] = @ + 1]

Again(e, d) == [e EXCEPT !.last = now, !.state = "established",
                       !.pkts = [e.pkts EXCEPT ![d] = @ + 1]]

\* Mutant of Counted: taking over a closed slot forgets to count it.
CountedFirst(s) == IF Closed(entries[s]) THEN count ELSE count + 1

\* The number of entries once slot s is taken.
Counted(s) == count + 1

Update(k, d) ==
    /\ accepted["fwd"] + accepted["rev"] < MaxUpdates
    /\ Stops(k) # {}
    /\ LET s == FirstProbed(k, Stops(k)) IN
       IF Vacant(entries[s])
       THEN /\ entries' = [entries EXCEPT ![s] = Fresh(k, d)]
            /\ count' = Counted(s)
       ELSE /\ entries' = [entries EXCEPT ![s] = Again(@, d)]
            /\ UNCHANGED count
    /\ accepted' = [accepted EXCEPT ![d] = @ + 1]
    /\ latest' = [latest EXCEPT ![k] = now]
    /\ UNCHANGED <<now, retired>>

Stale(t) == {s \in Slots : Active(entries[s]) /\ now - entries[s].last >= t}

Packets(S, d) == SumFunctionOnSet([s \in Slots |-> entries[s].pkts[d]], S)

Expire(t) ==
    /\ entries' = [s \in Slots |-> IF s \in Stale(t)
                                   THEN [entries[s] EXCEPT !.state = "closed"]
                                   ELSE entries[s]]
    /\ count' = count - Cardinality(Stale(t))
    /\ retired' = [d \in Dirs |-> retired[d] + Packets(Stale(t), d)]
    /\ UNCHANGED <<now, accepted, latest>>

\* conntrack_free, then conntrack_init for a new table.
Restart == /\ entries' = [s \in Slots |-> Unused]
           /\ count' = 0
           /\ accepted' = Nothing /\ retired' = Nothing
           /\ latest' = [k \in Keys |-> 0]
           /\ UNCHANGED now

Tick == /\ now < MaxTime
        /\ now' = now + 1
        /\ UNCHANGED <<entries, count, accepted, retired, latest>>

Next == \/ \E k \in Keys, d \in Dirs : Update(k, d)
        \/ \E t \in Timeouts : Expire(t)
        \/ Restart
        \/ Tick

Spec == Init /\ [][Next]_vars

\* conntrack_lookup: the slots its probe loop accepts, CLOSED ones too, and
\* the slot it returns when there is one.
Matches(k) == {s \in Slots : entries[s].first # 0 /\ entries[s].key = k}
Lookup(k) == FirstProbed(k, Matches(k))

-----------------------------------------------------------------------------
Live == {s \in Slots : Active(entries[s])}

Entry == [key : Keys \cup {NoKey}, state : {"new", "established", "closed"},
          first : Nat, last : Nat, pkts : [Dirs -> Nat]]

\* Every variable has its type.
TypeOK == /\ entries \in [Slots -> Entry]
          /\ count \in Nat
          /\ now \in Nat \ {0}
          /\ accepted \in [Dirs -> Nat] /\ retired \in [Dirs -> Nat]
          /\ latest \in [Keys -> Nat]

\* The counter kept by hand by conntrack_update and conntrack_expire
\* (conntrack.c:60, 96) is the number of active entries, through any number
\* of slots taken over, closed and taken over again.
CountIsLive == count = Cardinality(Live)

\* conntrack_lookup (conntrack.c:81) accepts CLOSED entries, and a key may have
\* several entries.  It still never hides a live connection behind an expired
\* or an older one: what it returns is live and holds the last packet.
LookupIsLatest ==
    \A k \in Keys : (\E s \in Live : entries[s].key = k) =>
        /\ Lookup(k) \in Live
        /\ entries[Lookup(k)].last = latest[k]

\* Every packet accepted is counted in its direction by exactly one entry
\* until that entry expires, though slots are overwritten in place.
Conservation ==
    \A d \in Dirs : accepted[d] = retired[d] + Packets(Live, d)

\* conntrack_count is the number of active connections, as the dump prints
\* it ("active=%d", conntrack.c:110) and tests/test_conntrack.c:66 expects:
\* no connection is entered twice.
CountIsConnections ==
    count = Cardinality({entries[s].key : s \in Live})
=============================================================================
