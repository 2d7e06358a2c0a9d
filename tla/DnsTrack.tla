------------------------------ MODULE DnsTrack ------------------------------
(***************************************************************************)
(* src/dnstrack.c: DNS queries waiting for their response, in an unordered *)
(* array.  A response is matched by transaction number alone, and an       *)
(* answered query keeps its place until it expires.  The name, type and    *)
(* address of a query are left out, as are calls that fail.                *)
(***************************************************************************)
EXTENDS Integers, FiniteSets, FiniteSetsExt, SwapArray

CONSTANTS Txids,
          MaxEntries,  \* DNSTRACK_MAX_ENTRIES
          Ttl,         \* ttl_seconds
          MaxTime, MaxQueries  \* bounds on the clock and on the queries

\* What the constants are.
DnsTrackAssumption == MaxEntries \in Nat /\ Ttl \in Nat /\ MaxTime \in Nat /\ MaxQueries \in Nat

VARIABLES queries,     \* entries, count of them
          total_queries, total_responses, expired,
          now,         \* time(NULL)
          swept,       \* history: when the array was last swept
          answers      \* history: responses to queries no longer held

dnsVars == <<queries, total_queries, total_responses, expired, now, swept, answers>>

Init == /\ queries = <<>>
        /\ total_queries = 0 /\ total_responses = 0 /\ expired = 0
        /\ now = 0 /\ swept = 0 /\ answers = 0

AddQuery(txid) ==
    /\ Len(queries) < MaxEntries /\ total_queries < MaxQueries
    /\ queries' = Append(queries, [txid |-> txid, timestamp |-> now, answered |-> FALSE])
    /\ total_queries' = total_queries + 1
    /\ UNCHANGED <<total_responses, expired, now, swept, answers>>

\* Mutant of Waiting: a query may be answered twice.
WaitingAny(txid) == {i \in DOMAIN queries : queries[i].txid = txid}

Waiting(txid) == {i \in DOMAIN queries : queries[i].txid = txid /\ ~queries[i].answered}

MatchResponse(txid) ==
    /\ Waiting(txid) # {}
    /\ queries' = [queries EXCEPT ![Min(Waiting(txid))].answered = TRUE]
    /\ total_responses' = total_responses + 1
    /\ UNCHANGED <<total_queries, expired, now, swept, answers>>

Answered(S) == Cardinality({i \in S : queries[i].answered})
Stale == {i \in DOMAIN queries : now - queries[i].timestamp > Ttl}

Expire == /\ queries' = Sweep(queries, {queries[i] : i \in Stale})
          /\ expired' = expired + Len(queries) - Len(queries')
          /\ swept' = now
          /\ answers' = answers + Answered(Stale)
          /\ UNCHANGED <<total_queries, total_responses, now>>

Reset == /\ queries' = <<>>
         /\ total_queries' = 0 /\ total_responses' = 0 /\ expired' = 0
         /\ answers' = 0
         /\ UNCHANGED <<now, swept>>

Tick == /\ now < MaxTime /\ now' = now + 1
        /\ UNCHANGED <<queries, total_queries, total_responses, expired, swept, answers>>

Next == \/ \E txid \in Txids : AddQuery(txid) \/ MatchResponse(txid)
        \/ Expire
        \/ Reset
        \/ Tick

Spec == Init /\ [][Next]_dnsVars

-----------------------------------------------------------------------------
\* Every variable has its type.
TypeOK == /\ queries \in Seq([txid : Txids, timestamp : 0 .. now, answered : BOOLEAN])
          /\ Len(queries) <= MaxEntries
          /\ {total_queries, total_responses, expired} \subseteq Nat

\* Queries are held or expired, each response answered a query of its own, and
\* no query outlives a sweep past its time, whatever the swaps of the sweep
\* (dnstrack.c:64-72) did to the order of the array.
QueriesAccounted ==
    /\ total_queries = Len(queries) + expired
    /\ total_responses = Answered(DOMAIN queries) + answers
    /\ \A i \in DOMAIN queries : swept - queries[i].timestamp <= Ttl
=============================================================================
