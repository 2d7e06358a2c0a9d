--------------------------- MODULE Tables_proofs ---------------------------
(***************************************************************************)
(* Proofs about Tables: tables of any size, any keys, any sequence of      *)
(* calls.                                                                  *)
(***************************************************************************)
EXTENDS Tables, TableLemmas

\* The clock stands or goes on by one, whichever table runs.
LEMMA Clock == [Next]_vars => now' = now \/ now' = now + 1
<1> SUFFICES ASSUME [Next]_vars PROVE now' = now \/ now' = now + 1
  OBVIOUS
<1>1. CASE Mac!Next
  BY <1>1 DEF Mac!Next, Mac!Update, Mac!Expire, Mac!Reset, Mac!Tick
<1>2. CASE Flow!Next
  BY <1>2 DEF Flow!Next, Flow!Packet, Flow!Expire, Flow!Restart, Flow!Tick
<1>3. CASE Ses!Next
  BY <1>3 DEF Ses!Next, Ses!Packet, Ses!Expire, Ses!Restart, Ses!Tick
<1>4. CASE Dns!Next
  BY <1>4 DEF Dns!Next, Dns!AddQuery, Dns!MatchResponse, Dns!Expire, Dns!Reset, Dns!Tick
<1>5. CASE UNCHANGED now
  BY <1>5
<1>6. QED BY <1>1, <1>2, <1>3, <1>4, <1>5 DEF Next, Only, vars

-----------------------------------------------------------------------------
\* dnstrack.c, with the names it takes from the library.
LEMMA DnsOps ==
    /\ \A es, stale : Dns!Sweep(es, stale) = Sweep(es, stale)
    /\ \A S : Dns!Min(S) = Min(S) /\ Dns!Cardinality(S) = Cardinality(S)
<1>1. \A es, stale : Dns!Sweep(es, stale) = Sweep(es, stale)
  BY Zenon DEF Dns!Sweep, Sweep, Dns!SwapOut, SwapOut, Dns!Front, Front, Dns!ReplaceAt,
               ReplaceAt, Dns!Last, Last
<1>2. \A S : Dns!Min(S) = Min(S) /\ Dns!Cardinality(S) = Cardinality(S)
  BY DEF Dns!Min, Min, Dns!Cardinality, Cardinality
<1>3. QED BY <1>1, <1>2

Query == [txid : Txids, timestamp : Nat, answered : BOOLEAN]
AnsweredOnes == {q \in Query : q.answered}

\* The inductive invariant of dnstrack.c: the books balance, and what is held
\* was not too old at the last sweep.
DnsInv ==
    /\ queries \in Seq(Query) /\ Len(queries) <= DnsMax
    /\ total_queries \in Nat /\ total_responses \in Nat /\ expired \in Nat /\ answers \in Nat
    /\ swept \in Nat /\ now \in Nat /\ swept <= now
    /\ total_queries = Len(queries) + expired
    /\ total_responses = Cardinality(Kind(queries, AnsweredOnes)) + answers
    /\ \A i \in DOMAIN queries : /\ queries[i].timestamp <= now
                                 /\ swept - queries[i].timestamp <= DnsTtl

LEMMA DnsInit == Init => DnsInv
<1> SUFFICES ASSUME Init PROVE DnsInv
  OBVIOUS
<1>1. /\ queries = <<>> /\ total_queries = 0 /\ total_responses = 0 /\ expired = 0
      /\ now = 0 /\ swept = 0 /\ answers = 0
  BY DEF Init, Dns!Init
<1>2. Cardinality(Kind(<<>>, AnsweredOnes)) = 0
  BY FS_EmptySet DEF Kind
<1>3. DnsMax \in Nat
  BY TablesAssumption, Zenon DEF Dns!DnsTrackAssumption
<1>4. QED BY <1>1, <1>2, <1>3 DEF DnsInv

LEMMA DnsAdd ==
    ASSUME DnsInv, NEW txid \in Txids, Dns!AddQuery(txid)
    PROVE  DnsInv'
<1>1. PICK q, r : q = [txid |-> txid, timestamp |-> now, answered |-> FALSE] /\ r = Append(queries, q)
  OBVIOUS
<1>2. /\ Len(queries) < DnsMax /\ queries' = r /\ total_queries' = total_queries + 1
      /\ UNCHANGED <<total_responses, expired, now, swept, answers>>
  BY <1>1 DEF Dns!AddQuery
<1>3. q \in Query /\ q.answered = FALSE /\ q.timestamp = now /\ now \in Nat
  BY <1>1 DEF DnsInv, Query
<1>4. PICK n \in Nat : n = Len(queries) /\ DOMAIN queries = 1 .. n /\ queries \in Seq(Query)
  BY DEF DnsInv
<1>5. /\ r \in Seq(Query) /\ Len(r) = n + 1 /\ DOMAIN r = 1 .. n + 1 /\ r[n + 1] = q
      /\ \A i \in 1 .. n : r[i] = queries[i]
  BY <1>1, <1>3, <1>4
<1>6. Kind(r, AnsweredOnes) = Kind(queries, AnsweredOnes)
  BY <1>3, <1>4, <1>5 DEF Kind, AnsweredOnes
<1>7. DnsTtl \in Nat /\ DnsMax \in Nat
  BY TablesAssumption, Zenon DEF Dns!DnsTrackAssumption
<1>8. \A i \in DOMAIN r : r[i].timestamp <= now /\ swept - r[i].timestamp <= DnsTtl
  <2>1. swept <= now /\ swept \in Nat /\ now \in Nat
    BY DEF DnsInv
  <2>2. swept - now <= DnsTtl
    BY <1>7, <2>1
  <2>3. \A i \in 1 .. n : queries[i].timestamp <= now /\ swept - queries[i].timestamp <= DnsTtl
    BY <1>4 DEF DnsInv
  <2>4. QED BY <1>3, <1>4, <1>5, <2>2, <2>3
<1>9. total_queries' \in Nat /\ total_queries' = Len(r) + expired
  BY <1>2, <1>4, <1>5 DEF DnsInv
<1>10. Len(r) <= DnsMax
  BY <1>2, <1>4, <1>5, <1>7
<1>11. QED BY <1>2, <1>5, <1>6, <1>8, <1>9, <1>10 DEF DnsInv

LEMMA DnsMatch ==
    ASSUME DnsInv, NEW txid \in Txids, Dns!MatchResponse(txid)
    PROVE  DnsInv'
<1>0. queries \in Seq(Query) /\ Len(queries) \in Nat /\ DOMAIN queries = 1 .. Len(queries)
  BY DEF DnsInv
<1>1. PICK i : i = Dns!Min(Dns!Waiting(txid))
  OBVIOUS
<1>2. i \in DOMAIN queries /\ ~queries[i].answered
  <2>1. Dns!Waiting(txid) \in SUBSET Nat /\ Dns!Waiting(txid) # {}
    BY <1>0 DEF Dns!Waiting, Dns!MatchResponse
  <2>2. i \in Dns!Waiting(txid)
    BY <1>1, <2>1, MinIsIn, DnsOps
  <2>3. QED BY <2>2 DEF Dns!Waiting
<1>3. PICK q : q = [queries[i] EXCEPT !.answered = TRUE]
  OBVIOUS
<1>4. q \in Query /\ q.answered = TRUE /\ q.timestamp = queries[i].timestamp /\ queries[i] \in Query
  <2>1. queries[i] \in Query
    BY <1>0, <1>2
  <2>2. QED BY <1>3, <2>1 DEF Query
<1>5. PICK r : r = [queries EXCEPT ![i] = q]
  OBVIOUS
<1>6. /\ r \in Seq(Query) /\ Len(r) = Len(queries) /\ DOMAIN r = DOMAIN queries
      /\ \A j \in DOMAIN queries : r[j] = IF j = i THEN q ELSE queries[j]
  BY <1>0, <1>2, <1>4, <1>5
<1>7. /\ queries' = r /\ total_responses' = total_responses + 1
      /\ UNCHANGED <<total_queries, expired, now, swept, answers>>
  BY <1>0, <1>1, <1>2, <1>3, <1>5 DEF Dns!MatchResponse
<1>8. Kind(r, AnsweredOnes) = Kind(queries, AnsweredOnes) \cup {i} /\ i \notin Kind(queries, AnsweredOnes)
  BY <1>2, <1>4, <1>6 DEF Kind, AnsweredOnes
<1>9. /\ Cardinality(Kind(r, AnsweredOnes)) = Cardinality(Kind(queries, AnsweredOnes)) + 1
      /\ Cardinality(Kind(queries, AnsweredOnes)) \in Nat
  <2>1. IsFiniteSet(Kind(queries, AnsweredOnes)) /\ Cardinality(Kind(queries, AnsweredOnes)) \in Nat
    BY <1>0, Indices
  <2>2. QED BY <1>8, <2>1, FS_AddElement
<1>10. total_responses' \in Nat /\ total_responses' = Cardinality(Kind(r, AnsweredOnes)) + answers
  <2>1. PICK x : x = Cardinality(Kind(queries, AnsweredOnes))
    OBVIOUS
  <2>2. x \in Nat /\ total_responses = x + answers /\ answers \in Nat
    BY <1>9, <2>1 DEF DnsInv
  <2>3. QED BY <1>7, <1>9, <2>1, <2>2
<1>11. \A j \in DOMAIN r : r[j].timestamp = queries[j].timestamp
  BY <1>4, <1>6
<1>12. QED BY <1>6, <1>7, <1>10, <1>11 DEF DnsInv

\* dnstrack_expire: a sweep leaves what is not too old.
LEMMA DnsExpire ==
    ASSUME DnsInv, Dns!Expire
    PROVE  DnsInv'
<1>0. /\ queries \in Seq(Query) /\ Len(queries) \in Nat /\ DOMAIN queries = 1 .. Len(queries)
      /\ now \in Nat
  BY DEF DnsInv
<1>1. PICK A : A = {queries[i] : i \in Dns!Stale}
  OBVIOUS
<1>2. PICK r : r = Sweep(queries, A)
  OBVIOUS
<1>3. /\ r \in Seq(Query) /\ Len(r) = Len(queries) - Cardinality(Kind(queries, A))
      /\ ToSet(r) = ToSet(queries) \ A
      /\ Cardinality(Kind(r, AnsweredOnes)) = Cardinality(Kind(queries, AnsweredOnes \ A))
  BY <1>0, <1>2, SweepFrees
<1>4. PICK Stale : Stale = Dns!Stale
  OBVIOUS
<1>5. Stale = {i \in DOMAIN queries : now - queries[i].timestamp > DnsTtl}
  BY <1>4 DEF Dns!Stale
<1>6. Kind(queries, A) = Stale
  BY <1>1, <1>4, <1>5 DEF Kind
<1>7. /\ queries' = r /\ expired' = expired + Len(queries) - Len(r) /\ swept' = now
      /\ answers' = answers + Cardinality({i \in Stale : queries[i].answered})
      /\ UNCHANGED <<total_queries, total_responses, now>>
  BY <1>1, <1>2, <1>4, DnsOps DEF Dns!Expire, Dns!Answered
<1>8. PICK K, F, G : /\ K = Kind(queries, AnsweredOnes) /\ F = {i \in Stale : queries[i].answered}
                     /\ G = Kind(queries, AnsweredOnes \ A)
  OBVIOUS
<1>9. \A i \in DOMAIN queries : queries[i] \in Query
  BY <1>0
<1>10. F = K \cap Stale /\ G = K \ Stale
  <2>1. \A i \in DOMAIN queries : queries[i] \in A <=> i \in Stale
    BY <1>6 DEF Kind
  <2>2. QED BY <1>5, <1>8, <1>9, <2>1 DEF Kind, AnsweredOnes
<1>11. /\ IsFiniteSet(K) /\ Cardinality(K) \in Nat /\ Cardinality(G) \in Nat
       /\ IsFiniteSet(F) /\ Cardinality(F) \in Nat
  <2>1. IsFiniteSet(K) /\ Cardinality(K) \in Nat /\ Cardinality(G) \in Nat
    BY <1>0, <1>8, Indices
  <2>2. F \in SUBSET K
    BY <1>10
  <2>3. QED BY <2>1, <2>2, FS_Subset, FS_CardinalityType
<1>12. Cardinality(G) = Cardinality(K) - Cardinality(F)
  BY <1>10, <1>11, FS_Difference
<1>13. total_responses' = Cardinality(Kind(r, AnsweredOnes)) + answers' /\ answers' \in Nat
  <2>1. PICK k, f, g : k = Cardinality(K) /\ f = Cardinality(F) /\ g = Cardinality(G)
    OBVIOUS
  <2>2. /\ k \in Nat /\ f \in Nat /\ g \in Nat /\ g = k - f /\ answers \in Nat
        /\ total_responses = k + answers
    BY <1>8, <1>11, <1>12, <2>1 DEF DnsInv
  <2>3. Cardinality(Kind(r, AnsweredOnes)) = g /\ answers' = answers + f /\ total_responses' = total_responses
    BY <1>3, <1>7, <1>8, <2>1
  <2>4. QED BY <2>2, <2>3
<1>14. total_queries' = Len(r) + expired' /\ expired' \in Nat /\ Len(r) <= DnsMax
  <2>1. DnsMax \in Nat
    BY TablesAssumption, Zenon DEF Dns!DnsTrackAssumption
  <2>2. Cardinality(Kind(queries, A)) \in Nat /\ Len(r) \in Nat
    BY <1>0, <1>3, Indices
  <2>3. total_queries = Len(queries) + expired /\ expired \in Nat /\ Len(queries) <= DnsMax
    BY DEF DnsInv
  <2>4. Len(r) <= Len(queries)
    BY <1>0, <1>3, <2>2
  <2>5. QED BY <1>0, <1>7, <2>1, <2>2, <2>3, <2>4
<1>15. ASSUME NEW j \in DOMAIN r
       PROVE  r[j].timestamp <= now /\ now - r[j].timestamp <= DnsTtl
  <2>1. r[j] \in ToSet(queries) \ A
    BY <1>3 DEF ToSet
  <2>2. PICK i \in DOMAIN queries : r[j] = queries[i] /\ i \notin Stale
    BY <1>1, <1>4, <2>1 DEF ToSet
  <2>3. queries[i].timestamp \in Nat /\ queries[i].timestamp <= now
    BY <1>9 DEF Query, DnsInv
  <2>4. DnsTtl \in Nat
    BY TablesAssumption, Zenon DEF Dns!DnsTrackAssumption
  <2>5. QED BY <1>0, <1>5, <2>2, <2>3, <2>4
<1>16. QED BY <1>0, <1>3, <1>7, <1>13, <1>14, <1>15 DEF DnsInv

LEMMA DnsStep == DnsInv /\ [Next]_vars => DnsInv'
<1> SUFFICES ASSUME DnsInv, [Next]_vars PROVE DnsInv'
  OBVIOUS
<1>1. CASE Dns!Reset
  <2>1. /\ queries' = <<>> /\ total_queries' = 0 /\ total_responses' = 0 /\ expired' = 0
        /\ answers' = 0 /\ now' = now /\ swept' = swept
    BY <1>1 DEF Dns!Reset
  <2>2. Cardinality(Kind(<<>>, AnsweredOnes)) = 0
    BY FS_EmptySet DEF Kind
  <2>3. DnsMax \in Nat
    BY TablesAssumption, Zenon DEF Dns!DnsTrackAssumption
  <2>4. QED BY <2>1, <2>2, <2>3 DEF DnsInv
<1>2. CASE UNCHANGED dnsVars
  <2>1. now' \in Nat /\ now <= now' /\ now \in Nat
    BY Clock DEF DnsInv
  <2>2. /\ queries' = queries /\ total_queries' = total_queries /\ total_responses' = total_responses
        /\ expired' = expired /\ swept' = swept /\ answers' = answers
    BY <1>2 DEF dnsVars
  <2>3. \A i \in DOMAIN queries : queries[i].timestamp \in Nat
    <3>1. \A i \in DOMAIN queries : queries[i] \in Query
      BY DEF DnsInv
    <3>2. \A q \in Query : q.timestamp \in Nat
      BY DEF Query
    <3>3. QED BY <3>1, <3>2
  <2>4. \A i \in DOMAIN queries : queries[i].timestamp <= now'
    BY <2>1, <2>3 DEF DnsInv
  <2>5. QED BY <2>1, <2>2, <2>4 DEF DnsInv
<1>3. CASE Dns!Tick
  <2>1. UNCHANGED dnsVars
    BY <1>3 DEF Dns!Tick, dnsVars
  <2>2. QED BY <1>2, <2>1
<1>4. CASE Dns!Next
  BY <1>1, <1>3, <1>4, DnsAdd, DnsMatch, DnsExpire DEF Dns!Next
<1>5. QED BY <1>2, <1>4 DEF Next, Only, vars

\* What the invariant says of the queries.
LEMMA DnsImplied == DnsInv => Dns!TypeOK /\ Dns!QueriesAccounted
<1> SUFFICES ASSUME DnsInv PROVE Dns!TypeOK /\ Dns!QueriesAccounted
  OBVIOUS
<1>1. queries \in Seq(Query) /\ \A i \in DOMAIN queries : queries[i] \in Query /\ queries[i].timestamp <= now
  BY DEF DnsInv
<1>2. PICK T : T = [txid : Txids, timestamp : 0 .. now, answered : BOOLEAN]
  OBVIOUS
<1>3. \A i \in DOMAIN queries : queries[i] \in T
  BY <1>1, <1>2 DEF Query, DnsInv
<1>4. queries \in Seq(T)
  BY <1>1, <1>3
<1>5. Dns!TypeOK
  BY <1>2, <1>4 DEF Dns!TypeOK, DnsInv
<1>6. Dns!Answered(DOMAIN queries) = Cardinality(Kind(queries, AnsweredOnes))
  <2>1. {i \in DOMAIN queries : queries[i].answered} = Kind(queries, AnsweredOnes)
    BY <1>1 DEF Kind, AnsweredOnes
  <2>2. QED BY <2>1, DnsOps DEF Dns!Answered
<1>7. Dns!QueriesAccounted
  BY <1>6 DEF Dns!QueriesAccounted, DnsInv
<1>8. QED BY <1>5, <1>7

-----------------------------------------------------------------------------
\* session.c
LEMMA SesOps == \A S : Ses!Cardinality(S) = Cardinality(S)
BY DEF Ses!Cardinality, Cardinality

\* Two keys of one conversation have the same conversation.
LEMMA Conversations ==
    ASSUME NEW k \in Keys, NEW l \in Keys, NEW x \in Ses!Conversation(l)
    PROVE  x \in Ses!Conversation(k) <=> Ses!Conversation(k) = Ses!Conversation(l)
<1>1. /\ Swapped[k] \in Keys /\ Swapped[Swapped[k]] = k
      /\ Swapped[l] \in Keys /\ Swapped[Swapped[l]] = l
  <2>1. Swapped \in [Keys -> Keys] /\ \A q \in Keys : Swapped[Swapped[q]] = q
    BY TablesAssumption, Zenon DEF Ses!SessionAssumption
  <2>2. QED BY <2>1
<1>2. PICK a, b : a = Swapped[k] /\ b = Swapped[l] /\ Swapped[a] = k /\ Swapped[b] = l
  BY <1>1
<1>3. Ses!Conversation(k) = {k, a} /\ Ses!Conversation(l) = {l, b}
  BY <1>2, Zenon DEF Ses!Conversation
<1>4. x \in {l, b} => (x \in {k, a} <=> {k, a} = {l, b})
  <2>1. CASE k = l
    BY <1>2, <2>1
  <2>2. CASE k = b
    BY <1>2, <2>2
  <2>3. CASE a = l
    BY <1>2, <2>3
  <2>4. CASE a = b
    BY <1>2, <2>4
  <2>5. CASE k # l /\ k # b /\ a # l /\ a # b
    BY <2>5
  <2>6. QED BY <2>1, <2>2, <2>3, <2>4, <2>5
<1>5. QED BY <1>3, <1>4

\* What a slot says of the packets that hashed to it.
SlotOK(e, l) ==
    /\ l \in Seq(Keys) /\ Len(l) <= LogMax
    /\ e.active <=> l # <<>>
    /\ e.active => /\ e.key \in Ses!Conversation(l[Len(l)])
                   /\ e.pkt_count = Cardinality(Ses!LastRun(l))
    /\ e.pkt_count <= Len(l)

\* A packet of the last one's conversation goes on with the run; another one
\* starts a run.
LEMMA RunGrows ==
    ASSUME NEW l \in Seq(Keys), NEW k \in Keys
    PROVE  /\ IsFiniteSet(Ses!LastRun(l)) /\ Cardinality(Ses!LastRun(l)) \in Nat
           /\ Len(l) + 1 \notin Ses!LastRun(l)
           /\ Ses!LastRun(Append(l, k)) =
                  IF l # <<>> /\ Ses!Conversation(k) = Ses!Conversation(l[Len(l)])
                  THEN Ses!LastRun(l) \cup {Len(l) + 1} ELSE {Len(l) + 1}
<1>1. PICK n \in Nat : n = Len(l) /\ DOMAIN l = 1 .. n /\ (l = <<>> <=> n = 0)
  OBVIOUS
<1>2. PICK r : r = Append(l, k)
  OBVIOUS
<1>3. /\ Len(r) = n + 1 /\ DOMAIN r = 1 .. n + 1 /\ r[n + 1] = k
      /\ \A i \in 1 .. n : r[i] = l[i]
  BY <1>1, <1>2
<1>4. PICK R : R = Ses!LastRun(l)
  OBVIOUS
<1>5. R = {i \in 1 .. n : \A j \in i .. n : Ses!Conversation(l[j]) = Ses!Conversation(l[n])}
  BY <1>1, <1>4 DEF Ses!LastRun
<1>6. Ses!LastRun(r) = {i \in 1 .. n + 1 : \A j \in i .. n + 1 :
                           Ses!Conversation(r[j]) = Ses!Conversation(k)}
  BY <1>3 DEF Ses!LastRun
<1>7. IsFiniteSet(R) /\ Cardinality(R) \in Nat /\ n + 1 \notin R
  <2>1. IsFiniteSet(1 .. n) /\ R \in SUBSET (1 .. n)
    BY <1>5, FS_Interval
  <2>2. n + 1 \notin 1 .. n
    BY <1>1
  <2>3. n + 1 \notin R
    BY <1>5, <2>2
  <2>4. QED BY <2>1, <2>3, FS_Subset, FS_CardinalityType
<1>8. n + 1 \in Ses!LastRun(r)
  <2>1. \A j \in n + 1 .. n + 1 : j = n + 1
    BY <1>1
  <2>2. QED BY <1>1, <1>3, <1>6, <2>1
<1>9. CASE l # <<>> /\ Ses!Conversation(k) = Ses!Conversation(l[n])
  <2>1. ASSUME NEW i \in 1 .. n
        PROVE  i \in Ses!LastRun(r) <=> i \in R
    <3>1. \A j \in i .. n + 1 : j = n + 1 \/ j \in i .. n
      BY <1>1
    <3>2. \A j \in i .. n : j \in 1 .. n /\ j \in i .. n + 1
      BY <1>1
    <3>3. QED BY <1>1, <1>3, <1>5, <1>6, <1>9, <3>1, <3>2
  <2>2. \A i \in 1 .. n + 1 : i = n + 1 \/ i \in 1 .. n
    BY <1>1
  <2>3. Ses!LastRun(r) = R \cup {n + 1}
    BY <1>5, <1>6, <1>8, <2>1, <2>2
  <2>4. QED BY <1>1, <1>2, <1>4, <1>7, <1>9, <2>3
<1>10. CASE ~(l # <<>> /\ Ses!Conversation(k) = Ses!Conversation(l[n]))
  <2>1. ASSUME NEW i \in 1 .. n PROVE i \notin Ses!LastRun(r)
    <3>1. n \in i .. n + 1 /\ n \in 1 .. n
      BY <1>1
    <3>2. Ses!Conversation(r[n]) # Ses!Conversation(k)
      BY <1>1, <1>3, <1>10, <3>1
    <3>3. QED BY <1>6, <3>1, <3>2
  <2>2. \A i \in 1 .. n + 1 : i = n + 1 \/ i \in 1 .. n
    BY <1>1
  <2>3. Ses!LastRun(r) = {n + 1}
    BY <1>6, <1>8, <2>1, <2>2
  <2>4. QED BY <1>1, <1>2, <1>4, <1>7, <1>10, <2>3
<1>11. QED BY <1>1, <1>9, <1>10

SlotEntry == [key : Keys \cup {NoKey}, pkt_count : Nat, last_seen : Nat, active : BOOLEAN]
Occupied(t) == {s \in Ses!Slots : t[s].active}

\* The inductive invariant of session.c.
SesInv ==
    /\ session_table \in [Ses!Slots -> SlotEntry]
    /\ log \in [Ses!Slots -> Seq(Keys)]
    /\ \A s \in Ses!Slots : SlotOK(session_table[s], log[s]) /\ session_table[s].last_seen <= now
    /\ lost \in Nat /\ now \in Nat
    /\ session_count = Cardinality(Occupied(session_table)) + lost

\* An empty slot.
LEMMA EmptySlot ==
    /\ Ses!Zeroed \in SlotEntry /\ SlotOK(Ses!Zeroed, <<>>)
    /\ ~Ses!Zeroed.active /\ Ses!Zeroed.last_seen = 0
<1>1. /\ Ses!Zeroed \in SlotEntry /\ ~Ses!Zeroed.active /\ Ses!Zeroed.last_seen = 0
      /\ Ses!Zeroed.pkt_count = 0
  BY DEF Ses!Zeroed, SlotEntry
<1>2. LogMax \in Nat
  BY TablesAssumption, Zenon DEF Ses!SessionAssumption
<1>3. QED BY <1>1, <1>2 DEF SlotOK

LEMMA SlotsFinite ==
    ASSUME NEW t
    PROVE  IsFiniteSet(Occupied(t)) /\ Cardinality(Occupied(t)) \in Nat
<1>1. Ses!Slots = 0 .. Buckets - 1 /\ Buckets - 1 \in Int
  <2>1. Buckets \in Nat \ {0}
    BY TablesAssumption, Zenon DEF Ses!SessionAssumption
  <2>2. QED BY <2>1 DEF Ses!Slots
<1>2. IsFiniteSet(Ses!Slots)
  BY <1>1, FS_Interval
<1>3. Occupied(t) \in SUBSET Ses!Slots
  BY DEF Occupied
<1>4. QED BY <1>2, <1>3, FS_Subset, FS_CardinalityType

LEMMA SesInit == Init => SesInv
<1> SUFFICES ASSUME Init PROVE SesInv
  OBVIOUS
<1>1. /\ session_table = [s \in Ses!Slots |-> Ses!Zeroed] /\ log = [s \in Ses!Slots |-> <<>>]
      /\ session_count = 0 /\ lost = 0 /\ now = 0
  BY DEF Init, Ses!Init
<1>2. Occupied(session_table) = {}
  BY <1>1, EmptySlot DEF Occupied
<1>3. Cardinality(Occupied(session_table)) = 0
  BY <1>2, FS_EmptySet
<1>4. <<>> \in Seq(Keys) /\ Ses!Zeroed.last_seen <= now /\ now \in Nat
  BY <1>1, EmptySlot
<1>5. /\ session_table \in [Ses!Slots -> SlotEntry] /\ log \in [Ses!Slots -> Seq(Keys)]
      /\ \A s \in Ses!Slots : session_table[s] = Ses!Zeroed /\ log[s] = <<>>
  BY <1>1, <1>4, EmptySlot
<1>6. QED BY <1>1, <1>3, <1>4, <1>5, EmptySlot DEF SesInv

\* One slot changes: the rest of the table stays right.
LEMMA SlotSet ==
    ASSUME SesInv, NEW s \in Ses!Slots, NEW e \in SlotEntry, NEW l,
           SlotOK(e, l), e.active, e.last_seen <= now,
           session_table' = [session_table EXCEPT ![s] = e], log' = [log EXCEPT ![s] = l],
           UNCHANGED now, lost' \in Nat,
           \/ session_table[s].active /\ session_count' - lost' = session_count - lost
           \/ ~session_table[s].active /\ session_count' - lost' = session_count - lost + 1,
           session_count' \in Int
    PROVE  SesInv'
<1>1. PICK O, P : O = Occupied(session_table) /\ P = Occupied(session_table')
  OBVIOUS
<1>2. /\ session_table \in [Ses!Slots -> SlotEntry] /\ log \in [Ses!Slots -> Seq(Keys)]
      /\ l \in Seq(Keys) /\ lost \in Nat /\ session_count = Cardinality(O) + lost
      /\ now \in Nat
  BY <1>1 DEF SesInv, SlotOK
<1>3. IsFiniteSet(O) /\ Cardinality(O) \in Nat
  BY <1>1, SlotsFinite
<1>4. /\ session_table' \in [Ses!Slots -> SlotEntry] /\ log' \in [Ses!Slots -> Seq(Keys)]
      /\ session_table'[s] = e /\ log'[s] = l
      /\ \A t \in Ses!Slots : t # s => session_table'[t] = session_table[t] /\ log'[t] = log[t]
  BY <1>2
<1>5. P = O \cup {s} /\ (s \in O <=> session_table[s].active)
  BY <1>1, <1>4 DEF Occupied
<1>6. session_count' = Cardinality(P) + lost'
  <2>1. CASE s \in O
    <3>1. P = O
      BY <1>5, <2>1
    <3>2. session_count' - lost' = session_count - lost
      BY <1>5, <2>1
    <3>3. session_count' = Cardinality(O) + lost'
      BY <1>2, <1>3, <3>2
    <3>4. QED BY <3>1, <3>3
  <2>2. CASE s \notin O
    <3>1. Cardinality(P) = Cardinality(O) + 1
      BY <1>3, <1>5, <2>2, FS_AddElement
    <3>2. session_count' - lost' = session_count - lost + 1
      BY <1>5, <2>2
    <3>3. session_count' = Cardinality(O) + 1 + lost'
      BY <1>2, <1>3, <3>2
    <3>4. QED BY <3>1, <3>3
  <2>3. QED BY <2>1, <2>2
<1>7. \A t \in Ses!Slots : SlotOK(session_table'[t], log'[t]) /\ session_table'[t].last_seen <= now
  BY <1>4 DEF SesInv
<1>8. QED BY <1>1, <1>2, <1>4, <1>6, <1>7 DEF SesInv

LEMMA SesPacket ==
    ASSUME SesInv, NEW k \in Keys, Ses!Packet(k)
    PROVE  SesInv'
<1>1. PICK s, l, m : s = Hash[k] /\ l = log[s] /\ m = Append(l, k)
  OBVIOUS
<1>2. PICK x : x = session_table[s]
  OBVIOUS
<1>3. /\ s \in Ses!Slots /\ x \in SlotEntry /\ l \in Seq(Keys) /\ SlotOK(x, l) /\ x.last_seen <= now
      /\ now \in Nat /\ lost \in Nat /\ session_count \in Int
      /\ session_table \in [Ses!Slots -> SlotEntry] /\ log \in [Ses!Slots -> Seq(Keys)]
  <2>1. s \in Ses!Slots
    <3>1. Hash \in [Keys -> Ses!Slots]
      BY TablesAssumption, Zenon DEF Ses!SessionAssumption
    <3>2. QED BY <1>1, <3>1
  <2>2. Cardinality(Occupied(session_table)) \in Nat
    BY SlotsFinite
  <2>3. QED BY <1>1, <1>2, <2>1, <2>2 DEF SesInv
<1>4. Len(l) < LogMax /\ log' = [log EXCEPT ![s] = m] /\ UNCHANGED now
  BY <1>1 DEF Ses!Packet
<1>5. PICK n \in Nat : n = Len(l)
  BY <1>3
<1>6. m \in Seq(Keys) /\ Len(m) = n + 1 /\ m # <<>> /\ m[Len(m)] = k /\ n + 1 <= LogMax
  <2>1. LogMax \in Nat
    BY TablesAssumption, Zenon DEF Ses!SessionAssumption
  <2>2. m \in Seq(Keys) /\ Len(m) = n + 1 /\ m[n + 1] = k
    BY <1>1, <1>3, <1>5
  <2>3. m # <<>>
    BY <2>2
  <2>4. n + 1 <= LogMax
    BY <1>4, <1>5, <2>1
  <2>5. QED BY <2>2, <2>3, <2>4
<1>7. /\ IsFiniteSet(Ses!LastRun(l)) /\ Cardinality(Ses!LastRun(l)) \in Nat
      /\ n + 1 \notin Ses!LastRun(l)
      /\ Ses!LastRun(m) = IF l # <<>> /\ Ses!Conversation(k) = Ses!Conversation(l[n])
                          THEN Ses!LastRun(l) \cup {n + 1} ELSE {n + 1}
  BY <1>1, <1>3, <1>5, RunGrows
<1>8. x.active => /\ l # <<>> /\ n > 0 /\ l[n] \in Keys /\ x.key \in Ses!Conversation(l[n])
                  /\ x.key \in Ses!Conversation(k) <=> Ses!Conversation(k) = Ses!Conversation(l[n])
  <2> SUFFICES ASSUME x.active
               PROVE  /\ l # <<>> /\ n > 0 /\ l[n] \in Keys /\ x.key \in Ses!Conversation(l[n])
                      /\ x.key \in Ses!Conversation(k) <=> Ses!Conversation(k) = Ses!Conversation(l[n])
    OBVIOUS
  <2>1. l # <<>> /\ x.key \in Ses!Conversation(l[n])
    BY <1>3, <1>5 DEF SlotOK
  <2>2. n > 0 /\ l[n] \in Keys
    BY <1>3, <1>5, <2>1
  <2>3. QED BY <2>1, <2>2, Conversations
<1>9. Ses!Found(k) <=> x.active /\ x.key \in Ses!Conversation(k)
  BY <1>1, <1>2, <1>3 DEF Ses!Found, Ses!Active
<1>10. ASSUME Ses!Found(k)
       PROVE  SesInv'
  <2>1. PICK e : e = Ses!Updated(x)
    OBVIOUS
  <2>2. e \in SlotEntry /\ e.key = x.key /\ e.active /\ e.pkt_count = x.pkt_count + 1
        /\ e.last_seen = now /\ x.pkt_count \in Nat
    <3>1. e = [x EXCEPT !.pkt_count = x.pkt_count + 1, !.last_seen = now]
      BY <2>1 DEF Ses!Updated
    <3>2. x.active
      BY <1>9, <1>10
    <3>3. x.pkt_count \in Nat
      BY <1>3 DEF SlotEntry
    <3>4. PICK c : c = x.pkt_count + 1
      OBVIOUS
    <3>5. c \in Nat /\ e = [x EXCEPT !.pkt_count = c, !.last_seen = now]
      BY <3>1, <3>3, <3>4
    <3>6. e \in SlotEntry /\ e.key = x.key /\ e.active = x.active /\ e.pkt_count = c /\ e.last_seen = now
      BY <1>3, <3>5 DEF SlotEntry
    <3>7. QED BY <3>2, <3>3, <3>4, <3>6
  <2>3. session_table' = [session_table EXCEPT ![s] = e] /\ UNCHANGED <<session_count, lost>>
    BY <1>1, <1>2, <1>3, <1>10, <2>1 DEF Ses!Packet
  <2>4. /\ x.active /\ x.key \in Ses!Conversation(k)
        /\ x.pkt_count = Cardinality(Ses!LastRun(l)) /\ x.pkt_count <= n
    BY <1>3, <1>5, <1>9, <1>10 DEF SlotOK
  <2>5. Cardinality(Ses!LastRun(m)) = x.pkt_count + 1
    <3>1. Ses!LastRun(m) = Ses!LastRun(l) \cup {n + 1}
      BY <1>7, <1>8, <2>4
    <3>2. Cardinality(Ses!LastRun(m)) = Cardinality(Ses!LastRun(l)) + 1
      BY <1>7, <3>1, FS_AddElement
    <3>3. QED BY <2>4, <3>2
  <2>6. SlotOK(e, m)
    BY <1>6, <2>2, <2>4, <2>5 DEF SlotOK
  <2>7. session_table[s].active
    BY <1>2, <2>4
  <2>8. session_count' - lost' = session_count - lost /\ session_count' \in Int /\ lost' \in Nat
    BY <1>3, <2>3
  <2>9. SlotOK(e, m) /\ e.active /\ e.last_seen <= now
    BY <1>3, <2>2, <2>6
  <2>10. session_table' = [session_table EXCEPT ![s] = e] /\ log' = [log EXCEPT ![s] = m] /\ now' = now
    BY <1>4, <2>3
  <2>11. \/ session_table[s].active /\ session_count' - lost' = session_count - lost
         \/ ~session_table[s].active /\ session_count' - lost' = session_count - lost + 1
    BY <2>7, <2>8
  <2>12. QED BY <1>3, <2>2, <2>8, <2>9, <2>10, <2>11, SlotSet, Zenon
<1>11. ASSUME ~Ses!Found(k)
       PROVE  SesInv'
  <2>1. PICK e : e = Ses!Updated(Ses!Created(k))
    OBVIOUS
  <2>2. e \in SlotEntry /\ e.key = k /\ e.active /\ e.pkt_count = 1 /\ e.last_seen = now
    <3>1. PICK z : z = Ses!Created(k)
      OBVIOUS
    <3>2. z \in SlotEntry /\ z.key = k /\ z.active = TRUE /\ z.pkt_count = 0
      BY <3>1 DEF Ses!Created, Ses!Zeroed, SlotEntry
    <3>3. 0 + 1 = 1
      OBVIOUS
    <3>4. e = [z EXCEPT !.pkt_count = 1, !.last_seen = now]
      BY <2>1, <3>1, <3>2, <3>3 DEF Ses!Updated
    <3>5. QED BY <1>3, <3>2, <3>4 DEF SlotEntry
  <2>3. /\ session_table' = [session_table EXCEPT ![s] = e] /\ session_count' = session_count + 1
        /\ lost' = IF x.active THEN lost + 1 ELSE lost
    BY <1>1, <1>2, <1>3, <1>11, <2>1 DEF Ses!Packet, Ses!Active
  <2>4. Ses!LastRun(m) = {n + 1}
    BY <1>3, <1>7, <1>8, <1>9, <1>11 DEF SlotOK
  <2>5. Cardinality(Ses!LastRun(m)) = 1
    BY <2>4, FS_Singleton
  <2>6. k \in Ses!Conversation(k)
    BY DEF Ses!Conversation
  <2>7. SlotOK(e, m)
    BY <1>6, <2>2, <2>5, <2>6 DEF SlotOK
  <2>8. /\ \/ session_table[s].active /\ session_count' - lost' = session_count - lost
           \/ ~session_table[s].active /\ session_count' - lost' = session_count - lost + 1
        /\ session_count' \in Int /\ lost' \in Nat
    <3>1. CASE x.active
      <4>1. lost' = lost + 1
        BY <2>3, <3>1
      <4>2. QED BY <1>2, <1>3, <2>3, <3>1, <4>1
    <3>2. CASE ~x.active
      <4>1. lost' = lost
        BY <2>3, <3>2
      <4>2. QED BY <1>2, <1>3, <2>3, <3>2, <4>1
    <3>3. QED BY <3>1, <3>2
  <2>9. SlotOK(e, m) /\ e.active /\ e.last_seen <= now
    BY <1>3, <2>2, <2>7
  <2>10. session_table' = [session_table EXCEPT ![s] = e] /\ log' = [log EXCEPT ![s] = m] /\ now' = now
    BY <1>4, <2>3
  <2>11. \/ session_table[s].active /\ session_count' - lost' = session_count - lost
         \/ ~session_table[s].active /\ session_count' - lost' = session_count - lost + 1
    BY <2>8
  <2>12. QED BY <1>3, <2>2, <2>8, <2>9, <2>10, <2>11, SlotSet, Zenon
<1>12. QED BY <1>10, <1>11

LEMMA SesExpire ==
    ASSUME SesInv, NEW timeout \in SessionTimeouts, Ses!Expire(timeout)
    PROVE  SesInv'
<1>1. PICK T, O, P : T = Ses!Stale(timeout) /\ O = Occupied(session_table) /\ P = Occupied(session_table')
  OBVIOUS
<1>2. /\ session_table' = [s \in Ses!Slots |-> IF s \in T THEN Ses!Zeroed ELSE session_table[s]]
      /\ session_count' = session_count - Cardinality(T)
      /\ log' = [s \in Ses!Slots |-> IF s \in T THEN <<>> ELSE log[s]]
      /\ UNCHANGED <<now, lost>>
  BY <1>1, SesOps DEF Ses!Expire
<1>3. /\ session_table \in [Ses!Slots -> SlotEntry] /\ log \in [Ses!Slots -> Seq(Keys)]
      /\ lost \in Nat /\ session_count = Cardinality(O) + lost /\ now \in Nat
  BY <1>1 DEF SesInv
<1>4. IsFiniteSet(O) /\ Cardinality(O) \in Nat /\ T \in SUBSET O /\ O \cap T = T
  <2>1. T \in SUBSET O
    BY <1>1 DEF Ses!Stale, Ses!Active, Occupied
  <2>2. QED BY <1>1, <2>1, SlotsFinite
<1>5. /\ session_table' \in [Ses!Slots -> SlotEntry] /\ log' \in [Ses!Slots -> Seq(Keys)]
      /\ \A s \in Ses!Slots : /\ session_table'[s] = IF s \in T THEN Ses!Zeroed ELSE session_table[s]
                              /\ log'[s] = IF s \in T THEN <<>> ELSE log[s]
  BY <1>2, <1>3, EmptySlot
<1>6. P = O \ T
  BY <1>1, <1>5, EmptySlot DEF Occupied
<1>7. IsFiniteSet(T) /\ Cardinality(T) \in Nat /\ Cardinality(P) = Cardinality(O) - Cardinality(T)
  <2>1. IsFiniteSet(T) /\ Cardinality(T) \in Nat
    BY <1>4, FS_Subset, FS_CardinalityType
  <2>2. Cardinality(O \ T) = Cardinality(O) - Cardinality(O \cap T)
    BY <1>4, FS_Difference
  <2>3. QED BY <1>4, <1>6, <2>1, <2>2
<1>8. session_count' = Cardinality(P) + lost'
  <2>1. PICK o, p, t : o = Cardinality(O) /\ p = Cardinality(P) /\ t = Cardinality(T)
    OBVIOUS
  <2>2. o \in Nat /\ t \in Nat /\ p = o - t /\ session_count = o + lost /\ session_count' = session_count - t
    BY <1>2, <1>3, <1>4, <1>7, <2>1
  <2>3. QED BY <1>2, <1>3, <2>1, <2>2
<1>9. \A s \in Ses!Slots : SlotOK(session_table'[s], log'[s]) /\ session_table'[s].last_seen <= now
  BY <1>3, <1>5, EmptySlot DEF SesInv
<1>10. QED BY <1>1, <1>2, <1>3, <1>5, <1>8, <1>9 DEF SesInv

LEMMA SesStep == SesInv /\ [Next]_vars => SesInv'
<1> SUFFICES ASSUME SesInv, [Next]_vars PROVE SesInv'
  OBVIOUS
<1>1. CASE Ses!Restart
  <2>1. /\ session_table' = [s \in Ses!Slots |-> Ses!Zeroed] /\ log' = [s \in Ses!Slots |-> <<>>]
        /\ session_count' = 0 /\ lost' = 0 /\ now' = now
    BY <1>1 DEF Ses!Restart
  <2>2. Occupied(session_table') = {}
    BY <2>1, EmptySlot DEF Occupied
  <2>3. now \in Nat
    BY DEF SesInv
  <2>4. Cardinality(Occupied(session_table')) = 0
    BY <2>2, FS_EmptySet
  <2>5. <<>> \in Seq(Keys) /\ Ses!Zeroed.last_seen <= now
    BY <2>3, EmptySlot
  <2>6. /\ session_table' \in [Ses!Slots -> SlotEntry] /\ log' \in [Ses!Slots -> Seq(Keys)]
        /\ \A s \in Ses!Slots : session_table'[s] = Ses!Zeroed /\ log'[s] = <<>>
    BY <2>1, <2>5, EmptySlot
  <2>7. QED BY <2>1, <2>3, <2>4, <2>5, <2>6, EmptySlot DEF SesInv
<1>2. CASE UNCHANGED sessionVars
  <2>1. now' \in Nat /\ now <= now' /\ now \in Nat
    BY Clock DEF SesInv
  <2>2. /\ session_table' = session_table /\ session_count' = session_count
        /\ lost' = lost /\ log' = log
    BY <1>2 DEF sessionVars
  <2>3. \A s \in Ses!Slots : session_table[s].last_seen \in Nat /\ session_table[s].last_seen <= now
    <3>1. \A s \in Ses!Slots : session_table[s] \in SlotEntry /\ session_table[s].last_seen <= now
      BY DEF SesInv
    <3>2. \A e \in SlotEntry : e.last_seen \in Nat
      BY DEF SlotEntry
    <3>3. QED BY <3>1, <3>2
  <2>4. \A s \in Ses!Slots : session_table[s].last_seen <= now'
    BY <2>1, <2>3
  <2>5. QED BY <2>1, <2>2, <2>4 DEF SesInv
<1>3. CASE Ses!Tick
  <2>1. UNCHANGED sessionVars
    BY <1>3 DEF Ses!Tick, sessionVars
  <2>2. QED BY <1>2, <2>1
<1>4. CASE Ses!Next
  BY <1>1, <1>3, <1>4, SesPacket, SesExpire DEF Ses!Next
<1>5. QED BY <1>2, <1>4 DEF Next, Only, vars

\* What the invariant says of the sessions.
LEMMA SesImplied == SesInv => Ses!TypeOK /\ Ses!SessionsAccounted
<1> SUFFICES ASSUME SesInv PROVE Ses!TypeOK /\ Ses!SessionsAccounted
  OBVIOUS
<1>1. \A s \in Ses!Slots : /\ session_table[s] \in SlotEntry /\ SlotOK(session_table[s], log[s])
                           /\ session_table[s].last_seen <= now
  BY DEF SesInv
<1>2. LogMax \in Nat /\ now \in Nat
  <2>1. LogMax \in Nat
    BY TablesAssumption, Zenon DEF Ses!SessionAssumption
  <2>2. QED BY <2>1 DEF SesInv
<1>3. PICK T : T = [key : Keys \cup {NoKey}, pkt_count : 0 .. LogMax, last_seen : 0 .. now, active : BOOLEAN]
  OBVIOUS
<1>4. ASSUME NEW e \in SlotEntry, NEW l, SlotOK(e, l), e.last_seen <= now
      PROVE  e \in T
  <2>1. e.pkt_count \in 0 .. LogMax
    <3>1. e.pkt_count \in Nat /\ Len(l) \in Nat /\ Len(l) <= LogMax /\ e.pkt_count <= Len(l)
      BY <1>4 DEF SlotEntry, SlotOK
    <3>2. QED BY <1>2, <3>1
  <2>2. e.last_seen \in 0 .. now
    BY <1>2, <1>4 DEF SlotEntry
  <2>3. QED BY <1>3, <2>1, <2>2 DEF SlotEntry
<1>5. session_table \in [Ses!Slots -> T]
  BY <1>1, <1>4 DEF SesInv
<1>6. Occupied(session_table) = Ses!Active
  BY DEF Occupied, Ses!Active
<1>7. session_count = Cardinality(Ses!Active) + lost /\ lost \in Nat /\ session_count \in Nat
  BY <1>6, SlotsFinite DEF SesInv
<1>8. Ses!TypeOK
  BY <1>3, <1>5, <1>7 DEF Ses!TypeOK
<1>9. \A s \in Ses!Slots :
         /\ s \in Ses!Active <=> log[s] # <<>>
         /\ s \in Ses!Active =>
               /\ session_table[s].key \in Ses!Conversation(log[s][Len(log[s])])
               /\ session_table[s].pkt_count = Cardinality(Ses!LastRun(log[s]))
  BY <1>1 DEF Ses!Active, SlotOK
<1>10. Ses!SessionsAccounted
  BY <1>7, <1>9, SesOps DEF Ses!SessionsAccounted
<1>11. QED BY <1>8, <1>10

-----------------------------------------------------------------------------
\* ttltrack.c
LEMMA TtlOps ==
    /\ \A S : Ttl!Min(S) = Min(S) /\ Ttl!Cardinality(S) = Cardinality(S)
    /\ \A S : Ttl!IsFiniteSet(S) <=> IsFiniteSet(S)
    /\ \A f, S : Ttl!SumFunctionOnSet(f, S) = SumFunctionOnSet(f, S)
<1>1. \A S : Ttl!Min(S) = Min(S) /\ Ttl!Cardinality(S) = Cardinality(S)
  BY DEF Ttl!Min, Min, Ttl!Cardinality, Cardinality
<1>2. \A S : Ttl!IsFiniteSet(S) <=> IsFiniteSet(S)
  BY DEF Ttl!IsFiniteSet, IsFiniteSet
<1>3. \A f, S : Ttl!SumFunctionOnSet(f, S) = SumFunctionOnSet(f, S)
  BY Zenon DEF Ttl!SumFunctionOnSet, SumFunctionOnSet, Ttl!FoldFunctionOnSet,
               FoldFunctionOnSet, Ttl!MapThenFoldSet, MapThenFoldSet
<1>4. QED BY <1>1, <1>2, <1>3

LEMMA TtlConstants ==
    IsFiniteSet(Keys) /\ Ttls \in SUBSET Nat /\ TtlMax \in Nat /\ Threshold \in Nat
<1>1. Ttl!IsFiniteSet(Keys) /\ Ttls \subseteq 0 .. 255 /\ TtlMax \in Nat /\ Threshold \in Nat
  BY TablesAssumption, Zenon DEF Ttl!TtlTrackAssumption
<1>2. QED BY <1>1, TtlOps

\* What one number of a sum gains, the sum gains.
LEMMA SumGains ==
    ASSUME NEW S, IsFiniteSet(S), NEW f, NEW g, \A y \in S : f[y] \in Nat,
           NEW x \in S, NEW d \in Nat, g[x] = f[x] + d, \A y \in S : y # x => g[y] = f[y]
    PROVE  SumFunctionOnSet(g, S) = SumFunctionOnSet(f, S) + d /\ SumFunctionOnSet(f, S) \in Nat
<1>1. PICK a, b, r : /\ a = SumFunctionOnSet(f, S) /\ b = SumFunctionOnSet(g, S)
                     /\ r = SumFunctionOnSet(f, S \ {x})
  OBVIOUS
<1>2. \A y \in S : g[y] \in Nat
  OBVIOUS
<1>3. a \in Nat /\ a = f[x] + r
  BY <1>1, SumRemove
<1>4. b = g[x] + SumFunctionOnSet(g, S \ {x})
  BY <1>1, <1>2, SumRemove
<1>5. IsFiniteSet(S \ {x}) /\ \A y \in S \ {x} : f[y] \in Nat /\ g[y] = f[y]
  BY FS_Subset
<1>6. SumFunctionOnSet(g, S \ {x}) = r /\ r \in Nat
  BY <1>1, <1>5, SumSame, SumRemove
<1>7. f[x] \in Nat
  OBVIOUS
<1>8. QED BY <1>1, <1>3, <1>4, <1>6, <1>7

\* One more TTL: an onset if it is of an anomaly and the one before was not.
LEMMA OnsetsGrow ==
    ASSUME NEW l \in Seq(Ttls), NEW t \in Ttls, NEW m, m = Append(l, t)
    PROVE  /\ IsFiniteSet(Ttl!Onsets(l)) /\ Cardinality(Ttl!Onsets(l)) \in Nat
           /\ Len(l) + 1 \notin Ttl!Onsets(l)
           /\ Ttl!Onsets(m) = IF Ttl!Low(m, Len(l) + 1) /\ ~(l # <<>> /\ Ttl!Low(l, Len(l)))
                              THEN Ttl!Onsets(l) \cup {Len(l) + 1} ELSE Ttl!Onsets(l)
<1>1. PICK n \in Nat : n = Len(l) /\ DOMAIN l = 1 .. n /\ (l = <<>> <=> n = 0)
  OBVIOUS
<1>2. Len(m) = n + 1 /\ DOMAIN m = 1 .. n + 1 /\ m[n + 1] = t /\ \A i \in 1 .. n : m[i] = l[i]
  BY <1>1
<1>3. \A i \in 1 .. n : Ttl!Low(m, i) <=> Ttl!Low(l, i)
  <2>1. ASSUME NEW i \in 1 .. n PROVE m[1] = l[1] /\ m[i] = l[i]
    <3>1. 1 \in 1 .. n
      BY <1>1
    <3>2. QED BY <1>2, <3>1
  <2>2. QED BY <2>1 DEF Ttl!Low
<1>4. PICK O, P : O = Ttl!Onsets(l) /\ P = Ttl!Onsets(m)
  OBVIOUS
<1>5. O = {i \in 1 .. n : Ttl!Low(l, i) /\ (i > 1 => ~Ttl!Low(l, i - 1))}
  BY <1>1, <1>4 DEF Ttl!Onsets
<1>6. P = {i \in 1 .. n + 1 : Ttl!Low(m, i) /\ (i > 1 => ~Ttl!Low(m, i - 1))}
  BY <1>2, <1>4 DEF Ttl!Onsets
<1>7. \A i \in 1 .. n : i \in P <=> i \in O
  <2>1. \A i \in 1 .. n : i \in 1 .. n + 1 /\ (i > 1 => i - 1 \in 1 .. n)
    BY <1>1
  <2>2. QED BY <1>3, <1>5, <1>6, <2>1
<1>8. n + 1 \in P <=> Ttl!Low(m, n + 1) /\ ~(l # <<>> /\ Ttl!Low(l, n))
  <2>1. n + 1 \in 1 .. n + 1 /\ (n + 1) - 1 = n /\ (n + 1 > 1 <=> n # 0) /\ (n # 0 => n \in 1 .. n)
    BY <1>1
  <2>2. n + 1 > 1 => (Ttl!Low(m, (n + 1) - 1) <=> Ttl!Low(l, n))
    BY <1>3, <2>1
  <2>3. QED BY <1>1, <1>6, <2>1, <2>2, Zenon
<1>9. \A i \in 1 .. n + 1 : i = n + 1 \/ i \in 1 .. n
  BY <1>1
<1>10. n + 1 \notin O /\ O \in SUBSET (1 .. n) /\ IsFiniteSet(1 .. n)
  <2>1. n + 1 \notin 1 .. n
    BY <1>1
  <2>2. O \in SUBSET (1 .. n)
    BY <1>5
  <2>3. IsFiniteSet(1 .. n)
    BY FS_Interval
  <2>4. QED BY <2>1, <2>2, <2>3
<1>11. IsFiniteSet(O) /\ Cardinality(O) \in Nat
  BY <1>10, FS_Subset, FS_CardinalityType
<1>12. P = IF n + 1 \in P THEN O \cup {n + 1} ELSE O
  <2>1. \A i \in P : i \in 1 .. n + 1
    BY <1>6
  <2>2. \A i \in O : i \in 1 .. n
    BY <1>5
  <2>3. \A i : i \in P => i = n + 1 \/ i \in O
    BY <1>7, <1>9, <2>1, Zenon
  <2>4. \A i : i \in O => i \in P
    BY <1>7, <2>2, Zenon
  <2>5. CASE n + 1 \in P
    <3>1. P = O \cup {n + 1}
      BY <2>3, <2>4, <2>5
    <3>2. QED BY <2>5, <3>1
  <2>6. CASE n + 1 \notin P
    <3>1. P = O
      BY <2>3, <2>4, <2>6
    <3>2. QED BY <2>6, <3>1
  <2>7. QED BY <2>5, <2>6
<1>13. QED BY <1>1, <1>4, <1>8, <1>10, <1>11, <1>12, Zenon

HostEntry == [src_ip : Keys, baseline_ttl : {64, 128, 255}, observed_ttl : Ttls,
              pkt_count : Nat, anomaly_flagged : BOOLEAN]

\* What an entry says of its host's TTLs.
HostOK(e, l) ==
    /\ l # <<>>
    /\ e.baseline_ttl = Ttl!GuessBaseline(l[1])
    /\ e.anomaly_flagged <=> Ttl!Low(l, Len(l))

HostsOK(es, logs) ==
    /\ es \in Seq(HostEntry) /\ logs \in [Keys -> Seq(Ttls)]
    /\ \A i, j \in DOMAIN es : es[i].src_ip = es[j].src_ip => i = j
    /\ \A i \in DOMAIN es : HostOK(es[i], logs[es[i].src_ip])
    /\ \A h \in Keys : (\A i \in DOMAIN es : es[i].src_ip # h) => logs[h] = <<>>

OnsetsOf(logs) == [h \in Keys |-> Cardinality(Ttl!Onsets(logs[h]))]

\* The inductive invariant of ttltrack.c.
TtlInv ==
    /\ HostsOK(ttl_entries, seen) /\ Len(ttl_entries) <= TtlMax
    /\ anomalies_detected = SumFunctionOnSet(OnsetsOf(seen), Keys)

LEMMA TtlEmpty ==
    ASSUME NEW es, NEW logs, es = <<>>, logs = Ttl!Nothing
    PROVE  HostsOK(es, logs) /\ Len(es) <= TtlMax /\ SumFunctionOnSet(OnsetsOf(logs), Keys) = 0
<1>1. logs \in [Keys -> Seq(Ttls)] /\ \A h \in Keys : logs[h] = <<>>
  BY DEF Ttl!Nothing
<1>2. HostsOK(es, logs) /\ Len(es) <= TtlMax
  BY <1>1, TtlConstants DEF HostsOK
<1>3. \A h \in Keys : OnsetsOf(logs)[h] = 0
  <2>1. Ttl!Onsets(<<>>) = {}
    BY DEF Ttl!Onsets
  <2>2. Cardinality(Ttl!Onsets(<<>>)) = 0
    BY <2>1, FS_EmptySet
  <2>3. QED BY <1>1, <2>2 DEF OnsetsOf
<1>4. QED BY <1>2, <1>3, TtlConstants, SumZero

LEMMA TtlInit == Init => TtlInv
<1> SUFFICES ASSUME Init PROVE TtlInv
  OBVIOUS
<1>1. ttl_entries = <<>> /\ anomalies_detected = 0 /\ seen = Ttl!Nothing
  BY DEF Init, Ttl!Init
<1>2. QED BY <1>1, TtlEmpty DEF TtlInv

\* One host's entry and its TTLs change.
LEMMA HostSet ==
    ASSUME NEW es, NEW logs, HostsOK(es, logs), NEW i \in DOMAIN es,
           NEW e \in HostEntry, e.src_ip = es[i].src_ip, NEW l \in Seq(Ttls), HostOK(e, l)
    PROVE  /\ HostsOK([es EXCEPT ![i] = e], [logs EXCEPT ![e.src_ip] = l])
           /\ Len([es EXCEPT ![i] = e]) = Len(es)
<1>1. PICK r, g, h : r = [es EXCEPT ![i] = e] /\ g = [logs EXCEPT ![e.src_ip] = l] /\ h = e.src_ip
  OBVIOUS
<1>2. es \in Seq(HostEntry) /\ logs \in [Keys -> Seq(Ttls)]
  BY DEF HostsOK
<1>3. h \in Keys /\ es[i] \in HostEntry
  <2>1. es[i] \in HostEntry
    BY <1>2
  <2>2. \A x \in HostEntry : x.src_ip \in Keys
    BY DEF HostEntry
  <2>3. QED BY <1>1, <2>2, <2>1
<1>4. /\ r \in Seq(HostEntry) /\ DOMAIN r = DOMAIN es /\ Len(r) = Len(es)
      /\ r[i] = e /\ \A j \in DOMAIN es : j # i => r[j] = es[j]
  BY <1>1, <1>2
<1>5. g \in [Keys -> Seq(Ttls)] /\ g[h] = l /\ \A k \in Keys : k # h => g[k] = logs[k]
  BY <1>1, <1>2, <1>3
<1>6. \A j \in DOMAIN es : r[j].src_ip = es[j].src_ip /\ es[j].src_ip \in Keys
  <2>1. \A j \in DOMAIN es : es[j] \in HostEntry
    BY <1>2
  <2>2. \A x \in HostEntry : x.src_ip \in Keys
    BY DEF HostEntry
  <2>3. QED BY <1>4, <2>1, <2>2
<1>7. \A j \in DOMAIN es : j # i => es[j].src_ip # h
  BY <1>1 DEF HostsOK
<1>8. \A j \in DOMAIN es : HostOK(r[j], g[r[j].src_ip])
  <2>1. \A j \in DOMAIN es : HostOK(es[j], logs[es[j].src_ip])
    BY DEF HostsOK
  <2>2. ASSUME NEW j \in DOMAIN es PROVE HostOK(r[j], g[r[j].src_ip])
    <3>1. CASE j = i
      BY <1>1, <1>4, <1>5, <3>1
    <3>2. CASE j # i
      <4>1. r[j] = es[j] /\ g[r[j].src_ip] = logs[es[j].src_ip]
        BY <1>4, <1>5, <1>6, <1>7, <3>2
      <4>2. QED BY <2>1, <4>1
    <3>3. QED BY <3>1, <3>2
  <2>3. QED BY <2>2
<1>9. \A j, k \in DOMAIN r : r[j].src_ip = r[k].src_ip => j = k
  BY <1>4, <1>6 DEF HostsOK
<1>10. \A k \in Keys : (\A j \in DOMAIN r : r[j].src_ip # k) => g[k] = <<>>
  <2> SUFFICES ASSUME NEW k \in Keys, \A j \in DOMAIN r : r[j].src_ip # k PROVE g[k] = <<>>
    OBVIOUS
  <2>1. k # h
    BY <1>1, <1>4
  <2>2. \A j \in DOMAIN es : es[j].src_ip # k
    BY <1>4, <1>6
  <2>3. logs[k] = <<>>
    BY <2>2 DEF HostsOK
  <2>4. QED BY <1>5, <2>1, <2>3
<1>11. HostsOK(r, g)
  BY <1>4, <1>5, <1>8, <1>9, <1>10 DEF HostsOK
<1>12. QED BY <1>1, <1>4, <1>11

Unknown(es, h) == \A i \in DOMAIN es : es[i].src_ip # h
ObservedAt(es, i, ttl) == [es EXCEPT ![i] = Ttl!Observed(@, ttl)]
Noted(logs, h, ttl) == [logs EXCEPT ![h] = Append(@, ttl)]

\* ttltrack_update of a host that has an entry.
LEMMA TtlKnown ==
    ASSUME NEW es, NEW logs, HostsOK(es, logs), NEW i \in DOMAIN es, NEW h, h = es[i].src_ip,
           NEW ttl \in Ttls
    PROVE  /\ HostsOK(ObservedAt(es, i, ttl), Noted(logs, h, ttl))
           /\ Len(ObservedAt(es, i, ttl)) = Len(es)
           /\ SumFunctionOnSet(OnsetsOf(Noted(logs, h, ttl)), Keys) =
                 SumFunctionOnSet(OnsetsOf(logs), Keys) +
                 (IF Ttl!IsAnomaly(es[i], ttl) /\ ~es[i].anomaly_flagged THEN 1 ELSE 0)
           /\ SumFunctionOnSet(OnsetsOf(logs), Keys) \in Nat
<1>1. PICK x, e, l, m, g : /\ x = es[i] /\ e = Ttl!Observed(x, ttl)
                           /\ l = logs[h] /\ m = Append(l, ttl) /\ g = [logs EXCEPT ![h] = m]
  OBVIOUS
<1>2. /\ es \in Seq(HostEntry) /\ logs \in [Keys -> Seq(Ttls)] /\ HostOK(x, l)
      /\ x \in HostEntry /\ h \in Keys /\ l \in Seq(Ttls)
  <2>1. es \in Seq(HostEntry) /\ logs \in [Keys -> Seq(Ttls)] /\ HostOK(x, l)
    BY <1>1 DEF HostsOK
  <2>2. x \in HostEntry
    BY <1>1, <2>1
  <2>3. h \in Keys
    BY <1>1, <2>2 DEF HostEntry
  <2>4. QED BY <1>1, <2>1, <2>2, <2>3
<1>3. PICK b : b = (x.baseline_ttl - ttl > Threshold)
  OBVIOUS
<1>4. PICK c : c = x.pkt_count + 1
  OBVIOUS
<1>5. e = [x EXCEPT !.observed_ttl = ttl, !.pkt_count = c, !.anomaly_flagged = b]
  BY <1>1, <1>3, <1>4 DEF Ttl!Observed, Ttl!IsAnomaly
<1>6. c \in Nat
  BY <1>2, <1>4 DEF HostEntry
<1>7. /\ e \in HostEntry /\ e.src_ip = h /\ e.baseline_ttl = x.baseline_ttl /\ e.anomaly_flagged = b
      /\ x.anomaly_flagged \in BOOLEAN
  <2>1. b \in BOOLEAN
    BY <1>3
  <2>2. x.src_ip = h
    BY <1>1
  <2>3. e \in HostEntry /\ e.src_ip = x.src_ip /\ e.baseline_ttl = x.baseline_ttl /\ e.anomaly_flagged = b
    BY <1>2, <1>5, <1>6, <2>1 DEF HostEntry
  <2>4. \A z \in HostEntry : z.anomaly_flagged \in BOOLEAN
    BY DEF HostEntry
  <2>5. QED BY <1>2, <2>2, <2>3, <2>4
<1>8. PICK n \in Nat : n = Len(l) /\ n > 0 /\ l # <<>>
  BY <1>2 DEF HostOK
<1>9. m \in Seq(Ttls) /\ Len(m) = n + 1 /\ m[n + 1] = ttl /\ m[1] = l[1] /\ m # <<>>
  BY <1>1, <1>2, <1>8
<1>10. Ttl!Low(m, n + 1) <=> b
  BY <1>2, <1>3, <1>9 DEF Ttl!Low, Ttl!IsAnomaly, HostOK
<1>11. HostOK(e, m)
  BY <1>2, <1>7, <1>9, <1>10 DEF HostOK
<1>12. HostsOK([es EXCEPT ![i] = e], g) /\ Len([es EXCEPT ![i] = e]) = Len(es)
  <2>1. /\ HostsOK([es EXCEPT ![i] = e], [logs EXCEPT ![e.src_ip] = m])
        /\ Len([es EXCEPT ![i] = e]) = Len(es)
    <3>1. e.src_ip = es[i].src_ip
      BY <1>1, <1>7
    <3>2. QED BY <1>7, <1>9, <1>11, <3>1, HostSet
  <2>2. QED BY <1>1, <1>7, <2>1
<1>13. PICK O, P, d : /\ O = Ttl!Onsets(l) /\ P = Ttl!Onsets(m)
                      /\ d = IF b /\ ~x.anomaly_flagged THEN 1 ELSE 0
  OBVIOUS
<1>14. Cardinality(P) = Cardinality(O) + d /\ Cardinality(O) \in Nat /\ d \in Nat
  <2>1. /\ IsFiniteSet(O) /\ Cardinality(O) \in Nat /\ n + 1 \notin O
        /\ P = IF Ttl!Low(m, n + 1) /\ ~(l # <<>> /\ Ttl!Low(l, n))
               THEN O \cup {n + 1} ELSE O
    BY <1>1, <1>2, <1>8, <1>13, OnsetsGrow
  <2>2. Ttl!Low(l, n) <=> x.anomaly_flagged
    BY <1>2, <1>8 DEF HostOK
  <2>3. CASE b /\ ~x.anomaly_flagged
    <3>1. P = O \cup {n + 1}
      BY <1>10, <2>1, <2>2, <2>3
    <3>2. Cardinality(P) = Cardinality(O) + 1
      BY <2>1, <3>1, FS_AddElement
    <3>3. QED BY <1>13, <2>1, <2>3, <3>2
  <2>4. CASE ~(b /\ ~x.anomaly_flagged)
    <3>1. P = O
      BY <1>8, <1>10, <2>1, <2>2, <2>4
    <3>2. QED BY <1>13, <2>1, <2>4, <3>1
  <2>5. QED BY <2>3, <2>4
<1>15. PICK f, q : f = OnsetsOf(logs) /\ q = OnsetsOf(g)
  OBVIOUS
<1>16. /\ q[h] = f[h] + d /\ \A y \in Keys : y # h => q[y] = f[y]
       /\ \A y \in Keys : f[y] \in Nat
  <2>1. g[h] = m /\ \A y \in Keys : y # h => g[y] = logs[y]
    BY <1>1, <1>2
  <2>2. ASSUME NEW y \in Keys PROVE f[y] \in Nat
    <3>1. logs[y] \in Seq(Ttls)
      BY <1>2
    <3>2. Cardinality(Ttl!Onsets(logs[y])) \in Nat
      BY <1>2, <3>1, OnsetsGrow
    <3>3. QED BY <1>15, <3>2 DEF OnsetsOf
  <2>3. f[h] = Cardinality(O) /\ q[h] = Cardinality(P)
    BY <1>1, <1>2, <1>13, <1>15, <2>1 DEF OnsetsOf
  <2>4. \A y \in Keys : y # h => q[y] = f[y]
    BY <1>15, <2>1 DEF OnsetsOf
  <2>5. QED BY <1>14, <2>2, <2>3, <2>4
<1>17. SumFunctionOnSet(q, Keys) = SumFunctionOnSet(f, Keys) + d /\ SumFunctionOnSet(f, Keys) \in Nat
  <2>1. /\ IsFiniteSet(Keys) /\ d \in Nat /\ h \in Keys /\ \A y \in Keys : f[y] \in Nat
        /\ q[h] = f[h] + d /\ \A y \in Keys : y # h => q[y] = f[y]
    BY <1>2, <1>14, <1>16, TtlConstants
  <2>2. QED BY <2>1, SumGains
<1>18. ObservedAt(es, i, ttl) = [es EXCEPT ![i] = e] /\ Noted(logs, h, ttl) = g
  <2>1. ObservedAt(es, i, ttl) = [es EXCEPT ![i] = e]
    BY <1>1 DEF ObservedAt
  <2>2. Noted(logs, h, ttl) = g
    BY <1>1, <1>2, SMTT(15) DEF Noted
  <2>3. QED BY <2>1, <2>2
<1>19. b <=> Ttl!IsAnomaly(es[i], ttl)
  BY <1>1, <1>3 DEF Ttl!IsAnomaly
<1>20. QED BY <1>1, <1>19, <1>12, <1>13, <1>15, <1>17, <1>18

\* ttltrack_update of a host that has no entry.
LEMMA TtlNew ==
    ASSUME NEW tab, NEW logs, HostsOK(tab, logs), NEW h \in Keys, NEW ttl \in Ttls,
           Unknown(tab, h), NEW es, es = Append(tab, Ttl!Fresh(h, ttl))
    PROVE  /\ HostsOK(ObservedAt(es, Len(es), ttl), Noted(logs, h, ttl))
           /\ Len(ObservedAt(es, Len(es), ttl)) = Len(tab) + 1
           /\ ~es[Len(es)].anomaly_flagged
           /\ SumFunctionOnSet(OnsetsOf(Noted(logs, h, ttl)), Keys) =
                 SumFunctionOnSet(OnsetsOf(logs), Keys) +
                 (IF Ttl!IsAnomaly(es[Len(es)], ttl) THEN 1 ELSE 0)
           /\ SumFunctionOnSet(OnsetsOf(logs), Keys) \in Nat
<1>1. PICK x, e, m, g : /\ x = Ttl!Fresh(h, ttl) /\ e = Ttl!Observed(x, ttl)
                        /\ m = <<ttl>> /\ g = [logs EXCEPT ![h] = m]
  OBVIOUS
<1>2. /\ tab \in Seq(HostEntry) /\ logs \in [Keys -> Seq(Ttls)] /\ logs[h] = <<>>
  BY DEF HostsOK, Unknown
<1>3. PICK b : b = (x.baseline_ttl - ttl > Threshold)
  OBVIOUS
<1>4. b \in BOOLEAN
  BY <1>3
<1>5. PICK q : q = Ttl!GuessBaseline(ttl)
  OBVIOUS
<1>6. q \in {64, 128, 255}
  BY <1>5 DEF Ttl!GuessBaseline
<1>7. x = [src_ip |-> h, baseline_ttl |-> q, observed_ttl |-> 0, pkt_count |-> 0, anomaly_flagged |-> FALSE]
  BY <1>1, <1>5 DEF Ttl!Fresh
<1>8. e = [x EXCEPT !.observed_ttl = ttl, !.pkt_count = 1, !.anomaly_flagged = b]
  <2>1. 0 + 1 = 1 /\ x.pkt_count = 0
    BY <1>7
  <2>2. QED BY <1>1, <1>3, <2>1 DEF Ttl!Observed, Ttl!IsAnomaly
<1>9. e \in HostEntry /\ e.src_ip = h /\ e.baseline_ttl = q /\ e.anomaly_flagged = b
  BY <1>4, <1>6, <1>7, <1>8 DEF HostEntry
<1>10. m \in Seq(Ttls) /\ Len(m) = 1 /\ m[1] = ttl /\ m # <<>> /\ m = Append(<<>>, ttl)
  BY <1>1
<1>11. Ttl!Low(m, 1) <=> b
  BY <1>3, <1>5, <1>7, <1>10 DEF Ttl!Low
<1>12. HostOK(e, m)
  BY <1>5, <1>9, <1>10, <1>11 DEF HostOK
<1>13. PICK n \in Nat : n = Len(tab) /\ DOMAIN tab = 1 .. n
  BY <1>2
<1>14. /\ Len(es) = n + 1 /\ DOMAIN es = 1 .. n + 1 /\ es[n + 1] = x
       /\ \A j \in 1 .. n : es[j] = tab[j]
  BY <1>1, <1>13, <1>2
<1>15. PICK r : r = Append(tab, e)
  OBVIOUS
<1>16. /\ r \in Seq(HostEntry) /\ Len(r) = n + 1 /\ DOMAIN r = 1 .. n + 1 /\ r[n + 1] = e
       /\ \A j \in 1 .. n : r[j] = tab[j]
  BY <1>2, <1>9, <1>13, <1>15
<1>17. ObservedAt(es, Len(es), ttl) = r
  <2>1. PICK s : s = ObservedAt(es, Len(es), ttl)
    OBVIOUS
  <2>2. n + 1 \in 1 .. n + 1 /\ \A j \in 1 .. n + 1 : j = n + 1 \/ j \in 1 .. n
    OBVIOUS
  <2>3. s = [es EXCEPT ![n + 1] = e]
    BY <1>1, <1>14, <2>1, <2>2 DEF ObservedAt
  <2>4. s = [j \in 1 .. n + 1 |-> IF j = n + 1 THEN e ELSE es[j]]
    BY <1>14, <2>2, <2>3
  <2>5. \A j \in 1 .. n + 1 : s[j] = r[j]
    BY <1>14, <1>16, <2>2, <2>4
  <2>6. r = [j \in 1 .. n + 1 |-> r[j]]
    BY <1>16
  <2>7. QED BY <2>1, <2>4, <2>5, <2>6
<1>18. g \in [Keys -> Seq(Ttls)] /\ g[h] = m /\ \A k \in Keys : k # h => g[k] = logs[k]
  BY <1>1, <1>2, <1>10
<1>19. Noted(logs, h, ttl) = g
  <2>1. Append(<<>>, ttl) = m
    BY <1>1
  <2>2. PICK o : o = Append(logs[h], ttl)
    OBVIOUS
  <2>3. o = m
    BY <1>2, <2>1, <2>2, Zenon
  <2>4. Noted(logs, h, ttl) = [logs EXCEPT ![h] = o]
    BY <2>2, Zenon DEF Noted
  <2>5. QED BY <1>1, <2>3, <2>4, Zenon
<1>20. \A j \in 1 .. n : r[j].src_ip \in Keys /\ r[j].src_ip # h
  <2>1. \A j \in 1 .. n : tab[j] \in HostEntry /\ tab[j].src_ip # h
    <3>1. \A j \in 1 .. n : tab[j] \in HostEntry
      BY <1>2, <1>13
    <3>2. \A j \in 1 .. n : tab[j].src_ip # h
      BY <1>13, Zenon DEF Unknown
    <3>3. QED BY <3>1, <3>2
  <2>2. \A z \in HostEntry : z.src_ip \in Keys
    BY DEF HostEntry
  <2>3. QED BY <1>16, <2>1, <2>2
<1>21. \A j \in 1 .. n + 1 : j = n + 1 \/ j \in 1 .. n
  OBVIOUS
<1>22. \A j \in 1 .. n + 1 : HostOK(r[j], g[r[j].src_ip])
  <2>1. \A j \in 1 .. n : HostOK(tab[j], logs[tab[j].src_ip])
    BY <1>13 DEF HostsOK
  <2>2. \A j \in 1 .. n : HostOK(r[j], g[r[j].src_ip])
    BY <1>16, <1>18, <1>20, <2>1
  <2>3. HostOK(r[n + 1], g[r[n + 1].src_ip])
    BY <1>9, <1>12, <1>16, <1>18
  <2>4. QED BY <1>21, <2>2, <2>3
<1>23. \A j, k \in 1 .. n + 1 : r[j].src_ip = r[k].src_ip => j = k
  <2>1. \A j, k \in 1 .. n : r[j].src_ip = r[k].src_ip => j = k
    BY <1>13, <1>16 DEF HostsOK
  <2>2. QED BY <1>9, <1>16, <1>20, <1>21, <2>1
<1>24. \A k \in Keys : (\A j \in 1 .. n + 1 : r[j].src_ip # k) => g[k] = <<>>
  <2> SUFFICES ASSUME NEW k \in Keys, \A j \in 1 .. n + 1 : r[j].src_ip # k PROVE g[k] = <<>>
    OBVIOUS
  <2>1. n + 1 \in 1 .. n + 1 /\ \A j \in 1 .. n : j \in 1 .. n + 1
    OBVIOUS
  <2>2. k # h
    BY <1>9, <1>16, <2>1
  <2>3. \A j \in DOMAIN tab : tab[j].src_ip # k
    BY <1>13, <1>16, <2>1
  <2>4. logs[k] = <<>>
    BY <2>3 DEF HostsOK
  <2>5. QED BY <1>18, <2>2, <2>4
<1>25. HostsOK(r, g)
  BY <1>16, <1>18, <1>22, <1>23, <1>24 DEF HostsOK
<1>26. PICK d : d = IF b THEN 1 ELSE 0
  OBVIOUS
<1>27. /\ Cardinality(Ttl!Onsets(<<>>)) = 0 /\ Cardinality(Ttl!Onsets(m)) = d /\ d \in Nat
  <2>1. /\ IsFiniteSet(Ttl!Onsets(<<>>)) /\ Len(<<>>) + 1 \notin Ttl!Onsets(<<>>)
        /\ Ttl!Onsets(m) = IF Ttl!Low(m, Len(<<>>) + 1) /\ ~(<<>> # <<>> /\ Ttl!Low(<<>>, Len(<<>>)))
                           THEN Ttl!Onsets(<<>>) \cup {Len(<<>>) + 1} ELSE Ttl!Onsets(<<>>)
    <3>1. <<>> \in Seq(Ttls)
      OBVIOUS
    <3>2. QED BY <1>10, <3>1, OnsetsGrow, ZenonT(20)
  <2>2. Ttl!Onsets(<<>>) = {} /\ Len(<<>>) + 1 = 1
    BY DEF Ttl!Onsets
  <2>3. Ttl!Onsets(m) = IF b THEN {1} ELSE {}
    BY <1>11, <2>1, <2>2
  <2>4. Cardinality({1}) = 1 /\ Cardinality({}) = 0
    BY FS_Singleton, FS_EmptySet
  <2>5. QED BY <1>4, <1>26, <2>2, <2>3, <2>4
<1>28. PICK f, p : f = OnsetsOf(logs) /\ p = OnsetsOf(g)
  OBVIOUS
<1>29. /\ p[h] = f[h] + d /\ \A y \in Keys : y # h => p[y] = f[y]
       /\ \A y \in Keys : f[y] \in Nat
  <2>2. ASSUME NEW y \in Keys PROVE f[y] \in Nat
    <3>1. logs[y] \in Seq(Ttls)
      BY <1>2
    <3>2. Cardinality(Ttl!Onsets(logs[y])) \in Nat
      BY <3>1, OnsetsGrow
    <3>3. QED BY <1>28, <3>2 DEF OnsetsOf
  <2>3. f[h] = 0 /\ p[h] = d
    BY <1>2, <1>18, <1>27, <1>28 DEF OnsetsOf
  <2>4. \A y \in Keys : y # h => p[y] = f[y]
    BY <1>18, <1>28 DEF OnsetsOf
  <2>5. QED BY <1>27, <2>2, <2>3, <2>4
<1>30. SumFunctionOnSet(p, Keys) = SumFunctionOnSet(f, Keys) + d /\ SumFunctionOnSet(f, Keys) \in Nat
  BY <1>27, <1>29, TtlConstants, SumGains
<1>31. es[Len(es)] = x /\ ~x.anomaly_flagged
  BY <1>7, <1>14
<1>32. Ttl!IsAnomaly(x, ttl) <=> b
  BY <1>3 DEF Ttl!IsAnomaly
<1>33. QED BY <1>13, <1>16, <1>17, <1>19, <1>25, <1>26, <1>28, <1>30, <1>31, <1>32

LEMMA TtlStep == TtlInv /\ [Next]_vars => TtlInv'
<1> SUFFICES ASSUME TtlInv, [Next]_vars PROVE TtlInv'
  OBVIOUS
<1>0. /\ HostsOK(ttl_entries, seen) /\ Len(ttl_entries) <= TtlMax /\ Len(ttl_entries) \in Nat
      /\ anomalies_detected = SumFunctionOnSet(OnsetsOf(seen), Keys)
  BY DEF TtlInv, HostsOK
<1>1. ASSUME NEW h \in Keys, NEW ttl \in Ttls, Ttl!Update(h, ttl)
      PROVE  TtlInv'
  <2>1. PICK g : g = Noted(seen, h, ttl)
    OBVIOUS
  <2>2. seen' = g
    BY <1>1, <2>1 DEF Ttl!Update, Noted
  <2>3. CASE Ttl!Of(h) = {}
    <3>1. PICK es : es = Append(ttl_entries, Ttl!Fresh(h, ttl))
      OBVIOUS
    <3>2. /\ ttl_entries' = ObservedAt(es, Len(es), ttl) /\ Len(ttl_entries) < TtlMax
          /\ anomalies_detected' = IF Ttl!IsAnomaly(es[Len(es)], ttl) /\ ~es[Len(es)].anomaly_flagged
                                   THEN anomalies_detected + 1 ELSE anomalies_detected
      BY <1>1, <2>3, <3>1 DEF Ttl!Update, ObservedAt
    <3>3. Unknown(ttl_entries, h)
      BY <2>3 DEF Ttl!Of, Unknown
    <3>4. /\ HostsOK(ObservedAt(es, Len(es), ttl), Noted(seen, h, ttl))
          /\ Len(ObservedAt(es, Len(es), ttl)) = Len(ttl_entries) + 1
          /\ ~es[Len(es)].anomaly_flagged
          /\ SumFunctionOnSet(OnsetsOf(Noted(seen, h, ttl)), Keys) =
                SumFunctionOnSet(OnsetsOf(seen), Keys) +
                (IF Ttl!IsAnomaly(es[Len(es)], ttl) THEN 1 ELSE 0)
          /\ SumFunctionOnSet(OnsetsOf(seen), Keys) \in Nat
      BY <1>0, <3>1, <3>3, TtlNew, ZenonT(20)
    <3>5. Len(ttl_entries') <= TtlMax
      BY <1>0, <3>2, <3>4, TtlConstants
    <3>6. anomalies_detected' = SumFunctionOnSet(OnsetsOf(g), Keys)
      BY <1>0, <2>1, <3>2, <3>4
    <3>7. QED BY <2>1, <2>2, <3>2, <3>4, <3>5, <3>6 DEF TtlInv
  <2>4. CASE Ttl!Of(h) # {}
    <3>1. PICK i : i = Ttl!Min(Ttl!Of(h))
      OBVIOUS
    <3>2. i \in DOMAIN ttl_entries /\ h = ttl_entries[i].src_ip
      <4>1. Ttl!Of(h) \in SUBSET Nat
        BY <1>0 DEF Ttl!Of, HostsOK
      <4>2. i \in Ttl!Of(h)
        BY <2>4, <3>1, <4>1, MinIsIn, TtlOps
      <4>3. QED BY <4>2 DEF Ttl!Of
    <3>3. /\ ttl_entries' = ObservedAt(ttl_entries, i, ttl)
          /\ anomalies_detected' = IF Ttl!IsAnomaly(ttl_entries[i], ttl) /\ ~ttl_entries[i].anomaly_flagged
                                   THEN anomalies_detected + 1 ELSE anomalies_detected
      BY <1>1, <2>4, <3>1 DEF Ttl!Update, ObservedAt
    <3>4. /\ HostsOK(ObservedAt(ttl_entries, i, ttl), g)
          /\ Len(ObservedAt(ttl_entries, i, ttl)) = Len(ttl_entries)
          /\ SumFunctionOnSet(OnsetsOf(g), Keys) =
                SumFunctionOnSet(OnsetsOf(seen), Keys) +
                (IF Ttl!IsAnomaly(ttl_entries[i], ttl) /\ ~ttl_entries[i].anomaly_flagged THEN 1 ELSE 0)
          /\ SumFunctionOnSet(OnsetsOf(seen), Keys) \in Nat
      BY <1>0, <2>1, <3>2, TtlKnown
    <3>5. anomalies_detected' = SumFunctionOnSet(OnsetsOf(g), Keys)
      BY <1>0, <2>1, <3>3, <3>4
    <3>6. QED BY <1>0, <2>1, <2>2, <3>3, <3>4, <3>5 DEF TtlInv
  <2>5. QED BY <2>3, <2>4
<1>2. CASE Ttl!Reset
  BY <1>2, TtlEmpty DEF Ttl!Reset, TtlInv
<1>3. CASE UNCHANGED ttlVars
  BY <1>3 DEF ttlVars, TtlInv, HostsOK
<1>4. CASE Ttl!Next
  BY <1>1, <1>2, <1>4 DEF Ttl!Next
<1>5. QED BY <1>3, <1>4 DEF Next, Only, vars

\* What the invariant says of the hosts.
LEMMA TtlImplied == TtlInv => Ttl!TypeOK /\ Ttl!OnsetsCounted
<1> SUFFICES ASSUME TtlInv PROVE Ttl!TypeOK /\ Ttl!OnsetsCounted
  OBVIOUS
<1>1. /\ ttl_entries \in Seq(HostEntry) /\ seen \in [Keys -> Seq(Ttls)] /\ Len(ttl_entries) <= TtlMax
      /\ anomalies_detected = SumFunctionOnSet(OnsetsOf(seen), Keys)
  BY DEF TtlInv, HostsOK
<1>2. OnsetsOf(seen) = [h \in Keys |-> Ttl!Cardinality(Ttl!Onsets(seen[h]))]
  BY TtlOps DEF OnsetsOf
<1>3. Ttl!OnsetsCounted
  BY <1>1, <1>2, TtlOps DEF Ttl!OnsetsCounted
<1>4. anomalies_detected \in Nat
  <2>1. ASSUME NEW y \in Keys PROVE OnsetsOf(seen)[y] \in Nat
    <3>1. seen[y] \in Seq(Ttls)
      BY <1>1
    <3>2. PICK t : t \in Ttls \/ Ttls = {}
      OBVIOUS
    <3>3. Cardinality(Ttl!Onsets(seen[y])) \in Nat
      <4>1. CASE t \in Ttls
        BY <3>1, <4>1, OnsetsGrow
      <4>2. CASE Ttls = {}
        <5>1. seen[y] = <<>>
          BY <3>1, <4>2
        <5>2. Ttl!Onsets(<<>>) = {}
          BY DEF Ttl!Onsets
        <5>3. QED BY <5>1, <5>2, FS_EmptySet
      <4>3. QED BY <3>2, <4>1, <4>2
    <3>4. QED BY <3>3 DEF OnsetsOf
  <2>2. PICK f : f = OnsetsOf(seen)
    OBVIOUS
  <2>3. SumFunctionOnSet(f, Keys) \in Nat
    BY <2>1, <2>2, TtlConstants, SumRemove
  <2>4. QED BY <1>1, <2>2, <2>3
<1>5. Ttl!TypeOK
  BY <1>1, <1>4 DEF Ttl!TypeOK, HostEntry
<1>6. QED BY <1>3, <1>5

-----------------------------------------------------------------------------
\* alarm.c
LEMMA AlmOps == \A S : Alm!Cardinality(S) = Cardinality(S)
BY DEF Alm!Cardinality, Cardinality

Rule == [threshold : Thresholds, triggered : BOOLEAN, trigger_count : Nat, since : Nat]
Rate == [pps : Rates, heard : BOOLEAN]

\* High and Crossings of the rates rs.
HighAt(r, rs, i) == i > r.since /\ rs[i].pps >= r.threshold
CrossingsIn(r, rs) == {i \in DOMAIN rs : HighAt(r, rs, i) /\ ~(i > 1 /\ HighAt(r, rs, i - 1))}

\* The evaluations at which rule i called, of the calls cs.
CallsOf(cs, i) == {c[2] : c \in {d \in cs : d[1] = i}}

\* What a rule says of the rates rs; S are the evaluations at which it called.
RuleOK(r, rs, S) ==
    /\ r.since <= Len(rs)
    /\ r.triggered <=> HighAt(r, rs, Len(rs))
    /\ r.trigger_count = Cardinality(CrossingsIn(r, rs))
    /\ S = {n \in CrossingsIn(r, rs) : rs[n].heard}

\* The inductive invariant of alarm.c.
AlarmInv ==
    /\ rules \in Seq(Rule) /\ Len(rules) <= capacity /\ capacity \in Nat
    /\ callback \in BOOLEAN /\ rates \in Seq(Rate)
    /\ \A c \in calls : c[1] \in DOMAIN rules
    /\ \A i \in DOMAIN rules : RuleOK(rules[i], rates, CallsOf(calls, i))

\* One more rate: a crossing if it is high and the one before was not.
LEMMA CrossingsGrow ==
    ASSUME NEW rs \in Seq(Rate), NEW q \in Rate, NEW r \in Rule, r.since <= Len(rs),
           NEW m, m = Append(rs, q)
    PROVE  /\ IsFiniteSet(CrossingsIn(r, rs)) /\ Cardinality(CrossingsIn(r, rs)) \in Nat
           /\ CrossingsIn(r, rs) \in SUBSET (1 .. Len(rs))
           /\ HighAt(r, m, Len(rs) + 1) <=> q.pps >= r.threshold
           /\ CrossingsIn(r, m) = IF q.pps >= r.threshold /\ ~HighAt(r, rs, Len(rs))
                                  THEN CrossingsIn(r, rs) \cup {Len(rs) + 1} ELSE CrossingsIn(r, rs)
<1>1. PICK n \in Nat : n = Len(rs) /\ DOMAIN rs = 1 .. n
  OBVIOUS
<1>2. Len(m) = n + 1 /\ DOMAIN m = 1 .. n + 1 /\ m[n + 1] = q /\ \A i \in 1 .. n : m[i] = rs[i]
  BY <1>1
<1>3. PICK s \in Nat : s = r.since /\ s <= n
  BY <1>1 DEF Rule
<1>4. HighAt(r, m, n + 1) <=> q.pps >= r.threshold
  <2>1. n + 1 > s
    BY <1>3
  <2>2. QED BY <1>2, <1>3, <2>1 DEF HighAt
<1>5. \A i \in 1 .. n : HighAt(r, m, i) <=> HighAt(r, rs, i)
  BY <1>2 DEF HighAt
<1>6. PICK C, D : C = CrossingsIn(r, rs) /\ D = CrossingsIn(r, m)
  OBVIOUS
<1>7. C = {i \in 1 .. n : HighAt(r, rs, i) /\ ~(i > 1 /\ HighAt(r, rs, i - 1))}
  BY <1>1, <1>6 DEF CrossingsIn
<1>8. D = {i \in 1 .. n + 1 : HighAt(r, m, i) /\ ~(i > 1 /\ HighAt(r, m, i - 1))}
  BY <1>2, <1>6 DEF CrossingsIn
<1>9. \A i \in 1 .. n : i \in D <=> i \in C
  <2>1. \A i \in 1 .. n : i \in 1 .. n + 1 /\ (i > 1 => i - 1 \in 1 .. n)
    BY <1>1
  <2>2. QED BY <1>5, <1>7, <1>8, <2>1
<1>10. n + 1 \in D <=> q.pps >= r.threshold /\ ~HighAt(r, rs, n)
  <2>1. CASE n = 0
    <3>1. ~HighAt(r, rs, n)
      BY <1>3, <2>1 DEF HighAt
    <3>2. n + 1 \in 1 .. n + 1 /\ ~(n + 1 > 1)
      BY <2>1
    <3>3. QED BY <1>4, <1>8, <3>1, <3>2
  <2>2. CASE n # 0
    <3>1. n + 1 \in 1 .. n + 1 /\ n + 1 > 1 /\ (n + 1) - 1 = n /\ n \in 1 .. n
      BY <2>2
    <3>2. HighAt(r, m, (n + 1) - 1) <=> HighAt(r, rs, n)
      BY <1>5, <3>1
    <3>3. QED BY <1>4, <1>8, <3>1, <3>2, Zenon
  <2>3. QED BY <2>1, <2>2
<1>11. \A i \in 1 .. n + 1 : i = n + 1 \/ i \in 1 .. n
  BY <1>1
<1>12. C \in SUBSET (1 .. n) /\ D \in SUBSET (1 .. n + 1)
  BY <1>7, <1>8
<1>13. IsFiniteSet(C) /\ Cardinality(C) \in Nat
  <2>1. IsFiniteSet(1 .. n)
    BY FS_Interval
  <2>2. QED BY <1>12, <2>1, FS_Subset, FS_CardinalityType
<1>14. CASE q.pps >= r.threshold /\ ~HighAt(r, rs, n)
  <2>1. D = C \cup {n + 1}
    BY <1>9, <1>10, <1>11, <1>12, <1>14
  <2>2. QED BY <1>1, <1>4, <1>6, <1>12, <1>13, <1>14, <2>1
<1>15. CASE ~(q.pps >= r.threshold /\ ~HighAt(r, rs, n))
  <2>1. D = C
    BY <1>9, <1>10, <1>11, <1>12, <1>15
  <2>2. QED BY <1>1, <1>4, <1>6, <1>12, <1>13, <1>15, <2>1
<1>16. QED BY <1>14, <1>15

\* What alarm_evaluate makes of rule r at rate pps.
Evaluated(r, pps) == [r EXCEPT !.triggered = pps >= r.threshold,
                               !.trigger_count = IF Alm!Rises(r, pps) THEN @ + 1 ELSE @]

\* The evaluations at which a rule that called at S has called, with number n.
Heard(r, q, S, n) == IF q.heard /\ Alm!Rises(r, q.pps) THEN S \cup {n} ELSE S

LEMMA RuleEvaluated ==
    ASSUME NEW rs \in Seq(Rate), NEW q \in Rate, NEW r \in Rule, NEW S, RuleOK(r, rs, S),
           NEW m, m = Append(rs, q), NEW e, e = Evaluated(r, q.pps)
    PROVE  /\ e \in Rule
           /\ RuleOK(e, m, Heard(r, q, S, Len(rs) + 1))
<1>1. PICK b : b = (q.pps >= r.threshold)
  OBVIOUS
<1>2. PICK c : c = IF Alm!Rises(r, q.pps) THEN r.trigger_count + 1 ELSE r.trigger_count
  OBVIOUS
<1>3. e = [r EXCEPT !.triggered = b, !.trigger_count = c]
  BY <1>1, <1>2 DEF Evaluated
<1>4. r.trigger_count \in Nat /\ r.triggered \in BOOLEAN /\ b \in BOOLEAN /\ q.heard \in BOOLEAN
  <2>1. r.trigger_count \in Nat /\ r.triggered \in BOOLEAN
    BY DEF Rule
  <2>2. q.heard \in BOOLEAN
    BY DEF Rate
  <2>3. b \in BOOLEAN
    BY <1>1
  <2>4. QED BY <2>1, <2>2, <2>3
<1>5. c \in Nat
  BY <1>2, <1>4
<1>6. e \in Rule /\ e.since = r.since /\ e.threshold = r.threshold /\ e.triggered = b /\ e.trigger_count = c
  BY <1>3, <1>4, <1>5 DEF Rule
<1>7. \A l : CrossingsIn(e, l) = CrossingsIn(r, l) /\ \A i : HighAt(e, l, i) <=> HighAt(r, l, i)
  BY <1>6 DEF CrossingsIn, HighAt
<1>8. PICK C, D : C = CrossingsIn(r, rs) /\ D = CrossingsIn(r, m)
  OBVIOUS
<1>9. PICK n \in Nat : n = Len(rs)
  OBVIOUS
<1>10. /\ r.since <= n /\ (r.triggered <=> HighAt(r, rs, n)) /\ r.trigger_count = Cardinality(C)
       /\ S = {k \in C : rs[k].heard}
  BY <1>8, <1>9 DEF RuleOK
<1>11. /\ IsFiniteSet(C) /\ Cardinality(C) \in Nat /\ C \in SUBSET (1 .. n)
       /\ HighAt(r, m, n + 1) <=> b
       /\ D = IF b /\ ~HighAt(r, rs, n) THEN C \cup {n + 1} ELSE C
  <2>1. r.since <= Len(rs)
    BY <1>9, <1>10
  <2>2. QED BY <1>1, <1>8, <1>9, <2>1, CrossingsGrow
<1>12. Alm!Rises(r, q.pps) <=> b /\ ~HighAt(r, rs, n)
  BY <1>1, <1>10 DEF Alm!Rises
<1>13. Len(m) = n + 1 /\ m[n + 1] = q /\ \A k \in 1 .. n : m[k] = rs[k]
  BY <1>9
<1>14. e.since <= Len(m)
  <2>1. r.since \in Nat
    BY DEF Rule
  <2>2. QED BY <1>6, <1>10, <1>13, <2>1
<1>15. n + 1 \notin C
  <2>1. n + 1 \notin 1 .. n
    BY <1>9
  <2>2. QED BY <1>11, <2>1
<1>16. e.trigger_count = Cardinality(D)
  <2>1. CASE b /\ ~HighAt(r, rs, n)
    <3>1. D = C \cup {n + 1}
      BY <1>11, <2>1
    <3>2. Cardinality(D) = Cardinality(C) + 1
      BY <1>11, <1>15, <3>1, FS_AddElement
    <3>3. QED BY <1>2, <1>6, <1>10, <1>12, <2>1, <3>2
  <2>2. CASE ~(b /\ ~HighAt(r, rs, n))
    BY <1>2, <1>6, <1>10, <1>11, <1>12, <2>2
  <2>3. QED BY <2>1, <2>2
<1>17. PICK T : T = Heard(r, q, S, n + 1) /\ T = IF q.heard /\ Alm!Rises(r, q.pps) THEN S \cup {n + 1} ELSE S
  BY DEF Heard
<1>18. T = {k \in D : m[k].heard}
  <2>1. \A k \in C : m[k] = rs[k]
    BY <1>11, <1>13
  <2>2. CASE b /\ ~HighAt(r, rs, n)
    <3>1. D = C \cup {n + 1}
      BY <1>11, <2>2
    <3>2. CASE q.heard
      BY <1>10, <1>12, <1>13, <1>17, <2>1, <2>2, <3>1, <3>2
    <3>3. CASE ~q.heard
      BY <1>10, <1>12, <1>13, <1>17, <2>1, <2>2, <3>1, <3>3
    <3>4. QED BY <3>2, <3>3
  <2>3. CASE ~(b /\ ~HighAt(r, rs, n))
    BY <1>10, <1>11, <1>12, <1>17, <2>1, <2>3
  <2>4. QED BY <2>2, <2>3
<1>19. RuleOK(e, m, T)
  BY <1>6, <1>7, <1>8, <1>11, <1>13, <1>14, <1>16, <1>18 DEF RuleOK
<1>20. QED BY <1>6, <1>9, <1>17, <1>19

LEMMA AlarmConstants ==
    Thresholds \in SUBSET Nat /\ Rates \in SUBSET Nat /\ Capacity \in Nat
BY TablesAssumption, Zenon DEF Alm!AlarmAssumption

\* Without rules.
LEMMA AlarmNone ==
    ASSUME NEW r, r = <<>>, NEW rs, rs = <<>>, NEW cs, cs = {}, NEW cap, cap \in {0, Capacity}
    PROVE  /\ r \in Seq(Rule) /\ Len(r) <= cap /\ cap \in Nat /\ rs \in Seq(Rate)
           /\ \A c \in cs : c[1] \in DOMAIN r
           /\ \A i \in DOMAIN r : RuleOK(r[i], rs, CallsOf(cs, i))
<1>1. DOMAIN r = {} /\ Len(r) = 0 /\ r \in Seq(Rule) /\ rs \in Seq(Rate)
  OBVIOUS
<1>2. cap \in Nat
  BY AlarmConstants
<1>3. Len(r) <= cap
  BY <1>1, <1>2
<1>4. QED BY <1>1, <1>2, <1>3

LEMMA AlarmInit == Init => AlarmInv
<1> SUFFICES ASSUME Init PROVE AlarmInv
  OBVIOUS
<1>1. rules = <<>> /\ capacity = Capacity /\ callback = FALSE /\ rates = <<>> /\ calls = {}
  BY DEF Init, Alm!Init
<1>2. QED BY <1>1, AlarmNone DEF AlarmInv

LEMMA AlarmAdd ==
    ASSUME AlarmInv, NEW threshold \in Thresholds, Alm!AddRule(threshold)
    PROVE  AlarmInv'
<1>1. PICK e, r : /\ e = [threshold |-> threshold, triggered |-> FALSE, trigger_count |-> 0,
                          since |-> Len(rates)]
                  /\ r = Append(rules, e)
  OBVIOUS
<1>2. rules' = r /\ Len(rules) < capacity /\ UNCHANGED <<capacity, callback, rates, calls>>
  BY <1>1 DEF Alm!AddRule
<1>3. /\ rules \in Seq(Rule) /\ capacity \in Nat /\ rates \in Seq(Rate)
      /\ \A c \in calls : c[1] \in DOMAIN rules
      /\ \A i \in DOMAIN rules : RuleOK(rules[i], rates, CallsOf(calls, i))
  BY DEF AlarmInv
<1>4. e \in Rule /\ e.since = Len(rates) /\ e.triggered = FALSE /\ e.trigger_count = 0
  <2>1. Len(rates) \in Nat
    BY <1>3
  <2>2. QED BY <1>1, <2>1 DEF Rule
<1>5. PICK n \in Nat : n = Len(rules) /\ DOMAIN rules = 1 .. n
  BY <1>3
<1>6. /\ r \in Seq(Rule) /\ Len(r) = n + 1 /\ DOMAIN r = 1 .. n + 1 /\ r[n + 1] = e
      /\ \A i \in 1 .. n : r[i] = rules[i]
  BY <1>1, <1>3, <1>4, <1>5
<1>7. CallsOf(calls, n + 1) = {}
  <2>1. n + 1 \notin DOMAIN rules
    BY <1>5
  <2>2. {d \in calls : d[1] = n + 1} = {}
    BY <1>3, <2>1
  <2>3. QED BY <2>2 DEF CallsOf
<1>8. PICK k \in Nat : k = Len(rates) /\ DOMAIN rates = 1 .. k
  BY <1>3
<1>9. RuleOK(e, rates, {})
  <2>1. ~HighAt(e, rates, k) /\ \A i \in 1 .. k : ~HighAt(e, rates, i)
    BY <1>4, <1>8 DEF HighAt
  <2>2. CrossingsIn(e, rates) = {}
    BY <1>8, <2>1 DEF CrossingsIn
  <2>3. Cardinality(CrossingsIn(e, rates)) = 0
    BY <2>2, FS_EmptySet
  <2>4. QED BY <1>4, <1>8, <2>1, <2>2, <2>3 DEF RuleOK
<1>10. \A i \in 1 .. n + 1 : i = n + 1 \/ i \in 1 .. n
  BY <1>5
<1>11. \A i \in 1 .. n + 1 : RuleOK(r[i], rates, CallsOf(calls, i))
  BY <1>3, <1>5, <1>6, <1>7, <1>9, <1>10
<1>12. Len(r) <= capacity
  BY <1>2, <1>3, <1>5, <1>6
<1>13. \A c \in calls : c[1] \in DOMAIN r
  <2>1. DOMAIN rules \in SUBSET (DOMAIN r)
    BY <1>5, <1>6
  <2>2. QED BY <1>3, <2>1
<1>14. QED BY <1>2, <1>3, <1>6, <1>11, <1>12, <1>13 DEF AlarmInv

LEMMA AlarmEvaluate ==
    ASSUME AlarmInv, NEW pps \in Rates, Alm!Evaluate(pps)
    PROVE  AlarmInv'
<1>1. PICK q, m : q = [pps |-> pps, heard |-> callback] /\ m = Append(rates, q)
  OBVIOUS
<1>2. PICK r : r = [i \in DOMAIN rules |-> Evaluated(rules[i], pps)]
  OBVIOUS
<1>3. PICK U : U = {j \in DOMAIN rules : Alm!Rises(rules[j], pps)}
  OBVIOUS
<1>4. /\ rules \in Seq(Rule) /\ capacity \in Nat /\ rates \in Seq(Rate) /\ callback \in BOOLEAN
      /\ Len(rules) <= capacity /\ \A c \in calls : c[1] \in DOMAIN rules
      /\ \A i \in DOMAIN rules : RuleOK(rules[i], rates, CallsOf(calls, i))
  BY DEF AlarmInv
<1>5. q \in Rate /\ q.pps = pps /\ q.heard = callback
  BY <1>1, <1>4 DEF Rate
<1>6. PICK k \in Nat : k = Len(rates) /\ DOMAIN rates = 1 .. k
  BY <1>4
<1>7. m \in Seq(Rate) /\ DOMAIN m = 1 .. k + 1 /\ Len(m) = k + 1
  BY <1>1, <1>4, <1>5, <1>6
<1>8. /\ rates' = m /\ rules' = r /\ UNCHANGED <<capacity, callback>>
      /\ calls' = IF callback THEN calls \cup {<<i, k + 1>> : i \in U} ELSE calls
  <2>1. r = [i \in DOMAIN rules |-> [rules[i] EXCEPT !.triggered = pps >= rules[i].threshold,
                      !.trigger_count = IF Alm!Rises(rules[i], pps) THEN @ + 1 ELSE @]]
    BY <1>2, Zenon DEF Evaluated
  <2>2. QED BY <1>1, <1>3, <1>6, <2>1 DEF Alm!Evaluate
<1>9. PICK n \in Nat : n = Len(rules) /\ DOMAIN rules = 1 .. n
  BY <1>4
<1>10. ASSUME NEW i \in DOMAIN rules
       PROVE  r[i] \in Rule /\ RuleOK(r[i], m, CallsOf(calls', i))
  <2>1. r[i] = Evaluated(rules[i], q.pps) /\ rules[i] \in Rule
    BY <1>2, <1>4, <1>5
  <2>2. PICK S : S = CallsOf(calls, i) /\ RuleOK(rules[i], rates, S)
    BY <1>4
  <2>3. /\ r[i] \in Rule
        /\ RuleOK(r[i], m, IF q.heard /\ Alm!Rises(rules[i], q.pps) THEN S \cup {Len(rates) + 1} ELSE S)
    <3>1. PICK x, e : x = rules[i] /\ e = r[i]
      OBVIOUS
    <3>2. x \in Rule /\ RuleOK(x, rates, S) /\ e = Evaluated(x, q.pps)
      BY <2>1, <2>2, <3>1
    <3>3. /\ e \in Rule
          /\ RuleOK(e, m, Heard(x, q, S, Len(rates) + 1))
      BY <1>1, <1>4, <1>5, <3>2, RuleEvaluated
    <3>4. QED BY <3>1, <3>3 DEF Heard
  <2>4. CASE callback
    <3>1. PICK V : V = {<<j, k + 1>> : j \in U}
      OBVIOUS
    <3>2. CallsOf(calls \cup V, i) = CallsOf(calls, i) \cup CallsOf(V, i)
      BY DEF CallsOf
    <3>3. i \in U => CallsOf(V, i) = {k + 1}
      <4> SUFFICES ASSUME i \in U PROVE CallsOf(V, i) = {k + 1}
        OBVIOUS
      <4>1. \A d \in V : d[2] = k + 1
        BY <3>1
      <4>2. <<i, k + 1>> \in V /\ <<i, k + 1>>[1] = i /\ <<i, k + 1>>[2] = k + 1
        BY <3>1
      <4>3. PICK w : w \in V /\ w[1] = i /\ w[2] = k + 1
        BY <4>2
      <4>4. QED BY <4>1, <4>3 DEF CallsOf
    <3>4. i \notin U => CallsOf(V, i) = {}
      <4>1. \A d \in V : d[1] \in U
        BY <3>1
      <4>2. QED BY <4>1 DEF CallsOf
    <3>5. i \in U <=> Alm!Rises(rules[i], q.pps)
      BY <1>3, <1>5
    <3>6. CASE i \in U
      <4>1. CallsOf(calls', i) = S \cup {k + 1}
        BY <1>8, <2>2, <2>4, <3>1, <3>2, <3>3, <3>6
      <4>2. QED BY <1>5, <1>6, <2>3, <2>4, <3>5, <3>6, <4>1
    <3>7. CASE i \notin U
      <4>1. CallsOf(calls', i) = S
        BY <1>8, <2>2, <2>4, <3>1, <3>2, <3>4, <3>7
      <4>2. QED BY <1>5, <1>6, <2>3, <2>4, <3>5, <3>7, <4>1
    <3>8. QED BY <3>6, <3>7
  <2>5. CASE ~callback
    BY <1>5, <1>8, <2>2, <2>3, <2>5
  <2>6. QED BY <1>4, <2>4, <2>5
<1>11. r \in Seq(Rule) /\ Len(r) = Len(rules) /\ DOMAIN r = DOMAIN rules
  <2>1. r \in [1 .. n -> Rule]
    BY <1>2, <1>9, <1>10
  <2>2. QED BY <1>9, <2>1
<1>12. \A c \in calls' : c[1] \in DOMAIN rules
  <2>1. \A c \in {<<i, k + 1>> : i \in U} : c[1] \in DOMAIN rules
    BY <1>3
  <2>2. calls' \in SUBSET (calls \cup {<<i, k + 1>> : i \in U})
    BY <1>8
  <2>3. QED BY <1>4, <2>1, <2>2
<1>13. /\ rules' \in Seq(Rule) /\ Len(rules') <= capacity' /\ capacity' \in Nat
       /\ callback' \in BOOLEAN /\ rates' \in Seq(Rate) /\ \A c \in calls' : c[1] \in DOMAIN rules'
  BY <1>4, <1>7, <1>8, <1>11, <1>12
<1>14. \A i \in DOMAIN rules' : RuleOK(rules'[i], rates', CallsOf(calls', i))
  BY <1>8, <1>10, <1>11
<1>15. QED BY <1>13, <1>14 DEF AlarmInv

LEMMA AlarmStep == AlarmInv /\ [Next]_vars => AlarmInv'
<1> SUFFICES ASSUME AlarmInv, [Next]_vars PROVE AlarmInv'
  OBVIOUS
<1>1. CASE Alm!Free
  <2>1. /\ rules' = <<>> /\ capacity' = 0 /\ rates' = <<>> /\ calls' = {} /\ callback' = callback
        /\ callback \in BOOLEAN
    BY <1>1 DEF Alm!Free, AlarmInv
  <2>2. QED BY <2>1, AlarmNone DEF AlarmInv
<1>2. CASE Alm!Restart
  <2>1. /\ rules' = <<>> /\ capacity' = Capacity /\ rates' = <<>> /\ calls' = {} /\ callback' = FALSE
    BY <1>2 DEF Alm!Restart
  <2>2. QED BY <2>1, AlarmNone DEF AlarmInv
<1>3. ASSUME NEW set \in BOOLEAN, Alm!SetCallback(set)
      PROVE  AlarmInv'
  BY <1>3 DEF Alm!SetCallback, AlarmInv
<1>4. CASE UNCHANGED alarmVars
  BY <1>4 DEF alarmVars, AlarmInv
<1>5. CASE Alm!Next
  BY <1>1, <1>2, <1>3, <1>5, AlarmAdd, AlarmEvaluate DEF Alm!Next
<1>6. QED BY <1>4, <1>5 DEF Next, Only, vars

\* What the invariant says of the alarms.
LEMMA AlarmImplied == AlarmInv => Alm!TypeOK /\ Alm!CrossingsCounted
<1> SUFFICES ASSUME AlarmInv PROVE Alm!TypeOK /\ Alm!CrossingsCounted
  OBVIOUS
<1>1. Alm!TypeOK
  BY DEF Alm!TypeOK, AlarmInv, Rule
<1>2. \A r : Alm!Crossings(r) = CrossingsIn(r, rates)
  BY DEF Alm!Crossings, CrossingsIn, Alm!High, HighAt
<1>3. ASSUME NEW i \in DOMAIN rules
      PROVE  /\ rules[i].trigger_count = Alm!Cardinality(Alm!Crossings(rules[i]))
             /\ {c[2] : c \in {d \in calls : d[1] = i}} = {n \in Alm!Crossings(rules[i]) : rates[n].heard}
  <2>1. RuleOK(rules[i], rates, CallsOf(calls, i))
    BY DEF AlarmInv
  <2>2. QED BY <1>2, <2>1, AlmOps DEF RuleOK, CallsOf
<1>4. Alm!CrossingsCounted
  BY <1>3 DEF Alm!CrossingsCounted
<1>5. QED BY <1>1, <1>4

-----------------------------------------------------------------------------
\* portmap.c implements PortNames.
LEMMA PortOps ==
    /\ \A es, i : Port!SwapOut(es, i) = SwapOut(es, i)
    /\ \A S : Port!Min(S) = Min(S) /\ Port!Map!Cardinality(S) = Cardinality(S)
    /\ \A s : Port!ToSet(s) = ToSet(s)
<1>1. \A es, i : Port!SwapOut(es, i) = SwapOut(es, i)
  BY DEF Port!SwapOut, SwapOut, Port!Front, Front, Port!ReplaceAt, ReplaceAt, Port!Last, Last
<1>2. \A S : Port!Min(S) = Min(S) /\ Port!Map!Cardinality(S) = Cardinality(S)
  BY DEF Port!Min, Min, Port!Map!Cardinality, Cardinality
<1>3. \A s : Port!ToSet(s) = ToSet(s)
  BY DEF Port!ToSet, ToSet
<1>4. QED BY <1>1, <1>2, <1>3

PortEntry == [port : Ports, name : Names]
OnePerPort(ps) == \A i, j \in DOMAIN ps : ps[i].port = ps[j].port => i = j

\* The inductive invariant of portmap.c: a port has one entry.
PortInv == ports \in Seq(PortEntry) /\ Len(ports) <= PortMax /\ OnePerPort(ports)

\* Port!Lookup of the table ps.
PortsOf(ps) == {ps[i].port : i \in DOMAIN ps}
NamesIn(ps) == [p \in PortsOf(ps) |-> ps[Min({i \in DOMAIN ps : ps[i].port = p})].name]

LEMMA PortConstants ==
    Defaults \in Seq(PortEntry) /\ Len(Defaults) <= PortMax /\ OnePerPort(Defaults) /\ PortMax \in Nat
BY TablesAssumption, Zenon DEF Port!PortMapAssumption, PortEntry, OnePerPort

\* With one entry per port, a lookup gives that entry's name.
LEMMA NamesAre ==
    ASSUME NEW ps \in Seq(PortEntry), OnePerPort(ps)
    PROVE  /\ DOMAIN NamesIn(ps) = PortsOf(ps)
           /\ \A i \in DOMAIN ps : /\ NamesIn(ps)[ps[i].port] = ps[i].name
                                   /\ Min({j \in DOMAIN ps : ps[j].port = ps[i].port}) = i
           /\ NamesIn(ps) = [p \in PortsOf(ps) |-> NamesIn(ps)[p]]
           /\ IsFiniteSet(PortsOf(ps)) /\ Cardinality(PortsOf(ps)) = Len(ps)
<1>1. DOMAIN NamesIn(ps) = PortsOf(ps) /\ NamesIn(ps) = [p \in PortsOf(ps) |-> NamesIn(ps)[p]]
  BY DEF NamesIn
<1>2. ASSUME NEW i \in DOMAIN ps
      PROVE  /\ NamesIn(ps)[ps[i].port] = ps[i].name
             /\ Min({j \in DOMAIN ps : ps[j].port = ps[i].port}) = i
  <2>1. PICK I : I = {j \in DOMAIN ps : ps[j].port = ps[i].port}
    OBVIOUS
  <2>2. I \in SUBSET Nat /\ i \in I /\ \A j \in I : j = i
    BY <2>1 DEF OnePerPort
  <2>3. Min(I) = i
    BY <2>2, MinIsIn
  <2>4. ps[i].port \in PortsOf(ps)
    BY DEF PortsOf
  <2>5. NamesIn(ps)[ps[i].port] = ps[Min(I)].name
    BY <2>1, <2>4 DEF NamesIn
  <2>6. QED BY <2>1, <2>3, <2>5
<1>3. IsFiniteSet(PortsOf(ps)) /\ Cardinality(PortsOf(ps)) = Len(ps)
  <2>1. IsFiniteSet(DOMAIN ps) /\ Cardinality(DOMAIN ps) = Len(ps)
    BY Indices
  <2>2. PICK f : f = [i \in DOMAIN ps |-> ps[i].port]
    OBVIOUS
  <2>3. f \in Bijection(DOMAIN ps, PortsOf(ps))
    <3>1. f \in [DOMAIN ps -> PortsOf(ps)]
      BY <2>2 DEF PortsOf
    <3>2. \A i, j \in DOMAIN ps : f[i] = f[j] => i = j
      BY <2>2 DEF OnePerPort
    <3>3. \A p \in PortsOf(ps) : \E i \in DOMAIN ps : f[i] = p
      BY <2>2 DEF PortsOf
    <3>4. QED BY <3>1, <3>2, <3>3 DEF Bijection, Injection, Surjection, IsInjective
  <2>4. ExistsBijection(DOMAIN ps, PortsOf(ps))
    BY <2>3 DEF ExistsBijection
  <2>5. QED BY <2>1, <2>4, FS_Bijection
<1>4. QED BY <1>1, <1>2, <1>3

\* Two maps are equal that have the entries' names.
LEMMA SameNames ==
    ASSUME NEW ps \in Seq(PortEntry), OnePerPort(ps), NEW f,
           f = [p \in PortsOf(ps) |-> f[p]], \A i \in DOMAIN ps : f[ps[i].port] = ps[i].name
    PROVE  f = NamesIn(ps)
<1>1. ASSUME NEW p \in PortsOf(ps) PROVE f[p] = NamesIn(ps)[p]
  <2>1. PICK i \in DOMAIN ps : p = ps[i].port
    BY DEF PortsOf
  <2>2. QED BY <2>1, NamesAre
<1>2. QED BY <1>1, NamesAre

LEMMA PortLookup == Port!Lookup = NamesIn(ports) /\ Port!Lookup' = NamesIn(ports')
BY PortOps DEF Port!Lookup, NamesIn, PortsOf, Port!Of

\* The built-in table, as a map.
LEMMA PortDefaults ==
    [p \in {Defaults[i].port : i \in DOMAIN Defaults} |->
        (CHOOSE e \in Port!ToSet(Defaults) : e.port = p).name] = NamesIn(Defaults)
<1>1. PICK f : f = [p \in PortsOf(Defaults) |-> (CHOOSE e \in ToSet(Defaults) : e.port = p).name]
  OBVIOUS
<1>2. ASSUME NEW i \in DOMAIN Defaults PROVE f[Defaults[i].port] = Defaults[i].name
  <2>1. PICK p : p = Defaults[i].port
    OBVIOUS
  <2>2. p \in PortsOf(Defaults)
    BY <2>1 DEF PortsOf
  <2>3. PICK e : e = CHOOSE d \in ToSet(Defaults) : d.port = p
    OBVIOUS
  <2>4. Defaults[i] \in ToSet(Defaults)
    BY DEF ToSet
  <2>5. e \in ToSet(Defaults) /\ e.port = p
    BY <2>1, <2>3, <2>4, Zenon
  <2>6. PICK j \in DOMAIN Defaults : e = Defaults[j]
    BY <2>5 DEF ToSet
  <2>7. j = i
    BY <2>1, <2>5, <2>6, PortConstants DEF OnePerPort
  <2>8. f[p] = e.name
    BY <1>1, <2>2, <2>3
  <2>9. QED BY <2>1, <2>6, <2>7, <2>8
<1>3. f = [p \in PortsOf(Defaults) |-> f[p]]
  BY <1>1
<1>4. f = NamesIn(Defaults)
  BY <1>2, <1>3, PortConstants, SameNames
<1>5. QED BY <1>1, <1>4, PortOps DEF PortsOf

LEMMA PortRegister ==
    ASSUME PortInv, NEW p \in Ports, NEW n \in Names, Port!Register(p, n)
    PROVE  PortInv' /\ Port!Map!Register(p, n)
<1>1. /\ ports \in Seq(PortEntry) /\ Len(ports) <= PortMax /\ OnePerPort(ports)
      /\ Len(ports) < PortMax /\ port_call' = <<"register", p, n>> /\ Len(ports) \in Nat /\ PortMax \in Nat
  BY PortConstants DEF PortInv, Port!Register, Port!Room
<1>2. PICK L, M : L = NamesIn(ports) /\ M = [q \in PortsOf(ports) \cup {p} |-> IF q = p THEN n ELSE L[q]]
  OBVIOUS
<1>3. /\ DOMAIN L = PortsOf(ports) /\ L = [q \in PortsOf(ports) |-> L[q]]
      /\ \A i \in DOMAIN ports : L[ports[i].port] = ports[i].name
      /\ Cardinality(PortsOf(ports)) = Len(ports)
  BY <1>1, <1>2, NamesAre
<1>4. SUFFICES ASSUME NEW r \in Seq(PortEntry), ports' = r, Len(r) <= PortMax, OnePerPort(r),
                      PortsOf(r) = PortsOf(ports) \cup {p},
                      \A i \in DOMAIN r : r[i].name = IF r[i].port = p THEN n ELSE L[r[i].port]
               PROVE  PortInv' /\ Port!Map!Register(p, n)
  <2>1. CASE Port!Of(p) # {}
    <3>1. PICK i : i = Min(Port!Of(p))
      OBVIOUS
    <3>2. i \in DOMAIN ports /\ ports[i].port = p
      <4>1. Port!Of(p) \in SUBSET Nat
        BY <1>1 DEF Port!Of
      <4>2. i \in Port!Of(p)
        BY <2>1, <3>1, <4>1, MinIsIn
      <4>3. QED BY <4>2 DEF Port!Of
    <3>3. PICK x, e : x = ports[i] /\ e = [x EXCEPT !.name = n]
      OBVIOUS
    <3>4. x \in PortEntry /\ e \in PortEntry /\ e.port = p /\ e.name = n
      <4>1. x \in PortEntry
        BY <1>1, <3>2, <3>3
      <4>2. QED BY <3>2, <3>3, <4>1 DEF PortEntry
    <3>5. PICK r : r = [ports EXCEPT ![i] = e]
      OBVIOUS
    <3>6. /\ r \in Seq(PortEntry) /\ Len(r) = Len(ports) /\ DOMAIN r = DOMAIN ports
          /\ r[i] = e /\ \A j \in DOMAIN ports : j # i => r[j] = ports[j]
      BY <1>1, <3>2, <3>4, <3>5
    <3>7. ports' = r
      <4>1. ports' = [ports EXCEPT ![i].name = n]
        BY <2>1, <3>1, PortOps DEF Port!Register
      <4>2. QED BY <1>1, <3>2, <3>3, <3>5, <4>1
    <3>8. \A j \in DOMAIN ports : r[j].port = ports[j].port
      BY <3>2, <3>4, <3>6
    <3>9. OnePerPort(r)
      BY <1>1, <3>6, <3>8 DEF OnePerPort
    <3>10. PortsOf(r) = PortsOf(ports) \cup {p}
      BY <3>2, <3>6, <3>8 DEF PortsOf
    <3>11. \A j \in DOMAIN r : r[j].name = IF r[j].port = p THEN n ELSE L[r[j].port]
      <4>1. \A j \in DOMAIN ports : j # i => ports[j].port # p
        BY <1>1, <3>2 DEF OnePerPort
      <4>2. QED BY <1>3, <3>4, <3>6, <4>1
    <3>12. QED BY <1>1, <1>4, <3>6, <3>7, <3>9, <3>10, <3>11
  <2>2. CASE Port!Of(p) = {}
    <3>1. PICK e, r : e = [port |-> p, name |-> n] /\ r = Append(ports, e)
      OBVIOUS
    <3>2. e \in PortEntry /\ e.port = p /\ e.name = n
      BY <3>1 DEF PortEntry
    <3>3. PICK k \in Nat : k = Len(ports) /\ DOMAIN ports = 1 .. k
      BY <1>1
    <3>4. /\ r \in Seq(PortEntry) /\ Len(r) = k + 1 /\ DOMAIN r = 1 .. k + 1 /\ r[k + 1] = e
          /\ \A j \in 1 .. k : r[j] = ports[j]
      BY <1>1, <3>1, <3>2, <3>3
    <3>5. ports' = r
      BY <2>2, <3>1 DEF Port!Register
    <3>6. \A j \in 1 .. k : ports[j].port # p
      BY <2>2, <3>3 DEF Port!Of
    <3>7. \A j \in 1 .. k + 1 : j = k + 1 \/ j \in 1 .. k
      OBVIOUS
    <3>8. OnePerPort(r)
      <4>1. \A i, j \in 1 .. k : r[i].port = r[j].port => i = j
        BY <1>1, <3>3, <3>4 DEF OnePerPort
      <4>2. QED BY <3>2, <3>4, <3>6, <3>7, <4>1 DEF OnePerPort
    <3>9. PortsOf(r) = PortsOf(ports) \cup {p}
      <4>1. \A j \in 1 .. k : j \in 1 .. k + 1 /\ k + 1 \in 1 .. k + 1
        OBVIOUS
      <4>2. k + 1 \in 1 .. k + 1
        OBVIOUS
      <4>3. \A q \in PortsOf(r) : q \in PortsOf(ports) \cup {p}
        BY <3>2, <3>3, <3>4, <3>7 DEF PortsOf
      <4>4. \A q \in PortsOf(ports) : q \in PortsOf(r)
        BY <3>3, <3>4, <4>1 DEF PortsOf
      <4>5. p \in PortsOf(r)
        BY <3>2, <3>4, <4>2 DEF PortsOf
      <4>6. QED BY <4>3, <4>4, <4>5
    <3>10. \A j \in DOMAIN r : r[j].name = IF r[j].port = p THEN n ELSE L[r[j].port]
      BY <1>3, <3>2, <3>3, <3>4, <3>6, <3>7
    <3>11. Len(r) <= PortMax
      BY <1>1, <3>3, <3>4
    <3>12. QED BY <1>4, <3>4, <3>5, <3>8, <3>9, <3>10, <3>11
  <2>3. QED BY <2>1, <2>2
<1>5. PortInv'
  BY <1>4 DEF PortInv
<1>6. M = NamesIn(r)
  <2>1. M = [q \in PortsOf(r) |-> M[q]]
    BY <1>2, <1>4
  <2>2. \A i \in DOMAIN r : M[r[i].port] = r[i].name
    <3>1. \A i \in DOMAIN r : r[i].port \in PortsOf(r)
      BY DEF PortsOf
    <3>2. QED BY <1>2, <1>4, <3>1
  <2>3. QED BY <1>4, <2>1, <2>2, SameNames
<1>7. Port!Lookup = L /\ Port!Lookup' = M
  BY <1>2, <1>4, <1>6, PortLookup
<1>8. Port!Map!Cardinality(DOMAIN L) < PortMax
  BY <1>1, <1>3, PortOps
<1>9. QED BY <1>1, <1>2, <1>3, <1>5, <1>7, <1>8 DEF Port!Map!Register

LEMMA PortRemove ==
    ASSUME PortInv, NEW p \in Ports, Port!RemovePort(p)
    PROVE  PortInv' /\ Port!Map!Remove(p)
<1>1. /\ ports \in Seq(PortEntry) /\ Len(ports) <= PortMax /\ OnePerPort(ports)
      /\ port_call' = <<"remove", p>> /\ Port!Of(p) # {} /\ Len(ports) \in Nat /\ PortMax \in Nat
  BY PortConstants DEF PortInv, Port!RemovePort
<1>2. PICK L : L = NamesIn(ports)
  OBVIOUS
<1>3. /\ DOMAIN L = PortsOf(ports) /\ \A i \in DOMAIN ports : L[ports[i].port] = ports[i].name
  BY <1>1, <1>2, NamesAre
<1>4. PICK i : i = Min(Port!Of(p))
  OBVIOUS
<1>5. i \in DOMAIN ports /\ ports[i].port = p
  <2>1. Port!Of(p) \in SUBSET Nat
    BY <1>1 DEF Port!Of
  <2>2. i \in Port!Of(p)
    BY <1>1, <1>4, <2>1, MinIsIn
  <2>3. QED BY <2>2 DEF Port!Of
<1>6. PICK r : r = SwapOut(ports, i)
  OBVIOUS
<1>7. ports' = r
  BY <1>4, <1>6, PortOps DEF Port!RemovePort
<1>8. r \in Seq(PortEntry) /\ Len(r) = Len(ports) - 1
  BY <1>1, <1>5, <1>6, SwapOutIs
<1>9. PICK m : Moves(m, ports, r, i)
  BY <1>1, <1>5, <1>6, SwapOutMoves
<1>10. /\ \A j \in DOMAIN r : m[j] \in DOMAIN ports /\ m[j] # i /\ r[j] = ports[m[j]]
       /\ \A j, k \in DOMAIN r : m[j] = m[k] => j = k
       /\ \A k \in DOMAIN ports : k # i => \E j \in DOMAIN r : m[j] = k
  BY <1>9 DEF Moves
<1>11. OnePerPort(r)
  BY <1>1, <1>10 DEF OnePerPort
<1>12. PortsOf(r) = PortsOf(ports) \ {p}
  <2>1. \A k \in DOMAIN ports : k # i => ports[k].port # p
    BY <1>1, <1>5 DEF OnePerPort
  <2>2. \A q \in PortsOf(r) : q \in PortsOf(ports) \ {p}
    BY <1>10, <2>1 DEF PortsOf
  <2>3. \A q \in PortsOf(ports) \ {p} : q \in PortsOf(r)
    <3> SUFFICES ASSUME NEW q \in PortsOf(ports), q # p PROVE q \in PortsOf(r)
      OBVIOUS
    <3>1. PICK k \in DOMAIN ports : q = ports[k].port
      BY DEF PortsOf
    <3>2. PICK j \in DOMAIN r : m[j] = k
      BY <1>5, <1>10, <3>1
    <3>3. q = r[j].port
      BY <1>10, <3>1, <3>2
    <3>4. QED BY <3>3 DEF PortsOf
  <2>4. QED BY <2>2, <2>3
<1>13. PICK M : M = [q \in PortsOf(ports) \ {p} |-> L[q]]
  OBVIOUS
<1>14. M = NamesIn(r)
  <2>1. M = [q \in PortsOf(r) |-> M[q]]
    BY <1>12, <1>13
  <2>2. \A j \in DOMAIN r : M[r[j].port] = r[j].name
    <3>1. \A j \in DOMAIN r : r[j].port \in PortsOf(r)
      BY DEF PortsOf
    <3>2. QED BY <1>3, <1>10, <1>12, <1>13, <3>1
  <2>3. QED BY <1>8, <1>11, <2>1, <2>2, SameNames
<1>15. Port!Lookup = L /\ Port!Lookup' = M
  BY <1>2, <1>7, <1>14, PortLookup
<1>16. PortInv'
  BY <1>1, <1>7, <1>8, <1>11 DEF PortInv
<1>17. p \in PortsOf(ports)
  BY <1>5 DEF PortsOf
<1>18. QED BY <1>1, <1>3, <1>13, <1>15, <1>16, <1>17 DEF Port!Map!Remove

\* An empty table has no names.
LEMMA NoNames == OnePerPort(<<>>) /\ <<>> \in Seq(PortEntry) /\ Len(<<>>) = 0 /\ NamesIn(<<>>) = <<>>
<1>1. OnePerPort(<<>>) /\ <<>> \in Seq(PortEntry) /\ Len(<<>>) = 0 /\ PortsOf(<<>>) = {}
  BY DEF OnePerPort, PortsOf
<1>2. NamesIn(<<>>) = <<>>
  <2>1. PICK f : f = NamesIn(<<>>)
    OBVIOUS
  <2>2. f = [p \in {} |-> f[p]]
    BY <1>1, <2>1 DEF NamesIn
  <2>3. QED BY <2>1, <2>2
<1>3. QED BY <1>1, <1>2

\* A step of the table is one of the map, or changes neither.
LEMMA PortStep == PortInv /\ [Next]_vars => PortInv' /\ [Port!Map!Next]_(Port!Map!vars)
<1> SUFFICES ASSUME PortInv, [Next]_vars PROVE PortInv' /\ [Port!Map!Next]_(Port!Map!vars)
  OBVIOUS
<1>1. ASSUME NEW p \in Ports, NEW n \in Names, Port!Register(p, n)
      PROVE  PortInv' /\ Port!Map!Next
  <2>1. PortInv' /\ Port!Map!Register(p, n)
    BY <1>1, PortRegister
  <2>2. QED BY <2>1 DEF Port!Map!Next
<1>2. ASSUME NEW p \in Ports, Port!RemovePort(p)
      PROVE  PortInv' /\ Port!Map!Next
  <2>1. PortInv' /\ Port!Map!Remove(p)
    BY <1>2, PortRemove
  <2>2. QED BY <2>1 DEF Port!Map!Next
<1>3. ASSUME Port!Clear
      PROVE  PortInv' /\ Port!Map!Next
  <2>1. ports' = <<>> /\ port_call' = <<"clear">>
    BY <1>3 DEF Port!Clear
  <2>2. Port!Lookup' = <<>>
    BY <2>1, NoNames, PortLookup
  <2>3. Port!Map!Clear
    BY <2>1, <2>2 DEF Port!Map!Clear
  <2>4. PortInv'
    BY <2>1, NoNames, PortConstants DEF PortInv
  <2>5. QED BY <2>3, <2>4 DEF Port!Map!Next
<1>4. ASSUME Port!Restart
      PROVE  PortInv' /\ Port!Map!Next
  <2>1. ports' = Defaults /\ port_call' = <<"init">>
    BY <1>4 DEF Port!Restart
  <2>2. Port!Lookup' = NamesIn(Defaults)
    BY <2>1, PortLookup
  <2>3. Port!Map!Restart
    BY <2>1, <2>2, PortDefaults DEF Port!Map!Restart
  <2>4. PortInv'
    BY <2>1, PortConstants DEF PortInv
  <2>5. QED BY <2>3, <2>4 DEF Port!Map!Next
<1>5. CASE UNCHANGED portVars
  <2>1. ports' = ports /\ port_call' = port_call
    BY <1>5 DEF portVars
  <2>2. Port!Lookup' = Port!Lookup
    BY <2>1, PortLookup
  <2>3. UNCHANGED Port!Map!vars
    BY <2>1, <2>2 DEF Port!Map!vars
  <2>4. PortInv'
    BY <2>1 DEF PortInv
  <2>5. QED BY <2>3, <2>4
<1>6. CASE Port!Next
  BY <1>1, <1>2, <1>3, <1>4, <1>6 DEF Port!Next
<1>7. QED BY <1>5, <1>6 DEF Next, Only, vars

LEMMA PortInit == Init => PortInv /\ Port!Map!Init
<1> SUFFICES ASSUME Init PROVE PortInv /\ Port!Map!Init
  OBVIOUS
<1>1. ports = Defaults /\ port_call = <<"init">>
  BY DEF Init, Port!Init
<1>2. PortInv
  BY <1>1, PortConstants DEF PortInv
<1>3. Port!Lookup = NamesIn(Defaults)
  BY <1>1, PortLookup
<1>4. Port!Map!Init
  BY <1>1, <1>3, PortDefaults DEF Port!Map!Init
<1>5. QED BY <1>2, <1>4

LEMMA PortImplied == PortInv => Port!TypeOK
BY DEF PortInv, Port!TypeOK, PortEntry

-----------------------------------------------------------------------------
\* mactrack.c and flowtrack.c implement Tracker.  Slots A are in use; slot s
\* has the key K[s] and the counts and times V[s].
InUse(A, K) == A \in SUBSET (1 .. Size) /\ \A s, t \in A : K[s] = K[t] => s = t
KeysOf(A, K) == {K[s] : s \in A}
KnownIn(A, K, V) == [k \in KeysOf(A, K) |-> V[Min({s \in A : K[s] = k})]]

LEMMA InUseFinite ==
    ASSUME NEW A \in SUBSET (1 .. Size)
    PROVE  IsFiniteSet(A) /\ Cardinality(A) \in 0 .. Size /\ Size \in Nat
<1>1. Size \in Nat
  BY TablesAssumption, Zenon DEF Mac!MacTrackAssumption
<1>2. IsFiniteSet(1 .. Size) /\ Cardinality(1 .. Size) = Size
  BY <1>1, FS_Interval
<1>3. IsFiniteSet(A) /\ Cardinality(A) <= Cardinality(1 .. Size)
  BY <1>2, FS_Subset
<1>4. Cardinality(A) \in Nat
  BY <1>3, FS_CardinalityType
<1>5. QED BY <1>1, <1>2, <1>3, <1>4

\* With one slot per key, the map has that slot's counts.
LEMMA KnownIs ==
    ASSUME NEW A, NEW K, NEW V, InUse(A, K)
    PROVE  /\ \A s \in A : KnownIn(A, K, V)[K[s]] = V[s] /\ K[s] \in KeysOf(A, K)
           /\ Cardinality(KeysOf(A, K)) = Cardinality(A)
<1>2. ASSUME NEW s \in A
      PROVE  KnownIn(A, K, V)[K[s]] = V[s] /\ K[s] \in KeysOf(A, K)
  <2>1. PICK I : I = {t \in A : K[t] = K[s]}
    OBVIOUS
  <2>2. I \in SUBSET Nat
    <3>1. A \in SUBSET (1 .. Size) /\ Size \in Nat
      BY InUseFinite DEF InUse
    <3>2. A \in SUBSET Nat
      BY <3>1
    <3>3. QED BY <2>1, <3>2
  <2>3. s \in I /\ \A t \in I : t = s
    BY <2>1 DEF InUse
  <2>4. Min(I) = s
    BY <2>2, <2>3, MinIsIn
  <2>5. K[s] \in KeysOf(A, K)
    BY DEF KeysOf
  <2>6. KnownIn(A, K, V)[K[s]] = V[Min(I)]
    BY <2>1, <2>5 DEF KnownIn
  <2>7. QED BY <2>1, <2>4, <2>5, <2>6
<1>3. Cardinality(KeysOf(A, K)) = Cardinality(A)
  <2>1. IsFiniteSet(A)
    BY InUseFinite DEF InUse
  <2>2. PICK f : f = [s \in A |-> K[s]]
    OBVIOUS
  <2>3. f \in Bijection(A, KeysOf(A, K))
    <3>1. f \in [A -> KeysOf(A, K)]
      BY <2>2 DEF KeysOf
    <3>2. \A s, t \in A : f[s] = f[t] => s = t
      BY <2>2 DEF InUse
    <3>3. \A k \in KeysOf(A, K) : \E s \in A : f[s] = k
      BY <2>2 DEF KeysOf
    <3>4. QED BY <3>1, <3>2, <3>3 DEF Bijection, Injection, Surjection, IsInjective
  <2>4. ExistsBijection(A, KeysOf(A, K))
    BY <2>3 DEF ExistsBijection
  <2>5. QED BY <2>1, <2>4, FS_Bijection
<1>4. QED BY <1>2, <1>3

LEMMA KnownMap ==
    ASSUME NEW A, NEW K, NEW V
    PROVE  /\ DOMAIN KnownIn(A, K, V) = KeysOf(A, K)
           /\ KnownIn(A, K, V) = [k \in KeysOf(A, K) |-> KnownIn(A, K, V)[k]]
BY DEF KnownIn

LEMMA SameKnown ==
    ASSUME NEW A, NEW K, NEW V, InUse(A, K), NEW f,
           f = [k \in KeysOf(A, K) |-> f[k]], \A s \in A : f[K[s]] = V[s]
    PROVE  f = KnownIn(A, K, V)
<1>1. ASSUME NEW k \in KeysOf(A, K) PROVE f[k] = KnownIn(A, K, V)[k]
  <2>1. PICK s \in A : k = K[s]
    BY DEF KeysOf
  <2>2. KnownIn(A, K, V)[K[s]] = V[s]
    BY KnownIs
  <2>3. QED BY <2>1, <2>2
<1>2. KnownIn(A, K, V) = [k \in KeysOf(A, K) |-> KnownIn(A, K, V)[k]]
  BY KnownMap, Zenon
<1>3. QED BY <1>1, <1>2

\* A packet of a key in use.
LEMMA KnownAgain ==
    ASSUME NEW A, NEW K, NEW V, InUse(A, K), NEW s \in A,
           NEW L, NEW W, \A t \in A : L[t] = K[t] /\ (t # s => W[t] = V[t])
    PROVE  InUse(A, L) /\ KnownIn(A, L, W) = [KnownIn(A, K, V) EXCEPT ![K[s]] = W[s]]
<1>1. InUse(A, L)
  BY DEF InUse
<1>2. PICK M, f : M = KnownIn(A, K, V) /\ f = [M EXCEPT ![K[s]] = W[s]]
  OBVIOUS
<1>3. /\ DOMAIN M = KeysOf(A, K) /\ K[s] \in KeysOf(A, K) /\ \A t \in A : M[K[t]] = V[t]
      /\ M = [k \in KeysOf(A, K) |-> M[k]]
  <2>1. K[s] \in KeysOf(A, K) /\ \A t \in A : M[K[t]] = V[t]
    BY <1>2, KnownIs
  <2>2. DOMAIN M = KeysOf(A, K) /\ M = [k \in KeysOf(A, K) |-> M[k]]
    BY <1>2, KnownMap, Zenon
  <2>3. QED BY <2>1, <2>2
<1>4. KeysOf(A, L) = KeysOf(A, K)
  BY DEF KeysOf
<1>5. \A t \in A : K[t] \in KeysOf(A, K)
  BY DEF KeysOf
<1>6. f = [k \in KeysOf(A, K) |-> IF k = K[s] THEN W[s] ELSE M[k]]
  BY <1>2, <1>3
<1>7. f = [k \in KeysOf(A, L) |-> f[k]]
  BY <1>4, <1>6
<1>8. \A t \in A : f[L[t]] = W[t]
  <2>1. ASSUME NEW t \in A PROVE f[K[t]] = W[t]
    <3>1. CASE t = s
      BY <1>3, <1>6, <3>1
    <3>2. CASE t # s
      <4>1. K[t] # K[s]
        BY <3>2 DEF InUse
      <4>2. f[K[t]] = M[K[t]]
        BY <1>5, <1>6, <4>1
      <4>3. QED BY <1>3, <3>2, <4>2
    <3>3. QED BY <3>1, <3>2
  <2>2. QED BY <2>1
<1>9. f = KnownIn(A, L, W)
  BY <1>1, <1>7, <1>8, SameKnown
<1>10. QED BY <1>1, <1>2, <1>9

\* A packet of a new key, in a free slot.
MapPlus(M, S, k, v) == [q \in S \cup {k} |-> IF q = k THEN v ELSE M[q]]
MapLess(M, S, T) == [q \in S \ T |-> M[q]]

Adds(A, s, K, V, L, W) ==
    /\ s \in 1 .. Size /\ s \notin A
    /\ \A t \in A : L[t] = K[t] /\ W[t] = V[t]
    /\ L[s] \notin KeysOf(A, K)
Added(A, s, K, V, L, W) ==
    /\ InUse(A \cup {s}, L)
    /\ KnownIn(A \cup {s}, L, W) = MapPlus(KnownIn(A, K, V), KeysOf(A, K), L[s], W[s])
    /\ Cardinality(A \cup {s}) = Cardinality(A) + 1

LEMMA KnownNew ==
    ASSUME NEW A, NEW K, NEW V, InUse(A, K), NEW s, NEW L, NEW W, Adds(A, s, K, V, L, W)
    PROVE  Added(A, s, K, V, L, W)
<1>0. /\ s \in 1 .. Size /\ s \notin A /\ \A t \in A : L[t] = K[t] /\ W[t] = V[t]
      /\ L[s] \notin KeysOf(A, K)
  BY DEF Adds
<1>1. PICK B, M, f : /\ B = A \cup {s} /\ M = KnownIn(A, K, V)
                     /\ f = [q \in KeysOf(A, K) \cup {L[s]} |-> IF q = L[s] THEN W[s] ELSE M[q]]
  OBVIOUS
<1>2. \A t \in A : M[K[t]] = V[t] /\ K[t] \in KeysOf(A, K)
  BY <1>1, KnownIs
<1>3. InUse(B, L)
  <2>1. A \in SUBSET (1 .. Size) /\ \A t, u \in A : K[t] = K[u] => t = u
    BY DEF InUse
  <2>2. B \in SUBSET (1 .. Size)
    BY <1>0, <1>1, <2>1
  <2>3. ASSUME NEW t \in B, NEW u \in B, L[t] = L[u] PROVE t = u
    <3>1. \A x \in A : L[x] = K[x] /\ K[x] # L[s]
      BY <1>0, <1>2
    <3>2. CASE t = s \/ u = s
      BY <1>1, <2>3, <3>1, <3>2
    <3>3. CASE t \in A /\ u \in A
      BY <2>1, <2>3, <3>1, <3>3
    <3>4. QED BY <1>1, <3>2, <3>3
  <2>4. QED BY <2>2, <2>3 DEF InUse
<1>4. KeysOf(B, L) = KeysOf(A, K) \cup {L[s]}
  BY <1>0, <1>1 DEF KeysOf
<1>5. f = [q \in KeysOf(B, L) |-> f[q]]
  BY <1>0, <1>1, <1>4
<1>6. \A t \in B : f[L[t]] = W[t]
  BY <1>0, <1>1, <1>2
<1>7. f = KnownIn(B, L, W)
  BY <1>3, <1>5, <1>6, SameKnown
<1>8. IsFiniteSet(A)
  BY InUseFinite DEF InUse
<1>9. Cardinality(B) = Cardinality(A) + 1
  BY <1>0, <1>1, <1>8, FS_AddElement
<1>10. QED BY <1>1, <1>3, <1>7, <1>9 DEF MapPlus, Added

\* Some slots are freed.
Frees(A, D, K, V, L, W) == D \subseteq A /\ \A t \in A \ D : L[t] = K[t] /\ W[t] = V[t]
Freed(A, D, K, V, L, W) ==
    /\ InUse(A \ D, L)
    /\ KnownIn(A \ D, L, W) = MapLess(KnownIn(A, K, V), KeysOf(A, K), KeysOf(D, K))
    /\ Cardinality(A \ D) = Cardinality(A) - Cardinality(D)
    /\ Cardinality(A) \in Nat /\ Cardinality(D) \in Nat

LEMMA KnownLess ==
    ASSUME NEW A, NEW K, NEW V, InUse(A, K), NEW D, NEW L, NEW W, Frees(A, D, K, V, L, W)
    PROVE  Freed(A, D, K, V, L, W)
<1>0. D \in SUBSET A /\ \A t \in A \ D : L[t] = K[t] /\ W[t] = V[t]
  BY DEF Frees
<1>1. PICK B, M, f : /\ B = A \ D /\ M = KnownIn(A, K, V)
                     /\ f = [q \in KeysOf(A, K) \ KeysOf(D, K) |-> M[q]]
  OBVIOUS
<1>2. \A t \in A : M[K[t]] = V[t] /\ K[t] \in KeysOf(A, K)
  BY <1>1, KnownIs
<1>3. InUse(B, L)
  <2>1. A \in SUBSET (1 .. Size) /\ \A t, u \in A : K[t] = K[u] => t = u
    BY DEF InUse
  <2>2. QED BY <1>0, <1>1, <2>1 DEF InUse
<1>4. KeysOf(B, L) = KeysOf(A, K) \ KeysOf(D, K)
  <2>1. \A q \in KeysOf(B, L) : q \in KeysOf(A, K) /\ q \notin KeysOf(D, K)
    BY <1>0, <1>1 DEF KeysOf, InUse
  <2>2. \A q \in KeysOf(A, K) : q \notin KeysOf(D, K) => q \in KeysOf(B, L)
    BY <1>0, <1>1 DEF KeysOf
  <2>3. QED BY <2>1, <2>2
<1>5. f = [q \in KeysOf(B, L) |-> f[q]]
  BY <1>1, <1>4
<1>6. \A t \in B : f[L[t]] = W[t]
  <2>1. \A t \in B : L[t] \in KeysOf(B, L)
    BY DEF KeysOf
  <2>2. QED BY <1>0, <1>1, <1>2, <1>4, <2>1
<1>7. f = KnownIn(B, L, W)
  BY <1>3, <1>5, <1>6, SameKnown
<1>8. IsFiniteSet(A) /\ IsFiniteSet(D) /\ Cardinality(A) \in Nat /\ Cardinality(D) \in Nat
  <2>1. IsFiniteSet(A)
    BY InUseFinite DEF InUse
  <2>2. QED BY <1>0, <2>1, FS_Subset, FS_CardinalityType
<1>9. Cardinality(B) = Cardinality(A) - Cardinality(D)
  <2>1. Cardinality(A \ D) = Cardinality(A) - Cardinality(A \cap D)
    BY <1>8, FS_Difference
  <2>2. A \cap D = D
    BY <1>0
  <2>3. QED BY <1>1, <2>1, <2>2
<1>10. QED BY <1>1, <1>3, <1>7, <1>8, <1>9 DEF MapLess, Freed

\* mactrack.c
LEMMA MacOps ==
    /\ \A S : Mac!Min(S) = Min(S)
    /\ \A S : Mac!Cardinality(S) = Cardinality(S)
    /\ \A S : Mac!Map!Cardinality(S) = Cardinality(S)
BY DEF Mac!Min, Min, Mac!Cardinality, Mac!Map!Cardinality, Cardinality

MacEntry == [mac : Keys \cup {NoKey}, pkt_count : 0 .. MaxPkts, last_seen : Nat, active : BOOLEAN]

\* The slots in use of table t, their keys and their counts.
MacUsed(t) == {s \in 1 .. Size : t[s].active}
MacKeys(t) == [s \in 1 .. Size |-> t[s].mac]
MacSeen(t) == [s \in 1 .. Size |-> [pkts |-> t[s].pkt_count, last |-> t[s].last_seen]]
MacMap(t) == KnownIn(MacUsed(t), MacKeys(t), MacSeen(t))

MacTable(t, n) ==
    /\ t \in [1 .. Size -> MacEntry] /\ InUse(MacUsed(t), MacKeys(t))
    /\ \A s \in 1 .. Size : t[s].last_seen <= n
    /\ \A s \in MacUsed(t) : t[s].mac \in Keys

\* The inductive invariant of mactrack.c: an address has one slot, and the
\* count is right.
MacInv == MacTable(macs, now) /\ mac_count = Cardinality(MacUsed(macs)) /\ now \in Nat

\* The map mactrack.c implements, in terms of the slots.
LEMMA MacLookup ==
    ASSUME NEW t \in [1 .. Size -> MacEntry], InUse(MacUsed(t), MacKeys(t))
    PROVE  [mac \in {t[s].mac : s \in MacUsed(t)} |->
               LET s == Min({s \in MacUsed(t) : t[s].mac = mac})
               IN  [pkts |-> t[s].pkt_count, last |-> t[s].last_seen]] = MacMap(t)
<1>1. PICK A, K, V : A = MacUsed(t) /\ K = MacKeys(t) /\ V = MacSeen(t)
  OBVIOUS
<1>2. /\ A \in SUBSET (1 .. Size) /\ \A s \in A : K[s] = t[s].mac
      /\ \A s \in A : V[s] = [pkts |-> t[s].pkt_count, last |-> t[s].last_seen]
  BY <1>1 DEF MacUsed, MacKeys, MacSeen
<1>3. A \in SUBSET Nat
  <2>1. Size \in Nat
    BY <1>2, InUseFinite
  <2>2. QED BY <1>2, <2>1
<1>4. PICK f : f = [mac \in {t[s].mac : s \in A} |->
                       LET s == Min({s \in A : t[s].mac = mac})
                       IN  [pkts |-> t[s].pkt_count, last |-> t[s].last_seen]]
  OBVIOUS
<1>5. {t[s].mac : s \in A} = KeysOf(A, K)
  BY <1>2 DEF KeysOf
<1>6. f = [k \in KeysOf(A, K) |-> f[k]]
  BY <1>4, <1>5
<1>7. ASSUME NEW s \in A PROVE f[K[s]] = V[s]
  <2>1. PICK I : I = {r \in A : t[r].mac = K[s]}
    OBVIOUS
  <2>2. \A r \in I : r = s
    BY <1>1, <1>2, <2>1 DEF InUse
  <2>3. s \in I /\ I \in SUBSET Nat
    BY <1>2, <1>3, <2>1
  <2>4. Min(I) = s
    BY <2>2, <2>3, MinIsIn
  <2>5. K[s] \in {t[r].mac : r \in A}
    BY <1>2
  <2>6. f[K[s]] = [pkts |-> t[Min(I)].pkt_count, last |-> t[Min(I)].last_seen]
    BY <1>4, <2>1, <2>5
  <2>7. QED BY <1>2, <2>4, <2>6
<1>8. f = KnownIn(A, K, V)
  BY <1>1, <1>6, <1>7, SameKnown
<1>9. QED BY <1>1, <1>4, <1>8 DEF MacMap

LEMMA MacKnown ==
    /\ MacTable(macs, now) => Mac!Known = MacMap(macs)
    /\ MacTable(macs', now') => Mac!Known' = MacMap(macs')
<1>1. ASSUME MacTable(macs, now) PROVE Mac!Known = MacMap(macs)
  <2>1. macs \in [1 .. Size -> MacEntry] /\ InUse(MacUsed(macs), MacKeys(macs))
    BY <1>1 DEF MacTable
  <2>2. Mac!Active = MacUsed(macs)
    BY DEF Mac!Active, Mac!Slots, MacUsed
  <2>3. Mac!Known = [mac \in {macs[s].mac : s \in MacUsed(macs)} |->
                        LET s == Min({s \in MacUsed(macs) : macs[s].mac = mac})
                        IN  [pkts |-> macs[s].pkt_count, last |-> macs[s].last_seen]]
    BY <2>2, MacOps DEF Mac!Known
  <2>4. QED BY <2>1, <2>3, MacLookup
<1>2. ASSUME MacTable(macs', now') PROVE Mac!Known' = MacMap(macs')
  <2>1. macs' \in [1 .. Size -> MacEntry] /\ InUse(MacUsed(macs'), MacKeys(macs'))
    BY <1>2 DEF MacTable
  <2>2. Mac!Active' = MacUsed(macs')
    BY DEF Mac!Active, Mac!Slots, MacUsed
  <2>3. Mac!Known' = [mac \in {macs'[s].mac : s \in MacUsed(macs')} |->
                        LET s == Min({s \in MacUsed(macs') : macs'[s].mac = mac})
                        IN  [pkts |-> macs'[s].pkt_count, last |-> macs'[s].last_seen]]
    BY <2>2, MacOps DEF Mac!Known
  <2>4. QED BY <2>1, <2>3, MacLookup
<1>3. QED BY <1>1, <1>2

LEMMA MacConstants == Size \in Nat /\ NoKey \notin Keys /\ Ages \subseteq Nat /\ MaxPkts \in Nat \ {0}
BY TablesAssumption, Zenon DEF Mac!MacTrackAssumption

\* Entry e is put into slot s.
PutIn(t, s, e) == [t EXCEPT ![s] = e]

MacPuts(t, s, e, r) ==
    /\ r \in [1 .. Size -> MacEntry] /\ MacUsed(r) = MacUsed(t) \cup {s} /\ r[s] = e
    /\ \A x \in 1 .. Size : x # s => r[x] = t[x]
    /\ \A x \in 1 .. Size : x # s => MacKeys(r)[x] = MacKeys(t)[x] /\ MacSeen(r)[x] = MacSeen(t)[x]
    /\ MacKeys(r)[s] = e.mac /\ MacSeen(r)[s] = [pkts |-> e.pkt_count, last |-> e.last_seen]

LEMMA MacPut ==
    ASSUME NEW t \in [1 .. Size -> MacEntry], NEW s \in 1 .. Size, NEW e \in MacEntry, e.active
    PROVE  MacPuts(t, s, e, PutIn(t, s, e))
<1> DEFINE r == PutIn(t, s, e)
<1>1. r \in [1 .. Size -> MacEntry] /\ r[s] = e /\ \A x \in 1 .. Size : x # s => r[x] = t[x]
  BY DEF PutIn
<1> HIDE DEF r
<1>2. MacUsed(r) = MacUsed(t) \cup {s}
  BY <1>1 DEF MacUsed
<1>3. /\ \A x \in 1 .. Size : x # s => MacKeys(r)[x] = MacKeys(t)[x] /\ MacSeen(r)[x] = MacSeen(t)[x]
      /\ MacKeys(r)[s] = e.mac /\ MacSeen(r)[s] = [pkts |-> e.pkt_count, last |-> e.last_seen]
  BY <1>1 DEF MacKeys, MacSeen
<1>4. MacPuts(t, s, e, r)
  BY <1>1, <1>2, <1>3 DEF MacPuts
<1>5. QED BY <1>4 DEF r

LEMMA MacAgain ==
    ASSUME MacInv, NEW mac \in Keys, Mac!Of(mac) # {}, Mac!Update(mac)
    PROVE  MacInv' /\ Mac!Map!See(mac)
<1>1. /\ macs \in [1 .. Size -> MacEntry] /\ InUse(MacUsed(macs), MacKeys(macs))
      /\ MacTable(macs, now) /\ now \in Nat /\ mac_count = Cardinality(MacUsed(macs))
      /\ \A x \in 1 .. Size : macs[x].last_seen <= now
      /\ \A x \in MacUsed(macs) : macs[x].mac \in Keys
  BY DEF MacInv, MacTable
<1>2. PICK s : s = Min(Mac!Of(mac))
  OBVIOUS
<1>3. s \in MacUsed(macs) /\ s \in 1 .. Size /\ macs[s].mac = mac
  <2>1. Mac!Of(mac) = {x \in MacUsed(macs) : macs[x].mac = mac}
    BY DEF Mac!Of, Mac!Active, Mac!Slots, MacUsed
  <2>2. Mac!Of(mac) \in SUBSET Nat
    BY <2>1, MacConstants DEF MacUsed
  <2>3. s \in Mac!Of(mac)
    BY <1>2, <2>2, MinIsIn
  <2>4. QED BY <2>1, <2>3 DEF MacUsed
<1>4. PICK x : x = macs[s]
  OBVIOUS
<1>5. PICK e : e = [x EXCEPT !.pkt_count = x.pkt_count + 1, !.last_seen = now]
  OBVIOUS
<1>6. /\ macs' = [macs EXCEPT ![s].pkt_count = @ + 1, ![s].last_seen = now]
      /\ x.pkt_count < MaxPkts /\ mac_call' = <<"see", mac>> /\ mac_count' = mac_count /\ now' = now
  BY <1>2, <1>4, MacOps DEF Mac!Update
<1>7. x \in MacEntry /\ x.mac = mac /\ x.active /\ x.pkt_count \in 0 .. MaxPkts
  <2>1. x \in MacEntry
    BY <1>1, <1>3, <1>4
  <2>2. QED BY <1>3, <1>4, <2>1 DEF MacEntry, MacUsed
<1>8. /\ e \in MacEntry /\ e.mac = mac /\ e.active /\ e.last_seen = now
      /\ e.pkt_count = x.pkt_count + 1
  <2>1. x.pkt_count + 1 \in 0 .. MaxPkts
    BY <1>6, <1>7, MacConstants
  <2>2. e.mac = x.mac /\ e.active = x.active /\ e.last_seen = now /\ e.pkt_count = x.pkt_count + 1
    BY <1>5, <1>7 DEF MacEntry
  <2>3. e \in MacEntry
    BY <1>1, <1>5, <1>7, <2>1 DEF MacEntry
  <2>4. QED BY <1>7, <2>2, <2>3
<1>9. PICK t, r : t = macs /\ r = PutIn(t, s, e)
  OBVIOUS
<1>10. macs' = r
  BY <1>1, <1>3, <1>4, <1>5, <1>6, <1>9 DEF PutIn
<1>11. PICK A, K, V, L, W : /\ A = MacUsed(macs) /\ K = MacKeys(macs) /\ V = MacSeen(macs)
                            /\ L = MacKeys(r) /\ W = MacSeen(r)
  OBVIOUS
<1>12. /\ r \in [1 .. Size -> MacEntry] /\ MacUsed(r) = A \cup {s} /\ r[s] = e
       /\ \A y \in 1 .. Size : y # s => r[y] = macs[y] /\ L[y] = K[y] /\ W[y] = V[y]
       /\ L[s] = mac /\ W[s] = [pkts |-> x.pkt_count + 1, last |-> now]
  <2>1. t \in [1 .. Size -> MacEntry] /\ s \in 1 .. Size /\ e \in MacEntry /\ e.active
    BY <1>1, <1>3, <1>8, <1>9
  <2>2. MacPuts(t, s, e, r)
    BY <1>9, <2>1, MacPut
  <2>3. QED BY <1>8, <1>9, <1>11, <2>2 DEF MacPuts
<1>13. /\ K[s] = mac /\ V[s] = [pkts |-> x.pkt_count, last |-> x.last_seen]
       /\ A \in SUBSET (1 .. Size) /\ s \in A /\ A \cup {s} = A
  BY <1>3, <1>4, <1>11 DEF MacKeys, MacSeen, MacUsed
<1>14. InUse(A, K) /\ \A y \in A : L[y] = K[y] /\ (y # s => W[y] = V[y])
  BY <1>1, <1>11, <1>12, <1>13
<1>15. InUse(A, L) /\ KnownIn(A, L, W) = [KnownIn(A, K, V) EXCEPT ![K[s]] = W[s]]
  BY <1>13, <1>14, KnownAgain
<1>16. MacTable(r, now)
  <2>1. \A y \in 1 .. Size : r[y].last_seen <= now
    BY <1>1, <1>8, <1>12
  <2>2. \A y \in MacUsed(r) : r[y].mac \in Keys
    BY <1>1, <1>8, <1>11, <1>12, <1>13
  <2>3. InUse(MacUsed(r), MacKeys(r))
    BY <1>11, <1>12, <1>13, <1>15
  <2>4. QED BY <1>12, <2>1, <2>2, <2>3 DEF MacTable
<1>17. MacInv'
  <2>1. MacUsed(macs') = MacUsed(macs)
    BY <1>10, <1>11, <1>12, <1>13
  <2>2. QED BY <1>1, <1>6, <1>10, <1>16, <2>1 DEF MacInv
<1>18. PICK M, N : M = MacMap(macs) /\ N = MacMap(r)
  OBVIOUS
<1>19. M = KnownIn(A, K, V) /\ N = KnownIn(A, L, W)
  BY <1>11, <1>12, <1>13, <1>18 DEF MacMap
<1>20. M[mac] = V[s] /\ mac \in DOMAIN M
  <2>1. DOMAIN M = KeysOf(A, K)
    BY <1>19, KnownMap
  <2>2. QED BY <1>13, <1>14, <1>19, <2>1, KnownIs
<1>21. N = [M EXCEPT ![mac] = [pkts |-> M[mac].pkts + 1, last |-> now]]
  <2>1. N = [M EXCEPT ![mac] = W[s]]
    BY <1>13, <1>15, <1>19
  <2>2. M[mac].pkts = x.pkt_count
    BY <1>13, <1>20
  <2>3. QED BY <1>12, <2>1, <2>2
<1>22. Mac!Known = M /\ Mac!Known' = N
  BY <1>1, <1>6, <1>10, <1>16, <1>18, MacKnown
<1>23. Cardinality(DOMAIN N) = mac_count
  <2>1. DOMAIN N = DOMAIN M
    BY <1>21
  <2>2. DOMAIN M = KeysOf(A, K)
    BY <1>19, KnownMap
  <2>3. Cardinality(KeysOf(A, K)) = Cardinality(A)
    BY <1>14, KnownIs
  <2>4. QED BY <1>1, <1>11, <2>1, <2>2, <2>3
<1>24. Mac!Map!Sized
  BY <1>6, <1>22, <1>23, MacOps DEF Mac!Map!Sized
<1>25. QED
  BY <1>6, <1>17, <1>20, <1>21, <1>22, <1>24 DEF Mac!Map!See, Mac!Map!Seen

LEMMA MacNew ==
    ASSUME MacInv, NEW mac \in Keys, Mac!Of(mac) = {}, Mac!Update(mac)
    PROVE  MacInv' /\ Mac!Map!See(mac)
<1>1. /\ macs \in [1 .. Size -> MacEntry] /\ InUse(MacUsed(macs), MacKeys(macs))
      /\ MacTable(macs, now) /\ now \in Nat /\ mac_count = Cardinality(MacUsed(macs))
      /\ \A x \in 1 .. Size : macs[x].last_seen <= now
      /\ \A x \in MacUsed(macs) : macs[x].mac \in Keys
  BY DEF MacInv, MacTable
<1>2. PICK s : s = Min(Mac!Free)
  OBVIOUS
<1>3. s \in 1 .. Size /\ s \notin MacUsed(macs)
  <2>1. Mac!Free = {x \in 1 .. Size : x \notin MacUsed(macs)} /\ Mac!Free # {}
    BY DEF Mac!Update, Mac!Free, Mac!Active, Mac!Slots, MacUsed
  <2>2. Mac!Free \in SUBSET Nat
    BY <2>1, MacConstants
  <2>3. s \in Mac!Free
    BY <1>2, <2>1, <2>2, MinIsIn
  <2>4. QED BY <2>1, <2>3
<1>4. \A x \in MacUsed(macs) : macs[x].mac # mac
  BY DEF Mac!Of, Mac!Active, Mac!Slots, MacUsed
<1>5. PICK e : e = [mac |-> mac, pkt_count |-> 1, last_seen |-> now, active |-> TRUE]
  OBVIOUS
<1>6. /\ macs' = PutIn(macs, s, e) /\ mac_count' = mac_count + 1
      /\ mac_call' = <<"see", mac>> /\ now' = now
  BY <1>2, <1>5, MacOps DEF Mac!Update, PutIn
<1>7. e \in MacEntry /\ e.mac = mac /\ e.active /\ e.last_seen = now /\ e.pkt_count = 1
  BY <1>1, <1>5, MacConstants DEF MacEntry
<1>8. PICK t, r : t = macs /\ r = PutIn(t, s, e)
  OBVIOUS
<1>9. MacPuts(t, s, e, r)
  <2>1. t \in [1 .. Size -> MacEntry] /\ s \in 1 .. Size /\ e \in MacEntry /\ e.active
    BY <1>1, <1>3, <1>7, <1>8
  <2>2. QED BY <1>8, <2>1, MacPut
<1>10. macs' = r
  BY <1>6, <1>8
<1>11. PICK A, K, V, L, W : /\ A = MacUsed(macs) /\ K = MacKeys(macs) /\ V = MacSeen(macs)
                            /\ L = MacKeys(r) /\ W = MacSeen(r)
  OBVIOUS
<1>12. /\ r \in [1 .. Size -> MacEntry] /\ MacUsed(r) = A \cup {s} /\ r[s] = e
       /\ \A y \in 1 .. Size : y # s => r[y] = macs[y] /\ L[y] = K[y] /\ W[y] = V[y]
       /\ L[s] = mac /\ W[s] = [pkts |-> 1, last |-> now]
  BY <1>7, <1>8, <1>9, <1>11 DEF MacPuts
<1>13. A \in SUBSET (1 .. Size) /\ s \notin A /\ \A y \in A : K[y] = macs[y].mac
  BY <1>3, <1>11 DEF MacKeys, MacUsed
<1>14. /\ InUse(A, K) /\ \A y \in A : L[y] = K[y] /\ W[y] = V[y]
       /\ L[s] \notin KeysOf(A, K)
  <2>1. InUse(A, K)
    BY <1>1, <1>11
  <2>2. \A y \in A : L[y] = K[y] /\ W[y] = V[y]
    BY <1>12, <1>13
  <2>3. mac \notin KeysOf(A, K)
    BY <1>4, <1>11, <1>13 DEF KeysOf
  <2>4. QED BY <1>12, <2>1, <2>2, <2>3
<1>15. PICK B, M, N : B = A \cup {s} /\ M = KnownIn(A, K, V) /\ N = KnownIn(B, L, W)
  OBVIOUS
<1>16. /\ InUse(B, L) /\ Cardinality(B) = Cardinality(A) + 1
       /\ N = MapPlus(M, KeysOf(A, K), L[s], W[s])
  <2>1. InUse(A, K) /\ Adds(A, s, K, V, L, W)
    BY <1>3, <1>13, <1>14 DEF Adds
  <2>2. Added(A, s, K, V, L, W)
    BY <2>1, KnownNew
  <2>3. QED BY <1>15, <2>2 DEF Added
<1>17. MacTable(r, now)
  <2>1. \A y \in 1 .. Size : r[y].last_seen <= now
    BY <1>1, <1>7, <1>12
  <2>2. \A y \in MacUsed(r) : r[y].mac \in Keys
    BY <1>1, <1>7, <1>11, <1>12, <1>13
  <2>3. InUse(MacUsed(r), MacKeys(r))
    BY <1>11, <1>12, <1>15, <1>16
  <2>4. QED BY <1>12, <2>1, <2>2, <2>3 DEF MacTable
<1>18. mac_count' = Cardinality(B) /\ MacUsed(r) = B
  BY <1>1, <1>6, <1>11, <1>12, <1>15, <1>16
<1>19. MacInv'
  BY <1>1, <1>6, <1>10, <1>17, <1>18 DEF MacInv
<1>20. Mac!Known = M /\ Mac!Known' = N
  <2>1. M = MacMap(macs) /\ N = MacMap(r)
    BY <1>11, <1>15, <1>18 DEF MacMap
  <2>2. QED BY <1>1, <1>6, <1>10, <1>17, <2>1, MacKnown
<1>21. DOMAIN M = KeysOf(A, K) /\ DOMAIN N = KeysOf(B, L)
  BY <1>15, KnownMap
<1>22. mac \notin DOMAIN M /\ mac_count < Size
  <2>1. IsFiniteSet(B) /\ Cardinality(B) \in 0 .. Size /\ Size \in Nat
    BY <1>16, InUseFinite DEF InUse
  <2>2. IsFiniteSet(A) /\ Cardinality(A) \in 0 .. Size
    BY <1>13, InUseFinite
  <2>3. QED BY <1>1, <1>11, <1>12, <1>14, <1>16, <1>21, <2>1, <2>2
<1>23. Mac!Map!Sized
  <2>1. Cardinality(KeysOf(B, L)) = Cardinality(B)
    BY <1>16, KnownIs
  <2>2. QED BY <1>18, <1>20, <1>21, <2>1, MacOps DEF Mac!Map!Sized
<1>24. N = [q \in DOMAIN M \cup {mac} |-> IF q = mac THEN [pkts |-> 1, last |-> now] ELSE M[q]]
  BY <1>12, <1>16, <1>21 DEF MapPlus
<1>25. QED
  BY <1>6, <1>19, <1>20, <1>22, <1>23, <1>24 DEF Mac!Map!See, Mac!Map!Seen

\* The same, with some slots D zeroed.
MacZeroed(t, D) == [s \in 1 .. Size |-> IF s \in D THEN Mac!Zeroed ELSE t[s]]
MacFrees(t, D, n, r) ==
    /\ MacTable(r, n) /\ MacUsed(r) = MacUsed(t) \ D
    /\ Cardinality(MacUsed(r)) = Cardinality(MacUsed(t)) - Cardinality(D)
    /\ MacMap(r) = MapLess(MacMap(t), DOMAIN MacMap(t), {t[s].mac : s \in D})
    /\ Cardinality(DOMAIN MacMap(r)) = Cardinality(MacUsed(r))

LEMMA MacLess ==
    ASSUME NEW t \in [1 .. Size -> MacEntry], NEW D \in SUBSET MacUsed(t), NEW n \in Nat,
           MacTable(t, n)
    PROVE  MacFrees(t, D, n, MacZeroed(t, D))
<1> DEFINE r == MacZeroed(t, D)
<1>1. PICK z : z = Mac!Zeroed
  OBVIOUS
<1>2. z \in MacEntry /\ ~z.active /\ z.last_seen = 0
  BY <1>1, MacConstants DEF Mac!Zeroed, MacEntry
<1>3. /\ r \in [1 .. Size -> MacEntry] /\ \A s \in D : r[s] = z
      /\ \A s \in 1 .. Size : s \notin D => r[s] = t[s]
  <2>1. \A s \in D : s \in 1 .. Size
    BY DEF MacUsed
  <2>2. QED BY <1>1, <1>2, <2>1 DEF MacZeroed
<1> HIDE DEF r
<1>4. PICK A, K, V, L, W : /\ A = MacUsed(t) /\ K = MacKeys(t) /\ V = MacSeen(t)
                           /\ L = MacKeys(r) /\ W = MacSeen(r)
  OBVIOUS
<1>5. MacUsed(r) = A \ D
  BY <1>2, <1>3, <1>4 DEF MacUsed
<1>6. /\ A \in SUBSET (1 .. Size) /\ D \in SUBSET A
      /\ \A s \in A \ D : L[s] = K[s] /\ W[s] = V[s]
      /\ \A s \in A : K[s] = t[s].mac
  BY <1>3, <1>4 DEF MacUsed, MacKeys, MacSeen
<1>7. InUse(A, K)
  BY <1>4 DEF MacTable
<1>8. PICK M, N : M = KnownIn(A, K, V) /\ N = KnownIn(A \ D, L, W)
  OBVIOUS
<1>9. /\ InUse(A \ D, L) /\ Cardinality(A \ D) = Cardinality(A) - Cardinality(D)
      /\ N = MapLess(M, KeysOf(A, K), KeysOf(D, K))
  <2>1. InUse(A, K) /\ Frees(A, D, K, V, L, W)
    BY <1>6, <1>7 DEF Frees
  <2>2. Freed(A, D, K, V, L, W)
    BY <2>1, KnownLess
  <2>3. QED BY <1>8, <2>2 DEF Freed
<1>10. M = MacMap(t) /\ N = MacMap(r)
  BY <1>4, <1>5, <1>8 DEF MacMap
<1>11. DOMAIN M = KeysOf(A, K) /\ DOMAIN N = KeysOf(A \ D, L)
  BY <1>8, KnownMap
<1>12. KeysOf(D, K) = {t[s].mac : s \in D}
  BY <1>6 DEF KeysOf
<1>13. MacMap(r) = MapLess(MacMap(t), DOMAIN MacMap(t), {t[s].mac : s \in D})
  BY <1>9, <1>10, <1>11, <1>12
<1>14. Cardinality(DOMAIN MacMap(r)) = Cardinality(MacUsed(r))
  <2>1. Cardinality(KeysOf(A \ D, L)) = Cardinality(A \ D)
    BY <1>9, KnownIs
  <2>2. QED BY <1>5, <1>10, <1>11, <2>1
<1>15. MacTable(r, n)
  <2>1. \A s \in 1 .. Size : r[s].last_seen <= n
    BY <1>2, <1>3 DEF MacTable
  <2>2. \A s \in MacUsed(r) : r[s].mac \in Keys
    BY <1>3, <1>4, <1>5, <1>6 DEF MacTable
  <2>3. InUse(MacUsed(r), MacKeys(r))
    BY <1>4, <1>5, <1>9
  <2>4. QED BY <1>3, <2>1, <2>2, <2>3 DEF MacTable
<1>16. MacFrees(t, D, n, r)
  BY <1>4, <1>5, <1>9, <1>13, <1>14, <1>15 DEF MacFrees
<1>17. QED BY <1>16 DEF r

LEMMA MacExpire ==
    ASSUME MacInv, NEW age \in Ages, Mac!Expire(age)
    PROVE  MacInv' /\ Mac!Map!Expire(age + 1)
<1>1. /\ macs \in [1 .. Size -> MacEntry] /\ InUse(MacUsed(macs), MacKeys(macs))
      /\ MacTable(macs, now) /\ now \in Nat /\ mac_count = Cardinality(MacUsed(macs))
  BY DEF MacInv, MacTable
<1>2. PICK D : D = Mac!Stale(age)
  OBVIOUS
<1>3. D = {s \in MacUsed(macs) : now - macs[s].last_seen > age}
  BY <1>2 DEF Mac!Stale, Mac!Active, Mac!Slots, MacUsed
<1>4. /\ macs' = MacZeroed(macs, D)
      /\ mac_count' = mac_count - Cardinality(D)
      /\ mac_call' = <<"expire", age + 1>> /\ now' = now
  BY <1>2, MacOps DEF Mac!Expire, Mac!Slots, MacZeroed
<1>5. PICK r : r = MacZeroed(macs, D)
  OBVIOUS
<1>6. PICK M, N : M = MacMap(macs) /\ N = MacMap(r)
  OBVIOUS
<1>7. /\ MacTable(r, now) /\ Cardinality(MacUsed(r)) = Cardinality(MacUsed(macs)) - Cardinality(D)
      /\ N = MapLess(M, DOMAIN M, {macs[s].mac : s \in D})
      /\ Cardinality(DOMAIN N) = Cardinality(MacUsed(r))
  <2>1. D \in SUBSET MacUsed(macs)
    BY <1>3
  <2>2. MacFrees(macs, D, now, r)
    BY <1>1, <1>5, <2>1, MacLess
  <2>3. QED BY <1>6, <2>2 DEF MacFrees
<1>8. MacInv'
  BY <1>1, <1>4, <1>5, <1>7 DEF MacInv
<1>9. Mac!Known = M /\ Mac!Known' = N
  BY <1>1, <1>4, <1>5, <1>6, <1>7, MacKnown
<1>10. {macs[s].mac : s \in D} = {q \in DOMAIN M : now - M[q].last >= age + 1}
  <2>1. PICK A, K, V : A = MacUsed(macs) /\ K = MacKeys(macs) /\ V = MacSeen(macs)
    OBVIOUS
  <2>2. M = KnownIn(A, K, V) /\ DOMAIN M = KeysOf(A, K)
    BY <1>6, <2>1, KnownMap DEF MacMap
  <2>3. \A s \in A : M[K[s]] = V[s] /\ K[s] \in KeysOf(A, K)
    BY <1>1, <2>1, <2>2, KnownIs
  <2>4. \A s \in A : K[s] = macs[s].mac /\ V[s].last = macs[s].last_seen /\ macs[s].last_seen \in Nat
    <3>1. \A s \in A : K[s] = macs[s].mac /\ V[s].last = macs[s].last_seen /\ macs[s] \in MacEntry
      BY <1>1, <2>1 DEF MacUsed, MacKeys, MacSeen
    <3>2. QED BY <3>1 DEF MacEntry
  <2>5. age \in Nat
    BY MacConstants
  <2>6. \A s \in A : s \in D <=> now - M[macs[s].mac].last >= age + 1
    BY <1>1, <1>3, <2>1, <2>3, <2>4, <2>5
  <2>7. \A q \in DOMAIN M : \E s \in A : q = macs[s].mac
    BY <2>2, <2>4 DEF KeysOf
  <2>8. \A s \in A : macs[s].mac \in DOMAIN M
    BY <2>2, <2>3, <2>4
  <2>9. D \subseteq A
    BY <1>3, <2>1
  <2>10. QED BY <2>6, <2>7, <2>8, <2>9
<1>11. Mac!Map!Old(age + 1) = {macs[s].mac : s \in D}
  BY <1>9, <1>10 DEF Mac!Map!Old
<1>12. Mac!Map!Sized
  BY <1>1, <1>4, <1>7, <1>9, MacOps DEF Mac!Map!Sized
<1>13. Mac!Map!Forget(Mac!Map!Old(age + 1))
  BY <1>4, <1>7, <1>9, <1>11, <1>12 DEF Mac!Map!Forget, MapLess
<1>14. QED BY <1>4, <1>8, <1>13 DEF Mac!Map!Expire

\* An empty table is the empty map.
LEMMA MacEmpty ==
    ASSUME NEW n \in Nat
    PROVE  LET t == [s \in 1 .. Size |-> Mac!Zeroed]
           IN  MacTable(t, n) /\ Cardinality(MacUsed(t)) = 0 /\ MacMap(t) = <<>>
<1>1. PICK t, z : z = Mac!Zeroed /\ t = [s \in 1 .. Size |-> z]
  OBVIOUS
<1>2. z \in MacEntry /\ ~z.active /\ z.last_seen = 0
  BY <1>1, MacConstants DEF Mac!Zeroed, MacEntry
<1>3. t \in [1 .. Size -> MacEntry] /\ \A s \in 1 .. Size : t[s] = z
  BY <1>1, <1>2
<1>4. MacUsed(t) = {}
  BY <1>2, <1>3 DEF MacUsed
<1>5. Cardinality(MacUsed(t)) = 0
  BY <1>4, FS_EmptySet
<1>6. InUse(MacUsed(t), MacKeys(t))
  BY <1>4 DEF InUse
<1>7. MacTable(t, n)
  BY <1>2, <1>3, <1>4, <1>6 DEF MacTable
<1>8. MacMap(t) = <<>>
  <2>1. PICK f, A : A = MacUsed(t) /\ f = KnownIn(A, MacKeys(t), MacSeen(t))
    OBVIOUS
  <2>2. KeysOf(A, MacKeys(t)) = {}
    BY <1>4, <2>1 DEF KeysOf
  <2>3. f = [p \in {} |-> f[p]]
    BY <2>1, <2>2 DEF KnownIn
  <2>4. f = <<>>
    BY <2>3
  <2>5. QED BY <2>1, <2>4 DEF MacMap
<1>9. QED BY <1>1, <1>5, <1>7, <1>8

LEMMA MacInit == Init => MacInv /\ Mac!Map!Init
<1> SUFFICES ASSUME Init PROVE MacInv /\ Mac!Map!Init
  OBVIOUS
<1>1. macs = [s \in 1 .. Size |-> Mac!Zeroed] /\ mac_count = 0 /\ now = 0 /\ mac_call = <<"init">>
  BY DEF Init, Mac!Init, Mac!Slots
<1>2. MacTable(macs, 0) /\ Cardinality(MacUsed(macs)) = 0 /\ MacMap(macs) = <<>>
  BY <1>1, MacEmpty
<1>3. MacInv
  BY <1>1, <1>2 DEF MacInv
<1>4. Mac!Known = <<>>
  BY <1>1, <1>2, MacKnown
<1>5. QED BY <1>1, <1>3, <1>4 DEF Mac!Map!Init

LEMMA MacReset == ASSUME MacInv, Mac!Reset PROVE MacInv' /\ Mac!Map!Restart
<1>1. /\ macs' = [s \in 1 .. Size |-> Mac!Zeroed] /\ mac_count' = 0 /\ now' = now
      /\ mac_call' = <<"init">> /\ now \in Nat /\ MacTable(macs, now)
  BY DEF Mac!Reset, Mac!Slots, MacInv
<1>2. PICK r : r = [s \in 1 .. Size |-> Mac!Zeroed]
  OBVIOUS
<1>3. MacTable(r, now) /\ Cardinality(MacUsed(r)) = 0 /\ MacMap(r) = <<>>
  BY <1>1, <1>2, MacEmpty
<1>4. MacInv'
  BY <1>1, <1>2, <1>3 DEF MacInv
<1>5. PICK M : M = MacMap(macs)
  OBVIOUS
<1>6. Mac!Known = M /\ Mac!Known' = <<>>
  BY <1>1, <1>2, <1>3, <1>5, MacKnown
<1>7. DOMAIN M \ Keys = {}
  <2>1. PICK A, K, V : A = MacUsed(macs) /\ K = MacKeys(macs) /\ V = MacSeen(macs)
    OBVIOUS
  <2>2. DOMAIN M = KeysOf(A, K)
    BY <1>5, <2>1, KnownMap DEF MacMap
  <2>3. \A s \in A : K[s] \in Keys
    BY <1>1, <2>1 DEF MacTable, MacUsed, MacKeys
  <2>4. QED BY <2>2, <2>3 DEF KeysOf
<1>8. [q \in DOMAIN M \ Keys |-> M[q]] = <<>>
  BY <1>7
<1>9. Mac!Map!Sized
  <2>1. DOMAIN <<>> = {} /\ Cardinality({}) = 0
    BY FS_EmptySet
  <2>2. QED BY <1>1, <1>6, <2>1, MacOps DEF Mac!Map!Sized
<1>10. QED BY <1>1, <1>4, <1>6, <1>8, <1>9 DEF Mac!Map!Restart, Mac!Map!Forget

\* A step of the table is one of the map, or changes neither.
LEMMA MacStep == MacInv /\ [Next]_vars => MacInv' /\ [Mac!Map!Next]_(Mac!Map!vars)
<1> SUFFICES ASSUME MacInv, [Next]_vars PROVE MacInv' /\ [Mac!Map!Next]_(Mac!Map!vars)
  OBVIOUS
<1>1. ASSUME NEW mac \in Keys, Mac!Update(mac)
      PROVE  MacInv' /\ Mac!Map!Next
  <2>1. MacInv' /\ Mac!Map!See(mac)
    BY <1>1, MacAgain, MacNew
  <2>2. QED BY <2>1 DEF Mac!Map!Next
<1>2. ASSUME NEW age \in Ages, Mac!Expire(age)
      PROVE  MacInv' /\ Mac!Map!Next
  <2>1. MacInv' /\ Mac!Map!Expire(age + 1)
    BY <1>2, MacExpire
  <2>2. QED BY <2>1 DEF Mac!Map!Next
<1>3. ASSUME Mac!Reset
      PROVE  MacInv' /\ Mac!Map!Next
  BY <1>3, MacReset DEF Mac!Map!Next
<1>4. CASE UNCHANGED macVars
  <2>1. macs' = macs /\ mac_count' = mac_count /\ mac_call' = mac_call
    BY <1>4 DEF macVars
  <2>2. now \in Nat /\ (now' = now \/ now' = now + 1)
    BY Clock DEF MacInv
  <2>3. MacTable(macs', now')
    <3>1. macs \in [1 .. Size -> MacEntry] /\ \A s \in 1 .. Size : macs[s].last_seen <= now
      BY DEF MacInv, MacTable
    <3>2. \A s \in 1 .. Size : macs[s] \in MacEntry
      BY <3>1
    <3>3. \A s \in 1 .. Size : macs[s].last_seen \in Nat
      BY <3>2 DEF MacEntry
    <3>4. \A s \in 1 .. Size : macs[s].last_seen <= now'
      BY <2>2, <3>1, <3>3
    <3>5. QED BY <2>1, <3>4 DEF MacInv, MacTable
  <2>4. MacInv'
    BY <2>1, <2>2, <2>3 DEF MacInv
  <2>5. Mac!Known' = Mac!Known
    BY <2>1, <2>3, MacKnown DEF MacInv
  <2>6. CASE now' = now
    BY <2>1, <2>4, <2>5, <2>6 DEF Mac!Map!vars
  <2>7. CASE now' = now + 1
    BY <2>1, <2>4, <2>5, <2>7 DEF Mac!Map!Tick, Mac!Map!Next
  <2>8. QED BY <2>2, <2>6, <2>7
<1>5. CASE Mac!Next
  <2>1. CASE Mac!Tick
    BY <1>4, <2>1 DEF Mac!Tick, macVars
  <2>2. QED BY <1>1, <1>2, <1>3, <1>5, <2>1 DEF Mac!Next
<1>6. QED BY <1>4, <1>5 DEF Next, Only, vars

LEMMA MacImplied == MacInv => Mac!TypeOK
<1> SUFFICES ASSUME MacInv PROVE Mac!TypeOK
  OBVIOUS
<1>1. /\ macs \in [1 .. Size -> MacEntry] /\ \A s \in 1 .. Size : macs[s].last_seen <= now
      /\ now \in Nat /\ mac_count = Cardinality(MacUsed(macs))
  BY DEF MacInv, MacTable
<1>2. mac_count \in 0 .. Size
  <2>1. MacUsed(macs) \in SUBSET (1 .. Size)
    BY DEF MacUsed
  <2>2. QED BY <1>1, <2>1, InUseFinite
<1>3. ASSUME NEW s \in 1 .. Size
      PROVE  macs[s] \in [mac : Keys \cup {NoKey}, pkt_count : 0 .. MaxPkts,
                          last_seen : 0 .. now, active : BOOLEAN]
  <2>1. macs[s] \in MacEntry
    BY <1>1
  <2>2. macs[s].last_seen \in 0 .. now
    BY <1>1, <2>1 DEF MacEntry
  <2>3. QED BY <2>1, <2>2 DEF MacEntry
<1>4. QED BY <1>1, <1>2, <1>3 DEF Mac!TypeOK, Mac!Slots
\* flowtrack.c
LEMMA FlowOps ==
    /\ \A S : Flow!Min(S) = Min(S)
    /\ \A S : Flow!Cardinality(S) = Cardinality(S)
    /\ \A S : Flow!Map!Cardinality(S) = Cardinality(S)
BY DEF Flow!Min, Min, Flow!Cardinality, Flow!Map!Cardinality, Cardinality

FlowEntry == [key : Keys \cup {NoKey}, pkt_count : 0 .. MaxPkts, last_seen : Nat, active : BOOLEAN]

\* The slots in use of table t, their keys and their counts.
FlowUsed(t) == {s \in 1 .. Size : t[s].active}
FlowKeys(t) == [s \in 1 .. Size |-> t[s].key]
FlowSeen(t) == [s \in 1 .. Size |-> [pkts |-> t[s].pkt_count, last |-> t[s].last_seen]]
FlowMap(t) == KnownIn(FlowUsed(t), FlowKeys(t), FlowSeen(t))

FlowTable(t, n) ==
    /\ t \in [1 .. Size -> FlowEntry] /\ InUse(FlowUsed(t), FlowKeys(t))
    /\ \A s \in 1 .. Size : t[s].last_seen <= n
    /\ \A s \in FlowUsed(t) : t[s].key \in Keys

\* The inductive invariant of flowtrack.c: a flow has one slot, and the
\* count is right.
FlowInv == FlowTable(flows, now) /\ flow_count = Cardinality(FlowUsed(flows)) /\ now \in Nat

\* The map flowtrack.c implements, in terms of the slots.
LEMMA FlowLookup ==
    ASSUME NEW t \in [1 .. Size -> FlowEntry], InUse(FlowUsed(t), FlowKeys(t))
    PROVE  [key \in {t[s].key : s \in FlowUsed(t)} |->
               LET s == Min({s \in FlowUsed(t) : t[s].key = key})
               IN  [pkts |-> t[s].pkt_count, last |-> t[s].last_seen]] = FlowMap(t)
<1>1. PICK A, K, V : A = FlowUsed(t) /\ K = FlowKeys(t) /\ V = FlowSeen(t)
  OBVIOUS
<1>2. /\ A \in SUBSET (1 .. Size) /\ \A s \in A : K[s] = t[s].key
      /\ \A s \in A : V[s] = [pkts |-> t[s].pkt_count, last |-> t[s].last_seen]
  BY <1>1 DEF FlowUsed, FlowKeys, FlowSeen
<1>3. A \in SUBSET Nat
  <2>1. Size \in Nat
    BY <1>2, InUseFinite
  <2>2. QED BY <1>2, <2>1
<1>4. PICK f : f = [key \in {t[s].key : s \in A} |->
                       LET s == Min({s \in A : t[s].key = key})
                       IN  [pkts |-> t[s].pkt_count, last |-> t[s].last_seen]]
  OBVIOUS
<1>5. {t[s].key : s \in A} = KeysOf(A, K)
  BY <1>2 DEF KeysOf
<1>6. f = [k \in KeysOf(A, K) |-> f[k]]
  BY <1>4, <1>5
<1>7. ASSUME NEW s \in A PROVE f[K[s]] = V[s]
  <2>1. PICK I : I = {r \in A : t[r].key = K[s]}
    OBVIOUS
  <2>2. \A r \in I : r = s
    BY <1>1, <1>2, <2>1 DEF InUse
  <2>3. s \in I /\ I \in SUBSET Nat
    BY <1>2, <1>3, <2>1
  <2>4. Min(I) = s
    BY <2>2, <2>3, MinIsIn
  <2>5. K[s] \in {t[r].key : r \in A}
    BY <1>2
  <2>6. f[K[s]] = [pkts |-> t[Min(I)].pkt_count, last |-> t[Min(I)].last_seen]
    BY <1>4, <2>1, <2>5
  <2>7. QED BY <1>2, <2>4, <2>6
<1>8. f = KnownIn(A, K, V)
  BY <1>1, <1>6, <1>7, SameKnown
<1>9. QED BY <1>1, <1>4, <1>8 DEF FlowMap

LEMMA FlowKnown ==
    /\ FlowTable(flows, now) => Flow!Known = FlowMap(flows)
    /\ FlowTable(flows', now') => Flow!Known' = FlowMap(flows')
<1>1. ASSUME FlowTable(flows, now) PROVE Flow!Known = FlowMap(flows)
  <2>1. flows \in [1 .. Size -> FlowEntry] /\ InUse(FlowUsed(flows), FlowKeys(flows))
    BY <1>1 DEF FlowTable
  <2>2. Flow!Active = FlowUsed(flows)
    BY DEF Flow!Active, Flow!Slots, FlowUsed
  <2>3. Flow!Known = [key \in {flows[s].key : s \in FlowUsed(flows)} |->
                        LET s == Min({s \in FlowUsed(flows) : flows[s].key = key})
                        IN  [pkts |-> flows[s].pkt_count, last |-> flows[s].last_seen]]
    BY <2>2, FlowOps DEF Flow!Known, Flow!Lookup
  <2>4. QED BY <2>1, <2>3, FlowLookup
<1>2. ASSUME FlowTable(flows', now') PROVE Flow!Known' = FlowMap(flows')
  <2>1. flows' \in [1 .. Size -> FlowEntry] /\ InUse(FlowUsed(flows'), FlowKeys(flows'))
    BY <1>2 DEF FlowTable
  <2>2. Flow!Active' = FlowUsed(flows')
    BY DEF Flow!Active, Flow!Slots, FlowUsed
  <2>3. Flow!Known' = [key \in {flows'[s].key : s \in FlowUsed(flows')} |->
                        LET s == Min({s \in FlowUsed(flows') : flows'[s].key = key})
                        IN  [pkts |-> flows'[s].pkt_count, last |-> flows'[s].last_seen]]
    BY <2>2, FlowOps DEF Flow!Known, Flow!Lookup
  <2>4. QED BY <2>1, <2>3, FlowLookup
<1>3. QED BY <1>1, <1>2

LEMMA FlowConstants == Size \in Nat /\ NoKey \notin Keys /\ Timeouts \subseteq Nat /\ MaxPkts \in Nat \ {0}
BY TablesAssumption, Zenon DEF Flow!FlowTrackAssumption

\* Entry e is put into slot s.
FlowPuts(t, s, e, r) ==
    /\ r \in [1 .. Size -> FlowEntry] /\ FlowUsed(r) = FlowUsed(t) \cup {s} /\ r[s] = e
    /\ \A x \in 1 .. Size : x # s => r[x] = t[x]
    /\ \A x \in 1 .. Size : x # s => FlowKeys(r)[x] = FlowKeys(t)[x] /\ FlowSeen(r)[x] = FlowSeen(t)[x]
    /\ FlowKeys(r)[s] = e.key /\ FlowSeen(r)[s] = [pkts |-> e.pkt_count, last |-> e.last_seen]

LEMMA FlowPut ==
    ASSUME NEW t \in [1 .. Size -> FlowEntry], NEW s \in 1 .. Size, NEW e \in FlowEntry, e.active
    PROVE  FlowPuts(t, s, e, PutIn(t, s, e))
<1> DEFINE r == PutIn(t, s, e)
<1>1. r \in [1 .. Size -> FlowEntry] /\ r[s] = e /\ \A x \in 1 .. Size : x # s => r[x] = t[x]
  BY DEF PutIn
<1> HIDE DEF r
<1>2. FlowUsed(r) = FlowUsed(t) \cup {s}
  BY <1>1 DEF FlowUsed
<1>3. /\ \A x \in 1 .. Size : x # s => FlowKeys(r)[x] = FlowKeys(t)[x] /\ FlowSeen(r)[x] = FlowSeen(t)[x]
      /\ FlowKeys(r)[s] = e.key /\ FlowSeen(r)[s] = [pkts |-> e.pkt_count, last |-> e.last_seen]
  BY <1>1 DEF FlowKeys, FlowSeen
<1>4. FlowPuts(t, s, e, r)
  BY <1>1, <1>2, <1>3 DEF FlowPuts
<1>5. QED BY <1>4 DEF r

LEMMA FlowAgain ==
    ASSUME FlowInv, NEW key \in Keys, Flow!Lookup(key) # {}, Flow!Packet(key)
    PROVE  FlowInv' /\ Flow!Map!See(key)
<1>1. /\ flows \in [1 .. Size -> FlowEntry] /\ InUse(FlowUsed(flows), FlowKeys(flows))
      /\ FlowTable(flows, now) /\ now \in Nat /\ flow_count = Cardinality(FlowUsed(flows))
      /\ \A x \in 1 .. Size : flows[x].last_seen <= now
      /\ \A x \in FlowUsed(flows) : flows[x].key \in Keys
  BY DEF FlowInv, FlowTable
<1>2. PICK s : s = Min(Flow!Lookup(key))
  OBVIOUS
<1>3. s \in FlowUsed(flows) /\ s \in 1 .. Size /\ flows[s].key = key
  <2>1. Flow!Lookup(key) = {x \in FlowUsed(flows) : flows[x].key = key}
    BY DEF Flow!Lookup, Flow!Active, Flow!Slots, FlowUsed
  <2>2. Flow!Lookup(key) \in SUBSET Nat
    BY <2>1, FlowConstants DEF FlowUsed
  <2>3. s \in Flow!Lookup(key)
    BY <1>2, <2>2, MinIsIn
  <2>4. QED BY <2>1, <2>3 DEF FlowUsed
<1>4. PICK x : x = flows[s]
  OBVIOUS
<1>5. PICK e : e = [x EXCEPT !.pkt_count = x.pkt_count + 1, !.last_seen = now]
  OBVIOUS
<1>6. /\ flows' = [flows EXCEPT ![s].pkt_count = @ + 1, ![s].last_seen = now]
      /\ x.pkt_count < MaxPkts /\ flow_call' = <<"see", key>> /\ flow_count' = flow_count /\ now' = now
  BY <1>2, <1>4, FlowOps DEF Flow!Packet, Flow!Updated
<1>7. x \in FlowEntry /\ x.key = key /\ x.active /\ x.pkt_count \in 0 .. MaxPkts
  <2>1. x \in FlowEntry
    BY <1>1, <1>3, <1>4
  <2>2. QED BY <1>3, <1>4, <2>1 DEF FlowEntry, FlowUsed
<1>8. /\ e \in FlowEntry /\ e.key = key /\ e.active /\ e.last_seen = now
      /\ e.pkt_count = x.pkt_count + 1
  <2>1. x.pkt_count + 1 \in 0 .. MaxPkts
    BY <1>6, <1>7, FlowConstants
  <2>2. e.key = x.key /\ e.active = x.active /\ e.last_seen = now /\ e.pkt_count = x.pkt_count + 1
    BY <1>5, <1>7 DEF FlowEntry
  <2>3. e \in FlowEntry
    BY <1>1, <1>5, <1>7, <2>1 DEF FlowEntry
  <2>4. QED BY <1>7, <2>2, <2>3
<1>9. PICK t, r : t = flows /\ r = PutIn(t, s, e)
  OBVIOUS
<1>10. flows' = r
  BY <1>1, <1>3, <1>4, <1>5, <1>6, <1>9 DEF PutIn
<1>11. PICK A, K, V, L, W : /\ A = FlowUsed(flows) /\ K = FlowKeys(flows) /\ V = FlowSeen(flows)
                            /\ L = FlowKeys(r) /\ W = FlowSeen(r)
  OBVIOUS
<1>12. /\ r \in [1 .. Size -> FlowEntry] /\ FlowUsed(r) = A \cup {s} /\ r[s] = e
       /\ \A y \in 1 .. Size : y # s => r[y] = flows[y] /\ L[y] = K[y] /\ W[y] = V[y]
       /\ L[s] = key /\ W[s] = [pkts |-> x.pkt_count + 1, last |-> now]
  <2>1. t \in [1 .. Size -> FlowEntry] /\ s \in 1 .. Size /\ e \in FlowEntry /\ e.active
    BY <1>1, <1>3, <1>8, <1>9
  <2>2. FlowPuts(t, s, e, r)
    BY <1>9, <2>1, FlowPut
  <2>3. QED BY <1>8, <1>9, <1>11, <2>2 DEF FlowPuts
<1>13. /\ K[s] = key /\ V[s] = [pkts |-> x.pkt_count, last |-> x.last_seen]
       /\ A \in SUBSET (1 .. Size) /\ s \in A /\ A \cup {s} = A
  BY <1>3, <1>4, <1>11 DEF FlowKeys, FlowSeen, FlowUsed
<1>14. InUse(A, K) /\ \A y \in A : L[y] = K[y] /\ (y # s => W[y] = V[y])
  BY <1>1, <1>11, <1>12, <1>13
<1>15. InUse(A, L) /\ KnownIn(A, L, W) = [KnownIn(A, K, V) EXCEPT ![K[s]] = W[s]]
  BY <1>13, <1>14, KnownAgain
<1>16. FlowTable(r, now)
  <2>1. \A y \in 1 .. Size : r[y].last_seen <= now
    BY <1>1, <1>8, <1>12
  <2>2. \A y \in FlowUsed(r) : r[y].key \in Keys
    BY <1>1, <1>8, <1>11, <1>12, <1>13
  <2>3. InUse(FlowUsed(r), FlowKeys(r))
    BY <1>11, <1>12, <1>13, <1>15
  <2>4. QED BY <1>12, <2>1, <2>2, <2>3 DEF FlowTable
<1>17. FlowInv'
  <2>1. FlowUsed(flows') = FlowUsed(flows)
    BY <1>10, <1>11, <1>12, <1>13
  <2>2. QED BY <1>1, <1>6, <1>10, <1>16, <2>1 DEF FlowInv
<1>18. PICK M, N : M = FlowMap(flows) /\ N = FlowMap(r)
  OBVIOUS
<1>19. M = KnownIn(A, K, V) /\ N = KnownIn(A, L, W)
  BY <1>11, <1>12, <1>13, <1>18 DEF FlowMap
<1>20. M[key] = V[s] /\ key \in DOMAIN M
  <2>1. DOMAIN M = KeysOf(A, K)
    BY <1>19, KnownMap
  <2>2. QED BY <1>13, <1>14, <1>19, <2>1, KnownIs
<1>21. N = [M EXCEPT ![key] = [pkts |-> M[key].pkts + 1, last |-> now]]
  <2>1. N = [M EXCEPT ![key] = W[s]]
    BY <1>13, <1>15, <1>19
  <2>2. M[key].pkts = x.pkt_count
    BY <1>13, <1>20
  <2>3. QED BY <1>12, <2>1, <2>2
<1>22. Flow!Known = M /\ Flow!Known' = N
  BY <1>1, <1>6, <1>10, <1>16, <1>18, FlowKnown
<1>23. Cardinality(DOMAIN N) = flow_count
  <2>1. DOMAIN N = DOMAIN M
    BY <1>21
  <2>2. DOMAIN M = KeysOf(A, K)
    BY <1>19, KnownMap
  <2>3. Cardinality(KeysOf(A, K)) = Cardinality(A)
    BY <1>14, KnownIs
  <2>4. QED BY <1>1, <1>11, <2>1, <2>2, <2>3
<1>24. Flow!Map!Sized
  BY <1>6, <1>22, <1>23, FlowOps DEF Flow!Map!Sized
<1>25. QED
  BY <1>6, <1>17, <1>20, <1>21, <1>22, <1>24 DEF Flow!Map!See, Flow!Map!Seen

LEMMA FlowNew ==
    ASSUME FlowInv, NEW key \in Keys, Flow!Lookup(key) = {}, Flow!Packet(key)
    PROVE  FlowInv' /\ Flow!Map!See(key)
<1>1. /\ flows \in [1 .. Size -> FlowEntry] /\ InUse(FlowUsed(flows), FlowKeys(flows))
      /\ FlowTable(flows, now) /\ now \in Nat /\ flow_count = Cardinality(FlowUsed(flows))
      /\ \A x \in 1 .. Size : flows[x].last_seen <= now
      /\ \A x \in FlowUsed(flows) : flows[x].key \in Keys
  BY DEF FlowInv, FlowTable
<1>2. PICK s, F : s = Min(F) /\ F = Flow!Slots \ Flow!Active
  OBVIOUS
<1>3. s \in 1 .. Size /\ s \notin FlowUsed(flows)
  <2>1. F = {x \in 1 .. Size : x \notin FlowUsed(flows)} /\ F # {}
    BY <1>2 DEF Flow!Packet, Flow!Active, Flow!Slots, FlowUsed
  <2>2. F \in SUBSET Nat
    BY <2>1, FlowConstants
  <2>3. s \in F
    BY <1>2, <2>1, <2>2, MinIsIn
  <2>4. QED BY <2>1, <2>3
<1>4. \A x \in FlowUsed(flows) : flows[x].key # key
  BY DEF Flow!Lookup, Flow!Active, Flow!Slots, FlowUsed
<1>5. PICK e : e = [key |-> key, pkt_count |-> 1, last_seen |-> now, active |-> TRUE]
  OBVIOUS
<1>6. /\ flows' = PutIn(flows, s, e) /\ flow_count' = flow_count + 1
      /\ flow_call' = <<"see", key>> /\ now' = now
  <2>1. /\ flows' = Flow!Updated(Flow!Inserted(key), s) /\ flow_count' = flow_count + 1
        /\ flow_call' = <<"see", key>> /\ now' = now
    BY <1>2, FlowOps DEF Flow!Packet
  <2>2. PICK b : b = [Flow!Zeroed EXCEPT !.key = key, !.active = TRUE, !.last_seen = now]
    OBVIOUS
  <2>3. b = [key |-> key, pkt_count |-> 0, last_seen |-> now, active |-> TRUE]
    BY <2>2 DEF Flow!Zeroed
  <2>4. PICK f : f = PutIn(flows, s, b)
    OBVIOUS
  <2>5. Flow!Inserted(key) = f
    BY <1>2, <2>2, <2>4, FlowOps DEF Flow!Inserted, PutIn
  <2>6. f \in [1 .. Size -> FlowEntry] /\ f[s] = b
    <3>1. b \in FlowEntry
      BY <1>1, <2>3, FlowConstants DEF FlowEntry
    <3>2. QED BY <1>1, <1>3, <2>4, <3>1 DEF PutIn
  <2>7. [b EXCEPT !.pkt_count = b.pkt_count + 1, !.last_seen = now] = e
    <3>1. PICK c : c = [b EXCEPT !.pkt_count = b.pkt_count + 1, !.last_seen = now]
      OBVIOUS
    <3>2. /\ b \in FlowEntry /\ b.key = key /\ b.active /\ b.pkt_count = 0
          /\ e \in FlowEntry /\ e.key = key /\ e.active /\ e.last_seen = now /\ e.pkt_count = 1
      BY <1>1, <1>5, <2>3, FlowConstants DEF FlowEntry
    <3>3. c.key = b.key /\ c.active = b.active /\ c.last_seen = now /\ c.pkt_count = b.pkt_count + 1
      BY <3>1, <3>2 DEF FlowEntry
    <3>4. c.pkt_count = 1 /\ 1 \in 0 .. MaxPkts
      BY <3>2, <3>3, FlowConstants
    <3>5. c \in FlowEntry
      BY <1>1, <3>1, <3>2, <3>4 DEF FlowEntry
    <3>6. c = e
      <4>1. \A x \in FlowEntry : x = [key |-> x.key, pkt_count |-> x.pkt_count,
                                     last_seen |-> x.last_seen, active |-> x.active]
        BY DEF FlowEntry
      <4>2. c.active = e.active
        <5>1. c.active \in BOOLEAN /\ e.active \in BOOLEAN
          BY <3>2, <3>5 DEF FlowEntry
        <5>2. QED BY <3>2, <3>3, <5>1
      <4>3. c.key = e.key /\ c.pkt_count = e.pkt_count /\ c.last_seen = e.last_seen
        BY <3>2, <3>3, <3>4
      <4>4. QED BY <3>2, <3>5, <4>1, <4>2, <4>3
    <3>7. QED BY <3>1, <3>6
  <2>8. Flow!Updated(f, s) = PutIn(f, s, e)
    BY <1>3, <2>6, <2>7 DEF Flow!Updated, PutIn
  <2>9. PutIn(f, s, e) = PutIn(flows, s, e)
    BY <1>1, <1>3, <2>4 DEF PutIn
  <2>10. QED BY <2>1, <2>5, <2>8, <2>9
<1>7. e \in FlowEntry /\ e.key = key /\ e.active /\ e.last_seen = now /\ e.pkt_count = 1
  BY <1>1, <1>5, FlowConstants DEF FlowEntry
<1>8. PICK t, r : t = flows /\ r = PutIn(t, s, e)
  OBVIOUS
<1>9. FlowPuts(t, s, e, r)
  <2>1. t \in [1 .. Size -> FlowEntry] /\ s \in 1 .. Size /\ e \in FlowEntry /\ e.active
    BY <1>1, <1>3, <1>7, <1>8
  <2>2. QED BY <1>8, <2>1, FlowPut
<1>10. flows' = r
  BY <1>6, <1>8
<1>11. PICK A, K, V, L, W : /\ A = FlowUsed(flows) /\ K = FlowKeys(flows) /\ V = FlowSeen(flows)
                            /\ L = FlowKeys(r) /\ W = FlowSeen(r)
  OBVIOUS
<1>12. /\ r \in [1 .. Size -> FlowEntry] /\ FlowUsed(r) = A \cup {s} /\ r[s] = e
       /\ \A y \in 1 .. Size : y # s => r[y] = flows[y] /\ L[y] = K[y] /\ W[y] = V[y]
       /\ L[s] = key /\ W[s] = [pkts |-> 1, last |-> now]
  BY <1>7, <1>8, <1>9, <1>11 DEF FlowPuts
<1>13. A \in SUBSET (1 .. Size) /\ s \notin A /\ \A y \in A : K[y] = flows[y].key
  BY <1>3, <1>11 DEF FlowKeys, FlowUsed
<1>14. /\ InUse(A, K) /\ \A y \in A : L[y] = K[y] /\ W[y] = V[y]
       /\ L[s] \notin KeysOf(A, K)
  <2>1. InUse(A, K)
    BY <1>1, <1>11
  <2>2. \A y \in A : L[y] = K[y] /\ W[y] = V[y]
    BY <1>12, <1>13
  <2>3. key \notin KeysOf(A, K)
    BY <1>4, <1>11, <1>13 DEF KeysOf
  <2>4. QED BY <1>12, <2>1, <2>2, <2>3
<1>15. PICK B, M, N : B = A \cup {s} /\ M = KnownIn(A, K, V) /\ N = KnownIn(B, L, W)
  OBVIOUS
<1>16. /\ InUse(B, L) /\ Cardinality(B) = Cardinality(A) + 1
       /\ N = MapPlus(M, KeysOf(A, K), L[s], W[s])
  <2>1. InUse(A, K) /\ Adds(A, s, K, V, L, W)
    BY <1>3, <1>13, <1>14 DEF Adds
  <2>2. Added(A, s, K, V, L, W)
    BY <2>1, KnownNew
  <2>3. QED BY <1>15, <2>2 DEF Added
<1>17. FlowTable(r, now)
  <2>1. \A y \in 1 .. Size : r[y].last_seen <= now
    BY <1>1, <1>7, <1>12
  <2>2. \A y \in FlowUsed(r) : r[y].key \in Keys
    BY <1>1, <1>7, <1>11, <1>12, <1>13
  <2>3. InUse(FlowUsed(r), FlowKeys(r))
    BY <1>11, <1>12, <1>15, <1>16
  <2>4. QED BY <1>12, <2>1, <2>2, <2>3 DEF FlowTable
<1>18. flow_count' = Cardinality(B) /\ FlowUsed(r) = B
  BY <1>1, <1>6, <1>11, <1>12, <1>15, <1>16
<1>19. FlowInv'
  BY <1>1, <1>6, <1>10, <1>17, <1>18 DEF FlowInv
<1>20. Flow!Known = M /\ Flow!Known' = N
  <2>1. M = FlowMap(flows) /\ N = FlowMap(r)
    BY <1>11, <1>15, <1>18 DEF FlowMap
  <2>2. QED BY <1>1, <1>6, <1>10, <1>17, <2>1, FlowKnown
<1>21. DOMAIN M = KeysOf(A, K) /\ DOMAIN N = KeysOf(B, L)
  BY <1>15, KnownMap
<1>22. key \notin DOMAIN M /\ flow_count < Size
  <2>1. IsFiniteSet(B) /\ Cardinality(B) \in 0 .. Size /\ Size \in Nat
    BY <1>16, InUseFinite DEF InUse
  <2>2. IsFiniteSet(A) /\ Cardinality(A) \in 0 .. Size
    BY <1>13, InUseFinite
  <2>3. QED BY <1>1, <1>11, <1>12, <1>14, <1>16, <1>21, <2>1, <2>2
<1>23. Flow!Map!Sized
  <2>1. Cardinality(KeysOf(B, L)) = Cardinality(B)
    BY <1>16, KnownIs
  <2>2. QED BY <1>18, <1>20, <1>21, <2>1, FlowOps DEF Flow!Map!Sized
<1>24. N = [q \in DOMAIN M \cup {key} |-> IF q = key THEN [pkts |-> 1, last |-> now] ELSE M[q]]
  BY <1>12, <1>16, <1>21 DEF MapPlus
<1>25. QED
  BY <1>6, <1>19, <1>20, <1>22, <1>23, <1>24 DEF Flow!Map!See, Flow!Map!Seen

\* The same, with slots D no longer in use.
FlowIdle(t, D) == [s \in 1 .. Size |-> IF s \in D THEN [t[s] EXCEPT !.active = FALSE] ELSE t[s]]
FlowFrees(t, D, n, r) ==
    /\ FlowTable(r, n) /\ FlowUsed(r) = FlowUsed(t) \ D
    /\ Cardinality(FlowUsed(r)) = Cardinality(FlowUsed(t)) - Cardinality(D)
    /\ FlowMap(r) = MapLess(FlowMap(t), DOMAIN FlowMap(t), {t[s].key : s \in D})
    /\ Cardinality(DOMAIN FlowMap(r)) = Cardinality(FlowUsed(r))

LEMMA FlowLess ==
    ASSUME NEW t \in [1 .. Size -> FlowEntry], NEW D \in SUBSET FlowUsed(t), NEW n \in Nat,
           FlowTable(t, n)
    PROVE  FlowFrees(t, D, n, FlowIdle(t, D))
<1> DEFINE r == FlowIdle(t, D)
<1>1. \A s \in 1 .. Size : t[s] \in FlowEntry /\ t[s].last_seen <= n
  BY DEF FlowTable
<1>2. ASSUME NEW x \in FlowEntry
      PROVE  /\ [x EXCEPT !.active = FALSE] \in FlowEntry /\ ~[x EXCEPT !.active = FALSE].active
             /\ [x EXCEPT !.active = FALSE].last_seen = x.last_seen
  BY DEF FlowEntry
<1>3. /\ r \in [1 .. Size -> FlowEntry] /\ \A s \in D : ~r[s].active
      /\ \A s \in 1 .. Size : s \notin D => r[s] = t[s]
      /\ \A s \in 1 .. Size : r[s].last_seen = t[s].last_seen
  <2>1. \A s \in D : s \in 1 .. Size
    BY DEF FlowUsed
  <2>2. \A s \in 1 .. Size : r[s] = IF s \in D THEN [t[s] EXCEPT !.active = FALSE] ELSE t[s]
    BY DEF FlowIdle
  <2>3. \A s \in 1 .. Size : r[s] \in FlowEntry /\ r[s].last_seen = t[s].last_seen
    BY <1>1, <1>2, <2>2
  <2>4. r \in [1 .. Size -> FlowEntry]
    BY <2>3 DEF FlowIdle
  <2>5. \A s \in D : ~r[s].active
    BY <1>1, <1>2, <2>1, <2>2
  <2>6. QED BY <2>2, <2>3, <2>4, <2>5
<1> HIDE DEF r
<1>4. PICK A, K, V, L, W : /\ A = FlowUsed(t) /\ K = FlowKeys(t) /\ V = FlowSeen(t)
                           /\ L = FlowKeys(r) /\ W = FlowSeen(r)
  OBVIOUS
<1>5. FlowUsed(r) = A \ D
  BY <1>3, <1>4 DEF FlowUsed
<1>6. /\ A \in SUBSET (1 .. Size) /\ D \in SUBSET A
      /\ \A s \in A \ D : L[s] = K[s] /\ W[s] = V[s]
      /\ \A s \in A : K[s] = t[s].key
  BY <1>3, <1>4 DEF FlowUsed, FlowKeys, FlowSeen
<1>7. InUse(A, K)
  BY <1>4 DEF FlowTable
<1>8. PICK M, N : M = KnownIn(A, K, V) /\ N = KnownIn(A \ D, L, W)
  OBVIOUS
<1>9. /\ InUse(A \ D, L) /\ Cardinality(A \ D) = Cardinality(A) - Cardinality(D)
      /\ N = MapLess(M, KeysOf(A, K), KeysOf(D, K))
  <2>1. InUse(A, K) /\ Frees(A, D, K, V, L, W)
    BY <1>6, <1>7 DEF Frees
  <2>2. Freed(A, D, K, V, L, W)
    BY <2>1, KnownLess
  <2>3. QED BY <1>8, <2>2 DEF Freed
<1>10. M = FlowMap(t) /\ N = FlowMap(r)
  BY <1>4, <1>5, <1>8 DEF FlowMap
<1>11. DOMAIN M = KeysOf(A, K) /\ DOMAIN N = KeysOf(A \ D, L)
  BY <1>8, KnownMap
<1>12. KeysOf(D, K) = {t[s].key : s \in D}
  BY <1>6 DEF KeysOf
<1>13. FlowMap(r) = MapLess(FlowMap(t), DOMAIN FlowMap(t), {t[s].key : s \in D})
  BY <1>9, <1>10, <1>11, <1>12
<1>14. Cardinality(DOMAIN FlowMap(r)) = Cardinality(FlowUsed(r))
  <2>1. Cardinality(KeysOf(A \ D, L)) = Cardinality(A \ D)
    BY <1>9, KnownIs
  <2>2. QED BY <1>5, <1>10, <1>11, <2>1
<1>15. FlowTable(r, n)
  <2>1. \A s \in 1 .. Size : r[s].last_seen <= n
    BY <1>1, <1>3
  <2>2. \A s \in FlowUsed(r) : r[s].key \in Keys
    BY <1>3, <1>4, <1>5, <1>6 DEF FlowTable
  <2>3. InUse(FlowUsed(r), FlowKeys(r))
    BY <1>4, <1>5, <1>9
  <2>4. QED BY <1>3, <2>1, <2>2, <2>3 DEF FlowTable
<1>16. FlowFrees(t, D, n, r)
  BY <1>4, <1>5, <1>9, <1>13, <1>14, <1>15 DEF FlowFrees
<1>17. QED BY <1>16 DEF r

LEMMA FlowExpire ==
    ASSUME FlowInv, NEW timeout \in Timeouts, Flow!Expire(timeout)
    PROVE  FlowInv' /\ Flow!Map!Expire(timeout)
<1>1. /\ flows \in [1 .. Size -> FlowEntry] /\ InUse(FlowUsed(flows), FlowKeys(flows))
      /\ FlowTable(flows, now) /\ now \in Nat /\ flow_count = Cardinality(FlowUsed(flows))
  BY DEF FlowInv, FlowTable
<1>2. PICK D : D = Flow!Stale(timeout)
  OBVIOUS
<1>3. D = {s \in FlowUsed(flows) : now - flows[s].last_seen >= timeout}
  BY <1>2 DEF Flow!Stale, Flow!Active, Flow!Slots, FlowUsed
<1>4. /\ flows' = FlowIdle(flows, D)
      /\ flow_count' = flow_count - Cardinality(D)
      /\ flow_call' = <<"expire", timeout>> /\ now' = now
  BY <1>2, FlowOps DEF Flow!Expire, Flow!Slots, FlowIdle
<1>5. PICK r : r = FlowIdle(flows, D)
  OBVIOUS
<1>6. PICK M, N : M = FlowMap(flows) /\ N = FlowMap(r)
  OBVIOUS
<1>7. /\ FlowTable(r, now) /\ Cardinality(FlowUsed(r)) = Cardinality(FlowUsed(flows)) - Cardinality(D)
      /\ N = MapLess(M, DOMAIN M, {flows[s].key : s \in D})
      /\ Cardinality(DOMAIN N) = Cardinality(FlowUsed(r))
  <2>1. D \in SUBSET FlowUsed(flows)
    BY <1>3
  <2>2. FlowFrees(flows, D, now, r)
    BY <1>1, <1>5, <2>1, FlowLess
  <2>3. QED BY <1>6, <2>2 DEF FlowFrees
<1>8. FlowInv'
  BY <1>1, <1>4, <1>5, <1>7 DEF FlowInv
<1>9. Flow!Known = M /\ Flow!Known' = N
  BY <1>1, <1>4, <1>5, <1>6, <1>7, FlowKnown
<1>10. {flows[s].key : s \in D} = {q \in DOMAIN M : now - M[q].last >= timeout}
  <2>1. PICK A, K, V : A = FlowUsed(flows) /\ K = FlowKeys(flows) /\ V = FlowSeen(flows)
    OBVIOUS
  <2>2. M = KnownIn(A, K, V) /\ DOMAIN M = KeysOf(A, K)
    BY <1>6, <2>1, KnownMap DEF FlowMap
  <2>3. \A s \in A : M[K[s]] = V[s] /\ K[s] \in KeysOf(A, K)
    BY <1>1, <2>1, <2>2, KnownIs
  <2>4. \A s \in A : K[s] = flows[s].key /\ V[s].last = flows[s].last_seen /\ flows[s].last_seen \in Nat
    <3>1. \A s \in A : K[s] = flows[s].key /\ V[s].last = flows[s].last_seen /\ flows[s] \in FlowEntry
      BY <1>1, <2>1 DEF FlowUsed, FlowKeys, FlowSeen
    <3>2. QED BY <3>1 DEF FlowEntry
  <2>5. timeout \in Nat
    BY FlowConstants
  <2>6. \A s \in A : s \in D <=> now - M[flows[s].key].last >= timeout
    BY <1>1, <1>3, <2>1, <2>3, <2>4, <2>5
  <2>7. \A q \in DOMAIN M : \E s \in A : q = flows[s].key
    BY <2>2, <2>4 DEF KeysOf
  <2>8. \A s \in A : flows[s].key \in DOMAIN M
    BY <2>2, <2>3, <2>4
  <2>9. D \subseteq A
    BY <1>3, <2>1
  <2>10. QED BY <2>6, <2>7, <2>8, <2>9
<1>11. Flow!Map!Old(timeout) = {flows[s].key : s \in D}
  BY <1>9, <1>10 DEF Flow!Map!Old
<1>12. Flow!Map!Sized
  BY <1>1, <1>4, <1>7, <1>9, FlowOps DEF Flow!Map!Sized
<1>13. Flow!Map!Forget(Flow!Map!Old(timeout))
  BY <1>4, <1>7, <1>9, <1>11, <1>12 DEF Flow!Map!Forget, MapLess
<1>14. QED BY <1>4, <1>8, <1>13 DEF Flow!Map!Expire

\* An empty table is the empty map.
LEMMA FlowEmpty ==
    ASSUME NEW n \in Nat
    PROVE  LET t == [s \in 1 .. Size |-> Flow!Zeroed]
           IN  FlowTable(t, n) /\ Cardinality(FlowUsed(t)) = 0 /\ FlowMap(t) = <<>>
<1>1. PICK t, z : z = Flow!Zeroed /\ t = [s \in 1 .. Size |-> z]
  OBVIOUS
<1>2. z \in FlowEntry /\ ~z.active /\ z.last_seen = 0
  BY <1>1, FlowConstants DEF Flow!Zeroed, FlowEntry
<1>3. t \in [1 .. Size -> FlowEntry] /\ \A s \in 1 .. Size : t[s] = z
  BY <1>1, <1>2
<1>4. FlowUsed(t) = {}
  BY <1>2, <1>3 DEF FlowUsed
<1>5. Cardinality(FlowUsed(t)) = 0
  BY <1>4, FS_EmptySet
<1>6. InUse(FlowUsed(t), FlowKeys(t))
  BY <1>4 DEF InUse
<1>7. FlowTable(t, n)
  BY <1>2, <1>3, <1>4, <1>6 DEF FlowTable
<1>8. FlowMap(t) = <<>>
  <2>1. PICK f, A : A = FlowUsed(t) /\ f = KnownIn(A, FlowKeys(t), FlowSeen(t))
    OBVIOUS
  <2>2. KeysOf(A, FlowKeys(t)) = {}
    BY <1>4, <2>1 DEF KeysOf
  <2>3. f = [p \in {} |-> f[p]]
    BY <2>1, <2>2 DEF KnownIn
  <2>4. f = <<>>
    BY <2>3
  <2>5. QED BY <2>1, <2>4 DEF FlowMap
<1>9. QED BY <1>1, <1>5, <1>7, <1>8

LEMMA FlowInit == Init => FlowInv /\ Flow!Map!Init
<1> SUFFICES ASSUME Init PROVE FlowInv /\ Flow!Map!Init
  OBVIOUS
<1>1. flows = [s \in 1 .. Size |-> Flow!Zeroed] /\ flow_count = 0 /\ now = 0 /\ flow_call = <<"init">>
  BY DEF Init, Flow!Init, Flow!Slots
<1>2. FlowTable(flows, 0) /\ Cardinality(FlowUsed(flows)) = 0 /\ FlowMap(flows) = <<>>
  BY <1>1, FlowEmpty
<1>3. FlowInv
  BY <1>1, <1>2 DEF FlowInv
<1>4. Flow!Known = <<>>
  BY <1>1, <1>2, FlowKnown
<1>5. QED BY <1>1, <1>3, <1>4 DEF Flow!Map!Init

LEMMA FlowRestart == ASSUME FlowInv, Flow!Restart PROVE FlowInv' /\ Flow!Map!Restart
<1>1. /\ flows' = [s \in 1 .. Size |-> Flow!Zeroed] /\ flow_count' = 0 /\ now' = now
      /\ flow_call' = <<"init">> /\ now \in Nat /\ FlowTable(flows, now)
  BY DEF Flow!Restart, Flow!Slots, FlowInv
<1>2. PICK r : r = [s \in 1 .. Size |-> Flow!Zeroed]
  OBVIOUS
<1>3. FlowTable(r, now) /\ Cardinality(FlowUsed(r)) = 0 /\ FlowMap(r) = <<>>
  BY <1>1, <1>2, FlowEmpty
<1>4. FlowInv'
  BY <1>1, <1>2, <1>3 DEF FlowInv
<1>5. PICK M : M = FlowMap(flows)
  OBVIOUS
<1>6. Flow!Known = M /\ Flow!Known' = <<>>
  BY <1>1, <1>2, <1>3, <1>5, FlowKnown
<1>7. DOMAIN M \ Keys = {}
  <2>1. PICK A, K, V : A = FlowUsed(flows) /\ K = FlowKeys(flows) /\ V = FlowSeen(flows)
    OBVIOUS
  <2>2. DOMAIN M = KeysOf(A, K)
    BY <1>5, <2>1, KnownMap DEF FlowMap
  <2>3. \A s \in A : K[s] \in Keys
    BY <1>1, <2>1 DEF FlowTable, FlowUsed, FlowKeys
  <2>4. QED BY <2>2, <2>3 DEF KeysOf
<1>8. [q \in DOMAIN M \ Keys |-> M[q]] = <<>>
  BY <1>7
<1>9. Flow!Map!Sized
  <2>1. DOMAIN <<>> = {} /\ Cardinality({}) = 0
    BY FS_EmptySet
  <2>2. QED BY <1>1, <1>6, <2>1, FlowOps DEF Flow!Map!Sized
<1>10. QED BY <1>1, <1>4, <1>6, <1>8, <1>9 DEF Flow!Map!Restart, Flow!Map!Forget

\* A step of the table is one of the map, or changes neither.
LEMMA FlowStep == FlowInv /\ [Next]_vars => FlowInv' /\ [Flow!Map!Next]_(Flow!Map!vars)
<1> SUFFICES ASSUME FlowInv, [Next]_vars PROVE FlowInv' /\ [Flow!Map!Next]_(Flow!Map!vars)
  OBVIOUS
<1>1. ASSUME NEW key \in Keys, Flow!Packet(key)
      PROVE  FlowInv' /\ Flow!Map!Next
  <2>1. FlowInv' /\ Flow!Map!See(key)
    BY <1>1, FlowAgain, FlowNew
  <2>2. QED BY <2>1 DEF Flow!Map!Next
<1>2. ASSUME NEW timeout \in Timeouts, Flow!Expire(timeout)
      PROVE  FlowInv' /\ Flow!Map!Next
  <2>1. FlowInv' /\ Flow!Map!Expire(timeout)
    BY <1>2, FlowExpire
  <2>2. QED BY <2>1 DEF Flow!Map!Next
<1>3. ASSUME Flow!Restart
      PROVE  FlowInv' /\ Flow!Map!Next
  BY <1>3, FlowRestart DEF Flow!Map!Next
<1>4. CASE UNCHANGED flowVars
  <2>1. flows' = flows /\ flow_count' = flow_count /\ flow_call' = flow_call
    BY <1>4 DEF flowVars
  <2>2. now \in Nat /\ (now' = now \/ now' = now + 1)
    BY Clock DEF FlowInv
  <2>3. FlowTable(flows', now')
    <3>1. flows \in [1 .. Size -> FlowEntry] /\ \A s \in 1 .. Size : flows[s].last_seen <= now
      BY DEF FlowInv, FlowTable
    <3>2. \A s \in 1 .. Size : flows[s] \in FlowEntry
      BY <3>1
    <3>3. \A s \in 1 .. Size : flows[s].last_seen \in Nat
      BY <3>2 DEF FlowEntry
    <3>4. \A s \in 1 .. Size : flows[s].last_seen <= now'
      BY <2>2, <3>1, <3>3
    <3>5. QED BY <2>1, <3>4 DEF FlowInv, FlowTable
  <2>4. FlowInv'
    BY <2>1, <2>2, <2>3 DEF FlowInv
  <2>5. Flow!Known' = Flow!Known
    BY <2>1, <2>3, FlowKnown DEF FlowInv
  <2>6. CASE now' = now
    BY <2>1, <2>4, <2>5, <2>6 DEF Flow!Map!vars
  <2>7. CASE now' = now + 1
    BY <2>1, <2>4, <2>5, <2>7 DEF Flow!Map!Tick, Flow!Map!Next
  <2>8. QED BY <2>2, <2>6, <2>7
<1>5. CASE Flow!Next
  <2>1. CASE Flow!Tick
    BY <1>4, <2>1 DEF Flow!Tick, flowVars
  <2>2. QED BY <1>1, <1>2, <1>3, <1>5, <2>1 DEF Flow!Next
<1>6. QED BY <1>4, <1>5 DEF Next, Only, vars

LEMMA FlowImplied == FlowInv => Flow!TypeOK
<1> SUFFICES ASSUME FlowInv PROVE Flow!TypeOK
  OBVIOUS
<1>1. /\ flows \in [1 .. Size -> FlowEntry] /\ \A s \in 1 .. Size : flows[s].last_seen <= now
      /\ now \in Nat /\ flow_count = Cardinality(FlowUsed(flows))
  BY DEF FlowInv, FlowTable
<1>2. flow_count \in 0 .. Size
  <2>1. FlowUsed(flows) \in SUBSET (1 .. Size)
    BY DEF FlowUsed
  <2>2. QED BY <1>1, <2>1, InUseFinite
<1>3. ASSUME NEW s \in 1 .. Size
      PROVE  flows[s] \in [key : Keys \cup {NoKey}, pkt_count : 0 .. MaxPkts,
                          last_seen : 0 .. now, active : BOOLEAN]
  <2>1. flows[s] \in FlowEntry
    BY <1>1
  <2>2. flows[s].last_seen \in 0 .. now
    BY <1>1, <2>1 DEF FlowEntry
  <2>3. QED BY <2>1, <2>2 DEF FlowEntry
<1>4. QED BY <1>1, <1>2, <1>3 DEF Flow!TypeOK, Flow!Slots

-----------------------------------------------------------------------------
TablesInv == MacInv /\ FlowInv /\ SesInv /\ DnsInv /\ TtlInv /\ AlarmInv /\ PortInv

\* The inductive invariant of the tables: each one's own.
THEOREM TablesSafe == Spec => []TablesInv
<1>1. Init => TablesInv
  BY MacInit, FlowInit, SesInit, DnsInit, TtlInit, AlarmInit, PortInit DEF TablesInv
<1>2. TablesInv /\ [Next]_vars => TablesInv'
  BY MacStep, FlowStep, SesStep, DnsStep, TtlStep, AlarmStep, PortStep DEF TablesInv
<1>3. QED BY <1>1, <1>2, PTL DEF Spec

\* The tables of mactrack.c, flowtrack.c, session.c, dnstrack.c, ttltrack.c,
\* portmap.c and alarm.c keep to their sizes, whatever these are.
THEOREM TablesTyped == Spec => []TypeOK
<1>1. TablesInv => TypeOK
  BY MacImplied, FlowImplied, SesImplied, DnsImplied, TtlImplied, AlarmImplied, PortImplied
     DEF TablesInv, TypeOK
<1>2. QED BY <1>1, TablesSafe, PTL

\* session.c: with any hash and any number of buckets, a slot is its latest
\* conversation's and the count is off by exactly what was overwritten.
THEOREM SessionsKept == Spec => []SessionsAccounted
<1>1. TablesInv => SessionsAccounted
  BY SesImplied DEF TablesInv, SessionsAccounted
<1>2. QED BY <1>1, TablesSafe, PTL

\* dnstrack.c: no query is lost between the table and the counters, and no
\* sweep leaves an old one behind.
THEOREM QueriesKept == Spec => []QueriesAccounted
<1>1. TablesInv => QueriesAccounted
  BY DnsImplied DEF TablesInv, QueriesAccounted
<1>2. QED BY <1>1, TablesSafe, PTL

\* ttltrack.c and alarm.c count the rising edges of what they observe, each
\* one once.
THEOREM EdgesKept == Spec => []EdgesCounted
<1>1. TablesInv => EdgesCounted
  BY TtlImplied, AlarmImplied DEF TablesInv, EdgesCounted
<1>2. QED BY <1>1, TablesSafe, PTL

\* mactrack.c and flowtrack.c implement a map from keys to counts, portmap.c
\* one from ports to names: slots, holes and swapped entries never show.
THEOREM TablesRefine == Spec => TablesAreMaps
<1>1. Spec => Mac!IsTracker
  <2>1. Init => Mac!Map!Init
    BY MacInit
  <2>2. TablesInv /\ [Next]_vars => [Mac!Map!Next]_(Mac!Map!vars)
    BY MacStep DEF TablesInv
  <2>3. QED BY <2>1, <2>2, TablesSafe, PTL DEF Spec, Mac!IsTracker, Mac!Map!Spec
<1>2. Spec => Flow!IsTracker
  <2>1. Init => Flow!Map!Init
    BY FlowInit
  <2>2. TablesInv /\ [Next]_vars => [Flow!Map!Next]_(Flow!Map!vars)
    BY FlowStep DEF TablesInv
  <2>3. QED BY <2>1, <2>2, TablesSafe, PTL DEF Spec, Flow!IsTracker, Flow!Map!Spec
<1>3. Spec => Port!IsMap
  <2>1. Init => Port!Map!Init
    BY PortInit
  <2>2. TablesInv /\ [Next]_vars => [Port!Map!Next]_(Port!Map!vars)
    BY PortStep DEF TablesInv
  <2>3. QED BY <2>1, <2>2, TablesSafe, PTL DEF Spec, Port!IsMap, Port!Map!Spec
<1>4. QED BY <1>1, <1>2, <1>3 DEF TablesAreMaps
=============================================================================
