------------------------------ MODULE TtlTrack ------------------------------
(***************************************************************************)
(* src/ttltrack.c: hosts whose packets arrive with a TTL well below the    *)
(* one their system starts with, guessed from the first packet seen.       *)
(***************************************************************************)
EXTENDS Integers, Sequences, FiniteSets, FiniteSetsExt, Functions

CONSTANTS Hosts,
          Ttls,       \* values of the 8-bit field
          MaxEntries, \* TTLTRACK_MAX_ENTRIES
          Threshold,  \* TTLTRACK_TTL_ANOMALY_THRESHOLD
          MaxSeen     \* bound on the packets of a host

\* What the constants are.
TtlTrackAssumption ==
    /\ IsFiniteSet(Hosts) /\ Ttls \subseteq 0 .. 255
    /\ MaxEntries \in Nat /\ Threshold \in Nat /\ MaxSeen \in Nat

VARIABLES ttl_entries,         \* entries, count of them
          anomalies_detected,
          seen                 \* history: the TTLs of each tracked host

ttlVars == <<ttl_entries, anomalies_detected, seen>>

Nothing == [h \in Hosts |-> <<>>]

Init == ttl_entries = <<>> /\ anomalies_detected = 0 /\ seen = Nothing

GuessBaseline(ttl) == IF ttl <= 64 THEN 64 ELSE IF ttl <= 128 THEN 128 ELSE 255

Of(h) == {i \in DOMAIN ttl_entries : ttl_entries[i].src_ip = h}

IsAnomaly(e, ttl) == e.baseline_ttl - ttl > Threshold

Fresh(h, ttl) == [src_ip |-> h, baseline_ttl |-> GuessBaseline(ttl),
                  observed_ttl |-> 0, pkt_count |-> 0, anomaly_flagged |-> FALSE]

Observed(e, ttl) == [e EXCEPT !.observed_ttl = ttl, !.pkt_count = @ + 1,
                              !.anomaly_flagged = IsAnomaly(e, ttl)]

Update(h, ttl) ==
    /\ Of(h) # {} \/ Len(ttl_entries) < MaxEntries
    /\ Len(seen[h]) < MaxSeen
    /\ seen' = [seen EXCEPT ![h] = Append(@, ttl)]
    /\ LET es == IF Of(h) = {} THEN Append(ttl_entries, Fresh(h, ttl)) ELSE ttl_entries
           i == IF Of(h) = {} THEN Len(es) ELSE Min(Of(h))
       IN  /\ ttl_entries' = [es EXCEPT ![i] = Observed(@, ttl)]
           /\ anomalies_detected' = IF IsAnomaly(es[i], ttl) /\ ~es[i].anomaly_flagged
                                    THEN anomalies_detected + 1 ELSE anomalies_detected

Reset == ttl_entries' = <<>> /\ anomalies_detected' = 0 /\ seen' = Nothing

Next == (\E h \in Hosts, ttl \in Ttls : Update(h, ttl)) \/ Reset

Spec == Init /\ [][Next]_ttlVars

-----------------------------------------------------------------------------
\* Every variable has its type; the array keeps to its size.
TypeOK == /\ ttl_entries \in Seq([src_ip : Hosts, baseline_ttl : {64, 128, 255},
                                  observed_ttl : Ttls, pkt_count : Nat,
                                  anomaly_flagged : BOOLEAN])
          /\ Len(ttl_entries) <= MaxEntries
          /\ anomalies_detected \in Nat

\* In a host's TTLs l: is number i one of an anomaly?
Low(l, i) == GuessBaseline(l[1]) - l[i] > Threshold

Onsets(l) == {i \in DOMAIN l : Low(l, i) /\ (i > 1 => ~Low(l, i - 1))}

\* anomalies_detected is the number of times a host's TTLs turned anomalous,
\* measured by the first one it was seen with: a lasting anomaly counts once, a
\* new one after it recovered counts again (ttltrack.c:51-59).
OnsetsCounted ==
    anomalies_detected = SumFunctionOnSet([h \in Hosts |-> Cardinality(Onsets(seen[h]))], Hosts)
=============================================================================
