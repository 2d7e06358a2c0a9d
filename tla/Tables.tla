------------------------------- MODULE Tables -------------------------------
(***************************************************************************)
(* The smaller tables of pktsnare.  They share nothing but the clock, so   *)
(* they are explored one at a time: what holds of one alone holds of it    *)
(* among the others, and the states add up instead of multiplying.         *)
(***************************************************************************)
EXTENDS Integers

CONSTANTS Parts,               \* those that may run
          Keys, NoKey,         \* hosts, flows or conversations
          MaxTime, MaxPkts,    \* bounds on the clock and on an entry's packets
          Size, Ages,          \* mactrack.c's and flowtrack.c's slots, and when
          Timeouts,            \* they are swept
          Swapped, Hash, Buckets, SessionTimeouts, LogMax,  \* session.c
          Txids, DnsMax, DnsTtl, MaxQueries,                \* dnstrack.c
          Ttls, TtlMax, Threshold, MaxSeen,                 \* ttltrack.c
          Ports, Names, PortMax, Defaults,                  \* portmap.c
          Thresholds, Rates, Capacity, MaxEvals             \* alarm.c

VARIABLES part,  \* the one that runs
          now,
          macs, mac_count, mac_call, flows, flow_count, flow_call,
          session_table, session_count, lost, log,
          queries, total_queries, total_responses, expired, swept, answers,
          ttl_entries, anomalies_detected, seen,
          ports, port_call,
          rules, capacity, callback, rates, calls

Mac == INSTANCE MacTrack WITH call <- mac_call, Macs <- Keys, NoMac <- NoKey, MaxAges <- Ages
Flow == INSTANCE FlowTrack WITH call <- flow_call, Flows <- Keys, NoFlow <- NoKey
Ses == INSTANCE Session WITH Size <- Buckets, Timeouts <- SessionTimeouts, MaxPkts <- LogMax
Dns == INSTANCE DnsTrack WITH MaxEntries <- DnsMax, Ttl <- DnsTtl
Ttl == INSTANCE TtlTrack WITH Hosts <- Keys, MaxEntries <- TtlMax
Port == INSTANCE PortMap WITH call <- port_call, MaxEntries <- PortMax
Alm == INSTANCE Alarm

ASSUME TablesAssumption ==
    /\ Mac!MacTrackAssumption /\ Flow!FlowTrackAssumption /\ Ses!SessionAssumption
    /\ Dns!DnsTrackAssumption /\ Ttl!TtlTrackAssumption /\ Port!PortMapAssumption
    /\ Alm!AlarmAssumption

macVars == <<macs, mac_count, mac_call>>
flowVars == <<flows, flow_count, flow_call>>
sessionVars == <<session_table, session_count, lost, log>>
dnsVars == <<queries, total_queries, total_responses, expired, swept, answers>>
ttlVars == <<ttl_entries, anomalies_detected, seen>>
portVars == <<ports, port_call>>
alarmVars == <<rules, capacity, callback, rates, calls>>
vars == <<part, now, macVars, flowVars, sessionVars, dnsVars, ttlVars, portVars, alarmVars>>

Init == /\ part \in Parts
        /\ Mac!Init /\ Flow!Init /\ Ses!Init /\ Dns!Init /\ Ttl!Init /\ Port!Init /\ Alm!Init

\* A table that does not run stays as it is; so does the clock, without a
\* table that reads it.
Only(t) == /\ part = t /\ UNCHANGED part
           /\ t # "mac" => UNCHANGED macVars
           /\ t # "flow" => UNCHANGED flowVars
           /\ t # "session" => UNCHANGED sessionVars
           /\ t # "dns" => UNCHANGED dnsVars
           /\ t # "ttl" => UNCHANGED ttlVars
           /\ t # "port" => UNCHANGED portVars
           /\ t # "alarm" => UNCHANGED alarmVars
           /\ t \in {"ttl", "port", "alarm"} => UNCHANGED now

Next == \/ Only("mac") /\ Mac!Next
        \/ Only("flow") /\ Flow!Next
        \/ Only("session") /\ Ses!Next
        \/ Only("dns") /\ Dns!Next
        \/ Only("ttl") /\ Ttl!Next
        \/ Only("port") /\ Port!Next
        \/ Only("alarm") /\ Alm!Next

Spec == Init /\ [][Next]_vars

-----------------------------------------------------------------------------
\* Every table has its type and keeps to its size.
TypeOK == /\ Mac!TypeOK /\ Flow!TypeOK /\ Ses!TypeOK /\ Dns!TypeOK
          /\ Ttl!TypeOK /\ Port!TypeOK /\ Alm!TypeOK

\* The tables of mactrack.c and flowtrack.c implement one map from keys to
\* packet counts; portmap.c implements a map from ports to names.
TablesAreMaps == Mac!IsTracker /\ Flow!IsTracker /\ Port!IsMap

\* session.c: a slot is its latest conversation's; the count drifts by what
\* was overwritten.
SessionsAccounted == Ses!SessionsAccounted

\* dnstrack.c: queries and responses add up, and no sweep misses an old one.
QueriesAccounted == Dns!QueriesAccounted

\* ttltrack.c and alarm.c count rising edges.
EdgesCounted == Ttl!OnsetsCounted /\ Alm!CrossingsCounted
=============================================================================
