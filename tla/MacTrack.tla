------------------------------ MODULE MacTrack ------------------------------
(***************************************************************************)
(* src/mactrack.c: hosts by hardware address, in a fixed table of slots.   *)
(* The last IP address and the bytes go with the packets and are left out, *)
(* and so is an update that a full table refuses.                          *)
(***************************************************************************)
EXTENDS Integers, FiniteSets, FiniteSetsExt

CONSTANTS Macs, NoMac,
          Size,      \* MACTRACK_MAX_ENTRIES
          MaxAges,   \* arguments of mactrack_expire
          MaxTime, MaxPkts  \* bounds on the clock and on an entry's packets

\* What the constants are.
MacTrackAssumption ==
    /\ NoMac \notin Macs /\ Size \in Nat \ {0} /\ MaxAges \subseteq Nat
    /\ MaxTime \in Nat /\ MaxPkts \in Nat \ {0}

VARIABLES macs, mac_count,  \* mactrack_table_t
          now,              \* time(NULL)
          call              \* history: the latest call

macVars == <<macs, mac_count, now, call>>

Slots == 1 .. Size
Zeroed == [mac |-> NoMac, pkt_count |-> 0, last_seen |-> 0, active |-> FALSE]

Init == macs = [s \in Slots |-> Zeroed] /\ mac_count = 0 /\ now = 0 /\ call = <<"init">>

Active == {s \in Slots : macs[s].active}
Free == Slots \ Active

\* Mutant of Of: only the slots before the first free one are searched.
OfFirstRun(mac) == {s \in Active : macs[s].mac = mac /\ \A f \in Free : s < f}

Of(mac) == {s \in Active : macs[s].mac = mac}

Update(mac) ==
    \/ /\ Of(mac) # {} /\ macs[Min(Of(mac))].pkt_count < MaxPkts
       /\ macs' = [macs EXCEPT ![Min(Of(mac))].pkt_count = @ + 1,
                               ![Min(Of(mac))].last_seen = now]
       /\ call' = <<"see", mac>>
       /\ UNCHANGED <<mac_count, now>>
    \/ /\ Of(mac) = {} /\ Free # {}
       /\ macs' = [macs EXCEPT ![Min(Free)] =
                       [mac |-> mac, pkt_count |-> 1, last_seen |-> now, active |-> TRUE]]
       /\ mac_count' = mac_count + 1
       /\ call' = <<"see", mac>>
       /\ UNCHANGED now

Stale(max_age) == {s \in Active : now - macs[s].last_seen > max_age}

Expire(max_age) ==
    /\ macs' = [s \in Slots |-> IF s \in Stale(max_age) THEN Zeroed ELSE macs[s]]
    /\ mac_count' = mac_count - Cardinality(Stale(max_age))
    /\ call' = <<"expire", max_age + 1>>
    /\ UNCHANGED now

Reset == /\ macs' = [s \in Slots |-> Zeroed] /\ mac_count' = 0 /\ call' = <<"init">>
         /\ UNCHANGED now

Tick == now < MaxTime /\ now' = now + 1 /\ UNCHANGED <<macs, mac_count, call>>

Next == \/ \E mac \in Macs : Update(mac)
        \/ \E max_age \in MaxAges : Expire(max_age)
        \/ Reset
        \/ Tick

Spec == Init /\ [][Next]_macVars

-----------------------------------------------------------------------------
\* Every variable has its type.
TypeOK == /\ macs \in [Slots -> [mac : Macs \cup {NoMac}, pkt_count : 0 .. MaxPkts,
                                 last_seen : 0 .. now, active : BOOLEAN]]
          /\ mac_count \in 0 .. Size

Known == [mac \in {macs[s].mac : s \in Active} |->
             LET s == Min({s \in Active : macs[s].mac = mac})
             IN  [pkts |-> macs[s].pkt_count, last |-> macs[s].last_seen]]

Map == INSTANCE Tracker WITH Keys <- Macs, Capacity <- Size, Ages <- {a + 1 : a \in MaxAges},
                             known <- Known, size <- mac_count

\* Slots freed, reused and searched in order (mactrack.c:22-47, 65-71) are one
\* map from addresses to hosts: an address has one entry, none is lost or
\* swept too early or kept too long, and count is the size of the map.
IsTracker == Map!Spec
=============================================================================
