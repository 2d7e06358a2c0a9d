------------------------------ MODULE PortMap ------------------------------
(***************************************************************************)
(* src/portmap.c: names of ports in an unordered array.  A full table      *)
(* refuses to rename a port too.  Calls that fail are left out.            *)
(***************************************************************************)
EXTENDS Integers, FiniteSets, SwapArray

CONSTANTS Ports,      \* port and protocol
          Names,
          Defaults,   \* the built-in table
          MaxEntries  \* PORTMAP_MAX_ENTRIES

\* What the constants are: the built-in table fits and has a port once.
PortMapAssumption ==
    /\ Defaults \in Seq([port : Ports, name : Names]) /\ Len(Defaults) <= MaxEntries
    /\ \A i, j \in DOMAIN Defaults : Defaults[i].port = Defaults[j].port => i = j
    /\ MaxEntries \in Nat

VARIABLES ports,  \* entries, count of them
          call    \* history: the latest call

portVars == <<ports, call>>

Init == ports = Defaults /\ call = <<"init">>

Of(p) == {i \in DOMAIN ports : ports[i].port = p}

\* Mutant of Room: one entry too many.
RoomLate == Len(ports) <= MaxEntries

Room == Len(ports) < MaxEntries

Register(p, n) ==
    /\ Room /\ call' = <<"register", p, n>>
    /\ \/ /\ Of(p) # {}
          /\ ports' = [ports EXCEPT ![Min(Of(p))].name = n]
       \/ /\ Of(p) = {}
          /\ ports' = Append(ports, [port |-> p, name |-> n])

\* portmap_remove, of the first entry of the port.
RemovePort(p) == /\ Of(p) # {} /\ call' = <<"remove", p>>
                 /\ ports' = SwapOut(ports, Min(Of(p)))

Clear == ports' = <<>> /\ call' = <<"clear">>

\* portmap_init
Restart == ports' = Defaults /\ call' = <<"init">>

Next == \/ \E p \in Ports, n \in Names : Register(p, n)
        \/ \E p \in Ports : RemovePort(p)
        \/ Clear
        \/ Restart

Spec == Init /\ [][Next]_portVars

-----------------------------------------------------------------------------
\* The table's type: it keeps to its size.
TypeOK == ports \in Seq([port : Ports, name : Names]) /\ Len(ports) <= MaxEntries

\* portmap_lookup for every port that has an entry.
Lookup == [p \in {ports[i].port : i \in DOMAIN ports} |-> ports[Min(Of(p))].name]

Map == INSTANCE PortNames WITH
           Capacity <- MaxEntries, names <- Lookup,
           Defaults <- [p \in {Defaults[i].port : i \in DOMAIN Defaults} |->
                           (CHOOSE e \in ToSet(Defaults) : e.port = p).name]

\* Registering, renaming and removing with the last entry moved into the hole
\* (portmap.c:38-82) are a map: a lookup gives the latest name registered for a
\* port not removed since, and a removed port has no name left.
IsMap == Map!Spec
=============================================================================
