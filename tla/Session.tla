------------------------------ MODULE Session ------------------------------
(***************************************************************************)
(* src/session.c: sessions in a direct-mapped table.  A key's hash is its  *)
(* only slot; session_create takes it from whoever is there.  A lookup     *)
(* accepts both directions of a conversation, and looks in the slot of     *)
(* the direction it is asked for.  The caller modelled is the one of the   *)
(* tests: look up, create if there is none, update.  Bytes are left out.   *)
(***************************************************************************)
EXTENDS Integers, Sequences, FiniteSets

CONSTANTS Keys, NoKey,
          Swapped,   \* Swapped[k]: the key with source and destination swapped
          Hash,      \* session_hash
          Size,      \* SESSION_TABLE_SIZE
          Timeouts,  \* arguments of session_expire
          MaxTime, MaxPkts  \* bounds on the clock and on the packets of a slot

Slots == 0 .. Size - 1

\* What the constants are; a conversation has two directions, or one that is
\* its own reverse.
SessionAssumption ==
    /\ NoKey \notin Keys /\ Size \in Nat \ {0}
    /\ Swapped \in [Keys -> Keys] /\ \A k \in Keys : Swapped[Swapped[k]] = k
    /\ Hash \in [Keys -> Slots] /\ Timeouts \subseteq Nat
    /\ MaxTime \in Nat /\ MaxPkts \in Nat

VARIABLES session_table, session_count,
          now,        \* time(NULL)
          lost,       \* history: sessions overwritten while active
          log         \* history: the keys of the packets that hashed to a
                      \* slot since it was last cleared

sessionVars == <<session_table, session_count, now, lost, log>>

Zeroed == [key |-> NoKey, pkt_count |-> 0, last_seen |-> 0, active |-> FALSE]

Init == /\ session_table = [s \in Slots |-> Zeroed]
        /\ session_count = 0 /\ now = 0
        /\ lost = 0 /\ log = [s \in Slots |-> <<>>]

Active == {s \in Slots : session_table[s].active}
Conversation(k) == {k, Swapped[k]}

\* Mutant of Found: the entry's addresses are not compared.
FoundAny(k) == Hash[k] \in Active

\* session_lookup: is there an entry for k, or its reverse, at k's hash?
Found(k) == Hash[k] \in Active /\ session_table[Hash[k]].key \in Conversation(k)

\* session_create, of the entry that is updated next.
Created(k) == [Zeroed EXCEPT !.key = k, !.active = TRUE]

\* session_update
Updated(e) == [e EXCEPT !.pkt_count = @ + 1, !.last_seen = now]

Packet(k) ==
    /\ Len(log[Hash[k]]) < MaxPkts
    /\ log' = [log EXCEPT ![Hash[k]] = Append(@, k)]
    /\ \/ /\ Found(k)
          /\ session_table' = [session_table EXCEPT ![Hash[k]] = Updated(@)]
          /\ UNCHANGED <<session_count, lost>>
       \/ /\ ~Found(k)
          /\ session_table' = [session_table EXCEPT ![Hash[k]] = Updated(Created(k))]
          /\ session_count' = session_count + 1
          /\ lost' = IF Hash[k] \in Active THEN lost + 1 ELSE lost
    /\ UNCHANGED now

Stale(timeout) == {s \in Active : now - session_table[s].last_seen > timeout}

Expire(timeout) ==
    /\ session_table' = [s \in Slots |-> IF s \in Stale(timeout) THEN Zeroed
                                         ELSE session_table[s]]
    /\ session_count' = session_count - Cardinality(Stale(timeout))
    /\ log' = [s \in Slots |-> IF s \in Stale(timeout) THEN <<>> ELSE log[s]]
    /\ UNCHANGED <<now, lost>>

\* session_init
Restart == /\ session_table' = [s \in Slots |-> Zeroed]
           /\ session_count' = 0 /\ lost' = 0
           /\ log' = [s \in Slots |-> <<>>]
           /\ UNCHANGED now

Tick == /\ now < MaxTime /\ now' = now + 1
        /\ UNCHANGED <<session_table, session_count, lost, log>>

Next == \/ \E k \in Keys : Packet(k)
        \/ \E timeout \in Timeouts : Expire(timeout)
        \/ Restart
        \/ Tick

Spec == Init /\ [][Next]_sessionVars

-----------------------------------------------------------------------------
\* Every variable has its type.
TypeOK == /\ session_table \in [Slots -> [key : Keys \cup {NoKey}, pkt_count : 0 .. MaxPkts,
                                          last_seen : 0 .. now, active : BOOLEAN]]
          /\ session_count \in Nat /\ lost \in Nat

\* The packets at the end of log l that are of one conversation.
LastRun(l) == {i \in DOMAIN l : \A j \in i .. Len(l) :
                   Conversation(l[j]) = Conversation(l[Len(l)])}

\* A slot holds the conversation its latest packet belongs to, with the
\* packets that came since another one had the slot, from either direction
\* that hashes to it (session.c:27-60); and session_count, printed as "Active
\* sessions" (session.c:85), is too high by the sessions overwritten, which no
\* sweep ever corrects.
SessionsAccounted ==
    /\ \A s \in Slots :
          /\ s \in Active <=> log[s] # <<>>
          /\ s \in Active =>
                /\ session_table[s].key \in Conversation(log[s][Len(log[s])])
                /\ session_table[s].pkt_count = Cardinality(LastRun(log[s]))
    /\ session_count = Cardinality(Active) + lost
=============================================================================
