------------------------------ MODULE MCTables ------------------------------
(***************************************************************************)
(* Three keys for two slots.  Of the sessions, conversation a-b hashes     *)
(* apart by direction, as session_hash, which is not symmetric, lets it    *)
(* (session.c:19); c, its own reverse, meets b.                      *)
(***************************************************************************)
EXTENDS Tables, TLC

CONSTANTS a, b, c

MCKeys == {a, b, c}
MCSwapped == a :> b @@ b :> a @@ c :> c
MCHash == a :> 0 @@ b :> 1 @@ c :> 1

MCTxids == {a, b}
MCPorts == {a, b, c, NoKey}
MCDefaults == <<[port |-> a, name |-> 1], [port |-> b, name |-> 1]>>
MCRates == 0 .. 2
=============================================================================
