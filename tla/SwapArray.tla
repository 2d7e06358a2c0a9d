----------------------------- MODULE SwapArray -----------------------------
(***************************************************************************)
(* The unordered array several tables of pktsnare keep: an entry is freed  *)
(* by moving the last one into its place (ipdefrag.c:40-41,                *)
(* fragtrack.c:77, dnstrack.c).  Arrays are sequences, entry i in the code *)
(* is entry i + 1 here.                                                    *)
(***************************************************************************)
EXTENDS Integers, Sequences, SequencesExt

\* Free entry i.
SwapOut(es, i) == Front(ReplaceAt(es, i, Last(es)))

\* Mutant of Sweep: the index moves on after a removal too, past the entry
\* that was moved into the hole.
SweepSkips(es, stale) ==
    LET visit(acc, e) ==
            IF acc.i > Len(acc.es) THEN acc
            ELSE IF acc.es[acc.i] \in stale
            THEN [es |-> SwapOut(acc.es, acc.i), i |-> acc.i + 1]
            ELSE [acc EXCEPT !.i = @ + 1]
    IN  FoldLeft(visit, [es |-> es, i |-> 1], es).es

\* The loop that frees every entry in the set stale.  It stays on an index after a
\* removal, so each of its Len(es) visits brings the index one closer to the
\* end: after[n] is the array and the index after n visits.
Sweep(es, stale) ==
    LET visit(acc) == IF acc.es[acc.i] \in stale
                      THEN [es |-> SwapOut(acc.es, acc.i), i |-> acc.i]
                      ELSE [es |-> acc.es, i |-> acc.i + 1]
        after[n \in 0 .. Len(es)] == IF n = 0 THEN [es |-> es, i |-> 1]
                                    ELSE visit(after[n - 1])
    IN  after[Len(es)].es
=============================================================================
