------------------------- MODULE Reassembly_proofs -------------------------
(***************************************************************************)
(* Proofs about Reassembly: tables of any size, any datagrams and streams, *)
(* any fragments in any order.                                             *)
(***************************************************************************)
EXTENDS Reassembly, TableLemmas

-----------------------------------------------------------------------------
\* ipdefrag.c, with the names it takes from the library.
LEMMA DefragOps ==
    /\ \A es, i : Defrag!SwapOut(es, i) = SwapOut(es, i)
    /\ \A S : Defrag!Min(S) = Min(S)
    /\ \A f, S : Defrag!SumFunctionOnSet(f, S) = SumFunctionOnSet(f, S)
<1>1. \A es, i : Defrag!SwapOut(es, i) = SwapOut(es, i)
  BY DEF Defrag!SwapOut, SwapOut, Defrag!Front, Front, Defrag!ReplaceAt, ReplaceAt,
         Defrag!Last, Last
<1>2. \A S : Defrag!Min(S) = Min(S)
  BY DEF Defrag!Min, Min
<1>3. \A f, S : Defrag!SumFunctionOnSet(f, S) = SumFunctionOnSet(f, S)
  BY Zenon DEF Defrag!SumFunctionOnSet, SumFunctionOnSet, Defrag!FoldFunctionOnSet,
               FoldFunctionOnSet, Defrag!MapThenFoldSet, MapThenFoldSet
<1>4. QED BY <1>1, <1>2, <1>3

Datagram == [key : Keys, block : Defrag!Blocks \cup {Defrag!NoBlock}, buf : 0 .. Defrag!Uint16Max,
             received : Nat, total : 0 .. Defrag!Uint16Max, last : BOOLEAN]

\* What a block may hold for the datagram k.
PiecesOf(k) == {<<k, f>> : f \in Carried[k]}

\* An entry fits what the blocks hold, and out, what was copied behind one.
Fits(e, cont, out) ==
    /\ e.block = Defrag!NoBlock => e.buf = 0
    /\ e.block # Defrag!NoBlock => cont[e.block] \in SUBSET PiecesOf(e.key)
    /\ e.last => e.total <= e.buf
    /\ e.last /\ out = {} => e.block # Defrag!NoBlock /\ e.total = Defrag!LengthOf(Carried[e.key])

\* The table tab, the blocks blk, what they hold, and out, what was copied behind
\* one, fit: a datagram has one entry, a block one owner, whose fragments it holds,
\* and nothing while free; an entry without a block has no bytes; unless something
\* was copied behind a block, a total is the datagram's length.
Fit(tab, blk, cont, out) ==
    /\ tab \in Seq(Datagram) /\ Len(tab) <= CarriedMax
    /\ blk \in SUBSET Defrag!Blocks
    /\ cont \in [Defrag!Blocks -> SUBSET (Keys \X Defrag!Fragment)]
    /\ blk = {tab[i].block : i \in DOMAIN tab} \ {Defrag!NoBlock}
    /\ \A b \in Defrag!Blocks \ blk : cont[b] = {}
    /\ \A i, j \in DOMAIN tab : tab[i].block = tab[j].block /\ i # j => tab[i].block = Defrag!NoBlock
    /\ \A i, j \in DOMAIN tab : tab[i].key = tab[j].key => i = j
    /\ \A i \in DOMAIN tab : Fits(tab[i], cont, out)
    /\ \A f \in out : f.offset + f.len > Defrag!Uint16Max

LEMMA FitAppend ==
    ASSUME NEW tab, NEW blk, NEW cont, NEW out, Fit(tab, blk, cont, out), NEW k \in Keys,
           Defrag!Of(k, tab) = {}, Defrag!Room(tab)
    PROVE  /\ Fit(Append(tab, Defrag!Empty(k)), blk, cont, out)
           /\ Len(tab) + 1 \in Defrag!Of(k, Append(tab, Defrag!Empty(k)))
           /\ ~ Defrag!Complete(Defrag!Empty(k))
<1>1. PICK e : e = Defrag!Empty(k)
  OBVIOUS
<1>2. /\ e \in Datagram /\ e.key = k /\ e.block = Defrag!NoBlock /\ e.buf = 0 /\ e.last = FALSE
  <2>1. 0 \in 0 .. Defrag!Uint16Max /\ 0 \in Nat
    BY DEF Defrag!Uint16Max
  <2>2. QED BY <1>1, <2>1 DEF Defrag!Empty, Datagram
<1>3. PICK n \in Nat : n = Len(tab) /\ DOMAIN tab = 1 .. n /\ n < CarriedMax
  BY DEF Fit, Defrag!Room
<1>4. PICK t : t = Append(tab, e)
  OBVIOUS
<1>5. /\ t \in Seq(Datagram) /\ Len(t) = n + 1 /\ DOMAIN t = 1 .. n + 1
      /\ \A i \in 1 .. n : t[i] = tab[i]
      /\ t[n + 1] = e
  BY <1>2, <1>3, <1>4 DEF Fit
<1>6. \A i \in 1 .. n : tab[i].key # k
  BY <1>3 DEF Defrag!Of
<1>7. Len(t) <= CarriedMax
  BY <1>3, <1>5, ReassemblyAssumption DEF Defrag!IpDefragAssumption
<1>8. \A i \in 1 .. n + 1 : i \in 1 .. n \/ i = n + 1
  OBVIOUS
<1>9. \A i, j \in DOMAIN t : t[i].key = t[j].key => i = j
  BY <1>2, <1>3, <1>5, <1>6, <1>8 DEF Fit
<1>10. {t[i].block : i \in DOMAIN t} \ {Defrag!NoBlock} = {tab[i].block : i \in DOMAIN tab} \ {Defrag!NoBlock}
  BY <1>2, <1>3, <1>5, <1>8
<1>11. \A i, j \in DOMAIN t : t[i].block = t[j].block /\ i # j => t[i].block = Defrag!NoBlock
  BY <1>2, <1>3, <1>5, <1>8 DEF Fit
<1>12. \A i \in DOMAIN t : Fits(t[i], cont, out)
  <2>1. Fits(e, cont, out)
    BY <1>2 DEF Fits
  <2>2. QED BY <1>3, <1>5, <1>8, <2>1 DEF Fit
<1>13. Fit(t, blk, cont, out)
  BY <1>5, <1>7, <1>9, <1>10, <1>11, <1>12 DEF Fit
<1>14. n + 1 \in Defrag!Of(k, t)
  BY <1>2, <1>5 DEF Defrag!Of
<1>15. ~ Defrag!Complete(e)
  BY <1>2 DEF Defrag!Complete
<1>16. QED BY <1>1, <1>3, <1>4, <1>13, <1>14, <1>15

\* A uint16_t holds the end of a fragment that is not beyond it.
LEMMA EndIs ==
    ASSUME NEW k \in Keys, NEW f \in Carried[k]
    PROVE  /\ f.offset \in Nat /\ f.len \in Nat /\ f.len > 0 /\ f.more \in BOOLEAN
           /\ Defrag!End(f) \in 0 .. Defrag!Uint16Max
           /\ f.offset + f.len <= Defrag!Uint16Max => Defrag!End(f) = f.offset + f.len
<1>1. /\ f.offset \in 0 .. Defrag!Uint16Max /\ f.len \in 1 .. Defrag!Uint16Max /\ f.more \in BOOLEAN
  BY ReassemblyAssumption DEF Defrag!IpDefragAssumption, Defrag!Fragment
<1>2. PICK m \in Nat : m = Defrag!Uint16Max
  BY DEF Defrag!Uint16Max
<1>3. f.offset \in Nat /\ f.len \in Nat /\ f.len > 0
  BY <1>1, <1>2
<1>4. PICK n \in Nat : n = f.offset + f.len
  BY <1>3
<1>5. n % (m + 1) \in 0 .. m /\ (n <= m => n % (m + 1) = n)
  BY <1>2, <1>4
<1>6. Defrag!End(f) = n % (m + 1)
  BY <1>2, <1>4 DEF Defrag!End
<1>7. QED BY <1>1, <1>2, <1>3, <1>4, <1>5, <1>6

\* The entry e after fragment f went into its block, or its first one.
LEMMA RecordIs ==
    ASSUME NEW e \in Datagram, NEW k \in Keys, NEW f \in Carried[k],
           NEW b \in Defrag!Blocks \cup {Defrag!NoBlock}
    PROVE  \A r : r = Defrag!Record(e, f, b) =>
           /\ r \in Datagram /\ r.key = e.key /\ r.block = b
           /\ Defrag!End(f) <= r.buf /\ e.buf <= r.buf
           /\ ~ Defrag!Grows(e, f) => r.buf = e.buf
           /\ r.last => \/ ~f.more /\ r.total = Defrag!End(f) /\ r.total <= r.buf
                        \/ e.last /\ r.total = e.total
<1>0. Defrag!Uint16Max \in Nat
  BY DEF Defrag!Uint16Max
<1>1. f.len \in Nat /\ f.more \in BOOLEAN
  BY EndIs
<1>2. PICK end \in 0 .. Defrag!Uint16Max : end = Defrag!End(f)
  BY EndIs
<1>3. PICK top \in 0 .. Defrag!Uint16Max : top = IF end > e.buf THEN end ELSE e.buf
  BY DEF Datagram
<1>4. end <= top /\ e.buf <= top
  BY <1>0, <1>3 DEF Datagram
<1>5. PICK r : r = [e EXCEPT !.block = b, !.buf = top, !.received = e.received + f.len]
  OBVIOUS
<1>6. /\ r \in Datagram /\ r.key = e.key /\ r.block = b /\ r.buf = top
      /\ r.last = e.last /\ r.total = e.total
  <2>1. e.received + f.len \in Nat
    BY <1>0, <1>1 DEF Datagram
  <2>2. QED BY <1>5, <2>1 DEF Datagram
<1>7. Defrag!Record(e, f, b) = IF f.more THEN r ELSE [r EXCEPT !.total = end, !.last = TRUE]
  BY <1>2, <1>3, <1>5 DEF Defrag!Record, Datagram, Defrag!Grows
<1>8. ~ Defrag!Grows(e, f) => top = e.buf
  BY <1>2, <1>3 DEF Defrag!Grows
<1>9. CASE f.more
  BY <1>2, <1>4, <1>6, <1>7, <1>8, <1>9
<1>10. CASE ~f.more
  <2>1. PICK q : q = [r EXCEPT !.total = end, !.last = TRUE]
    OBVIOUS
  <2>2. /\ q \in Datagram /\ q.key = e.key /\ q.block = b /\ q.buf = top
        /\ q.last = TRUE /\ q.total = end
    BY <1>6, <2>1 DEF Datagram
  <2>3. QED BY <1>2, <1>4, <1>7, <1>8, <1>10, <2>1, <2>2
<1>11. QED BY <1>9, <1>10

\* The block fragment f is copied to, when blk are held.
TargetOf(e, f, blk) == IF Defrag!Grows(e, f) /\ e.block = Defrag!NoBlock
                       THEN Defrag!Blocks \ blk ELSE {e.block}

\* What block b holds after it.
Copied(cont, b, w) == [a \in Defrag!Blocks |-> IF a = b THEN cont[a] \cup {w} ELSE cont[a]]

\* Fragment f goes from an entry that fits into block b, which then holds what c says.
Lands(e, f, b, cont, out, c) ==
    /\ Fits(e, cont, out)
    /\ e.block # Defrag!NoBlock => b = e.block
    /\ Defrag!Grows(e, f) => b # Defrag!NoBlock
    /\ b # Defrag!NoBlock => c[b] \in SUBSET PiecesOf(e.key)

\* The entry fits after the copy, whether or not it went behind the block.
LEMMA FitsAfter ==
    ASSUME NEW e \in Datagram, NEW f \in Carried[e.key],
           NEW b \in Defrag!Blocks \cup {Defrag!NoBlock},
           NEW cont, NEW out, NEW c, Lands(e, f, b, cont, out, c)
    PROVE  \A r, q : r = Defrag!Record(e, f, b) /\ q = out \cup Defrag!Behind(r, f) =>
               /\ Fits(r, c, q)
               /\ \A g \in Defrag!Behind(r, f) : g.offset + g.len > Defrag!Uint16Max
<1> SUFFICES ASSUME NEW r, r = Defrag!Record(e, f, b), NEW q, q = out \cup Defrag!Behind(r, f)
             PROVE  /\ Fits(r, c, q)
                    /\ \A g \in Defrag!Behind(r, f) : g.offset + g.len > Defrag!Uint16Max
  OBVIOUS
<1> DEFINE k == e.key
<1>k. k \in Keys /\ f \in Carried[k]
  BY DEF Datagram
<1> HIDE DEF k
<1>0. Defrag!Uint16Max \in Nat
  BY DEF Defrag!Uint16Max
<1>1. /\ r \in Datagram /\ r.key = k /\ r.block = b
      /\ Defrag!End(f) <= r.buf /\ e.buf <= r.buf
      /\ ~ Defrag!Grows(e, f) => r.buf = e.buf
      /\ r.last => \/ ~f.more /\ r.total = Defrag!End(f) /\ r.total <= r.buf
                   \/ e.last /\ r.total = e.total
  BY <1>k, RecordIs DEF k
<1>2. /\ Defrag!End(f) \in 0 .. Defrag!Uint16Max /\ f.offset + f.len \in Nat
      /\ f.offset + f.len > 0
      /\ f.offset + f.len <= Defrag!Uint16Max => Defrag!End(f) = f.offset + f.len
  BY <1>k, EndIs
<1>3. e.buf \in Nat /\ r.buf \in 0 .. Defrag!Uint16Max /\ e.total \in Nat
  BY <1>1 DEF Datagram
<1>4. r.block = Defrag!NoBlock => r.buf = 0
  <2>1. b = Defrag!NoBlock => ~ Defrag!Grows(e, f) /\ e.block = Defrag!NoBlock
    BY DEF Lands
  <2>2. QED BY <1>1, <2>1 DEF Lands, Fits
<1>5. r.block # Defrag!NoBlock => c[r.block] \in SUBSET PiecesOf(r.key)
  BY <1>1 DEF Lands, k
<1>6. r.last => r.total <= r.buf
  <2>1. e.last => e.total <= e.buf
    BY DEF Lands, Fits
  <2>2. QED BY <1>1, <1>3, <2>1
<1>7. ASSUME q = {}
      PROVE  f.offset + f.len <= r.buf /\ Defrag!End(f) = f.offset + f.len /\ out = {}
  <2>1. Defrag!Behind(r, f) = {} /\ out = {}
    BY <1>7
  <2>2. ~ (f.offset + f.len > r.buf)
    BY <2>1 DEF Defrag!Behind
  <2>3. QED BY <1>0, <1>2, <1>3, <2>1, <2>2
<1>8. ASSUME r.last, q = {}
      PROVE  r.block # Defrag!NoBlock /\ r.total = Defrag!LengthOf(Carried[r.key])
  <2>1. r.block # Defrag!NoBlock
    BY <1>2, <1>3, <1>4, <1>7, <1>8
  <2>2. CASE ~f.more /\ r.total = Defrag!End(f)
    <3>1. f.offset + f.len = Defrag!LengthOf(Carried[k])
      BY <1>k, <2>2, ReassemblyAssumption DEF Defrag!IpDefragAssumption
    <3>2. QED BY <1>1, <1>7, <1>8, <2>1, <2>2, <3>1
  <2>3. CASE e.last /\ r.total = e.total
    BY <1>1, <1>7, <1>8, <2>1, <2>3 DEF Lands, Fits, k
  <2>4. QED BY <1>1, <1>8, <2>2, <2>3
<1>9. \A g \in Defrag!Behind(r, f) : g.offset + g.len > Defrag!Uint16Max
  <2> SUFFICES ASSUME f.offset + f.len > r.buf PROVE f.offset + f.len > Defrag!Uint16Max
    BY DEF Defrag!Behind
  <2>1. QED BY <1>0, <1>1, <1>2, <1>3
<1>10. QED BY <1>4, <1>5, <1>6, <1>8, <1>9 DEF Fits

\* Fragment f of k goes into the block of its entry, or into a free one.
LEMMA FitCopy ==
    ASSUME NEW tab, NEW blk, NEW cont, NEW out, Fit(tab, blk, cont, out),
           NEW k \in Keys, NEW f \in Carried[k],
           NEW i \in DOMAIN tab, tab[i].key = k, NEW b \in TargetOf(tab[i], f, blk)
    PROVE  Fit([tab EXCEPT ![i] = Defrag!Record(@, f, b)], blk \cup ({b} \ {Defrag!NoBlock}),
               Copied(cont, b, <<k, f>>), out \cup Defrag!Behind(Defrag!Record(tab[i], f, b), f))
<1>1. /\ Len(tab) \in Nat /\ DOMAIN tab = 1 .. Len(tab) /\ tab[i] \in Datagram
      /\ Defrag!NoBlock \notin Defrag!Blocks /\ b \in Defrag!Blocks \cup {Defrag!NoBlock}
      /\ tab[i].block # Defrag!NoBlock => b = tab[i].block
      /\ Defrag!Grows(tab[i], f) => b # Defrag!NoBlock
      /\ tab[i].block = Defrag!NoBlock => b \notin blk
  <2>1. tab[i] \in Datagram /\ Len(tab) \in Nat /\ DOMAIN tab = 1 .. Len(tab)
    BY DEF Fit
  <2>2. Defrag!NoBlock \notin Defrag!Blocks
    BY DEF Defrag!NoBlock, Defrag!Blocks
  <2>3. tab[i].block \in Defrag!Blocks \cup {Defrag!NoBlock}
    BY <2>1 DEF Datagram
  <2>4. blk \in SUBSET Defrag!Blocks
    BY DEF Fit
  <2>5. b = tab[i].block \/ /\ Defrag!Grows(tab[i], f) /\ tab[i].block = Defrag!NoBlock
                            /\ b \in Defrag!Blocks \ blk
    BY DEF TargetOf
  <2>6. Defrag!Grows(tab[i], f) => b # Defrag!NoBlock
    BY <2>2 DEF TargetOf
  <2>7. QED BY <2>1, <2>2, <2>3, <2>4, <2>5, <2>6
<1>2. PICK r, q : /\ r = Defrag!Record(tab[i], f, b)
                  /\ q = out \cup Defrag!Behind(r, f)
  OBVIOUS
<1>3. r \in Datagram /\ r.key = k /\ r.block = b
  BY <1>1, <1>2, RecordIs
<1>4. PICK t : t = [tab EXCEPT ![i] = r]
  OBVIOUS
<1>5. /\ t \in Seq(Datagram) /\ Len(t) = Len(tab) /\ DOMAIN t = DOMAIN tab
      /\ \A j \in DOMAIN tab : t[j] = IF j = i THEN r ELSE tab[j]
  <2>1. tab \in Seq(Datagram)
    BY DEF Fit
  <2>2. QED BY <1>1, <1>3, <1>4, <2>1, ExceptSeq
<1>6. PICK c : c = Copied(cont, b, <<k, f>>)
  OBVIOUS
<1>7. /\ c \in [Defrag!Blocks -> SUBSET (Keys \X Defrag!Fragment)]
      /\ \A a \in Defrag!Blocks : c[a] = IF a = b THEN cont[b] \cup {<<k, f>>} ELSE cont[a]
  <2>1. cont \in [Defrag!Blocks -> SUBSET (Keys \X Defrag!Fragment)]
    BY DEF Fit
  <2>2. <<k, f>> \in Keys \X Defrag!Fragment
    BY ReassemblyAssumption DEF Defrag!IpDefragAssumption
  <2>3. QED BY <1>6, <2>1, <2>2 DEF Copied
<1>8. \A j \in DOMAIN tab : j # i => tab[j].block # b \/ tab[j].block = Defrag!NoBlock
  <2>1. CASE tab[i].block = Defrag!NoBlock
    <3>1. \A j \in DOMAIN tab : tab[j].block \in blk \/ tab[j].block = Defrag!NoBlock
      BY DEF Fit
    <3>2. QED BY <1>1, <2>1, <3>1
  <2>2. CASE tab[i].block # Defrag!NoBlock
    BY <1>1, <2>2 DEF Fit
  <2>3. QED BY <2>1, <2>2
<1>9. PICK h : h = blk \cup ({b} \ {Defrag!NoBlock})
  OBVIOUS
<1>10. h = {t[j].block : j \in DOMAIN t} \ {Defrag!NoBlock} /\ h \in SUBSET Defrag!Blocks
  <2>1. blk = {tab[j].block : j \in DOMAIN tab} \ {Defrag!NoBlock} /\ blk \in SUBSET Defrag!Blocks
    BY DEF Fit
  <2>2. \A a \in h : a # Defrag!NoBlock /\ \E j \in DOMAIN t : t[j].block = a
    BY <1>1, <1>3, <1>5, <1>9, <2>1
  <2>3. \A j \in DOMAIN t : t[j].block = Defrag!NoBlock \/ t[j].block \in h
    BY <1>3, <1>5, <1>9, <2>1
  <2>4. h \in SUBSET Defrag!Blocks
    BY <1>1, <1>9, <2>1
  <2>5. QED BY <2>2, <2>3, <2>4
<1>11. \A a \in Defrag!Blocks \ h : c[a] = {}
  BY <1>1, <1>7, <1>9 DEF Fit
<1>12. \A j, m \in DOMAIN t : t[j].block = t[m].block /\ j # m => t[j].block = Defrag!NoBlock
  <2>1. \A j, m \in DOMAIN tab : tab[j].block = tab[m].block /\ j # m => tab[j].block = Defrag!NoBlock
    BY DEF Fit
  <2>2. QED BY <1>1, <1>3, <1>5, <1>8, <2>1
<1>13. \A j, m \in DOMAIN t : t[j].key = t[m].key => j = m
  <2>1. \A j, m \in DOMAIN tab : tab[j].key = tab[m].key => j = m
    BY DEF Fit
  <2>2. QED BY <1>3, <1>5, <2>1
<1>14. Fits(r, c, q) /\ \A g \in Defrag!Behind(r, f) : g.offset + g.len > Defrag!Uint16Max
  <2>1. Fits(tab[i], cont, out)
    BY DEF Fit
  <2>2. ASSUME b # Defrag!NoBlock PROVE c[b] \in SUBSET PiecesOf(k)
    <3>1. cont[b] \in SUBSET PiecesOf(k)
      <4>1. CASE tab[i].block = Defrag!NoBlock
        BY <1>1, <2>2, <4>1 DEF Fit
      <4>2. CASE tab[i].block # Defrag!NoBlock
        BY <1>1, <2>1, <4>2 DEF Fits
      <4>3. QED BY <4>1, <4>2
    <3>2. QED BY <1>1, <1>7, <2>2, <3>1 DEF PiecesOf
  <2>3. Lands(tab[i], f, b, cont, out, c)
    BY <1>1, <2>1, <2>2 DEF Lands
  <2>4. tab[i] \in Datagram /\ f \in Carried[tab[i].key]
    BY <1>1
  <2>5. QED BY <1>1, <1>2, <2>3, <2>4, FitsAfter, Zenon
<1>15. ASSUME NEW j \in DOMAIN t, j # i
       PROVE  Fits(t[j], c, q)
  <2>1. t[j] = tab[j] /\ j \in DOMAIN tab /\ Fits(tab[j], cont, out)
    BY <1>5, <1>15 DEF Fit
  <2>2. tab[j].block # Defrag!NoBlock => tab[j].block # b /\ tab[j].block \in Defrag!Blocks
    BY <1>8, <1>15, <2>1 DEF Fit, Datagram
  <2>3. tab[j].block # Defrag!NoBlock => c[tab[j].block] = cont[tab[j].block]
    BY <1>7, <2>2
  <2>4. q = {} => out = {}
    BY <1>2
  <2>5. QED BY <2>1, <2>3, <2>4 DEF Fits
<1>16. \A j \in DOMAIN t : Fits(t[j], c, q)
  BY <1>5, <1>14, <1>15
<1>17. Len(t) <= CarriedMax /\ \A g \in q : g.offset + g.len > Defrag!Uint16Max
  BY <1>2, <1>5, <1>14 DEF Fit
<1>18. Fit(t, h, c, q)
  BY <1>5, <1>7, <1>10, <1>11, <1>12, <1>13, <1>16, <1>17 DEF Fit
<1>19. QED BY <1>2, <1>4, <1>6, <1>9, <1>18

\* Entry i is freed with its block, if it has one.
LEMMA FitFree ==
    ASSUME NEW tab, NEW blk, NEW cont, NEW out, Fit(tab, blk, cont, out), NEW i \in DOMAIN tab,
           NEW b, b = tab[i].block
    PROVE  Fit(SwapOut(tab, i), blk \ {b},
               [a \in Defrag!Blocks |-> IF a = b THEN {} ELSE cont[a]], out)
<1>0. PICK t : t = SwapOut(tab, i)
  OBVIOUS
<1>1. PICK c : c = [a \in Defrag!Blocks |-> IF a = b THEN {} ELSE cont[a]]
  OBVIOUS
<1>2. /\ tab \in Seq(Datagram) /\ Len(tab) \in Nat /\ Len(tab) <= CarriedMax
      /\ DOMAIN tab = 1 .. Len(tab) /\ blk \in SUBSET Defrag!Blocks
  BY DEF Fit
<1>3. t \in Seq(Datagram) /\ Len(t) = Len(tab) - 1
  BY <1>0, <1>2, SwapOutIs, Zenon
<1>4. PICK m : Moves(m, tab, t, i)
  BY <1>0, <1>2, SwapOutMoves, Zenon
<1>5. /\ \A j \in DOMAIN t : m[j] \in DOMAIN tab /\ m[j] # i /\ t[j] = tab[m[j]]
      /\ \A j, n \in DOMAIN t : m[j] = m[n] => j = n
      /\ \A n \in DOMAIN tab : n # i => \E j \in DOMAIN t : m[j] = n
  BY <1>4 DEF Moves
<1>6. Len(t) <= CarriedMax
  BY <1>2, <1>3, ReassemblyAssumption DEF Defrag!IpDefragAssumption
<1>7. /\ c \in [Defrag!Blocks -> SUBSET (Keys \X Defrag!Fragment)]
      /\ \A a \in Defrag!Blocks : c[a] = IF a = b THEN {} ELSE cont[a]
  BY <1>1 DEF Fit
<1>8. \A n \in DOMAIN tab : n # i /\ tab[n].block # Defrag!NoBlock => tab[n].block # b
  BY DEF Fit
<1>9. blk \ {b} = {t[j].block : j \in DOMAIN t} \ {Defrag!NoBlock}
  <2>1. blk = {tab[n].block : n \in DOMAIN tab} \ {Defrag!NoBlock}
    BY DEF Fit
  <2>2. \A a \in blk \ {b} : \E j \in DOMAIN t : t[j].block = a
    BY <1>5, <2>1
  <2>3. \A j \in DOMAIN t : t[j].block # Defrag!NoBlock => t[j].block # b /\ t[j].block \in blk
    BY <1>5, <1>8, <2>1
  <2>4. QED BY <2>1, <2>2, <2>3
<1>10. \A a \in Defrag!Blocks \ (blk \ {b}) : c[a] = {}
  BY <1>7 DEF Fit
<1>11. \A j, n \in DOMAIN t : t[j].block = t[n].block /\ j # n => t[j].block = Defrag!NoBlock
  <2>1. \A j, n \in DOMAIN tab : tab[j].block = tab[n].block /\ j # n => tab[j].block = Defrag!NoBlock
    BY DEF Fit
  <2>2. QED BY <1>5, <2>1
<1>12. \A j, n \in DOMAIN t : t[j].key = t[n].key => j = n
  <2>1. \A j, n \in DOMAIN tab : tab[j].key = tab[n].key => j = n
    BY DEF Fit
  <2>2. QED BY <1>5, <2>1
<1>13. ASSUME NEW j \in DOMAIN t
       PROVE  Fits(t[j], c, out)
  <2>1. PICK n \in DOMAIN tab : n # i /\ t[j] = tab[n] /\ Fits(tab[n], cont, out)
    BY <1>5 DEF Fit
  <2>2. tab[n].block # Defrag!NoBlock => tab[n].block # b /\ tab[n].block \in Defrag!Blocks
    BY <1>8, <2>1 DEF Fit, Datagram
  <2>3. tab[n].block # Defrag!NoBlock => c[tab[n].block] = cont[tab[n].block]
    BY <1>7, <2>2
  <2>4. QED BY <2>1, <2>3 DEF Fits
<1>14. Fit(t, blk \ {b}, c, out)
  <2>1. blk \ {b} \in SUBSET Defrag!Blocks /\ \A f \in out : f.offset + f.len > Defrag!Uint16Max
    BY <1>2 DEF Fit
  <2>2. QED BY <1>3, <1>6, <1>7, <1>9, <1>10, <1>11, <1>12, <1>13, <2>1 DEF Fit
<1>15. QED BY <1>0, <1>1, <1>14

\* The keys whose last ipdefrag_add returned COMPLETE are those of the complete
\* entries.
ReadyOK(tab, keys) ==
    \A k \in Keys : k \in keys <=> \E i \in DOMAIN tab : tab[i].key = k /\ Defrag!Complete(tab[i])

DefragInv == /\ Fit(frag_table, heap, content, outside)
             /\ ready \in SUBSET Keys /\ ReadyOK(frag_table, ready)
             /\ Defrag!GotWhole

LEMMA DefragInit == Init => DefragInv
<1> SUFFICES ASSUME Init PROVE DefragInv
  OBVIOUS
<1>1. /\ frag_table = <<>> /\ heap = {} /\ content = [b \in Defrag!Blocks |-> {}]
      /\ ready = {} /\ outside = {} /\ got = Defrag!NothingGot
  BY DEF Init, Defrag!Init
<1>2. Fit(<<>>, {}, [b \in Defrag!Blocks |-> {}], {})
  BY ReassemblyAssumption DEF Fit, Defrag!IpDefragAssumption
<1>3. QED BY <1>1, <1>2 DEF DefragInv, ReadyOK, Defrag!GotWhole

\* ipdefrag_add, with an entry that is there or a new one.
LEMMA DefragAdd ==
    ASSUME DefragInv, NEW k \in Keys, NEW f \in Carried[k], Defrag!Add(k, f)
    PROVE  DefragInv'
<1>1. PICK es : es = IF Defrag!Of(k, frag_table) = {}
                     THEN Append(frag_table, Defrag!Empty(k)) ELSE frag_table
  OBVIOUS
<1>2. PICK i : i = Defrag!Min(Defrag!Of(k, es))
  OBVIOUS
<1>3. Fit(es, heap, content, outside) /\ Defrag!Of(k, es) # {} /\ ReadyOK(es, ready)
  <2>1. Fit(frag_table, heap, content, outside) /\ ReadyOK(frag_table, ready)
    BY DEF DefragInv
  <2>2. CASE Defrag!Of(k, frag_table) = {}
    <3>1. Defrag!Room(frag_table) /\ es = Append(frag_table, Defrag!Empty(k))
      BY <1>1, <2>2 DEF Defrag!Add
    <3>2. /\ Fit(es, heap, content, outside) /\ Defrag!Of(k, es) # {}
          /\ ~ Defrag!Complete(Defrag!Empty(k))
      BY <2>1, <2>2, <3>1, FitAppend
    <3>3. frag_table \in Seq(Datagram) /\ es \in Seq(Datagram)
      BY <2>1, <3>2 DEF Fit
    <3>4. /\ \A j \in DOMAIN frag_table : j \in DOMAIN es /\ es[j] = frag_table[j]
          /\ \A j \in DOMAIN es : j \in DOMAIN frag_table \/ es[j] = Defrag!Empty(k)
      BY <3>1, <3>3
    <3>5. \A j \in DOMAIN es : Defrag!Complete(es[j]) => j \in DOMAIN frag_table
      BY <3>2, <3>4, Zenon
    <3>6. QED BY <2>1, <3>2, <3>4, <3>5 DEF ReadyOK
  <2>3. CASE Defrag!Of(k, frag_table) # {}
    BY <1>1, <2>1, <2>3
  <2>4. QED BY <2>2, <2>3
<1>4. i \in DOMAIN es /\ es[i].key = k /\ es[i] \in Datagram
  <2>1. Defrag!Of(k, es) \in SUBSET Nat
    BY <1>3 DEF Fit, Defrag!Of
  <2>2. i \in Defrag!Of(k, es)
    BY <1>2, <1>3, <2>1, MinIsIn, DefragOps
  <2>3. QED BY <1>3, <2>2 DEF Defrag!Of, Fit
<1>5. got' = got
  BY DEF Defrag!Add
<1>6. CASE frag_table' = es /\ UNCHANGED <<heap, content, ready, outside>>
  BY <1>3, <1>5, <1>6 DEF DefragInv, Defrag!GotWhole
<1>7. ASSUME NEW b \in TargetOf(es[i], f, heap),
             frag_table' = [es EXCEPT ![i] = Defrag!Record(@, f, b)],
             heap' = heap \cup ({b} \ {Defrag!NoBlock}),
             content' = Copied(content, b, <<k, f>>),
             outside' = outside \cup Defrag!Behind(frag_table'[i], f),
             ready' = IF Defrag!Complete(frag_table'[i]) THEN ready \cup {k} ELSE ready \ {k}
      PROVE  DefragInv'
  <2>1. frag_table'[i] = Defrag!Record(es[i], f, b) /\ DOMAIN frag_table' = DOMAIN es
    BY <1>4, <1>7
  <2>2. Fit(frag_table', heap', content', outside')
    <3>1. Fit([es EXCEPT ![i] = Defrag!Record(@, f, b)], heap \cup ({b} \ {Defrag!NoBlock}),
              Copied(content, b, <<k, f>>),
              outside \cup Defrag!Behind(Defrag!Record(es[i], f, b), f))
      <4>1. Fit(es, heap, content, outside) /\ i \in DOMAIN es /\ es[i].key = k
        BY <1>3, <1>4
      <4> HIDE <1>3, <1>4, <1>7, <2>1
      <4>2. QED BY <4>1, FitCopy
    <3>2. QED BY <1>7, <2>1, <3>1, Zenon
  <2>3. ready' \in SUBSET Keys
    BY <1>7 DEF DefragInv
  <2>4. frag_table'[i].key = k
    <3>1. es[i].block \in Defrag!Blocks \cup {Defrag!NoBlock}
      BY <1>4 DEF Datagram
    <3>2. b \in Defrag!Blocks \cup {Defrag!NoBlock}
      BY <3>1 DEF TargetOf
    <3>3. QED BY <1>4, <2>1, <3>2, RecordIs
  <2>5. \A j \in DOMAIN es : j # i => frag_table'[j] = es[j]
    BY <1>7
  <2>6. \A j \in DOMAIN es : es[j].key = k => j = i
    BY <1>3, <1>4 DEF Fit
  <2>7. ASSUME NEW n \in Keys
        PROVE  n \in ready' <=> \E j \in DOMAIN frag_table' :
                                   frag_table'[j].key = n /\ Defrag!Complete(frag_table'[j])
    <3>1. CASE n = k
      <4>1. n \in ready' <=> Defrag!Complete(frag_table'[i])
        BY <1>7, <3>1
      <4>2. \A j \in DOMAIN es : frag_table'[j].key = k => j = i
        BY <2>5, <2>6
      <4>3. QED BY <1>4, <2>1, <2>4, <3>1, <4>1, <4>2
    <3>2. CASE n # k
      <4>1. n \in ready' <=> n \in ready
        BY <1>7, <3>2
      <4>2. \A j \in DOMAIN es : es[j].key = n \/ frag_table'[j].key = n
                                    => frag_table'[j] = es[j]
        BY <1>4, <2>4, <2>5, <3>2
      <4>3. QED BY <1>3, <2>1, <4>1, <4>2 DEF ReadyOK
    <3>3. QED BY <3>1, <3>2
  <2>8. (Defrag!GotWhole)'
    <3>1. outside' = {} => outside = {}
      BY <1>7
    <3>2. QED BY <1>5, <3>1 DEF DefragInv, Defrag!GotWhole
  <2>9. QED BY <2>2, <2>3, <2>7, <2>8 DEF DefragInv, ReadyOK
<1>8. \/ frag_table' = es /\ UNCHANGED <<heap, content, ready, outside>>
      \/ \E b \in TargetOf(es[i], f, heap) :
            /\ frag_table' = [es EXCEPT ![i] = Defrag!Record(@, f, b)]
            /\ heap' = heap \cup ({b} \ {Defrag!NoBlock})
            /\ content' = Copied(content, b, <<k, f>>)
            /\ outside' = outside \cup Defrag!Behind(frag_table'[i], f)
            /\ ready' = IF Defrag!Complete(frag_table'[i]) THEN ready \cup {k} ELSE ready \ {k}
  BY <1>1, <1>2, Zenon DEF Defrag!Add, Defrag!Target, TargetOf, Copied
<1>9. QED BY <1>6, <1>7, <1>8

\* The fragments T of the datagram k have as many bytes as their lengths say.
LEMMA BytesAre ==
    ASSUME NEW k, NEW T, IsFiniteSet(T), NEW len, \A f \in T : len[f] \in Nat /\ len[f] = f.len
    PROVE  Defrag!Bytes({<<k, f>> : f \in T}) = SumFunctionOnSet(len, T)
<1>1. PICK F : F = {<<k, f>> : f \in T}
  OBVIOUS
<1>2. PICK m, g : m = [f \in T |-> <<k, f>>] /\ g = [w \in F |-> w[2].len]
  OBVIOUS
<1>3. /\ \A f \in T : len[f] \in Nat /\ g[m[f]] = len[f]
      /\ \A f, h \in T : m[f] = m[h] => f = h
  BY <1>1, <1>2
<1>4. F = {m[f] : f \in T}
  BY <1>1, <1>2
<1>5. SumFunctionOnSet(g, {m[f] : f \in T}) = SumFunctionOnSet(len, T)
  BY <1>3, SumMapped
<1>6. QED BY <1>1, <1>2, <1>4, <1>5, DefragOps DEF Defrag!Bytes

\* Fragments of one datagram have at least as many bytes as it exactly when they are
\* all of them.
LEMMA AllPieces ==
    ASSUME NEW k \in Keys, NEW F \in SUBSET PiecesOf(k)
    PROVE  /\ Defrag!LengthOf(Carried[k]) \in Nat
           /\ Defrag!Bytes(F) >= Defrag!LengthOf(Carried[k]) <=> F = PiecesOf(k)
<1>1. PICK C : C = Carried[k]
  OBVIOUS
<1>2. PICK len : len = [f \in C |-> f.len]
  OBVIOUS
<1>3. PICK T : T = {f \in C : <<k, f>> \in F}
  OBVIOUS
<1>4. IsFiniteSet(C) /\ \A f \in C : len[f] = f.len /\ len[f] \in Nat /\ len[f] > 0
  <2>1. IsFiniteSet(C)
    BY <1>1, ReassemblyAssumption DEF Defrag!IpDefragAssumption, Defrag!IsFiniteSet, IsFiniteSet
  <2>2. \A f \in C : f.len \in Nat /\ f.len > 0
    BY <1>1, EndIs
  <2>3. QED BY <1>2, <2>1, <2>2
<1>5. T \in SUBSET C /\ IsFiniteSet(T)
  BY <1>3, <1>4, FS_Subset
<1>6. F = {<<k, f>> : f \in T}
  BY <1>1, <1>3 DEF PiecesOf
<1>7. Defrag!Bytes(F) = SumFunctionOnSet(len, T)
  BY <1>4, <1>5, <1>6, BytesAre
<1>8. Defrag!LengthOf(C) = SumFunctionOnSet(len, C) /\ SumFunctionOnSet(len, C) \in Nat
  BY <1>2, <1>4, DefragOps, SumRemove DEF Defrag!LengthOf
<1>9. SumFunctionOnSet(len, T) >= SumFunctionOnSet(len, C) => T = C
  BY <1>4, <1>5, SumProper
<1>10. F = PiecesOf(k) <=> T = C
  BY <1>1, <1>3, <1>6 DEF PiecesOf
<1>11. QED BY <1>1, <1>4, <1>7, <1>8, <1>9, <1>10

LEMMA DefragGet ==
    ASSUME DefragInv, NEW k \in Keys, Defrag!Get(k)
    PROVE  DefragInv'
<1>1. PICK i \in DOMAIN frag_table :
         /\ i \in Defrag!Of(k, frag_table) /\ Defrag!Deliverable(frag_table[i])
         /\ got' = [key |-> k, told |-> k \in ready, total |-> frag_table[i].total,
                    received |-> frag_table[i].received, frags |-> Defrag!Held(frag_table[i])]
         /\ Defrag!FreeEntry(i)
  BY DEF Defrag!Get
<1>2. PICK e : e = frag_table[i]
  OBVIOUS
<1>3. /\ Fit(frag_table, heap, content, outside) /\ ReadyOK(frag_table, ready)
      /\ ready \in SUBSET Keys /\ e \in Datagram /\ e.key = k /\ e.last
      /\ Fits(e, content, outside)
  BY <1>1, <1>2 DEF DefragInv, Fit, Defrag!Of, Defrag!Deliverable
<1>4. /\ frag_table' = SwapOut(frag_table, i) /\ heap' = heap \ {e.block}
      /\ content' = [a \in Defrag!Blocks |-> IF a = e.block THEN {} ELSE content[a]]
      /\ ready' = ready \ {k} /\ outside' = outside
  BY <1>1, <1>2, DefragOps DEF Defrag!FreeEntry, Defrag!Owner, Defrag!Get
<1>5. Fit(frag_table', heap', content', outside')
  <2>1. Fit(SwapOut(frag_table, i), heap \ {e.block},
            [a \in Defrag!Blocks |-> IF a = e.block THEN {} ELSE content[a]], outside)
    BY <1>2, <1>3, FitFree
  <2>2. QED BY <1>4, <2>1
<1>6. PICK m : Moves(m, frag_table, frag_table', i)
  BY <1>3, <1>4, SwapOutMoves DEF Fit
<1>7. ReadyOK(frag_table', ready')
  <2>1. \A j \in DOMAIN frag_table : frag_table[j].key = k => j = i
    BY <1>2, <1>3 DEF Fit
  <2>2. ASSUME NEW n \in Keys
        PROVE  n \in ready' <=> \E j \in DOMAIN frag_table' :
                                   frag_table'[j].key = n /\ Defrag!Complete(frag_table'[j])
    <3>1. CASE n = k
      <4>1. n \notin ready'
        BY <1>4, <3>1
      <4>2. \A j \in DOMAIN frag_table' : frag_table'[j].key # n
        BY <1>6, <2>1, <3>1 DEF Moves
      <4>3. QED BY <4>1, <4>2
    <3>2. CASE n # k
      <4>1. n \in ready' <=> \E j \in DOMAIN frag_table :
                                frag_table[j].key = n /\ Defrag!Complete(frag_table[j])
        BY <1>3, <1>4, <3>2 DEF ReadyOK
      <4>2. ASSUME NEW j \in DOMAIN frag_table, frag_table[j].key = n
            PROVE  \E h \in DOMAIN frag_table' : frag_table'[h] = frag_table[j]
        BY <1>2, <1>3, <1>6, <3>2, <4>2 DEF Moves
      <4>3. \A h \in DOMAIN frag_table' : \E j \in DOMAIN frag_table : frag_table'[h] = frag_table[j]
        BY <1>6 DEF Moves
      <4>4. QED BY <4>1, <4>2, <4>3
    <3>3. QED BY <3>1, <3>2
  <2>3. QED BY <2>2 DEF ReadyOK
<1>8. (Defrag!GotWhole)'
  <2> SUFFICES ASSUME outside = {}
               PROVE  /\ e.total = Defrag!LengthOf(Carried[k])
                      /\ e.received = Defrag!Bytes(Defrag!Held(e)) =>
                            (k \in ready <=> Defrag!Held(e) = PiecesOf(k))
    BY <1>1, <1>2, <1>4 DEF Defrag!GotWhole, PiecesOf, Defrag!Pieces
  <2>1. /\ e.total = Defrag!LengthOf(Carried[k]) /\ e.block # Defrag!NoBlock
        /\ Defrag!Held(e) \in SUBSET PiecesOf(k)
    BY <1>3 DEF Fits, Defrag!Held
  <2>2. k \in ready <=> Defrag!Complete(e)
    <3>1. \A j \in DOMAIN frag_table : frag_table[j].key = k => frag_table[j] = e
      BY <1>2, <1>3 DEF Fit
    <3>2. QED BY <1>2, <1>3, <3>1 DEF ReadyOK
  <2>3. Defrag!Complete(e) <=> e.received >= e.total
    BY <1>3 DEF Defrag!Complete
  <2>4. PICK F \in SUBSET PiecesOf(k) : F = Defrag!Held(e)
    BY <2>1
  <2>5. QED BY <2>1, <2>2, <2>3, <2>4, AllPieces
<1>9. QED BY <1>3, <1>4, <1>5, <1>7, <1>8 DEF DefragInv

LEMMA DefragStep == DefragInv /\ [Next]_vars => DefragInv'
<1> SUFFICES ASSUME DefragInv, [Next]_vars PROVE DefragInv'
  OBVIOUS
<1>1. CASE Defrag!Flush
  <2>1. /\ frag_table' = <<>> /\ content' = [b \in Defrag!Blocks |-> {}]
        /\ heap' = {} /\ ready' = {} /\ got' = got /\ outside' = outside
    <3>1. heap = {frag_table[i].block : i \in DOMAIN frag_table} \ {Defrag!NoBlock}
      BY DEF DefragInv, Fit
    <3>2. QED BY <1>1, <3>1 DEF Defrag!Flush
  <2>2. Fit(<<>>, {}, [b \in Defrag!Blocks |-> {}], outside)
    <3>1. \A f \in outside : f.offset + f.len > Defrag!Uint16Max
      BY DEF DefragInv, Fit
    <3>2. QED BY <3>1, ReassemblyAssumption DEF Fit, Defrag!IpDefragAssumption
  <2>3. QED BY <2>1, <2>2 DEF DefragInv, ReadyOK, Defrag!GotWhole
<1>2. CASE UNCHANGED defragVars
  BY <1>2 DEF defragVars, DefragInv, Defrag!GotWhole
<1>3. CASE Defrag!Next
  BY <1>1, <1>3, DefragAdd, DefragGet DEF Defrag!Next
<1>4. QED BY <1>2, <1>3 DEF Next, Only, vars

\* What the invariant says of the datagrams.
LEMMA DefragImplied ==
    DefragInv => /\ Defrag!TypeOK /\ Defrag!BlocksOwned /\ Defrag!GotWhole
<1> SUFFICES ASSUME DefragInv PROVE Defrag!TypeOK /\ Defrag!BlocksOwned
  BY DEF DefragInv
<1>1. /\ frag_table \in Seq(Datagram) /\ Len(frag_table) <= CarriedMax
      /\ heap \in SUBSET Defrag!Blocks /\ ready \in SUBSET Keys
  BY DEF DefragInv, Fit
<1>2. Defrag!TypeOK
  BY <1>1 DEF Defrag!TypeOK, Datagram
<1>3. ASSUME NEW i \in DOMAIN frag_table, frag_table[i].block # Defrag!NoBlock,
             NEW w \in content[frag_table[i].block]
      PROVE  w[1] = frag_table[i].key
  <2>1. w \in PiecesOf(frag_table[i].key)
    BY <1>3 DEF DefragInv, Fit, Fits
  <2>2. QED BY <2>1 DEF PiecesOf
<1>4. ASSUME outside = {}, NEW i \in DOMAIN frag_table, frag_table[i].last
      PROVE  /\ frag_table[i].block # Defrag!NoBlock
             /\ frag_table[i].total <= frag_table[i].buf
  BY <1>4 DEF DefragInv, Fit, Fits
<1>5. Defrag!BlocksOwned
  BY <1>3, <1>4 DEF Defrag!BlocksOwned, DefragInv, Fit
<1>6. QED BY <1>2, <1>5

-----------------------------------------------------------------------------
\* fragtrack.c, with the names it takes from the library.
LEMMA FragOps ==
    /\ \A es, i : Frag!SwapOut(es, i) = SwapOut(es, i)
    /\ \A es, stale : Frag!Sweep(es, stale) = Sweep(es, stale)
    /\ \A S : Frag!Min(S) = Min(S) /\ Frag!Cardinality(S) = Cardinality(S)
    /\ \A S : Frag!IsFiniteSet(S) <=> IsFiniteSet(S)
    /\ \A s : Frag!ToSet(s) = ToSet(s)
    /\ \A f, S : Frag!SumFunctionOnSet(f, S) = SumFunctionOnSet(f, S)
<1>1. \A es, i : Frag!SwapOut(es, i) = SwapOut(es, i)
  BY DEF Frag!SwapOut, SwapOut, Frag!Front, Front, Frag!ReplaceAt, ReplaceAt, Frag!Last, Last
<1>2. \A es, stale : Frag!Sweep(es, stale) = Sweep(es, stale)
  BY Zenon DEF Frag!Sweep, Sweep, Frag!SwapOut, SwapOut, Frag!Front, Front, Frag!ReplaceAt,
               ReplaceAt, Frag!Last, Last
<1>3. \A S : Frag!Min(S) = Min(S) /\ Frag!Cardinality(S) = Cardinality(S)
  BY DEF Frag!Min, Min, Frag!Cardinality, Cardinality
<1>4. \A S : Frag!IsFiniteSet(S) <=> IsFiniteSet(S)
  BY DEF Frag!IsFiniteSet, IsFiniteSet
<1>5. \A s : Frag!ToSet(s) = ToSet(s)
  BY DEF Frag!ToSet, ToSet
<1>6. \A f, S : Frag!SumFunctionOnSet(f, S) = SumFunctionOnSet(f, S)
  BY Zenon DEF Frag!SumFunctionOnSet, SumFunctionOnSet, Frag!FoldFunctionOnSet,
               FoldFunctionOnSet, Frag!MapThenFoldSet, MapThenFoldSet
<1>7. QED BY <1>1, <1>2, <1>3, <1>4, <1>5, <1>6

\* A sequence repeats nothing exactly when it has as many elements as places.
LEMMA NoRepeat ==
    ASSUME NEW S, NEW s \in Seq(S)
    PROVE  /\ IsFiniteSet(ToSet(s)) /\ Cardinality(ToSet(s)) \in Nat
           /\ ~ (Len(s) > Cardinality(ToSet(s))) <=> \A i, j \in DOMAIN s : s[i] = s[j] => i = j
<1>1. Len(s) \in Nat /\ IsFiniteSet(DOMAIN s) /\ Cardinality(DOMAIN s) = Len(s)
  BY Indices
<1>2. PICK T : T = ToSet(s)
  OBVIOUS
<1>3. T = {s[i] : i \in DOMAIN s}
  BY <1>2 DEF ToSet
<1>4. /\ IsFiniteSet(T) /\ Cardinality(T) <= Len(s) /\ Cardinality(T) \in Nat
  BY <1>1, <1>3, ImageFinite, FS_CardinalityType
<1>5. s \in [DOMAIN s -> T] /\ \A t \in T : \E i \in DOMAIN s : s[i] = t
  BY <1>3
<1>6. s \in Surjection(DOMAIN s, T)
  BY <1>5 DEF Surjection
<1>7. Cardinality(T) = Len(s) <=> s \in Injection(DOMAIN s, T)
  BY <1>1, <1>6, FS_Surjection
<1>8. s \in Injection(DOMAIN s, T) <=> \A i, j \in DOMAIN s : s[i] = s[j] => i = j
  BY <1>5 DEF Injection, IsInjective
<1>9. ~ (Len(s) > Cardinality(T)) <=> Cardinality(T) = Len(s)
  BY <1>1, <1>4
<1>10. QED BY <1>2, <1>4, <1>7, <1>8, <1>9

Tracking == [key : Keys, frags : Seq(Frag!Fragment), total : 0 .. Frag!Uint16Max,
             complete : BOOLEAN, last : Nat]

Known(frags) == \E f \in ToSet(frags) : ~f.more

\* An entry knows the length of its datagram once it has the last fragment,
\* and without repeats it is complete when it has all of them.
EntryOK(e) ==
    /\ e \in Tracking /\ Len(e.frags) <= MaxFrags
    /\ ToSet(e.frags) \in SUBSET Tracked[e.key]
    /\ e.total = IF Known(e.frags) THEN Frag!SizeOf(Tracked[e.key]) ELSE 0
    /\ ~Frag!Repeats(e) => (e.complete <=> ToSet(e.frags) = Tracked[e.key])

TableOK(es) ==
    /\ es \in Seq(Tracking) /\ Len(es) <= TrackedMax
    /\ \A i \in DOMAIN es : EntryOK(es[i])
    /\ \A i, j \in DOMAIN es : es[i].key = es[j].key => i = j

\* What the sizes of a datagram's fragments add up to.
LEMMA Sizes ==
    ASSUME NEW k \in Keys
    PROVE  /\ IsFiniteSet(Tracked[k]) /\ Tracked[k] \in SUBSET Frag!Fragment
           /\ \A f \in Tracked[k] : f.size \in Nat /\ f.size > 0 /\ f.more \in BOOLEAN
           /\ Frag!SizeOf(Tracked[k]) \in 0 .. Frag!Uint16Max
           /\ \A f \in Tracked[k] : ~f.more => /\ (f.offset + f.size) % (Frag!Uint16Max + 1)
                                                    = Frag!SizeOf(Tracked[k])
                                              /\ Frag!SizeOf(Tracked[k]) > 0
           /\ \E f \in Tracked[k] : ~f.more
           /\ \A F \in SUBSET Tracked[k] :
                 /\ SumFunctionOnSet([f \in F |-> f.size], F) \in 0 .. Frag!SizeOf(Tracked[k])
                 /\ SumFunctionOnSet([f \in F |-> f.size], F) >= Frag!SizeOf(Tracked[k])
                       <=> F = Tracked[k]
<1>0. Frag!Uint16Max \in Nat
  BY DEF Frag!Uint16Max
<1>1. PICK C : C = Tracked[k]
  OBVIOUS
<1>2. /\ C \in SUBSET Frag!Fragment /\ IsFiniteSet(C) /\ \E f \in C : ~f.more
      /\ \A f \in C : f.size > 0 /\ (~f.more => f.offset + f.size = Frag!SizeOf(C))
      /\ Frag!SizeOf(C) <= Frag!Uint16Max
  BY <1>1, ReassemblyAssumption, FragOps DEF Frag!FragTrackAssumption
<1>3. \A f \in C : f.size \in Nat /\ f.offset \in Nat /\ f.more \in BOOLEAN
  BY <1>0, <1>2 DEF Frag!Fragment
<1>4. PICK sz : sz = [f \in C |-> f.size]
  OBVIOUS
<1>5. \A f \in C : sz[f] = f.size /\ sz[f] \in Nat /\ sz[f] > 0
  BY <1>2, <1>3, <1>4
<1>6. Frag!SizeOf(C) = SumFunctionOnSet(sz, C) /\ Frag!SizeOf(C) \in Nat
  <2>1. Frag!SizeOf(C) = SumFunctionOnSet(sz, C)
    BY <1>4, FragOps DEF Frag!SizeOf
  <2>2. SumFunctionOnSet(sz, C) \in Nat
    BY <1>2, <1>5, SumRemove
  <2>3. QED BY <2>1, <2>2
<1>7. ASSUME NEW f \in C, ~f.more
      PROVE  (f.offset + f.size) % (Frag!Uint16Max + 1) = Frag!SizeOf(C) /\ Frag!SizeOf(C) > 0
  <2>1. f.offset + f.size = Frag!SizeOf(C) /\ f.size > 0
    BY <1>2, <1>7
  <2>2. \A u, z \in Nat : z <= u => z % (u + 1) = z
    OBVIOUS
  <2>3. QED BY <1>0, <1>2, <1>3, <1>6, <2>1, <2>2
<1>8. ASSUME NEW F \in SUBSET C
      PROVE  /\ SumFunctionOnSet([f \in F |-> f.size], F) \in 0 .. Frag!SizeOf(C)
             /\ SumFunctionOnSet([f \in F |-> f.size], F) >= Frag!SizeOf(C) <=> F = C
  <2>1. PICK g : g = [f \in F |-> f.size]
    OBVIOUS
  <2>2. IsFiniteSet(F) /\ \A f \in F : sz[f] \in Nat /\ g[f] = sz[f]
    BY <1>2, <1>5, <2>1, FS_Subset
  <2>3. SumFunctionOnSet(sz, F) = SumFunctionOnSet(g, F) /\ SumFunctionOnSet(sz, F) \in Nat
    BY <2>2, SumSame, SumRemove
  <2>4. /\ SumFunctionOnSet(sz, F) <= SumFunctionOnSet(sz, C)
        /\ SumFunctionOnSet(sz, F) >= SumFunctionOnSet(sz, C) => F = C
    BY <1>2, <1>5, SumProper
  <2>5. QED BY <1>6, <2>1, <2>3, <2>4
<1>9. QED BY <1>0, <1>1, <1>2, <1>3, <1>6, <1>7, <1>8

\* Without repeats a list of fragments covers what its fragments have together.
LEMMA CoveredIs ==
    ASSUME NEW k \in Keys, NEW s \in Seq(Frag!Fragment), ToSet(s) \in SUBSET Tracked[k],
           \A i, j \in DOMAIN s : s[i] = s[j] => i = j
    PROVE  /\ Frag!Covered(s) \in 0 .. Frag!SizeOf(Tracked[k])
           /\ Frag!Covered(s) >= Frag!SizeOf(Tracked[k]) <=> ToSet(s) = Tracked[k]
<1>1. PICK F : F = ToSet(s)
  OBVIOUS
<1>2. PICK f, g : f = [i \in DOMAIN s |-> s[i].size] /\ g = [x \in F |-> x.size]
  OBVIOUS
<1>3. F = {s[i] : i \in DOMAIN s} /\ IsFiniteSet(DOMAIN s)
  BY <1>1, Indices DEF ToSet
<1>4. /\ Frag!SizeOf(Tracked[k]) \in 0 .. Frag!Uint16Max
      /\ SumFunctionOnSet(g, F) \in 0 .. Frag!SizeOf(Tracked[k])
      /\ SumFunctionOnSet(g, F) >= Frag!SizeOf(Tracked[k]) <=> F = Tracked[k]
      /\ \A x \in F : x.size \in Nat
  BY <1>1, <1>2, Sizes
<1>5. \A i \in DOMAIN s : f[i] \in Nat /\ g[s[i]] = f[i]
  BY <1>2, <1>3, <1>4
<1>6. SumFunctionOnSet(g, F) = SumFunctionOnSet(f, DOMAIN s)
  BY <1>3, <1>5, SumMapped
<1>7. Frag!Covered(s) = SumFunctionOnSet(f, DOMAIN s) % (Frag!Uint16Max + 1)
  BY <1>2, FragOps DEF Frag!Covered
<1>8. \A u, z \in Nat : z <= u => z % (u + 1) = z
  OBVIOUS
<1>9. Frag!Uint16Max \in Nat
  BY DEF Frag!Uint16Max
<1>10. PICK c : c = SumFunctionOnSet(g, F)
  OBVIOUS
<1>11. c \in Nat /\ c <= Frag!Uint16Max
  BY <1>4, <1>9, <1>10
<1>12. Frag!Covered(s) = c
  BY <1>6, <1>7, <1>8, <1>9, <1>10, <1>11
<1>13. QED BY <1>1, <1>4, <1>10, <1>12

\* Recording a fragment keeps an entry right.
LEMMA Recorded ==
    ASSUME NEW e, EntryOK(e), Len(e.frags) < MaxFrags, NEW f \in Tracked[e.key], now \in Nat
    PROVE  EntryOK(Frag!Record(e, f)) /\ Frag!Record(e, f).key = e.key
<1>0. MaxFrags \in Nat /\ Frag!Uint16Max \in Nat /\ e.key \in Keys /\ e \in Tracking
  <2>1. MaxFrags \in Nat
    BY ReassemblyAssumption, Zenon DEF Frag!FragTrackAssumption
  <2>2. Frag!Uint16Max \in Nat
    BY DEF Frag!Uint16Max
  <2>3. QED BY <2>1, <2>2 DEF EntryOK, Tracking
<1>1. PICK C, z : C = Tracked[e.key] /\ z = Frag!SizeOf(C)
  OBVIOUS
<1>2. /\ z \in 0 .. Frag!Uint16Max /\ f \in Frag!Fragment /\ f \in C
      /\ ~f.more => (f.offset + f.size) % (Frag!Uint16Max + 1) = z
      /\ \A x \in C : ~x.more => z > 0
  BY <1>0, <1>1, Sizes
<1>3. PICK s : s = Append(e.frags, f)
  OBVIOUS
<1>4. /\ e.frags \in Seq(Frag!Fragment) /\ Len(e.frags) \in Nat
      /\ s \in Seq(Frag!Fragment) /\ Len(s) <= MaxFrags
  BY <1>0, <1>2, <1>3 DEF Tracking
<1>5. ToSet(s) = ToSet(e.frags) \cup {f}
  BY <1>2, <1>3, <1>4, AppendProperties DEF ToSet
<1>6. PICK t : t = IF f.more THEN e.total ELSE (f.offset + f.size) % (Frag!Uint16Max + 1)
  OBVIOUS
<1>7. e.total = IF Known(e.frags) THEN z ELSE 0
  BY <1>1 DEF EntryOK
<1>8. t = IF Known(s) THEN z ELSE 0
  <2>1. Known(s) <=> Known(e.frags) \/ ~f.more
    BY <1>5 DEF Known
  <2>2. QED BY <1>2, <1>6, <1>7, <2>1
<1>9. t \in 0 .. Frag!Uint16Max
  <2>1. 0 \in 0 .. Frag!Uint16Max
    BY <1>0
  <2>2. QED BY <1>2, <1>8, <2>1
<1>10. PICK r : r = [e EXCEPT !.frags = s, !.last = now, !.total = t]
  OBVIOUS
<1>11. /\ r.key = e.key /\ r.frags = s /\ r.total = t /\ r.complete = e.complete /\ r.last = now
       /\ r \in Tracking
  BY <1>0, <1>4, <1>9, <1>10 DEF Tracking
<1>12. PICK q : q = [r EXCEPT !.complete = @ \/ Frag!Whole(r)]
  OBVIOUS
<1>13. Frag!Record(e, f) = q
  BY <1>3, <1>6, <1>10, <1>12, Zenon DEF Frag!Record
<1>14. Frag!Whole(r) \in BOOLEAN /\ (Frag!Whole(r) <=> t > 0 /\ Frag!Covered(s) >= t)
  BY <1>11 DEF Frag!Whole
<1>15. /\ q \in Tracking /\ q.key = e.key /\ q.frags = s /\ q.total = t
       /\ q.complete = (e.complete \/ Frag!Whole(r))
  BY <1>11, <1>12, <1>14 DEF Tracking
<1>16. ToSet(s) \in SUBSET C
  BY <1>1, <1>2, <1>5 DEF EntryOK
<1>17. ASSUME ~Frag!Repeats(q)
       PROVE  q.complete <=> ToSet(s) = C
  <2>1. \A i, j \in DOMAIN s : s[i] = s[j] => i = j
    BY <1>4, <1>15, <1>17, NoRepeat, FragOps DEF Frag!Repeats
  <2>2. \A i \in 1 .. Len(e.frags) : s[i] = e.frags[i]
    BY <1>2, <1>3, <1>4
  <2>3. DOMAIN s = 1 .. Len(e.frags) + 1 /\ s[Len(e.frags) + 1] = f
    BY <1>2, <1>3, <1>4
  <2>4. DOMAIN e.frags = 1 .. Len(e.frags)
    BY <1>4
  <2>5. f \notin ToSet(e.frags)
    BY <1>4, <2>1, <2>2, <2>3, <2>4 DEF ToSet
  <2>6. \A i, j \in DOMAIN e.frags : e.frags[i] = e.frags[j] => i = j
    BY <1>4, <2>1, <2>2, <2>3, <2>4
  <2>7. ~Frag!Repeats(e)
    BY <1>4, <2>6, NoRepeat, FragOps DEF Frag!Repeats
  <2>8. ~e.complete
    BY <1>1, <1>2, <2>5, <2>7 DEF EntryOK
  <2>9. /\ Frag!Covered(s) \in 0 .. z
        /\ Frag!Covered(s) >= z <=> ToSet(s) = C
    BY <1>0, <1>1, <1>4, <1>16, <2>1, CoveredIs
  <2>10. ToSet(s) = C => Known(s)
    BY <1>0, <1>1, Sizes DEF Known
  <2>11. Known(s) => z > 0
    BY <1>2, <1>16 DEF Known
  <2>12. Frag!Whole(r) <=> ToSet(s) = C
    BY <1>8, <1>14, <2>9, <2>10, <2>11
  <2>13. QED BY <1>15, <2>8, <2>12
<1>18. EntryOK(q)
  BY <1>1, <1>4, <1>8, <1>15, <1>16, <1>17 DEF EntryOK
<1>19. QED BY <1>13, <1>15, <1>18

\* An array of entries stays right when one is added, replaced or swapped out.
LEMMA TrackedOf ==
    ASSUME NEW k, NEW es, TableOK(es)
    PROVE  /\ Len(es) \in Nat /\ DOMAIN es = 1 .. Len(es)
           /\ \A i \in Frag!Of(k, es) : i \in DOMAIN es /\ es[i].key = k /\ EntryOK(es[i])
           /\ Frag!Of(k, es) # {} => Frag!Min(Frag!Of(k, es)) \in Frag!Of(k, es)
<1>1. Len(es) \in Nat /\ DOMAIN es = 1 .. Len(es) /\ \A i \in DOMAIN es : EntryOK(es[i])
  BY DEF TableOK
<1>2. \A i \in Frag!Of(k, es) : i \in DOMAIN es /\ es[i].key = k
  BY DEF Frag!Of
<1>3. Frag!Of(k, es) \in SUBSET Nat
  BY <1>1, <1>2
<1>4. QED BY <1>1, <1>2, <1>3, MinIsIn, FragOps

LEMMA TrackedPlace ==
    ASSUME NEW es, TableOK(es), NEW k \in Keys, now \in Nat,
           Frag!Of(k, es) # {} \/ ~Frag!TableFull(es)
    PROVE  /\ TableOK(Frag!Place(k, es)) /\ Frag!Of(k, Frag!Place(k, es)) # {}
           /\ Len(Frag!Place(k, es)) \in Nat /\ Len(Frag!Place(k, es)) >= Len(es)
<1>0. TrackedMax \in Nat /\ Frag!Uint16Max \in Nat /\ MaxFrags \in Nat
  <2>1. TrackedMax \in Nat /\ MaxFrags \in Nat
    BY ReassemblyAssumption, Zenon DEF Frag!FragTrackAssumption
  <2>2. Frag!Uint16Max \in Nat
    BY DEF Frag!Uint16Max
  <2>3. QED BY <2>1, <2>2
<1>1. /\ es \in Seq(Tracking) /\ Len(es) <= TrackedMax /\ Len(es) \in Nat /\ DOMAIN es = 1 .. Len(es)
      /\ \A i \in DOMAIN es : EntryOK(es[i])
      /\ \A i, j \in DOMAIN es : es[i].key = es[j].key => i = j
  BY DEF TableOK
<1>2. CASE Frag!Of(k, es) # {}
  BY <1>1, <1>2 DEF Frag!Place
<1>3. CASE Frag!Of(k, es) = {}
  <2>1. PICK e, r : e = Frag!Empty(k) /\ r = Append(es, e)
    OBVIOUS
  <2>2. /\ e.key = k /\ e.frags = <<>> /\ e.total = 0 /\ e.complete = FALSE /\ e \in Tracking
    <3>1. 0 \in 0 .. Frag!Uint16Max
      BY <1>0
    <3>2. QED BY <2>1, <3>1 DEF Frag!Empty, Tracking
  <2>3. EntryOK(e)
    <3>1. Len(e.frags) = 0 /\ ToSet(e.frags) = {}
      BY <2>2 DEF ToSet
    <3>2. Tracked[k] # {}
      BY Sizes
    <3>3. QED BY <1>0, <2>2, <3>1, <3>2 DEF EntryOK, Known
  <2>4. Len(es) < TrackedMax
    BY <1>0, <1>1, <1>3 DEF Frag!TableFull
  <2>5. /\ r \in Seq(Tracking) /\ Len(r) = Len(es) + 1 /\ DOMAIN r = 1 .. Len(es) + 1
        /\ r[Len(es) + 1] = e /\ \A i \in 1 .. Len(es) : r[i] = es[i]
    BY <1>1, <2>1, <2>2
  <2>6. \A i \in DOMAIN es : es[i].key # k
    BY <1>3 DEF Frag!Of
  <2>7. \A i \in DOMAIN r : EntryOK(r[i])
    BY <1>1, <2>3, <2>5
  <2>8. \A i, j \in DOMAIN r : r[i].key = r[j].key => i = j
    BY <1>1, <2>2, <2>5, <2>6
  <2>9. TableOK(r) /\ Len(es) + 1 \in Frag!Of(k, r)
    BY <1>0, <1>1, <2>2, <2>4, <2>5, <2>7, <2>8 DEF TableOK, Frag!Of
  <2>10. Frag!Place(k, es) = r
    BY <1>3, <2>1 DEF Frag!Place
  <2>11. QED BY <1>1, <2>5, <2>9, <2>10
<1>4. QED BY <1>2, <1>3

LEMMA TrackedReplace ==
    ASSUME NEW es, TableOK(es), NEW i \in DOMAIN es, NEW r, EntryOK(r), r.key = es[i].key
    PROVE  TableOK([es EXCEPT ![i] = r]) /\ Len([es EXCEPT ![i] = r]) = Len(es)
<1>1. PICK n : n = [es EXCEPT ![i] = r]
  OBVIOUS
<1>2. r \in Tracking /\ es \in Seq(Tracking)
  BY DEF EntryOK, TableOK
<1>3. /\ n \in Seq(Tracking) /\ Len(n) = Len(es) /\ DOMAIN n = DOMAIN es
      /\ \A j \in DOMAIN es : n[j] = IF j = i THEN r ELSE es[j]
  BY <1>1, <1>2
<1>4. \A j \in DOMAIN es : EntryOK(n[j]) /\ n[j].key = es[j].key
  BY <1>3 DEF TableOK
<1>5. TableOK(n)
  BY <1>3, <1>4 DEF TableOK
<1>6. QED BY <1>1, <1>3, <1>5

LEMMA TrackedFree ==
    ASSUME NEW es, TableOK(es), NEW i \in DOMAIN es
    PROVE  TableOK(SwapOut(es, i)) /\ Len(SwapOut(es, i)) = Len(es) - 1
<1>0. TrackedMax \in Nat /\ es \in Seq(Tracking) /\ Len(es) \in Nat
  <2>1. TrackedMax \in Nat
    BY ReassemblyAssumption, Zenon DEF Frag!FragTrackAssumption
  <2>2. QED BY <2>1 DEF TableOK
<1>1. PICK r : r = SwapOut(es, i)
  OBVIOUS
<1>2. r \in Seq(Tracking) /\ Len(r) = Len(es) - 1
  BY <1>0, <1>1, SwapOutIs
<1>3. PICK m : Moves(m, es, r, i)
  BY <1>0, <1>1, SwapOutMoves
<1>4. \A j \in DOMAIN r : m[j] \in DOMAIN es /\ r[j] = es[m[j]]
  BY <1>3 DEF Moves
<1>5. \A j, h \in DOMAIN r : m[j] = m[h] => j = h
  BY <1>3 DEF Moves
<1>6. \A j \in DOMAIN r : EntryOK(r[j])
  BY <1>4 DEF TableOK
<1>7. \A j, h \in DOMAIN r : r[j].key = r[h].key => j = h
  BY <1>4, <1>5 DEF TableOK
<1>8. Len(r) <= TrackedMax
  BY <1>0, <1>2 DEF TableOK
<1>9. QED BY <1>1, <1>2, <1>6, <1>7, <1>8 DEF TableOK

LEMMA TrackedSweep ==
    ASSUME NEW es, TableOK(es), NEW A
    PROVE  TableOK(Sweep(es, A))
<1>0. TrackedMax \in Nat /\ es \in Seq(Tracking) /\ Len(es) \in Nat
  <2>1. TrackedMax \in Nat
    BY ReassemblyAssumption, Zenon DEF Frag!FragTrackAssumption
  <2>2. QED BY <2>1 DEF TableOK
<1>1. PICK r : r = Sweep(es, A)
  OBVIOUS
<1>2. r \in Seq(Tracking) /\ Len(r) = Len(es) - Cardinality(Kind(es, A))
  BY <1>0, <1>1, SweepFrees
<1>3. PICK m : Selects(m, es, r)
  BY <1>0, <1>1, SweepSelects
<1>4. \A j \in DOMAIN r : m[j] \in DOMAIN es /\ r[j] = es[m[j]] /\ j \in DOMAIN m
  BY <1>2, <1>3 DEF Selects
<1>5. \A j, h \in DOMAIN r : m[j] = m[h] => j = h
  BY <1>3, <1>4 DEF Selects
<1>6. \A j \in DOMAIN r : EntryOK(r[j])
  BY <1>4 DEF TableOK
<1>7. \A j, h \in DOMAIN r : r[j].key = r[h].key => j = h
  BY <1>4, <1>5 DEF TableOK
<1>8. Cardinality(Kind(es, A)) \in Nat
  BY <1>0, Indices
<1>9. Len(r) <= TrackedMax
  BY <1>0, <1>2, <1>8 DEF TableOK
<1>10. QED BY <1>1, <1>2, <1>6, <1>7, <1>9 DEF TableOK

\* The inductive invariant of fragtrack.c: the array is right and the books
\* balance.
FragInv ==
    /\ TableOK(entries)
    /\ reassembled \in Nat /\ dropped \in Nat /\ expired \in Nat /\ now \in Nat
    /\ adds \in Nat /\ created \in Nat /\ done \in Nat
    /\ created = Len(entries) + expired + done

\* What a sweep frees is counted.
LEMMA SweepCounted ==
    ASSUME FragInv, NEW t, Frag!CountExpired(t)
    PROVE  /\ TableOK(Frag!Swept(t)) /\ Len(Frag!Swept(t)) \in Nat
           /\ expired' \in Nat /\ done' \in Nat
           /\ created = Len(Frag!Swept(t)) + expired' + done'
           /\ ToSet(Frag!Swept(t)) = {e \in ToSet(entries) : ~Frag!IsStale(e, t)}
<1>1. PICK A : A = {e \in ToSet(entries) : Frag!IsStale(e, t)}
  OBVIOUS
<1>2. PICK es : es = Sweep(entries, A)
  OBVIOUS
<1>3. Frag!Swept(t) = es
  BY <1>1, <1>2, FragOps DEF Frag!Swept
<1>4. entries \in Seq(Tracking) /\ TableOK(entries)
  BY DEF FragInv, TableOK
<1>5. /\ TableOK(es) /\ Len(es) \in Nat
      /\ Len(es) = Len(entries) - Cardinality(Kind(entries, A))
      /\ ToSet(es) = ToSet(entries) \ A
  BY <1>2, <1>4, SweepFrees, TrackedSweep, TrackedOf
<1>6. PICK K : K = Kind(entries, A)
  OBVIOUS
<1>7. PICK C : C = {i \in K : entries[i].complete}
  OBVIOUS
<1>8. /\ IsFiniteSet(K) /\ Cardinality(K) \in Nat
      /\ IsFiniteSet(C) /\ Cardinality(C) \in Nat
      /\ IsFiniteSet(K \ C) /\ Cardinality(K \ C) \in Nat
  <2>1. IsFiniteSet(K)
    BY <1>4, <1>6, Indices
  <2>2. C \in SUBSET K /\ K \ C \in SUBSET K
    BY <1>7
  <2>3. QED BY <2>1, <2>2, FS_Subset, FS_CardinalityType
<1>9. Cardinality(K \ C) = Cardinality(K) - Cardinality(C)
  <2>1. K \cap C = C
    BY <1>7
  <2>2. QED BY <1>8, <2>1, FS_Difference
<1>10. Frag!StaleAt(t) = K
  BY <1>1, <1>6 DEF Frag!StaleAt, Kind, ToSet
<1>11. /\ {i \in Frag!StaleAt(t) : entries[i].complete} = C
       /\ {i \in Frag!StaleAt(t) : ~entries[i].complete} = K \ C
  BY <1>7, <1>10
<1>12. expired' = expired + Cardinality(K \ C) /\ done' = done + Cardinality(C)
  BY <1>11, FragOps DEF Frag!CountExpired
<1>13. expired \in Nat /\ done \in Nat /\ created = Len(entries) + expired + done /\ Len(entries) \in Nat
  BY <1>4 DEF FragInv
<1>14. expired' \in Nat /\ done' \in Nat /\ created = Len(es) + expired' + done'
  <2>1. PICK k, c, n, h : k = Cardinality(K) /\ c = Cardinality(C) /\ n = Len(entries)
                          /\ h = Cardinality(K \ C)
    OBVIOUS
  <2>2. /\ k \in Nat /\ c \in Nat /\ n \in Nat /\ h \in Nat /\ h = k - c
        /\ expired \in Nat /\ done \in Nat
    BY <1>8, <1>9, <1>13, <2>1
  <2>3. Len(es) = n - k /\ expired' = expired + h /\ done' = done + c
    BY <1>5, <1>6, <1>12, <2>1
  <2>4. created = n + expired + done
    BY <1>13, <2>1
  <2>5. QED BY <2>2, <2>3, <2>4
<1>15. ToSet(entries) \ A = {e \in ToSet(entries) : ~Frag!IsStale(e, t)}
  BY <1>1
<1>16. QED BY <1>3, <1>5, <1>14, <1>15

LEMMA FragInit == Init => FragInv
<1> SUFFICES ASSUME Init PROVE FragInv
  OBVIOUS
<1>1. /\ entries = <<>> /\ reassembled = 0 /\ dropped = 0 /\ expired = 0 /\ now = 0
      /\ adds = 0 /\ created = 0 /\ done = 0
  BY DEF Init, Frag!Init
<1>2. TableOK(<<>>)
  <2>1. TrackedMax \in Nat
    BY ReassemblyAssumption, Zenon DEF Frag!FragTrackAssumption
  <2>2. QED BY <2>1 DEF TableOK
<1>3. QED BY <1>1, <1>2 DEF FragInv

\* fragtrack_add: the table may be full, or the entry.
LEMMA FragAdd ==
    ASSUME FragInv, NEW k \in Keys, NEW f \in Tracked[k], Frag!Add(k, f)
    PROVE  FragInv'
<1>0. MaxFrags \in Nat
  BY ReassemblyAssumption, Zenon DEF Frag!FragTrackAssumption
<1>1. PICK es : es = Frag!Swept(now)
  OBVIOUS
<1>2. /\ adds' = adds + 1 /\ now' = now
      /\ Frag!CountExpired(now)
  BY DEF Frag!Add
<1>3. /\ TableOK(es) /\ Len(es) \in Nat /\ expired' \in Nat /\ done' \in Nat
      /\ created = Len(es) + expired' + done'
  BY <1>1, <1>2, SweepCounted
<1>4. /\ reassembled \in Nat /\ dropped \in Nat /\ now \in Nat /\ adds \in Nat /\ created \in Nat
  BY DEF FragInv
<1>5. CASE Frag!Of(k, es) = {} /\ Frag!TableFull(es)
  <2>1. dropped' = dropped + 1 /\ entries' = es /\ reassembled' = reassembled /\ created' = created
    BY <1>1, <1>5 DEF Frag!Add
  <2>2. QED BY <1>2, <1>3, <1>4, <2>1 DEF FragInv
<1>6. CASE ~(Frag!Of(k, es) = {} /\ Frag!TableFull(es))
  <2>1. PICK placed, i, r : /\ placed = Frag!Place(k, es)
                            /\ i = Frag!Min(Frag!Of(k, placed))
                            /\ r = Frag!Record(placed[i], f)
    OBVIOUS
  <2>2. /\ created' = created + Len(placed) - Len(es)
        /\ \/ /\ Len(placed[i].frags) >= MaxFrags
              /\ dropped' = dropped + 1 /\ entries' = placed /\ reassembled' = reassembled
           \/ /\ ~(Len(placed[i].frags) >= MaxFrags)
              /\ entries' = [placed EXCEPT ![i] = r] /\ dropped' = dropped
              /\ reassembled' = reassembled + 1 \/ reassembled' = reassembled
    BY <1>1, <1>6, <2>1 DEF Frag!Add
  <2>3. /\ TableOK(placed) /\ Len(placed) \in Nat /\ Len(placed) >= Len(es)
        /\ i \in DOMAIN placed /\ placed[i].key = k /\ EntryOK(placed[i])
    <3>1. /\ TableOK(placed) /\ Len(placed) \in Nat /\ Len(placed) >= Len(es)
          /\ Frag!Of(k, placed) # {}
      BY <1>3, <1>4, <1>6, <2>1, TrackedPlace
    <3>2. QED BY <2>1, <3>1, TrackedOf
  <2>4. created' \in Nat /\ created' = Len(placed) + expired' + done'
    BY <1>3, <1>4, <2>2, <2>3, SMTT(15)
  <2>5. /\ TableOK(entries') /\ Len(entries') = Len(placed)
    <3>1. CASE Len(placed[i].frags) >= MaxFrags
      BY <2>2, <2>3, <3>1
    <3>2. CASE ~(Len(placed[i].frags) >= MaxFrags)
      <4>1. Len(placed[i].frags) \in Nat
        BY <2>3 DEF EntryOK, Tracking
      <4>2. EntryOK(r) /\ r.key = placed[i].key
        BY <1>0, <1>4, <2>1, <2>3, <3>2, <4>1, Recorded
      <4>3. QED BY <2>2, <2>3, <3>2, <4>2, TrackedReplace
    <3>3. QED BY <3>1, <3>2
  <2>6. reassembled' \in Nat /\ dropped' \in Nat
    BY <1>4, <2>2
  <2>7. created' = Len(entries') + expired' + done'
    BY <2>4, <2>5
  <2>8. adds' \in Nat /\ now' \in Nat
    BY <1>2, <1>4
  <2>9. QED BY <1>3, <2>4, <2>5, <2>6, <2>7, <2>8, Zenon DEF FragInv
<1>7. QED BY <1>5, <1>6

LEMMA FragStep == FragInv /\ [Next]_vars => FragInv'
<1> SUFFICES ASSUME FragInv, [Next]_vars PROVE FragInv'
  OBVIOUS
<1>1. ASSUME NEW t, Frag!Expire(t) PROVE FragInv'
  <2>1. /\ Frag!CountExpired(t) /\ entries' = Frag!Swept(t)
        /\ reassembled' = reassembled /\ dropped' = dropped /\ now' = now
        /\ adds' = adds /\ created' = created
    BY <1>1 DEF Frag!Expire
  <2>2. QED BY <2>1, SweepCounted DEF FragInv
<1>2. ASSUME NEW k \in Keys, Frag!RemoveEntry(k) PROVE FragInv'
  <2>1. PICK i : i = Frag!Min(Frag!Of(k, entries))
    OBVIOUS
  <2>2. TableOK(entries) /\ Frag!Of(k, entries) # {}
    BY <1>2 DEF FragInv, Frag!RemoveEntry
  <2>3. i \in DOMAIN entries /\ Len(entries) \in Nat
    BY <2>1, <2>2, TrackedOf
  <2>4. /\ entries' = SwapOut(entries, i) /\ done' = done + 1
        /\ UNCHANGED <<reassembled, dropped, expired, now, adds, created>>
    BY <1>2, <2>1, FragOps DEF Frag!RemoveEntry
  <2>5. TableOK(entries') /\ Len(entries') = Len(entries) - 1
    BY <2>2, <2>3, <2>4, TrackedFree
  <2>6. QED BY <2>3, <2>4, <2>5 DEF FragInv
<1>3. CASE Frag!Tick
  BY <1>3 DEF Frag!Tick, FragInv
<1>4. CASE Frag!Next
  BY <1>1, <1>2, <1>3, <1>4, FragAdd DEF Frag!Next
<1>5. CASE UNCHANGED fragVars
  BY <1>5 DEF fragVars, FragInv
<1>6. QED BY <1>4, <1>5 DEF Next, Only, vars

\* What the invariant says of the table.
LEMMA FragImplied ==
    FragInv => /\ Frag!TypeOK /\ Frag!EntriesAccounted /\ Frag!CompleteIsWhole
<1> SUFFICES ASSUME FragInv
             PROVE  Frag!TypeOK /\ Frag!EntriesAccounted /\ Frag!CompleteIsWhole
  OBVIOUS
<1>1. /\ entries \in Seq(Tracking) /\ Len(entries) <= TrackedMax
      /\ \A i \in DOMAIN entries : EntryOK(entries[i])
      /\ \A i, j \in DOMAIN entries : entries[i].key = entries[j].key => i = j
  BY DEF FragInv, TableOK
<1>2. Frag!TypeOK
  BY <1>1 DEF Frag!TypeOK, FragInv, EntryOK, Tracking
<1>3. ASSUME NEW k \in Keys
      PROVE  Frag!Cardinality(Frag!Of(k, entries)) <= 1
  <2>1. CASE Frag!Of(k, entries) = {}
    <3>1. Cardinality({}) = 0
      BY FS_EmptySet
    <3>2. QED BY <2>1, <3>1, FragOps
  <2>2. CASE Frag!Of(k, entries) # {}
    <3>1. PICK i : Frag!Of(k, entries) = {i}
      BY <1>1, <2>2 DEF Frag!Of
    <3>2. Cardinality({i}) = 1
      BY FS_Singleton
    <3>3. QED BY <3>1, <3>2, FragOps
  <2>3. QED BY <2>1, <2>2
<1>4. Frag!EntriesAccounted
  BY <1>3 DEF Frag!EntriesAccounted, FragInv
<1>5. Frag!CompleteIsWhole
  BY <1>1, FragOps DEF Frag!CompleteIsWhole, EntryOK
<1>6. QED BY <1>2, <1>4, <1>5

\* A sweep of fragtrack.c leaves what is not stale.
LEMMA FragSweeps ==
    FragInv => [\A t \in now .. now + 1 : Frag!Expire(t) =>
                   Frag!ToSet(entries') = {e \in Frag!ToSet(entries) : ~Frag!IsStale(e, t)}]_(Frag!vars)
<1> SUFFICES ASSUME FragInv, NEW t, Frag!Expire(t)
             PROVE  Frag!ToSet(entries') = {e \in Frag!ToSet(entries) : ~Frag!IsStale(e, t)}
  OBVIOUS
<1>1. Frag!CountExpired(t) /\ entries' = Frag!Swept(t)
  BY DEF Frag!Expire
<1>2. QED BY <1>1, SweepCounted, FragOps

-----------------------------------------------------------------------------
\* tcpreasm.c, with the names it takes from the library.
LEMMA TcpOps ==
    /\ \A S : Tcp!Min(S) = Min(S) /\ Tcp!Cardinality(S) = Cardinality(S)
    /\ \A s, i, e : Tcp!InsertAt(s, i, e) = InsertAt(s, i, e)
    /\ \A f, S : Tcp!SumFunctionOnSet(f, S) = SumFunctionOnSet(f, S)
<1>1. \A S : Tcp!Min(S) = Min(S) /\ Tcp!Cardinality(S) = Cardinality(S)
  BY DEF Tcp!Min, Min, Tcp!Cardinality, Cardinality
<1>2. \A s, i, e : Tcp!InsertAt(s, i, e) = InsertAt(s, i, e)
  BY DEF Tcp!InsertAt, InsertAt
<1>3. \A f, S : Tcp!SumFunctionOnSet(f, S) = SumFunctionOnSet(f, S)
  BY Zenon DEF Tcp!SumFunctionOnSet, SumFunctionOnSet, Tcp!FoldFunctionOnSet,
               FoldFunctionOnSet, Tcp!MapThenFoldSet, MapThenFoldSet
<1>4. QED BY <1>1, <1>2, <1>3

LEMMA TcpConstants ==
    /\ MaxStreams \in Nat \ {0} /\ MaxSegs \in Nat \ {0} /\ SeqSpace \in Nat \ {0}
    /\ NoKey \notin Keys /\ Offsets \in SUBSET Nat /\ First \in [Keys -> Nat]
    /\ Tcp!Slots = 1 .. MaxStreams /\ Tcp!Slots \in SUBSET Nat /\ 0 \notin Tcp!Slots
    /\ IsFiniteSet(Tcp!Slots)
    /\ \A k \in Keys, off \in Offsets : Tcp!Number(k, off) \in Nat
<1>1. /\ MaxStreams \in Nat \ {0} /\ MaxSegs \in Nat \ {0} /\ SeqSpace \in Nat \ {0}
      /\ NoKey \notin Keys /\ Offsets \in SUBSET Nat /\ First \in [Keys -> Nat]
  BY ReassemblyAssumption, Zenon DEF Tcp!TcpReasmAssumption
<1>2. IsFiniteSet(1 .. MaxStreams)
  BY <1>1, FS_Interval
<1>3. \A k \in Keys, off \in Offsets : First[k] + off \in Nat
  BY <1>1
<1>4. \A n \in Nat, m \in Nat \ {0} : n % m \in Nat
  OBVIOUS
<1>5. \A k \in Keys, off \in Offsets : Tcp!Number(k, off) \in Nat
  BY <1>1, <1>3, <1>4 DEF Tcp!Number
<1>6. QED BY <1>1, <1>2, <1>5 DEF Tcp!Slots

\* A list with an element more.
LEMMA InsertAtIs ==
    ASSUME NEW S, NEW s \in Seq(S), NEW e \in S, NEW m \in Nat, m <= Len(s)
    PROVE  /\ InsertAt(s, m + 1, e) \in Seq(S)
           /\ Len(InsertAt(s, m + 1, e)) = Len(s) + 1
           /\ \A i \in 1 .. Len(s) + 1 :
                 InsertAt(s, m + 1, e)[i] = IF i <= m THEN s[i]
                                            ELSE IF i = m + 1 THEN e ELSE s[i - 1]
<1>1. PICK n \in Nat : n = Len(s) /\ m <= n
  OBVIOUS
<1>2. PICK a, b : a = SubSeq(s, 1, m) /\ b = SubSeq(s, m + 1, n)
  OBVIOUS
<1>3. \A i \in 1 .. n : s[i] \in S
  BY <1>1
<1>4. a \in Seq(S) /\ Len(a) = m /\ \A i \in 1 .. m : a[i] = s[i]
  BY <1>1, <1>2, <1>3, SubSeqProperties
<1>5. b \in Seq(S) /\ Len(b) = n - m /\ \A i \in 1 .. n - m : b[i] = s[m + i]
  BY <1>1, <1>2, <1>3, SubSeqProperties
<1>6. PICK c : c = a \o <<e>>
  OBVIOUS
<1>7. c \in Seq(S) /\ Len(c) = m + 1 /\ \A i \in 1 .. m + 1 : c[i] = IF i <= m THEN s[i] ELSE e
  <2>1. <<e>> \in Seq(S) /\ Len(<<e>>) = 1 /\ <<e>>[1] = e
    OBVIOUS
  <2>2. /\ c \in Seq(S) /\ Len(c) = m + 1
        /\ \A i \in 1 .. m + 1 : c[i] = IF i <= m THEN a[i] ELSE <<e>>[i - m]
    BY <1>4, <1>6, <2>1, ConcatProperties
  <2>3. QED BY <1>4, <2>1, <2>2
<1>8. PICK r : r = c \o b
  OBVIOUS
<1>9. /\ r \in Seq(S) /\ Len(r) = n + 1
      /\ \A i \in 1 .. n + 1 : r[i] = IF i <= m + 1 THEN c[i] ELSE b[i - (m + 1)]
  <2>1. /\ r \in Seq(S) /\ Len(r) = Len(c) + Len(b)
        /\ \A i \in 1 .. Len(c) + Len(b) : r[i] = IF i <= Len(c) THEN c[i] ELSE b[i - Len(c)]
    BY <1>5, <1>7, <1>8, ConcatProperties
  <2>2. Len(c) = m + 1 /\ Len(c) + Len(b) = n + 1
    BY <1>1, <1>5, <1>7
  <2>3. QED BY <2>1, <2>2
<1>10. InsertAt(s, m + 1, e) = r
  <2>1. (m + 1) - 1 = m
    OBVIOUS
  <2>2. QED BY <1>1, <1>2, <1>6, <1>8, <2>1, Zenon DEF InsertAt
<1>11. \A i \in 1 .. n + 1 : r[i] = IF i <= m THEN s[i] ELSE IF i = m + 1 THEN e ELSE s[i - 1]
  <2> SUFFICES ASSUME NEW i \in 1 .. n + 1
               PROVE  r[i] = IF i <= m THEN s[i] ELSE IF i = m + 1 THEN e ELSE s[i - 1]
    OBVIOUS
  <2>1. r[i] = IF i <= m + 1 THEN c[i] ELSE b[i - (m + 1)]
    BY <1>9
  <2>2. CASE i <= m + 1
    BY <1>7, <2>1, <2>2
  <2>3. CASE ~(i <= m + 1)
    <3>1. i - (m + 1) \in 1 .. n - m /\ m + (i - (m + 1)) = i - 1
      BY <1>1, <2>3
    <3>2. b[i - (m + 1)] = s[i - 1]
      BY <1>5, <3>1
    <3>3. QED BY <2>1, <2>3, <3>2
  <2>4. QED BY <2>2, <2>3
<1>12. QED BY <1>1, <1>9, <1>10, <1>11

Segment == [seq : Nat, key : Keys, off : Offsets]
Sorted(segs) == \A i, j \in DOMAIN segs : i < j => segs[i].seq <= segs[j].seq

\* A segment goes where it belongs: before it the smaller numbers, after it
\* the others.
LEMMA Inserted ==
    ASSUME NEW segs \in Seq(Segment), Sorted(segs), NEW seg \in Segment
    PROVE  /\ Tcp!Insert(segs, seg) \in Seq(Segment) /\ Len(segs) \in Nat
           /\ Len(Tcp!Insert(segs, seg)) = Len(segs) + 1
           /\ Sorted(Tcp!Insert(segs, seg))
           /\ \A i \in DOMAIN Tcp!Insert(segs, seg) :
                 \/ Tcp!Insert(segs, seg)[i] = seg
                 \/ \E j \in DOMAIN segs : Tcp!Insert(segs, seg)[i] = segs[j]
<1>1. PICK n \in Nat : n = Len(segs) /\ DOMAIN segs = 1 .. n
  OBVIOUS
<1>2. PICK N : N = {i \in 1 .. n + 1 : i = n + 1 \/ ~(segs[i].seq < seg.seq)}
  OBVIOUS
<1>3. PICK l \in N : \A i \in N : l <= i
  <2>1. N \in SUBSET Nat /\ N # {}
    <3>1. n + 1 \in 1 .. n + 1 /\ 1 .. n + 1 \in SUBSET Nat
      OBVIOUS
    <3>2. N \in SUBSET (1 .. n + 1) /\ n + 1 \in N
      BY <1>2, <3>1, Zenon
    <3>3. QED BY <3>1, <3>2, Zenon
  <2>2. QED BY <2>1, Least
<1>4. PICK m \in Nat : l = m + 1 /\ m <= n
  BY <1>2, <1>3
<1>5. \A i \in 1 .. n : segs[i].seq \in Nat /\ segs[i] \in Segment
  <2>1. \A i \in 1 .. n : segs[i] \in Segment
    BY <1>1
  <2>2. \A x \in Segment : x.seq \in Nat
    BY DEF Segment
  <2>3. QED BY <2>1, <2>2
<1>6. seg.seq \in Nat
  BY DEF Segment
<1>7. \A i \in 1 .. m : segs[i].seq < seg.seq
  BY <1>2, <1>3, <1>4
<1>8. \A i \in m + 1 .. n : seg.seq <= segs[i].seq
  <2>1. CASE m = n
    BY <2>1
  <2>2. CASE m # n
    <3>1. seg.seq <= segs[m + 1].seq /\ m + 1 \in 1 .. n
      BY <1>2, <1>3, <1>4, <1>5, <1>6, <2>2
    <3>2. \A i \in m + 1 .. n : i \in 1 .. n /\ segs[m + 1].seq <= segs[i].seq
      BY <1>1, <1>4, <1>5, <3>1 DEF Sorted
    <3>3. QED BY <1>5, <1>6, <3>1, <3>2
  <2>3. QED BY <2>1, <2>2
<1>9. PICK B : B = {i \in DOMAIN segs : \A j \in 1 .. i : segs[j].seq < seg.seq}
  OBVIOUS
<1>10. B = 1 .. m
  <2>1. \A i \in 1 .. m : i \in B
    BY <1>1, <1>4, <1>7, <1>9
  <2>2. ASSUME NEW i \in B, i \notin 1 .. m PROVE FALSE
    <3>1. i \in 1 .. n /\ m + 1 \in 1 .. i /\ m + 1 \in 1 .. n
      BY <1>1, <1>4, <1>9, <2>2
    <3>2. segs[m + 1].seq < seg.seq
      BY <1>9, <3>1
    <3>3. seg.seq <= segs[m + 1].seq
      BY <1>4, <1>8, <3>1
    <3>4. QED BY <1>5, <1>6, <3>1, <3>2, <3>3
  <2>3. QED BY <2>1, <2>2
<1>11. Cardinality(B) = m
  BY <1>4, <1>10, FS_Interval
<1>12. PICK r : r = Tcp!Insert(segs, seg)
  OBVIOUS
<1>13. r = InsertAt(segs, m + 1, seg)
  <2>1. r = Tcp!InsertAt(segs, Tcp!Cardinality(B) + 1, seg)
    BY <1>9, <1>12, Zenon DEF Tcp!Insert
  <2>2. QED BY <1>11, <2>1, TcpOps
<1>14. /\ r \in Seq(Segment) /\ Len(r) = n + 1 /\ DOMAIN r = 1 .. n + 1
       /\ \A i \in 1 .. n + 1 : r[i] = IF i <= m THEN segs[i]
                                       ELSE IF i = m + 1 THEN seg ELSE segs[i - 1]
  <2>1. m <= Len(segs)
    BY <1>1, <1>4
  <2>2. /\ r \in Seq(Segment) /\ Len(r) = Len(segs) + 1
        /\ \A i \in 1 .. Len(segs) + 1 : r[i] = IF i <= m THEN segs[i]
                                       ELSE IF i = m + 1 THEN seg ELSE segs[i - 1]
    <3>1. /\ InsertAt(segs, m + 1, seg) \in Seq(Segment)
          /\ Len(InsertAt(segs, m + 1, seg)) = Len(segs) + 1
          /\ \A i \in 1 .. Len(segs) + 1 :
                InsertAt(segs, m + 1, seg)[i] = IF i <= m THEN segs[i]
                                                ELSE IF i = m + 1 THEN seg ELSE segs[i - 1]
      BY <2>1, InsertAtIs
    <3>2. QED BY <1>13, <3>1
  <2>3. DOMAIN r = 1 .. Len(r)
    BY <2>2
  <2>4. Len(segs) = n
    BY <1>1
  <2>5. QED BY <2>2, <2>3, <2>4, SMTT(15)
<1>15. \A i \in DOMAIN r : r[i] = seg \/ \E j \in DOMAIN segs : r[i] = segs[j]
  <2> SUFFICES ASSUME NEW i \in 1 .. n + 1, r[i] # seg
               PROVE  \E j \in 1 .. n : r[i] = segs[j]
    BY <1>1, <1>14
  <2>1. CASE i <= m
    BY <1>4, <1>14, <2>1
  <2>2. CASE ~(i <= m)
    <3>1. r[i] = segs[i - 1] /\ i - 1 \in 1 .. n
      BY <1>4, <1>14, <2>2
    <3>2. QED BY <3>1
  <2>3. QED BY <2>1, <2>2
<1>16. Sorted(r)
  <2> SUFFICES ASSUME NEW i \in 1 .. n + 1, NEW j \in 1 .. n + 1, i < j
               PROVE  r[i].seq <= r[j].seq
    BY <1>14 DEF Sorted
  <2>1. \A a, b \in 1 .. n : a < b => segs[a].seq <= segs[b].seq
    BY <1>1 DEF Sorted
  <2>2. CASE j <= m
    BY <1>4, <1>14, <2>1, <2>2
  <2>3. CASE j = m + 1
    BY <1>4, <1>5, <1>6, <1>7, <1>14, <2>3
  <2>4. CASE j > m + 1
    <3>1. r[j] = segs[j - 1] /\ j - 1 \in m + 1 .. n /\ j - 1 \in 1 .. n
      BY <1>4, <1>14, <2>4
    <3>2. CASE i <= m
      <4>1. r[i] = segs[i] /\ i \in 1 .. n /\ i < j - 1
        BY <1>4, <1>14, <2>4, <3>2
      <4>2. QED BY <2>1, <3>1, <4>1
    <3>3. CASE i = m + 1
      BY <1>4, <1>8, <1>14, <3>1, <3>3
    <3>4. CASE i > m + 1
      BY <1>4, <1>14, <2>1, <2>4, <3>1, <3>4
    <3>5. QED BY <1>4, <3>2, <3>3, <3>4
  <2>5. QED BY <1>4, <2>2, <2>3, <2>4
<1>17. QED BY <1>1, <1>12, <1>14, <1>15, <1>16

Stream == [key : Keys \cup {NoKey}, in_use : BOOLEAN, last_seen : Nat, segs : Seq(Segment)]

\* A stream holds only its own segments, sorted; one not in use holds none.
StreamOK(st) ==
    /\ st \in Stream /\ Len(st.segs) <= MaxSegs /\ Sorted(st.segs)
    /\ \A i \in DOMAIN st.segs : /\ st.segs[i].key = st.key
                                 /\ st.segs[i].seq = Tcp!Number(st.key, st.segs[i].off)
    /\ IF st.in_use THEN st.key \in Keys ELSE st.segs = <<>>

\* The streams and the handles on them.
StreamsOK(strs, hnd) ==
    /\ strs \in [Tcp!Slots -> Stream] /\ \A s \in Tcp!Slots : StreamOK(strs[s])
    /\ \A s, t \in Tcp!Slots :
          strs[s].in_use /\ strs[t].in_use /\ strs[s].key = strs[t].key => s = t
    /\ hnd \in [Keys -> Tcp!Slots \cup {0}]
    /\ \A k \in Keys : hnd[k] # 0 => strs[hnd[k]].in_use /\ strs[hnd[k]].key = k

\* The slots in use, and how many segments those in S hold.
Using(strs) == {s \in Tcp!Slots : strs[s].in_use}
Held(strs, S) == SumFunctionOnSet([s \in Tcp!Slots |-> Len(strs[s].segs)], S)

\* A stream changes, and no other.
LEMMA HeldChange ==
    ASSUME NEW strs \in [Tcp!Slots -> Stream], NEW s \in Tcp!Slots, NEW st \in Stream
    PROVE  /\ Held(strs, Tcp!Slots) \in Nat
           /\ Held([strs EXCEPT ![s] = st], Tcp!Slots) + Len(strs[s].segs)
                  = Held(strs, Tcp!Slots) + Len(st.segs)
<1>1. PICK n : n = [strs EXCEPT ![s] = st]
  OBVIOUS
<1>2. PICK f, g : /\ f = [t \in Tcp!Slots |-> Len(strs[t].segs)]
                  /\ g = [t \in Tcp!Slots |-> Len(n[t].segs)]
  OBVIOUS
<1>3. \A t \in Tcp!Slots : n[t] = (IF t = s THEN st ELSE strs[t]) /\ n[t] \in Stream /\ strs[t] \in Stream
  BY <1>1
<1>4. \A x \in Stream : Len(x.segs) \in Nat
  BY DEF Stream
<1>5. \A t \in Tcp!Slots : f[t] \in Nat /\ g[t] \in Nat /\ (t # s => g[t] = f[t])
  BY <1>2, <1>3, <1>4
<1>6. f[s] = Len(strs[s].segs) /\ g[s] = Len(st.segs)
  BY <1>2, <1>3
<1>7. PICK R : R = Tcp!Slots \ {s}
  OBVIOUS
<1>8. IsFiniteSet(Tcp!Slots) /\ IsFiniteSet(R) /\ \A t \in R : f[t] \in Nat /\ g[t] = f[t]
  BY <1>5, <1>7, TcpConstants, FS_Subset
<1>9. SumFunctionOnSet(f, R) = SumFunctionOnSet(g, R) /\ SumFunctionOnSet(f, R) \in Nat
  BY <1>8, SumSame, SumRemove
<1>10. /\ SumFunctionOnSet(f, Tcp!Slots) \in Nat
       /\ SumFunctionOnSet(f, Tcp!Slots) = f[s] + SumFunctionOnSet(f, R)
  BY <1>5, <1>7, <1>8, SumRemove
<1>11. SumFunctionOnSet(g, Tcp!Slots) = g[s] + SumFunctionOnSet(g, R)
  BY <1>5, <1>7, <1>8, SumRemove
<1>12. Held(strs, Tcp!Slots) = SumFunctionOnSet(f, Tcp!Slots) /\ Held(n, Tcp!Slots) = SumFunctionOnSet(g, Tcp!Slots)
  BY <1>2 DEF Held
<1>13. PICK a, b, c : a = f[s] /\ b = g[s] /\ c = SumFunctionOnSet(f, R)
  OBVIOUS
<1>14. /\ a \in Nat /\ b \in Nat /\ c \in Nat
       /\ Held(strs, Tcp!Slots) = a + c /\ Held(n, Tcp!Slots) = b + c
  BY <1>5, <1>9, <1>10, <1>11, <1>12, <1>13
<1>15. \A x, y, z \in Nat : (y + z) + x = (x + z) + y
  OBVIOUS
<1>16. QED BY <1>1, <1>6, <1>10, <1>12, <1>13, <1>14, <1>15

\* The streams and the handles once those in S are freed.
Freeing(strs, S) == [s \in Tcp!Slots |-> IF s \in S THEN Tcp!Emptied(strs[s]) ELSE strs[s]]
Dropping(hnd, S) == [k \in Keys |-> IF hnd[k] \in S THEN 0 ELSE hnd[k]]

\* Freeing streams leaves the others as they are.
LEMMA StreamsFreed ==
    ASSUME NEW strs, NEW hnd, StreamsOK(strs, hnd), NEW S \in SUBSET Tcp!Slots
    PROVE  /\ StreamsOK(Freeing(strs, S), Dropping(hnd, S))
           /\ Using(Freeing(strs, S)) = Using(strs) \ S
           /\ Held(strs, S) \in Nat /\ Held(Freeing(strs, S), Tcp!Slots) \in Nat
           /\ Held(strs, Tcp!Slots) = Held(strs, S) + Held(Freeing(strs, S), Tcp!Slots)
<1> DEFINE n == Freeing(strs, S)
           h == Dropping(hnd, S)
<1>n. n = [s \in Tcp!Slots |-> IF s \in S THEN Tcp!Emptied(strs[s]) ELSE strs[s]]
  BY DEF Freeing
<1>h. h = [k \in Keys |-> IF hnd[k] \in S THEN 0 ELSE hnd[k]]
  BY DEF Dropping
<1> HIDE DEF n, h
<1>0. MaxSegs \in Nat
  BY TcpConstants
<1>1. \A s \in Tcp!Slots : strs[s] \in Stream /\ StreamOK(strs[s])
  BY DEF StreamsOK
<1>2. ASSUME NEW st, StreamOK(st)
      PROVE  /\ StreamOK(Tcp!Emptied(st)) /\ ~Tcp!Emptied(st).in_use
             /\ Tcp!Emptied(st).segs = <<>> /\ Tcp!Emptied(st).key = st.key
  <2>1. PICK e : e = Tcp!Emptied(st)
    OBVIOUS
  <2>2. e \in Stream /\ e.key = st.key /\ e.in_use = FALSE /\ e.segs = <<>>
    <3>1. e = [[st EXCEPT !.segs = <<>>] EXCEPT !.in_use = FALSE]
      BY <2>1 DEF Tcp!Emptied
    <3>2. st \in Stream /\ <<>> \in Seq(Segment)
      BY <1>2 DEF StreamOK
    <3>3. QED BY <3>1, <3>2 DEF Stream
  <2>3. StreamOK(e)
    BY <1>0, <2>2 DEF StreamOK, Sorted
  <2>4. QED BY <2>1, <2>2, <2>3
<1>3. \A s \in Tcp!Slots : /\ StreamOK(n[s]) /\ n[s].key = strs[s].key
                           /\ n[s].in_use <=> strs[s].in_use /\ s \notin S
                           /\ n[s].segs = IF s \in S THEN <<>> ELSE strs[s].segs
  BY <1>n, <1>1, <1>2
<1>4. n \in [Tcp!Slots -> Stream]
  <2>1. \A s \in Tcp!Slots : n[s] \in Stream
    BY <1>3 DEF StreamOK
  <2>2. DOMAIN n = Tcp!Slots /\ n = [s \in Tcp!Slots |-> n[s]]
    BY <1>n
  <2>3. QED BY <2>1, <2>2
<1>5. \A s, t \in Tcp!Slots : n[s].in_use /\ n[t].in_use /\ n[s].key = n[t].key => s = t
  BY <1>3 DEF StreamsOK
<1>6. h \in [Keys -> Tcp!Slots \cup {0}] /\ hnd \in [Keys -> Tcp!Slots \cup {0}]
  BY <1>h DEF StreamsOK
<1>7. \A k \in Keys : h[k] # 0 => n[h[k]].in_use /\ n[h[k]].key = k
  <2> SUFFICES ASSUME NEW k \in Keys, h[k] # 0 PROVE n[h[k]].in_use /\ n[h[k]].key = k
    OBVIOUS
  <2>1. h[k] = hnd[k] /\ hnd[k] \notin S /\ hnd[k] \in Tcp!Slots
    BY <1>6, <1>h
  <2>2. strs[hnd[k]].in_use /\ strs[hnd[k]].key = k
    BY <2>1 DEF StreamsOK
  <2>3. QED BY <1>3, <2>1, <2>2
<1>8. StreamsOK(n, h)
  BY <1>3, <1>4, <1>5, <1>6, <1>7 DEF StreamsOK
<1>9. Using(n) = Using(strs) \ S
  BY <1>3 DEF Using
<1>10. PICK f, g : /\ f = [t \in Tcp!Slots |-> Len(strs[t].segs)]
                   /\ g = [t \in Tcp!Slots |-> Len(n[t].segs)]
  OBVIOUS
<1>11. \A t \in Tcp!Slots : f[t] \in Nat /\ g[t] = IF t \in S THEN 0 ELSE f[t]
  <2>1. \A x \in Stream : Len(x.segs) \in Nat
    BY DEF Stream
  <2>2. Len(<<>>) = 0
    OBVIOUS
  <2>3. QED BY <1>1, <1>3, <1>10, <2>1, <2>2
<1>12. PICK R : R = Tcp!Slots \ S
  OBVIOUS
<1>13. IsFiniteSet(Tcp!Slots) /\ IsFiniteSet(R) /\ IsFiniteSet(S)
  BY <1>12, TcpConstants, FS_Subset
<1>14. /\ SumFunctionOnSet(f, Tcp!Slots) = SumFunctionOnSet(f, S) + SumFunctionOnSet(f, R)
       /\ SumFunctionOnSet(f, S) \in Nat /\ SumFunctionOnSet(f, R) \in Nat
  BY <1>11, <1>12, <1>13, SumSplit, SumRemove
<1>15. SumFunctionOnSet(f, R) = SumFunctionOnSet(g, Tcp!Slots)
  <2>1. \A t \in Tcp!Slots : g[t] \in Nat
    BY <1>11
  <2>2. SumFunctionOnSet(g, Tcp!Slots) = SumFunctionOnSet(g, S) + SumFunctionOnSet(g, R)
    BY <1>12, <1>13, <2>1, SumSplit
  <2>3. SumFunctionOnSet(g, R) = SumFunctionOnSet(f, R)
    <3>1. \A t \in R : f[t] \in Nat /\ g[t] = f[t]
      BY <1>11, <1>12
    <3>2. QED BY <1>13, <3>1, SumSame
  <2>4. SumFunctionOnSet(g, S) = 0
    <3>1. \A t \in S : g[t] = 0
      BY <1>11
    <3>2. QED BY <1>13, <3>1, SumZero
  <2>5. QED BY <1>14, <2>2, <2>3, <2>4
<1>16. Held(strs, S) = SumFunctionOnSet(f, S) /\ Held(strs, Tcp!Slots) = SumFunctionOnSet(f, Tcp!Slots)
       /\ Held(n, Tcp!Slots) = SumFunctionOnSet(g, Tcp!Slots)
  BY <1>10 DEF Held
<1>17. QED BY <1>8, <1>9, <1>14, <1>15, <1>16 DEF n, h

\* The inductive invariant of tcpreasm.c: the streams are right, every segment
\* is on a list or freed, and stream_count is off by what owners freed.
TcpInv ==
    /\ StreamsOK(streams, handle)
    /\ stream_count \in Nat /\ dropped_ooo \in Nat /\ streams_expired \in Nat /\ clock \in Nat
    /\ calls \in Nat /\ allocated \in Nat /\ freed \in Nat /\ unreported \in Nat
    /\ allocated = freed + Held(streams, Tcp!Slots)
    /\ stream_count = Cardinality(Using(streams)) + unreported

LEMMA UsingFinite ==
    ASSUME NEW strs
    PROVE  IsFiniteSet(Using(strs)) /\ Cardinality(Using(strs)) \in Nat
<1>1. Using(strs) \in SUBSET Tcp!Slots
  BY DEF Using
<1>2. QED BY <1>1, TcpConstants, FS_Subset, FS_CardinalityType

LEMMA TcpInit == Init => TcpInv
<1> SUFFICES ASSUME Init PROVE TcpInv
  OBVIOUS
<1>1. /\ streams = [s \in Tcp!Slots |-> Tcp!Zeroed] /\ handle = [k \in Keys |-> 0]
      /\ stream_count = 0 /\ dropped_ooo = 0 /\ streams_expired = 0 /\ clock = 0
      /\ calls = 0 /\ allocated = 0 /\ freed = 0 /\ unreported = 0
  BY DEF Init, Tcp!Init
<1>2. StreamOK(Tcp!Zeroed) /\ Tcp!Zeroed.in_use = FALSE /\ Len(Tcp!Zeroed.segs) = 0
  BY TcpConstants DEF StreamOK, Stream, Sorted, Tcp!Zeroed
<1>3. \A s \in Tcp!Slots : streams[s] = Tcp!Zeroed
  BY <1>1
<1>4. streams \in [Tcp!Slots -> Stream]
  BY <1>1, <1>2 DEF StreamOK
<1>5. StreamsOK(streams, handle)
  BY <1>1, <1>2, <1>3, <1>4 DEF StreamsOK
<1>6. Using(streams) = {}
  BY <1>2, <1>3 DEF Using
<1>7. Cardinality(Using(streams)) = 0
  BY <1>6, FS_EmptySet
<1>8. Held(streams, Tcp!Slots) = 0
  <2>1. PICK f : f = [s \in Tcp!Slots |-> Len(streams[s].segs)]
    OBVIOUS
  <2>2. \A s \in Tcp!Slots : f[s] = 0
    BY <1>2, <1>3, <2>1
  <2>3. SumFunctionOnSet(f, Tcp!Slots) = 0
    BY <2>2, TcpConstants, SumZero
  <2>4. QED BY <2>1, <2>3 DEF Held
<1>9. QED BY <1>1, <1>5, <1>7, <1>8 DEF TcpInv

\* tcpreasm_get_stream: the key's stream, or a slot that is not in use, zeroed.
LEMMA TcpGet ==
    ASSUME TcpInv, NEW k \in Keys, Tcp!GetStream(k)
    PROVE  TcpInv'
<1>0. /\ StreamsOK(streams, handle) /\ streams \in [Tcp!Slots -> Stream]
      /\ handle \in [Keys -> Tcp!Slots \cup {0}] /\ Tcp!Slots \in SUBSET Nat
      /\ \A s \in Tcp!Slots : StreamOK(streams[s])
  BY TcpConstants DEF TcpInv, StreamsOK
<1>1. CASE Tcp!Of(k) # {}
  <2>1. PICK s : s = Tcp!Min(Tcp!Of(k))
    OBVIOUS
  <2>2. Tcp!Of(k) \in SUBSET Nat
    BY <1>0 DEF Tcp!Of, Tcp!InUse
  <2>3. s \in Tcp!Of(k)
    BY <1>1, <2>1, <2>2, MinIsIn, TcpOps
  <2>4. s \in Tcp!Slots /\ streams[s].in_use /\ streams[s].key = k
    BY <2>3 DEF Tcp!Of, Tcp!InUse
  <2>5. /\ handle' = [handle EXCEPT ![k] = s]
        /\ UNCHANGED <<streams, stream_count, dropped_ooo, streams_expired, clock, calls,
                       allocated, freed, unreported>>
    BY <1>1, <2>1, Zenon DEF Tcp!GetStream
  <2>6. StreamsOK(streams, [handle EXCEPT ![k] = s])
    BY <1>0, <2>4 DEF StreamsOK
  <2>7. QED BY <2>5, <2>6 DEF TcpInv
<1>2. CASE Tcp!Of(k) = {}
  <2>1. PICK s : s = Tcp!Min(Tcp!Idle)
    OBVIOUS
  <2>2. PICK st : st = [Tcp!Zeroed EXCEPT !.key = k, !.in_use = TRUE]
    OBVIOUS
  <2>3. /\ Tcp!Idle # {} /\ calls' = calls + 1 /\ handle' = [handle EXCEPT ![k] = s]
        /\ streams' = [streams EXCEPT ![s] = st] /\ stream_count' = stream_count + 1
        /\ UNCHANGED <<dropped_ooo, streams_expired, clock, allocated, freed, unreported>>
    BY <1>2, <2>1, <2>2, Zenon DEF Tcp!GetStream
  <2>4. s \in Tcp!Slots /\ ~streams[s].in_use
    <3>1. Tcp!Idle \in SUBSET Nat
      BY <1>0 DEF Tcp!Idle
    <3>2. s \in Tcp!Idle
      BY <2>1, <2>3, <3>1, MinIsIn, TcpOps
    <3>3. QED BY <3>2 DEF Tcp!Idle, Tcp!InUse
  <2>5. /\ st \in Stream /\ st.key = k /\ st.in_use = TRUE /\ st.segs = <<>> /\ Len(st.segs) = 0
    <3>1. /\ st.key = k /\ st.in_use = TRUE /\ st.segs = <<>> /\ st.last_seen = 0
          /\ st = [key |-> k, in_use |-> TRUE, last_seen |-> 0, segs |-> <<>>]
      BY <2>2 DEF Tcp!Zeroed
    <3>2. <<>> \in Seq(Segment) /\ Len(<<>>) = 0
      OBVIOUS
    <3>3. QED BY <3>1, <3>2 DEF Stream
  <2>6. StreamOK(st)
    BY <2>5, TcpConstants DEF StreamOK, Sorted
  <2>7. Len(streams[s].segs) = 0
    BY <1>0, <2>4 DEF StreamOK
  <2>8. PICK n, h : n = [streams EXCEPT ![s] = st] /\ h = [handle EXCEPT ![k] = s]
    OBVIOUS
  <2>9. /\ n \in [Tcp!Slots -> Stream] /\ h \in [Keys -> Tcp!Slots \cup {0}]
        /\ \A t \in Tcp!Slots : n[t] = IF t = s THEN st ELSE streams[t]
        /\ \A q \in Keys : h[q] = IF q = k THEN s ELSE handle[q]
    BY <1>0, <2>4, <2>5, <2>8
  <2>10. \A t \in Tcp!Slots : streams[t].in_use => streams[t].key # k /\ t # s
    BY <1>2, <2>4 DEF Tcp!Of, Tcp!InUse
  <2>11. StreamsOK(n, h)
    <3>1. \A t \in Tcp!Slots : StreamOK(n[t])
      BY <1>0, <2>6, <2>9
    <3>2. \A t, u \in Tcp!Slots : n[t].in_use /\ n[u].in_use /\ n[t].key = n[u].key => t = u
      BY <1>0, <2>5, <2>9, <2>10 DEF StreamsOK
    <3>3. \A q \in Keys : h[q] # 0 => n[h[q]].in_use /\ n[h[q]].key = q
      <4> SUFFICES ASSUME NEW q \in Keys, h[q] # 0 PROVE n[h[q]].in_use /\ n[h[q]].key = q
        OBVIOUS
      <4>1. CASE q = k
        BY <2>4, <2>5, <2>9, <4>1
      <4>2. CASE q # k
        <5>1. h[q] = handle[q] /\ handle[q] \in Tcp!Slots
          BY <1>0, <2>9, <4>2
        <5>2. streams[handle[q]].in_use /\ streams[handle[q]].key = q
          BY <1>0, <5>1 DEF StreamsOK
        <5>3. QED BY <2>9, <2>10, <5>1, <5>2
      <4>3. QED BY <4>1, <4>2
    <3>4. QED BY <2>9, <3>1, <3>2, <3>3 DEF StreamsOK
  <2>12. Using(n) = Using(streams) \cup {s} /\ s \notin Using(streams)
    BY <2>4, <2>5, <2>9 DEF Using
  <2>13. Cardinality(Using(n)) = Cardinality(Using(streams)) + 1
    BY <2>12, UsingFinite, FS_AddElement
  <2>14. Held(n, Tcp!Slots) = Held(streams, Tcp!Slots)
    <3>1. /\ Held(n, Tcp!Slots) + Len(streams[s].segs) = Held(streams, Tcp!Slots) + Len(st.segs)
          /\ Held(streams, Tcp!Slots) \in Nat
      BY <1>0, <2>4, <2>5, <2>8, HeldChange
    <3>2. Held(n, Tcp!Slots) \in Nat
      BY <2>4, <2>9, <2>5, HeldChange
    <3>3. QED BY <2>5, <2>7, <3>1, <3>2
  <2>15. streams' = n /\ handle' = h
    BY <2>3, <2>8
  <2>16. stream_count' = Cardinality(Using(streams')) + unreported'
    <3>1. PICK c \in Nat : c = Cardinality(Using(streams))
      BY UsingFinite
    <3>2. stream_count = c + unreported /\ unreported \in Nat
      BY <3>1 DEF TcpInv
    <3>3. stream_count' = stream_count + 1 /\ unreported' = unreported
      BY <2>3
    <3>4. Cardinality(Using(streams')) = c + 1
      BY <2>13, <2>15, <3>1
    <3>5. QED BY <3>2, <3>3, <3>4
  <2>17. /\ stream_count' \in Nat /\ dropped_ooo' \in Nat /\ streams_expired' \in Nat
         /\ clock' \in Nat /\ calls' \in Nat /\ allocated' \in Nat /\ freed' \in Nat
         /\ unreported' \in Nat
    BY <2>3 DEF TcpInv
  <2>18. allocated' = freed' + Held(streams', Tcp!Slots)
    BY <2>3, <2>14, <2>15 DEF TcpInv
  <2>19. StreamsOK(streams', handle')
    BY <2>11, <2>15
  <2>20. QED BY <2>16, <2>17, <2>18, <2>19 DEF TcpInv
<1>3. QED BY <1>1, <1>2

\* tcpreasm_add_segment: the list takes one more, in its place, if it may.
LEMMA TcpAdd ==
    ASSUME TcpInv, NEW k \in Keys, NEW off \in Offsets, Tcp!AddSegment(k, off)
    PROVE  TcpInv'
<1>0. /\ StreamsOK(streams, handle) /\ streams \in [Tcp!Slots -> Stream]
      /\ handle \in [Keys -> Tcp!Slots \cup {0}]
      /\ \A s \in Tcp!Slots : StreamOK(streams[s])
  BY DEF TcpInv, StreamsOK
<1>1. PICK s : s = handle[k]
  OBVIOUS
<1>2. /\ s # 0 /\ calls' = calls + 1
      /\ UNCHANGED <<stream_count, streams_expired, handle, clock, freed, unreported>>
  BY <1>1 DEF Tcp!AddSegment
<1>3. s \in Tcp!Slots /\ streams[s].in_use /\ streams[s].key = k
  BY <1>0, <1>1, <1>2 DEF StreamsOK
<1>4. PICK st : st = streams[s]
  OBVIOUS
<1>5. /\ st \in Stream /\ st.in_use /\ st.key = k /\ StreamOK(st) /\ st.segs \in Seq(Segment)
      /\ Len(st.segs) \in Nat
  BY <1>0, <1>3, <1>4 DEF Stream
<1>6. CASE Tcp!Full(s)
  <2>1. dropped_ooo' = dropped_ooo + 1 \/ dropped_ooo' = dropped_ooo
    BY <1>1, <1>6 DEF Tcp!AddSegment
  <2>2. streams' = streams /\ allocated' = allocated
    BY <1>1, <1>6 DEF Tcp!AddSegment
  <2>3. QED BY <1>2, <2>1, <2>2 DEF TcpInv
<1>7. CASE ~Tcp!Full(s)
  <2>1. PICK seg : seg = [seq |-> Tcp!Number(k, off), key |-> k, off |-> off]
    OBVIOUS
  <2>2. PICK segs : segs = Tcp!Insert(st.segs, seg)
    OBVIOUS
  <2>3. seg \in Segment /\ seg.key = k /\ seg.seq = Tcp!Number(k, seg.off)
    BY <2>1, TcpConstants DEF Segment
  <2>4. /\ segs \in Seq(Segment) /\ Len(segs) = Len(st.segs) + 1 /\ Sorted(segs)
        /\ \A i \in DOMAIN segs : segs[i] = seg \/ \E j \in DOMAIN st.segs : segs[i] = st.segs[j]
    <3>1. Sorted(st.segs)
      BY <1>5 DEF StreamOK
    <3>2. /\ Tcp!Insert(st.segs, seg) \in Seq(Segment)
          /\ Len(Tcp!Insert(st.segs, seg)) = Len(st.segs) + 1
          /\ Sorted(Tcp!Insert(st.segs, seg))
          /\ \A i \in DOMAIN Tcp!Insert(st.segs, seg) :
                \/ Tcp!Insert(st.segs, seg)[i] = seg
                \/ \E j \in DOMAIN st.segs : Tcp!Insert(st.segs, seg)[i] = st.segs[j]
      BY <1>5, <2>3, <3>1, Inserted
    <3>3. QED BY <2>2, <3>2
  <2>5. PICK ns : ns = [st EXCEPT !.segs = segs]
    OBVIOUS
  <2>6. ns \in Stream /\ ns.key = k /\ ns.in_use /\ ns.segs = segs
    BY <1>5, <2>4, <2>5 DEF Stream
  <2>7. StreamOK(ns)
    <3>1. \A i \in DOMAIN segs : segs[i].key = k /\ segs[i].seq = Tcp!Number(k, segs[i].off)
      BY <1>5, <2>3, <2>4 DEF StreamOK
    <3>2. Len(segs) <= MaxSegs
      BY <1>4, <1>5, <1>7, <2>4, TcpConstants DEF Tcp!Full
    <3>3. QED BY <2>4, <2>6, <3>1, <3>2 DEF StreamOK
  <2>8. streams' = [streams EXCEPT ![s] = ns] /\ allocated' = allocated + 1 /\ dropped_ooo' = dropped_ooo
    <3>1. /\ streams' = [streams EXCEPT ![s].segs =
                             Tcp!Insert(@, [seq |-> Tcp!Number(k, off), key |-> k, off |-> off])]
          /\ allocated' = allocated + 1 /\ dropped_ooo' = dropped_ooo
      BY <1>1, <1>7, Zenon DEF Tcp!AddSegment
    <3>2. streams' = [streams EXCEPT ![s].segs = segs]
      BY <1>4, <2>1, <2>2, <3>1
    <3>3. QED BY <1>0, <1>3, <1>4, <2>5, <3>1, <3>2
  <2>9. \A t \in Tcp!Slots : streams'[t] = IF t = s THEN ns ELSE streams[t]
    BY <1>0, <1>3, <2>8
  <2>10. streams' \in [Tcp!Slots -> Stream]
    BY <1>0, <1>3, <2>6, <2>8
  <2>11. \A t \in Tcp!Slots : streams'[t].key = streams[t].key /\ streams'[t].in_use = streams[t].in_use
    BY <1>4, <1>5, <2>5, <2>9 DEF Stream
  <2>12. StreamsOK(streams', handle')
    <3>1. \A t \in Tcp!Slots : StreamOK(streams'[t])
      BY <1>0, <2>7, <2>9
    <3>2. handle' = handle
      BY <1>2
    <3>3. \A q \in Keys : handle[q] # 0 => handle[q] \in Tcp!Slots
      BY <1>0
    <3>4. QED BY <1>0, <2>10, <2>11, <3>1, <3>2, <3>3 DEF StreamsOK
  <2>13. Using(streams') = Using(streams)
    BY <2>11 DEF Using
  <2>14. Held(streams', Tcp!Slots) = Held(streams, Tcp!Slots) + 1
    <3>1. /\ Held(streams', Tcp!Slots) + Len(st.segs) = Held(streams, Tcp!Slots) + Len(segs)
          /\ Held(streams, Tcp!Slots) \in Nat
      BY <1>0, <1>3, <1>4, <2>6, <2>8, HeldChange
    <3>2. Held(streams', Tcp!Slots) \in Nat
      BY <1>3, <2>6, <2>10, HeldChange
    <3>3. QED BY <1>5, <2>4, <3>1, <3>2
  <2>15. allocated' = freed' + Held(streams', Tcp!Slots)
    <3>1. PICK x : x = Held(streams, Tcp!Slots)
      OBVIOUS
    <3>2. x \in Nat /\ allocated = freed + x /\ freed \in Nat
      BY <1>0, <1>3, <2>6, <3>1, HeldChange DEF TcpInv
    <3>3. QED BY <1>2, <2>8, <2>14, <3>1, <3>2
  <2>16. /\ stream_count' \in Nat /\ dropped_ooo' \in Nat /\ streams_expired' \in Nat
         /\ clock' \in Nat /\ calls' \in Nat /\ allocated' \in Nat /\ freed' \in Nat
         /\ unreported' \in Nat
    BY <1>2, <2>8 DEF TcpInv
  <2>17. stream_count' = Cardinality(Using(streams')) + unreported'
    BY <1>2, <2>13 DEF TcpInv
  <2>18. QED BY <2>12, <2>15, <2>16, <2>17 DEF TcpInv
<1>8. QED BY <1>6, <1>7

\* Freeing streams: what they held is freed, and fewer are in use.
LEMMA TcpFree ==
    ASSUME TcpInv, NEW S \in SUBSET Using(streams), Tcp!FreeAll(S)
    PROVE  /\ StreamsOK(streams', handle') /\ freed' \in Nat
           /\ allocated = freed' + Held(streams', Tcp!Slots)
           /\ Cardinality(S) \in Nat /\ Cardinality(Using(streams')) \in Nat
           /\ Cardinality(Using(streams)) = Cardinality(Using(streams')) + Cardinality(S)
<1>1. PICK n, h : n = Freeing(streams, S) /\ h = Dropping(handle, S)
  OBVIOUS
<1>2. S \in SUBSET Tcp!Slots /\ StreamsOK(streams, handle)
  BY DEF Using, TcpInv
<1>3. /\ StreamsOK(n, h) /\ Using(n) = Using(streams) \ S
      /\ Held(streams, S) \in Nat /\ Held(n, Tcp!Slots) \in Nat
      /\ Held(streams, Tcp!Slots) = Held(streams, S) + Held(n, Tcp!Slots)
  BY <1>1, <1>2, StreamsFreed
<1>4. streams' = n /\ handle' = h /\ freed' = freed + Held(streams, S)
  BY <1>1, TcpOps DEF Tcp!FreeAll, Tcp!Released, Held, Freeing, Dropping
<1>5. allocated = freed' + Held(n, Tcp!Slots) /\ freed' \in Nat
  <2>1. PICK a, b : a = Held(streams, S) /\ b = Held(n, Tcp!Slots)
    OBVIOUS
  <2>2. a \in Nat /\ b \in Nat /\ freed \in Nat /\ allocated = freed + (a + b) /\ freed' = freed + a
    BY <1>3, <1>4, <2>1 DEF TcpInv
  <2>3. QED BY <2>1, <2>2
<1>6. /\ IsFiniteSet(Using(streams)) /\ Cardinality(Using(streams)) \in Nat
      /\ IsFiniteSet(S) /\ Cardinality(S) \in Nat /\ Cardinality(Using(n)) \in Nat
  BY UsingFinite, FS_Subset, FS_CardinalityType
<1>7. Cardinality(Using(n)) = Cardinality(Using(streams)) - Cardinality(S)
  <2>1. Using(streams) \cap S = S
    OBVIOUS
  <2>2. QED BY <1>3, <1>6, <2>1, FS_Difference
<1>8. QED BY <1>3, <1>4, <1>5, <1>6, <1>7

LEMMA TcpStep == TcpInv /\ [Next]_vars => TcpInv'
<1> SUFFICES ASSUME TcpInv, [Next]_vars PROVE TcpInv'
  OBVIOUS
<1>1. ASSUME NEW k \in Keys, Tcp!FreeStream(k) PROVE TcpInv'
  <2>1. PICK S : S = {handle[k]}
    OBVIOUS
  <2>2. /\ handle[k] # 0 /\ calls' = calls + 1 /\ Tcp!FreeAll(S) /\ unreported' = unreported + 1
        /\ UNCHANGED <<stream_count, dropped_ooo, streams_expired, clock, allocated>>
    BY <1>1, <2>1 DEF Tcp!FreeStream
  <2>3. S \in SUBSET Using(streams)
    BY <2>1, <2>2 DEF TcpInv, StreamsOK, Using
  <2>4. Cardinality(S) = 1
    BY <2>1, FS_Singleton
  <2>5. /\ StreamsOK(streams', handle') /\ freed' \in Nat
        /\ allocated = freed' + Held(streams', Tcp!Slots)
        /\ Cardinality(Using(streams')) \in Nat
        /\ Cardinality(Using(streams)) = Cardinality(Using(streams')) + 1
    BY <2>2, <2>3, <2>4, TcpFree
  <2>6. stream_count' = Cardinality(Using(streams')) + unreported'
    <3>1. PICK c, d : c = Cardinality(Using(streams)) /\ d = Cardinality(Using(streams'))
      OBVIOUS
    <3>2. d \in Nat /\ c = d + 1 /\ stream_count = c + unreported /\ unreported \in Nat
      BY <2>5, <3>1 DEF TcpInv
    <3>3. QED BY <2>2, <3>1, <3>2
  <2>7. /\ stream_count' \in Nat /\ dropped_ooo' \in Nat /\ streams_expired' \in Nat
        /\ clock' \in Nat /\ calls' \in Nat /\ allocated' \in Nat /\ unreported' \in Nat
    BY <2>2 DEF TcpInv
  <2>8. allocated' = freed' + Held(streams', Tcp!Slots)
    BY <2>2, <2>5
  <2>9. QED BY <2>5, <2>6, <2>7, <2>8 DEF TcpInv
<1>2. CASE Tcp!Expire
  <2>1. PICK S : S = Tcp!Stale
    OBVIOUS
  <2>2. /\ Tcp!FreeAll(S) /\ stream_count' = stream_count - Cardinality(S)
        /\ streams_expired' = streams_expired + Cardinality(S)
        /\ UNCHANGED <<dropped_ooo, clock, calls, allocated, unreported>>
    BY <1>2, <2>1, TcpOps DEF Tcp!Expire
  <2>3. S \in SUBSET Using(streams)
    BY <2>1 DEF Tcp!Stale, Tcp!InUse, Using
  <2>4. PICK b, c, d : /\ b = Cardinality(S) /\ c = Cardinality(Using(streams))
                       /\ d = Cardinality(Using(streams'))
    OBVIOUS
  <2>5. /\ StreamsOK(streams', handle') /\ freed' \in Nat
        /\ allocated = freed' + Held(streams', Tcp!Slots)
        /\ b \in Nat /\ d \in Nat /\ c = d + b
    BY <2>2, <2>3, <2>4, TcpFree
  <2>6. stream_count = c + unreported /\ unreported \in Nat /\ streams_expired \in Nat
    BY <2>4 DEF TcpInv
  <2>7. stream_count' = d + unreported' /\ stream_count' \in Nat /\ streams_expired' \in Nat
    BY <2>2, <2>4, <2>5, <2>6
  <2>8. dropped_ooo' \in Nat /\ clock' \in Nat /\ calls' \in Nat /\ allocated' \in Nat /\ unreported' \in Nat
    BY <2>2 DEF TcpInv
  <2>9. allocated' = freed' + Held(streams', Tcp!Slots)
    BY <2>2, <2>5
  <2>10. QED BY <2>4, <2>5, <2>7, <2>8, <2>9 DEF TcpInv
<1>3. CASE Tcp!Tick
  BY <1>3 DEF Tcp!Tick, TcpInv
<1>4. CASE Tcp!Next
  BY <1>1, <1>2, <1>3, <1>4, TcpGet, TcpAdd DEF Tcp!Next
<1>5. CASE UNCHANGED tcpVars
  BY <1>5 DEF tcpVars, TcpInv
<1>6. QED BY <1>4, <1>5 DEF Next, Only, vars

\* What the invariant says of the streams.
LEMMA TcpImplied ==
    TcpInv => /\ Tcp!TypeOK /\ Tcp!StreamsSeparate /\ Tcp!DataInOrder
<1> SUFFICES ASSUME TcpInv
             PROVE  Tcp!TypeOK /\ Tcp!StreamsSeparate /\ Tcp!DataInOrder
  OBVIOUS
<1>0. /\ StreamsOK(streams, handle) /\ \A s \in Tcp!Slots : StreamOK(streams[s]) /\ streams[s] \in Stream
      /\ handle \in [Keys -> Tcp!Slots \cup {0}]
  BY DEF TcpInv, StreamsOK
<1>1. Tcp!TypeOK
  <2>1. \A s \in Tcp!Slots : /\ streams[s].key \in Keys \cup {NoKey} /\ streams[s].in_use \in BOOLEAN
                             /\ Len(streams[s].segs) <= MaxSegs
    BY <1>0 DEF StreamOK, Stream
  <2>2. QED BY <1>0, <2>1 DEF Tcp!TypeOK, TcpInv
<1>2. Tcp!StreamsSeparate
  <2>1. ASSUME NEW k \in Keys, handle[k] # 0 PROVE Tcp!Of(k) = {handle[k]}
    <3>1. /\ handle[k] \in Tcp!Slots /\ streams[handle[k]].in_use /\ streams[handle[k]].key = k
          /\ \A s \in Tcp!Slots : streams[s].in_use /\ streams[s].key = k => s = handle[k]
      BY <1>0, <2>1 DEF StreamsOK
    <3>2. QED BY <3>1 DEF Tcp!Of, Tcp!InUse
  <2>2. \A s \in Tcp!Slots : \A i \in DOMAIN Tcp!Data(s) : Tcp!Data(s)[i].key = streams[s].key
    BY <1>0 DEF StreamOK, Tcp!Data
  <2>3. allocated = freed + Tcp!Released(Tcp!Slots)
    BY TcpOps DEF TcpInv, Held, Tcp!Released
  <2>4. stream_count = Tcp!Cardinality(Tcp!InUse) + unreported
    BY TcpOps DEF TcpInv, Using, Tcp!InUse
  <2>5. QED BY <2>1, <2>2, <2>3, <2>4 DEF Tcp!StreamsSeparate
<1>3. Tcp!DataInOrder
  <2> SUFFICES ASSUME NEW s \in Tcp!InUse, ~Tcp!Wraps(streams[s].key),
                      NEW i \in DOMAIN Tcp!Data(s), NEW j \in DOMAIN Tcp!Data(s), i < j
               PROVE  Tcp!Data(s)[i].off <= Tcp!Data(s)[j].off
    BY DEF Tcp!DataInOrder
  <2>1. PICK st : st = streams[s]
    OBVIOUS
  <2>2. StreamOK(st) /\ st.in_use /\ st.key \in Keys /\ st.segs \in Seq(Segment)
    BY <1>0, <2>1 DEF Tcp!InUse, StreamOK, Stream
  <2>3. PICK a, b : a = st.segs[i] /\ b = st.segs[j]
    OBVIOUS
  <2>4. /\ a \in Segment /\ b \in Segment /\ a.seq <= b.seq
        /\ a.seq = Tcp!Number(st.key, a.off) /\ b.seq = Tcp!Number(st.key, b.off)
    <3>1. i \in DOMAIN st.segs /\ j \in DOMAIN st.segs
      BY <2>1 DEF Tcp!Data
    <3>2. QED BY <2>2, <2>3, <3>1 DEF StreamOK, Sorted
  <2>5. \A o \in Offsets : Tcp!Number(st.key, o) = First[st.key] + o /\ o \in Nat /\ First[st.key] \in Nat
    <3>1. \A x \in Nat, m \in Nat \ {0} : ~(x >= m) => x % m = x
      OBVIOUS
    <3>2. ASSUME NEW o \in Offsets
          PROVE  Tcp!Number(st.key, o) = First[st.key] + o /\ o \in Nat /\ First[st.key] \in Nat
      <4>1. o \in Nat /\ First[st.key] \in Nat /\ SeqSpace \in Nat \ {0}
        BY <2>2, TcpConstants
      <4>2. First[st.key] + o \in Nat /\ ~(First[st.key] + o >= SeqSpace)
        BY <2>1, <4>1 DEF Tcp!Wraps
      <4>3. QED BY <3>1, <4>1, <4>2 DEF Tcp!Number
    <3>3. QED BY <3>2
  <2>6. a.off \in Offsets /\ b.off \in Offsets
    BY <2>4 DEF Segment
  <2>7. First[st.key] + a.off <= First[st.key] + b.off
    BY <2>4, <2>5, <2>6
  <2>8. a.off <= b.off
    BY <2>5, <2>6, <2>7
  <2>9. QED BY <2>1, <2>3, <2>8 DEF Tcp!Data
<1>4. QED BY <1>1, <1>2, <1>3

-----------------------------------------------------------------------------
\* Together: no part disturbs another.
Inv == FragInv /\ DefragInv /\ TcpInv

LEMMA InvHolds == Spec => []Inv
<1>1. Init => Inv
  BY FragInit, DefragInit, TcpInit DEF Inv
<1>2. Inv /\ [Next]_vars => Inv'
  BY FragStep, DefragStep, TcpStep DEF Inv
<1>3. QED BY <1>1, <1>2, PTL DEF Spec

\* The tables of fragtrack.c, ipdefrag.c and tcpreasm.c keep within the sizes
\* their headers give them, whatever those are.
THEOREM TablesTyped == Spec => []TypeOK
<1>1. Inv => TypeOK
  BY FragImplied, DefragImplied, TcpImplied DEF Inv, TypeOK
<1>2. QED BY <1>1, InvHolds, PTL

\* fragtrack.c loses and doubles no entry, however its expiry, its removal and
\* its additions, which all move entries about in the array, follow one another.
THEOREM TrackedAccounted == Spec => []EntriesAccounted
<1>1. Inv => EntriesAccounted
  BY FragImplied DEF Inv, EntriesAccounted
<1>2. QED BY <1>1, InvHolds, PTL

\* fragtrack_expire frees the stale entries and no others, though it goes on
\* over an array that each removal reorders.
THEOREM SweepsExact == Spec => ExpireIsExact
<1>1. Inv => FragInv
  BY DEF Inv
<1>2. QED BY <1>1, InvHolds, FragSweeps, PTL DEF ExpireIsExact, Frag!ExpireIsExact

\* Without repeats, fragtrack.c calls a datagram complete exactly when all of it
\* has passed, and ipdefrag.c hands out as complete only what is, though both
\* merely add up sizes: for any cut of any datagram, in any order.
THEOREM WholeWhenComplete == Spec => []CompleteIsWhole
<1>1. Inv => CompleteIsWhole
  BY FragImplied, DefragImplied DEF Inv, CompleteIsWhole
<1>2. QED BY <1>1, InvHolds, PTL

\* ipdefrag.c's blocks have one owner each, and nothing is copied past the end of one.
THEOREM OneOwner == Spec => []BlocksOwned
<1>1. Inv => BlocksOwned
  BY DefragImplied DEF Inv, BlocksOwned
<1>2. QED BY <1>1, InvHolds, PTL

\* tcpreasm.c: a handle leads to its own stream as long as it is held, streams
\* never mix, and no segment is forgotten.
THEOREM StreamsApart == Spec => []StreamsSeparate
<1>1. Inv => StreamsSeparate
  BY TcpImplied DEF Inv, StreamsSeparate
<1>2. QED BY <1>1, InvHolds, PTL

\* tcpreasm_get_data gives data in the order of the stream, whatever the order
\* of arrival, as long as sequence numbers do not wrap.
THEOREM InOrder == Spec => []DataInOrder
<1>1. Inv => DataInOrder
  BY TcpImplied DEF Inv, DataInOrder
<1>2. QED BY <1>1, InvHolds, PTL
=============================================================================
