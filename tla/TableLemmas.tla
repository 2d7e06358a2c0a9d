----------------------------- MODULE TableLemmas -----------------------------
(***************************************************************************)
(* Facts about the operators that the tables of pktsnare are modelled      *)
(* with: least elements, sums over slots, and the unordered array of       *)
(* SwapArray.  Induction is over sets of numbers, without a parameter that *)
(* is an operator.                                                         *)
(***************************************************************************)
EXTENDS SwapArray, FiniteSets, SequenceTheorems, FiniteSetTheorems, WellFoundedInduction, TLAPS

\* A nonempty set of numbers has a least one.
LEMMA Least ==
    ASSUME NEW S \in SUBSET Nat, S # {}
    PROVE  \E n \in S : \A m \in S : n <= m
<1>1. PICK n \in S : \A m \in S : ~ (<<m, n>> \in OpToRel(<, Nat))
  BY NatLessThanWellFounded, WFMin
<1>2. ASSUME NEW m \in S PROVE n <= m
  <2>1. m \in Nat /\ n \in Nat
    OBVIOUS
  <2>2. ~ (m < n)
    BY <1>1, <2>1 DEF OpToRel
  <2>3. QED BY <2>1, <2>2
<1>3. QED BY <1>2

\* The least of some numbers is one of them.
LEMMA MinIsIn ==
    ASSUME NEW S \in SUBSET Nat, S # {}
    PROVE  Min(S) \in S
<1>1. PICK n \in S : \A m \in S : n <= m
  BY Least
<1>2. QED BY <1>1 DEF Min

\* What holds of 0 and of the successor of each number it holds of.
LEMMA Inductive ==
    ASSUME NEW P, 0 \in P, \A n \in Nat : n \in P => n + 1 \in P
    PROVE  \A n \in Nat : n \in P
<1> SUFFICES ASSUME Nat \ P # {} PROVE FALSE
  OBVIOUS
<1>1. PICK n \in Nat \ P : \A m \in Nat \ P : n <= m
  <2>1. Nat \ P \in SUBSET Nat
    OBVIOUS
  <2>2. QED BY <2>1, Least
<1>2. n # 0 /\ n - 1 \in Nat /\ n - 1 \in P
  BY <1>1
<1>3. QED BY <1>1, <1>2

\* What holds of a finite set whenever it holds of all its proper subsets.
LEMMA SetInductive ==
    ASSUME NEW S, IsFiniteSet(S), NEW P,
           \A s \in SUBSET S : (\A r \in SUBSET s : r # s => r \in P) => s \in P
    PROVE  \A s \in SUBSET S : s \in P
<1> SUFFICES ASSUME NEW t \in SUBSET S, t \notin P PROVE FALSE
  OBVIOUS
<1> DEFINE N == {Cardinality(s) : s \in {r \in SUBSET S : r \notin P}}
<1>0. \A s \in SUBSET S : IsFiniteSet(s) /\ Cardinality(s) \in Nat
  BY FS_Subset, FS_CardinalityType
<1>1. PICK n \in N : \A m \in N : n <= m
  <2>1. N \in SUBSET Nat /\ N # {}
    BY <1>0
  <2> HIDE DEF N
  <2>2. QED BY <2>1, Least
<1>2. PICK s \in SUBSET S : s \notin P /\ n = Cardinality(s)
  OBVIOUS
<1>3. PICK r \in SUBSET s : r # s /\ r \notin P
  BY <1>2
<1>4. Cardinality(r) \in Nat /\ Cardinality(r) < n
  BY <1>0, <1>2, <1>3, FS_Subset
<1>5. n <= Cardinality(r)
  BY <1>1, <1>3
<1>6. QED BY <1>0, <1>2, <1>4, <1>5

-----------------------------------------------------------------------------
\* Sums of numbers over a finite set.
Pick(s) == CHOOSE x \in s : TRUE
Plus(f, g, s) == IF s = {} THEN 0 ELSE f[Pick(s)] + g[s \ {Pick(s)}]
Solves(g, f, S) == g = [s \in SUBSET S |-> Plus(f, g, s)]

LEMMA SumIsFold ==
    ASSUME NEW S, NEW f
    PROVE  SumFunctionOnSet(f, S) = (CHOOSE g : Solves(g, f, S))[S]
BY Zenon DEF SumFunctionOnSet, FoldFunctionOnSet, MapThenFoldSet, Solves, Plus, Pick

\* The recursion of the sum has a solution.
LEMMA SumRecursion ==
    ASSUME NEW S, IsFiniteSet(S), NEW f
    PROVE  \E g : Solves(g, f, S)
<1> DEFINE G(n) == \E g : \A s \in SUBSET S : Cardinality(s) <= n => g[s] = Plus(f, g, s)
           P == {n \in Nat : G(n)}
<1>0. \A s \in SUBSET S : IsFiniteSet(s) /\ Cardinality(s) \in Nat
  BY FS_Subset, FS_CardinalityType
<1>1. 0 \in P
  <2> DEFINE g == [s \in SUBSET S |-> 0]
  <2>1. \A s \in SUBSET S : Cardinality(s) <= 0 => g[s] = Plus(f, g, s)
    BY <1>0, FS_EmptySet DEF Plus
  <2>2. QED BY <2>1
<1>2. ASSUME NEW n \in Nat, n \in P
      PROVE  n + 1 \in P
  <2>1. PICK g : \A s \in SUBSET S : Cardinality(s) <= n => g[s] = Plus(f, g, s)
    BY <1>2
  <2> DEFINE h == [s \in SUBSET S |-> Plus(f, g, s)]
  <2>2. ASSUME NEW s \in SUBSET S, Cardinality(s) <= n + 1
        PROVE  h[s] = Plus(f, h, s)
    <3>1. CASE s = {}
      BY <3>1 DEF Plus
    <3>2. CASE s # {}
      <4> DEFINE r == s \ {Pick(s)}
      <4>1. Pick(s) \in s
        BY <3>2 DEF Pick
      <4>2. r \in SUBSET S /\ Cardinality(r) <= n
        BY <1>0, <2>2, <4>1, FS_RemoveElement
      <4>3. h[r] = g[r]
        BY <2>1, <4>2
      <4>4. QED BY <3>2, <4>3 DEF Plus
    <3>3. QED BY <3>1, <3>2
  <2> HIDE DEF h
  <2>3. G(n + 1)
    BY <2>2
  <2>4. QED BY <2>3
<1>3. Cardinality(S) \in P
  <2> HIDE DEF P
  <2>1. QED BY <1>0, <1>1, <1>2, Inductive
<1>4. PICK g : \A s \in SUBSET S : g[s] = Plus(f, g, s)
  BY <1>0, <1>3, FS_Subset
<1> DEFINE h == [s \in SUBSET S |-> Plus(f, g, s)]
<1>5. h = [s \in SUBSET S |-> Plus(f, h, s)]
  <2>1. \A s \in SUBSET S : Plus(f, h, s) = Plus(f, g, s)
    <3> SUFFICES ASSUME NEW s \in SUBSET S, s # {} PROVE Plus(f, h, s) = Plus(f, g, s)
      BY DEF Plus
    <3>1. s \ {Pick(s)} \in SUBSET S
      OBVIOUS
    <3>2. h[s \ {Pick(s)}] = g[s \ {Pick(s)}]
      BY <1>4, <3>1
    <3>3. QED BY <3>2 DEF Plus
  <2>2. QED BY <2>1
<1> HIDE DEF h
<1>6. QED BY <1>5 DEF Solves

\* Two solutions agree where both are defined.
LEMMA SumUnique ==
    ASSUME NEW S, IsFiniteSet(S), NEW T \in SUBSET S, NEW f, NEW g, NEW h,
           Solves(g, f, S), Solves(h, f, T)
    PROVE  \A s \in SUBSET T : g[s] = h[s]
<1> DEFINE P == {s \in SUBSET T : g[s] = h[s]}
<1>1. ASSUME NEW s \in SUBSET T, \A r \in SUBSET s : r # s => r \in P
      PROVE  s \in P
  <2>1. g[s] = Plus(f, g, s)
    <3>1. s \in SUBSET S
      OBVIOUS
    <3>2. QED BY <3>1, Zenon DEF Solves
  <2>2. h[s] = Plus(f, h, s)
    BY Zenon DEF Solves
  <2>3. CASE s = {}
    BY <2>1, <2>2, <2>3 DEF Plus
  <2>4. CASE s # {}
    <3>1. Pick(s) \in s
      BY <2>4 DEF Pick
    <3>2. s \ {Pick(s)} \in P
      BY <1>1, <3>1
    <3>3. QED BY <2>1, <2>2, <2>4, <3>2 DEF Plus
  <2>5. QED BY <2>3, <2>4
<1>2. IsFiniteSet(T)
  BY FS_Subset
<1>3. \A s \in SUBSET T : s \in P
  <2> HIDE DEF P
  <2>1. QED BY <1>1, <1>2, SetInductive
<1>4. QED BY <1>3

\* The sum takes its terms in some order.
LEMMA SumPick ==
    ASSUME NEW S, IsFiniteSet(S), NEW f
    PROVE  SumFunctionOnSet(f, S) =
               IF S = {} THEN 0 ELSE f[Pick(S)] + SumFunctionOnSet(f, S \ {Pick(S)})
<1> DEFINE g == CHOOSE q : Solves(q, f, S)
           T == S \ {Pick(S)}
           h == CHOOSE q : Solves(q, f, T)
<1>1. Solves(g, f, S)
  BY SumRecursion
<1>2. IsFiniteSet(T) /\ T \in SUBSET S
  BY FS_Subset
<1>3. Solves(h, f, T)
  BY <1>2, SumRecursion
<1>4. SumFunctionOnSet(f, S) = g[S] /\ SumFunctionOnSet(f, T) = h[T]
  BY SumIsFold, Zenon
<1> HIDE DEF g, h
<1>5. g[S] = Plus(f, g, S)
  BY <1>1, Zenon DEF Solves
<1>6. g[T] = h[T]
  BY <1>1, <1>2, <1>3, SumUnique
<1>7. QED BY <1>4, <1>5, <1>6 DEF Plus

\* A sum is a number, and any of its terms may be taken out.
LEMMA SumRemove ==
    ASSUME NEW S, IsFiniteSet(S), NEW f, \A x \in S : f[x] \in Nat
    PROVE  /\ SumFunctionOnSet(f, S) \in Nat
           /\ S = {} => SumFunctionOnSet(f, S) = 0
           /\ \A x \in S : SumFunctionOnSet(f, S) = f[x] + SumFunctionOnSet(f, S \ {x})
<1> DEFINE Sum(s) == SumFunctionOnSet(f, s)
           P == {s \in SUBSET S : Sum(s) \in Nat /\ \A x \in s : Sum(s) = f[x] + Sum(s \ {x})}
<1>0. ASSUME NEW s \in SUBSET S
      PROVE  Sum(s) = IF s = {} THEN 0 ELSE f[Pick(s)] + Sum(s \ {Pick(s)})
  <2>1. IsFiniteSet(s)
    BY FS_Subset
  <2>2. QED BY <2>1, SumPick
<1> HIDE DEF Sum
<1>1. ASSUME NEW s \in SUBSET S, \A r \in SUBSET s : r # s => r \in P
      PROVE  s \in P
  <2>1. CASE s = {}
    <3>1. Sum(s) = 0
      BY <1>0, <2>1
    <3>2. QED BY <2>1, <3>1
  <2>2. CASE s # {}
    <3> DEFINE c == Pick(s)
    <3>1. c \in s
      BY <2>2 DEF Pick
    <3> HIDE DEF c
    <3>2. Sum(s) = f[c] + Sum(s \ {c})
      BY <1>0, <2>2 DEF c
    <3>3. s \ {c} \in P /\ f[c] \in Nat
      BY <1>1, <3>1
    <3>4. ASSUME NEW x \in s, x # c
          PROVE  Sum(s) = f[x] + Sum(s \ {x})
      <4>1. s \ {x} \in P /\ f[x] \in Nat
        BY <1>1
      <4>2. Sum(s \ {c}) = f[x] + Sum((s \ {c}) \ {x})
        BY <3>3, <3>4
      <4>3. Sum(s \ {x}) = f[c] + Sum((s \ {x}) \ {c})
        BY <3>1, <3>4, <4>1
      <4>4. (s \ {c}) \ {x} = (s \ {x}) \ {c}
        OBVIOUS
      <4>5. (s \ {c}) \ {x} \in P
        BY <1>1, <3>1
      <4>6. Sum((s \ {c}) \ {x}) \in Nat
        BY <4>5
      <4> HIDE DEF P
      <4>7. QED BY <3>2, <3>3, <4>1, <4>2, <4>3, <4>4, <4>6
    <3>5. QED BY <3>2, <3>3, <3>4, SMTT(15)
  <2>3. QED BY <2>1, <2>2
<1>2. S \in P
  <2> HIDE DEF P
  <2>1. QED BY <1>1, SetInductive
<1>3. Sum({}) = 0
  BY <1>0
<1>4. QED BY <1>2, <1>3 DEF Sum

\* Terms that are equal have equal sums.
LEMMA SumSame ==
    ASSUME NEW S, IsFiniteSet(S), NEW f, NEW g,
           \A x \in S : f[x] \in Nat /\ g[x] = f[x]
    PROVE  SumFunctionOnSet(f, S) = SumFunctionOnSet(g, S)
<1> DEFINE P == {s \in SUBSET S : SumFunctionOnSet(f, s) = SumFunctionOnSet(g, s)}
<1>1. ASSUME NEW s \in SUBSET S, \A r \in SUBSET s : r # s => r \in P
      PROVE  s \in P
  <2>0. IsFiniteSet(s) /\ \A x \in s : f[x] \in Nat /\ g[x] \in Nat
    BY FS_Subset
  <2>1. CASE s = {}
    BY <2>0, <2>1, SumRemove
  <2>2. CASE s # {}
    <3>1. PICK x \in s : TRUE
      BY <2>2
    <3>2. s \ {x} \in P
      BY <1>1, <3>1
    <3>3. /\ SumFunctionOnSet(f, s) = f[x] + SumFunctionOnSet(f, s \ {x})
          /\ SumFunctionOnSet(g, s) = g[x] + SumFunctionOnSet(g, s \ {x})
      BY <2>0, SumRemove
    <3>4. QED BY <3>2, <3>3
  <2>3. QED BY <2>1, <2>2
<1>2. S \in P
  <2> HIDE DEF P
  <2>1. QED BY <1>1, SetInductive
<1>3. QED BY <1>2

\* The sum over a set is that over a part of it and over the rest.
LEMMA SumSplit ==
    ASSUME NEW S, IsFiniteSet(S), NEW f, \A x \in S : f[x] \in Nat, NEW T \in SUBSET S
    PROVE  SumFunctionOnSet(f, S) = SumFunctionOnSet(f, T) + SumFunctionOnSet(f, S \ T)
<1> DEFINE Sum(s) == SumFunctionOnSet(f, s)
           P == {s \in SUBSET S : Sum(s) = Sum(s \cap T) + Sum(s \ T)}
<1>0. ASSUME NEW s \in SUBSET S
      PROVE  /\ Sum(s) \in Nat
             /\ s = {} => Sum(s) = 0
             /\ \A x \in s : Sum(s) = f[x] + Sum(s \ {x})
  <2>1. IsFiniteSet(s) /\ \A x \in s : f[x] \in Nat
    BY FS_Subset
  <2>2. QED BY <2>1, SumRemove
<1> HIDE DEF Sum
<1>1. ASSUME NEW s \in SUBSET S, \A r \in SUBSET s : r # s => r \in P
      PROVE  s \in P
  <2>1. CASE s = {}
    <3>1. Sum(s) = 0 /\ Sum(s \cap T) = 0 /\ Sum(s \ T) = 0
      BY <1>0, <2>1
    <3>2. QED BY <3>1
  <2>2. CASE s # {}
    <3>1. PICK x \in s : TRUE
      BY <2>2
    <3>2. /\ Sum(s) = f[x] + Sum(s \ {x})
          /\ Sum(s \ {x}) = Sum((s \ {x}) \cap T) + Sum((s \ {x}) \ T)
      BY <1>0, <1>1
    <3>3. /\ f[x] \in Nat /\ Sum((s \ {x}) \cap T) \in Nat /\ Sum((s \ {x}) \ T) \in Nat
      BY <1>0
    <3>4. CASE x \in T
      <4>1. (s \ {x}) \cap T = (s \cap T) \ {x} /\ (s \ {x}) \ T = s \ T
        BY <3>4
      <4>2. Sum(s \cap T) = f[x] + Sum((s \cap T) \ {x})
        BY <1>0, <3>4
      <4>3. Sum(s) = Sum(s \cap T) + Sum(s \ T)
        <5> HIDE DEF P
        <5>1. QED BY <3>2, <3>3, <4>1, <4>2
      <4>4. QED BY <4>3
    <3>5. CASE x \notin T
      <4>1. (s \ {x}) \cap T = s \cap T /\ (s \ {x}) \ T = (s \ T) \ {x}
        BY <3>5
      <4>2. Sum(s \ T) = f[x] + Sum((s \ T) \ {x})
        BY <1>0, <3>5
      <4>3. Sum(s) = Sum(s \cap T) + Sum(s \ T)
        <5> HIDE DEF P
        <5>1. QED BY <3>2, <3>3, <4>1, <4>2
      <4>4. QED BY <4>3
    <3>6. QED BY <3>4, <3>5
  <2>3. QED BY <2>1, <2>2
<1>2. S \in P
  <2> HIDE DEF P
  <2>1. QED BY <1>1, SetInductive
<1>3. S \cap T = T
  OBVIOUS
<1>4. QED BY <1>2, <1>3 DEF Sum

\* A sum of zeros is zero.
LEMMA SumZero ==
    ASSUME NEW S, IsFiniteSet(S), NEW f, \A x \in S : f[x] = 0
    PROVE  SumFunctionOnSet(f, S) = 0
<1> DEFINE P == {s \in SUBSET S : SumFunctionOnSet(f, s) = 0}
<1>1. ASSUME NEW s \in SUBSET S, \A r \in SUBSET s : r # s => r \in P
      PROVE  s \in P
  <2>0. IsFiniteSet(s) /\ \A x \in s : f[x] \in Nat
    BY FS_Subset
  <2>1. CASE s = {}
    BY <2>0, <2>1, SumRemove
  <2>2. CASE s # {}
    <3>1. PICK x \in s : TRUE
      BY <2>2
    <3>2. s \ {x} \in P
      BY <1>1, <3>1
    <3>3. SumFunctionOnSet(f, s) = f[x] + SumFunctionOnSet(f, s \ {x})
      BY <2>0, SumRemove
    <3>4. QED BY <3>2, <3>3
  <2>3. QED BY <2>1, <2>2
<1>2. S \in P
  <2> HIDE DEF P
  <2>1. QED BY <1>1, SetInductive
<1>3. QED BY <1>2

LEMMA ImageFinite ==
    ASSUME NEW S, IsFiniteSet(S), NEW m
    PROVE  IsFiniteSet({m[x] : x \in S}) /\ Cardinality({m[x] : x \in S}) <= Cardinality(S)
<1>1. PICK T : T = {m[x] : x \in S}
  OBVIOUS
<1>2. PICK h : h = [x \in S |-> m[x]]
  OBVIOUS
<1>3. h \in [S -> T] /\ \A y \in T : \E x \in S : h[x] = y
  BY <1>1, <1>2
<1>4. h \in Surjection(S, T)
  BY <1>3 DEF Surjection
<1>5. IsFiniteSet(T) /\ Cardinality(T) <= Cardinality(S)
  BY <1>4, FS_Surjection
<1>6. QED BY <1>1, <1>5

\* Terms may be given other names.
LEMMA SumMapped ==
    ASSUME NEW S, IsFiniteSet(S), NEW f, NEW g, NEW m,
           \A x \in S : f[x] \in Nat /\ g[m[x]] = f[x],
           \A x, y \in S : m[x] = m[y] => x = y
    PROVE  SumFunctionOnSet(g, {m[x] : x \in S}) = SumFunctionOnSet(f, S)
<1> DEFINE Image(s) == {m[x] : x \in s}
           P == {s \in SUBSET S : SumFunctionOnSet(g, Image(s)) = SumFunctionOnSet(f, s)}
<1>1. ASSUME NEW s \in SUBSET S, \A r \in SUBSET s : r # s => r \in P
      PROVE  s \in P
  <2>0. /\ IsFiniteSet(s) /\ \A x \in s : f[x] \in Nat
        /\ IsFiniteSet(Image(s)) /\ \A y \in Image(s) : g[y] \in Nat
    <3>1. IsFiniteSet(s)
      BY FS_Subset
    <3>2. IsFiniteSet(Image(s))
      BY <3>1, ImageFinite
    <3>3. QED BY <3>1, <3>2
  <2>1. CASE s = {}
    <3>1. Image(s) = {}
      BY <2>1
    <3>2. SumFunctionOnSet(g, Image(s)) = 0 /\ SumFunctionOnSet(f, s) = 0
      <4> HIDE DEF Image
      <4>1. QED BY <2>0, <2>1, <3>1, SumRemove
    <3>3. QED BY <3>2
  <2>2. CASE s # {}
    <3>1. PICK x \in s : TRUE
      BY <2>2
    <3>2. s \ {x} \in P
      BY <1>1, <3>1
    <3>3. Image(s) \ {m[x]} = Image(s \ {x}) /\ m[x] \in Image(s)
      BY <3>1
    <3>4. SumFunctionOnSet(f, s) = f[x] + SumFunctionOnSet(f, s \ {x})
      BY <2>0, SumRemove
    <3>5. SumFunctionOnSet(g, Image(s)) = g[m[x]] + SumFunctionOnSet(g, Image(s) \ {m[x]})
      <4> HIDE DEF Image
      <4>1. QED BY <2>0, <3>3, SumRemove
    <3>6. QED BY <3>1, <3>2, <3>3, <3>4, <3>5
  <2>3. QED BY <2>1, <2>2
<1>2. S \in P
  <2> HIDE DEF P
  <2>1. QED BY <1>1, SetInductive
<1>3. QED BY <1>2

\* Of positive terms, all are needed for the sum.
LEMMA SumProper ==
    ASSUME NEW S, IsFiniteSet(S), NEW f, \A x \in S : f[x] \in Nat, NEW T \in SUBSET S,
           \A x \in S \ T : f[x] > 0
    PROVE  /\ SumFunctionOnSet(f, T) <= SumFunctionOnSet(f, S)
           /\ SumFunctionOnSet(f, T) >= SumFunctionOnSet(f, S) => T = S
<1>1. PICK R : R = S \ T
  OBVIOUS
<1>2. IsFiniteSet(T) /\ IsFiniteSet(R)
  BY <1>1, FS_Subset
<1>3. SumFunctionOnSet(f, S) = SumFunctionOnSet(f, T) + SumFunctionOnSet(f, R)
  BY <1>1, SumSplit
<1>4. SumFunctionOnSet(f, T) \in Nat /\ SumFunctionOnSet(f, R) \in Nat
  BY <1>1, <1>2, SumRemove
<1>5. ASSUME NEW x \in R PROVE SumFunctionOnSet(f, R) > 0
  <2>1. IsFiniteSet(R \ {x})
    BY <1>2, FS_Subset
  <2>2. SumFunctionOnSet(f, R) = f[x] + SumFunctionOnSet(f, R \ {x})
    BY <1>1, <1>2, SumRemove
  <2>3. SumFunctionOnSet(f, R \ {x}) \in Nat
    BY <1>1, <2>1, SumRemove
  <2>4. QED BY <1>1, <2>2, <2>3
<1>6. CASE R = {}
  BY <1>1, <1>6
<1>7. CASE R # {}
  <2>1. SumFunctionOnSet(f, R) > 0
    BY <1>5, <1>7
  <2>2. QED BY <1>3, <1>4, <2>1
<1>8. QED BY <1>6, <1>7

-----------------------------------------------------------------------------
\* The unordered array.
LEMMA SwapOutIs ==
    ASSUME NEW S, NEW es \in Seq(S), NEW i \in DOMAIN es
    PROVE  /\ SwapOut(es, i) \in Seq(S)
           /\ Len(SwapOut(es, i)) = Len(es) - 1
           /\ DOMAIN SwapOut(es, i) = 1 .. Len(es) - 1
           /\ \A j \in 1 .. Len(es) - 1 :
                 SwapOut(es, i)[j] = IF j = i THEN es[Len(es)] ELSE es[j]
<1>1. Len(es) \in Nat /\ DOMAIN es = 1 .. Len(es) /\ Len(es) # 0
  OBVIOUS
<1>2. es[Len(es)] \in S
  BY <1>1
<1> DEFINE r == [es EXCEPT ![i] = es[Len(es)]]
<1>3. /\ r \in Seq(S) /\ Len(r) = Len(es)
      /\ \A j \in 1 .. Len(es) : r[j] = IF j = i THEN es[Len(es)] ELSE es[j]
  BY <1>1, <1>2, ExceptSeq
<1>4. SwapOut(es, i) = SubSeq(r, 1, Len(r) - 1)
  BY DEF SwapOut, Front, ReplaceAt, Last
<1> HIDE DEF r
<1>5. \A j \in 1 .. Len(es) - 1 : r[j] \in S
  BY <1>3, <1>1
<1>6. QED BY <1>1, <1>3, <1>4, <1>5, SubSeqProperties

\* One visit of the sweep, and what all of them make of the array.
Visit(stale, acc) == IF acc.es[acc.i] \in stale
                     THEN [es |-> SwapOut(acc.es, acc.i), i |-> acc.i]
                     ELSE [es |-> acc.es, i |-> acc.i + 1]
Visits(after, es, stale) ==
    after = [n \in 0 .. Len(es) |-> IF n = 0 THEN [es |-> es, i |-> 1]
                                  ELSE Visit(stale, after[n - 1])]

LEMMA SweepIsVisits ==
    ASSUME NEW es, NEW stale
    PROVE  Sweep(es, stale) = (CHOOSE after : Visits(after, es, stale))[Len(es)].es
BY Zenon DEF Sweep, Visits, Visit

LEMMA VisitsExist ==
    ASSUME NEW S, NEW es \in Seq(S), NEW stale
    PROVE  \E after : Visits(after, es, stale)
<1> DEFINE Next(g, n) == IF n = 0 THEN [es |-> es, i |-> 1] ELSE Visit(stale, g[n - 1])
           G(m) == \E g : \A n \in 0 .. Len(es) : n <= m => g[n] = Next(g, n)
           P == {m \in Nat : G(m)}
<1>0. Len(es) \in Nat
  OBVIOUS
<1>1. 0 \in P
  <2> DEFINE h == [n \in 0 .. Len(es) |-> [es |-> es, i |-> 1]]
  <2>1. \A n \in 0 .. Len(es) : n <= 0 => h[n] = Next(h, n)
    OBVIOUS
  <2> HIDE DEF h, Next
  <2>2. G(0)
    BY <2>1
  <2>3. QED BY <2>2
<1>2. ASSUME NEW m \in Nat, m \in P PROVE m + 1 \in P
  <2>1. PICK g : \A n \in 0 .. Len(es) : n <= m => g[n] = Next(g, n)
    BY <1>2
  <2> DEFINE h == [n \in 0 .. Len(es) |-> Next(g, n)]
  <2>2. \A n \in 0 .. Len(es) : n <= m => h[n] = g[n]
    BY <2>1
  <2>3. ASSUME NEW n \in 0 .. Len(es), n <= m + 1
        PROVE  h[n] = Next(h, n)
    <3>1. CASE n = 0
      BY <3>1
    <3>2. CASE n # 0
      <4>1. h[n - 1] = g[n - 1]
        <5>1. n - 1 \in 0 .. Len(es) /\ n - 1 <= m
          BY <1>0, <2>3, <3>2
        <5> HIDE DEF h
        <5>2. QED BY <2>2, <5>1
      <4>2. h[n] = Next(g, n)
        BY Zenon
      <4> HIDE DEF h
      <4>3. QED BY <3>2, <4>1, <4>2
    <3>3. QED BY <3>1, <3>2
  <2> HIDE DEF h, Next
  <2>4. G(m + 1)
    BY <2>3
  <2>5. QED BY <2>4
<1>3. Len(es) \in P
  <2> HIDE DEF P
  <2>1. QED BY <1>0, <1>1, <1>2, Inductive
<1>4. PICK g : \A n \in 0 .. Len(es) : g[n] = Next(g, n)
  BY <1>0, <1>3
<1> DEFINE h == [n \in 0 .. Len(es) |-> Next(g, n)]
<1>5. h = [n \in 0 .. Len(es) |-> Next(h, n)]
  <2>1. ASSUME NEW n \in 0 .. Len(es) PROVE Next(g, n) = Next(h, n)
    <3>1. CASE n = 0
      BY <3>1
    <3>2. CASE n # 0
      <4>1. h[n - 1] = g[n - 1]
        <5>1. n - 1 \in 0 .. Len(es)
          BY <1>0, <3>2
        <5>2. h[n - 1] = Next(g, n - 1)
          BY <5>1, Zenon
        <5> HIDE DEF h, Next
        <5>3. QED BY <1>4, <5>1, <5>2
      <4> HIDE DEF h
      <4>2. QED BY <3>2, <4>1
    <3>3. QED BY <3>1, <3>2
  <2> HIDE DEF Next
  <2>2. QED BY <2>1
<1> HIDE DEF h
<1>6. Visits(h, es, stale)
  BY <1>5, Zenon DEF Visits
<1>7. QED BY <1>6

\* r has the entries of es at the places p, each place once.
Selects(p, es, r) ==
    /\ p \in Seq(DOMAIN es)
    /\ \A j, k \in DOMAIN p : p[j] = p[k] => j = k
    /\ Len(r) = Len(p) /\ \A j \in DOMAIN p : r[j] = es[p[j]]

\* Freeing an entry keeps the others.
LEMMA SwapOutSelects ==
    ASSUME NEW S, NEW es \in Seq(S), NEW r \in Seq(S), NEW p, Selects(p, es, r), NEW i \in DOMAIN r
    PROVE  /\ Selects(SwapOut(p, i), es, SwapOut(r, i))
           /\ \A k \in DOMAIN es : (\E j \in DOMAIN p : p[j] = k) /\ k # p[i] =>
                 \E j \in DOMAIN SwapOut(p, i) : SwapOut(p, i)[j] = k
<1> DEFINE q == SwapOut(p, i)
           t == SwapOut(r, i)
           n == Len(r)
<1>1. /\ p \in Seq(DOMAIN es) /\ n \in Nat /\ DOMAIN p = 1 .. n /\ Len(p) = n
      /\ i \in 1 .. n /\ i \in DOMAIN p /\ \A j, k \in 1 .. n : p[j] = p[k] => j = k
  <2>1. p \in Seq(DOMAIN es) /\ Len(p) = Len(r) /\ i \in DOMAIN r
    BY DEF Selects
  <2>2. n \in Nat /\ DOMAIN p = 1 .. n /\ Len(p) = n /\ i \in 1 .. n
    BY <2>1
  <2>3. \A j, k \in DOMAIN p : p[j] = p[k] => j = k
    BY DEF Selects
  <2>4. QED BY <2>1, <2>2, <2>3, Zenon
<1>2. /\ q \in Seq(DOMAIN es) /\ Len(q) = n - 1 /\ DOMAIN q = 1 .. n - 1
      /\ \A j \in 1 .. n - 1 : q[j] = IF j = i THEN p[n] ELSE p[j]
  <2> HIDE DEF n
  <2>1. /\ q \in Seq(DOMAIN es) /\ Len(q) = Len(p) - 1 /\ DOMAIN q = 1 .. Len(p) - 1
        /\ \A j \in 1 .. Len(p) - 1 : q[j] = IF j = i THEN p[Len(p)] ELSE p[j]
    <3>1. p \in Seq(DOMAIN es) /\ i \in DOMAIN p
      BY <1>1
    <3> HIDE <1>1
    <3>2. QED BY <3>1, SwapOutIs
  <2>2. QED BY <1>1, <2>1
<1>3. /\ Len(t) = n - 1
      /\ \A j \in 1 .. n - 1 : t[j] = IF j = i THEN r[n] ELSE r[j]
  BY SwapOutIs
<1> HIDE DEF q, t, n
<1>4. \A j, k \in DOMAIN q : q[j] = q[k] => j = k
  <2> SUFFICES ASSUME NEW j \in DOMAIN q, NEW k \in DOMAIN q, q[j] = q[k] PROVE j = k
    OBVIOUS
  <2>1. j \in 1 .. n /\ k \in 1 .. n /\ n \in 1 .. n /\ j # n /\ k # n
    BY <1>1, <1>2
  <2>2. q[j] = (IF j = i THEN p[n] ELSE p[j]) /\ q[k] = (IF k = i THEN p[n] ELSE p[k])
    BY <1>2
  <2>3. QED BY <1>1, <2>1, <2>2
<1>5. \A j \in DOMAIN q : t[j] = es[q[j]]
  <2> SUFFICES ASSUME NEW j \in DOMAIN q PROVE t[j] = es[q[j]]
    OBVIOUS
  <2>1. j \in 1 .. n - 1 /\ j \in DOMAIN p /\ n \in DOMAIN p
    BY <1>1, <1>2
  <2>2. QED BY <1>2, <1>3, <2>1 DEF Selects
<1>6. ASSUME NEW k \in DOMAIN es, NEW j \in DOMAIN p, p[j] = k, k # p[i]
      PROVE  \E m \in DOMAIN q : q[m] = k
  <2>1. j \in 1 .. n /\ j # i
    BY <1>1, <1>6
  <2>2. CASE j = n
    <3>1. i \in 1 .. n - 1
      BY <1>1, <2>1, <2>2
    <3>2. QED BY <1>2, <1>6, <2>2, <3>1
  <2>3. CASE j # n
    <3>1. j \in 1 .. n - 1
      BY <1>1, <2>1, <2>3
    <3>2. QED BY <1>2, <1>6, <2>1, <3>1
  <2>4. QED BY <2>2, <2>3
<1>7. Selects(q, es, t)
  BY <1>2, <1>3, <1>4, <1>5 DEF Selects
<1>8. QED BY <1>6, <1>7 DEF q, t

\* The array and the index acc after n visits: the entries before the index
\* are not stale, and those at the places p are what is left.
Reached(acc, p, n, es, stale, S) ==
    /\ acc.es \in Seq(S) /\ Selects(p, es, acc.es)
    /\ acc.i \in Nat \ {0} /\ acc.i - 1 + Len(es) - Len(acc.es) = n
    /\ acc.i - 1 <= Len(acc.es)
    /\ \A j \in 1 .. acc.i - 1 : acc.es[j] \notin stale
    /\ \A k \in DOMAIN es : es[k] \notin stale => \E j \in DOMAIN p : p[j] = k

\* A visit removes a stale entry or moves past one that is not.
LEMMA VisitReaches ==
    ASSUME NEW S, NEW es \in Seq(S), NEW stale, NEW n \in Nat, n + 1 <= Len(es),
           NEW acc, NEW p, Reached(acc, p, n, es, stale, S)
    PROVE  \E q : Reached(Visit(stale, acc), q, n + 1, es, stale, S)
<1>1. PICK a, i : a = acc.es /\ i = acc.i
  OBVIOUS
<1>2. /\ a \in Seq(S) /\ Selects(p, es, a) /\ i \in Nat \ {0}
      /\ i - 1 + Len(es) - Len(a) = n /\ i - 1 <= Len(a)
      /\ \A j \in 1 .. i - 1 : a[j] \notin stale
      /\ \A k \in DOMAIN es : es[k] \notin stale => \E j \in DOMAIN p : p[j] = k
  BY <1>1 DEF Reached
<1>3. /\ Len(a) \in Nat /\ Len(es) \in Nat /\ DOMAIN a = 1 .. Len(a)
      /\ i \in DOMAIN a
  BY <1>2
<1>4. CASE a[i] \in stale
  <2>1. PICK q, r : q = SwapOut(p, i) /\ r = SwapOut(a, i)
    OBVIOUS
  <2>2. /\ r \in Seq(S) /\ Len(r) = Len(a) - 1
        /\ \A j \in 1 .. Len(a) - 1 : r[j] = IF j = i THEN a[Len(a)] ELSE a[j]
    BY <1>2, <1>3, <2>1, SwapOutIs
  <2>3. /\ Selects(q, es, r)
        /\ \A k \in DOMAIN es : (\E j \in DOMAIN p : p[j] = k) /\ k # p[i] =>
              \E j \in DOMAIN q : q[j] = k
    BY <1>2, <1>3, <2>1, SwapOutSelects
  <2>4. es[p[i]] \in stale
    <3>1. p \in Seq(DOMAIN es) /\ Len(a) = Len(p) /\ \A j \in DOMAIN p : a[j] = es[p[j]]
      BY <1>2 DEF Selects
    <3>2. i \in DOMAIN p
      BY <1>3, <3>1
    <3>3. QED BY <1>4, <3>1, <3>2
  <2>5. \A j \in 1 .. i - 1 : r[j] \notin stale
    BY <1>2, <1>3, <2>2, SMTT(15)
  <2>6. \A k \in DOMAIN es : es[k] \notin stale => \E j \in DOMAIN q : q[j] = k
    BY <1>2, <2>3, <2>4
  <2>7. i - 1 + Len(es) - Len(r) = n + 1 /\ i - 1 <= Len(r)
    <3>1. /\ i \in Nat /\ i <= Len(a) /\ Len(a) \in Nat /\ Len(es) \in Nat
          /\ i - 1 + Len(es) - Len(a) = n /\ Len(r) = Len(a) - 1
      BY <1>2, <1>3, <2>2
    <3>2. \A x, y, z \in Nat : x <= y /\ x - 1 + z - y = n => x - 1 + z - (y - 1) = n + 1 /\ x - 1 <= y - 1
      OBVIOUS
    <3>3. QED BY <3>1, <3>2
  <2>8. Visit(stale, acc) = [es |-> r, i |-> i]
    BY <1>1, <1>4, <2>1 DEF Visit
  <2>9. Reached([es |-> r, i |-> i], q, n + 1, es, stale, S)
    BY <1>2, <2>2, <2>3, <2>5, <2>6, <2>7 DEF Reached
  <2>10. QED BY <2>8, <2>9
<1>5. CASE a[i] \notin stale
  <2>1. Visit(stale, acc) = [es |-> a, i |-> i + 1]
    BY <1>1, <1>5 DEF Visit
  <2>2. Reached([es |-> a, i |-> i + 1], p, n + 1, es, stale, S)
    BY <1>2, <1>3, <1>5, SMTT(15) DEF Reached
  <2>3. QED BY <2>1, <2>2
<1>6. QED BY <1>4, <1>5

\* The sweep keeps every entry that is not stale, once, and no other.
LEMMA SweepSelects ==
    ASSUME NEW S, NEW es \in Seq(S), NEW stale
    PROVE  /\ Sweep(es, stale) \in Seq(S)
           /\ \E p : /\ Selects(p, es, Sweep(es, stale))
                     /\ \A j \in DOMAIN p : es[p[j]] \notin stale
                     /\ \A k \in DOMAIN es : es[k] \notin stale => \E j \in DOMAIN p : p[j] = k
<1>0. Len(es) \in Nat /\ DOMAIN es = 1 .. Len(es)
  OBVIOUS
<1>1. PICK after : Visits(after, es, stale) /\ Sweep(es, stale) = after[Len(es)].es
  BY VisitsExist, SweepIsVisits
<1>2. \A n \in 0 .. Len(es) : after[n] = IF n = 0 THEN [es |-> es, i |-> 1]
                                         ELSE Visit(stale, after[n - 1])
  BY <1>1, Zenon DEF Visits
<1> DEFINE G(n) == n <= Len(es) => \E p : Reached(after[n], p, n, es, stale, S)
           P == {n \in Nat : G(n)}
<1>3. G(0)
  <2> DEFINE p == [j \in 1 .. Len(es) |-> j]
  <2>1. p \in Seq(DOMAIN es) /\ DOMAIN p = 1 .. Len(es) /\ Len(p) = Len(es)
        /\ \A j \in 1 .. Len(es) : p[j] = j
    BY <1>0
  <2> HIDE DEF p
  <2>2. Selects(p, es, es)
    BY <1>0, <2>1 DEF Selects
  <2>3. after[0] = [es |-> es, i |-> 1]
    BY <1>0, <1>2
  <2>4. Reached([es |-> es, i |-> 1], p, 0, es, stale, S)
    BY <1>0, <2>1, <2>2 DEF Reached
  <2>5. QED BY <2>3, <2>4
<1>4. ASSUME NEW n \in Nat, G(n) PROVE G(n + 1)
  <2> SUFFICES ASSUME n + 1 <= Len(es)
               PROVE  \E q : Reached(after[n + 1], q, n + 1, es, stale, S)
    OBVIOUS
  <2>1. PICK p : Reached(after[n], p, n, es, stale, S)
    BY <1>0, <1>4
  <2>2. \E q : Reached(Visit(stale, after[n]), q, n + 1, es, stale, S)
    BY <2>1, VisitReaches
  <2>3. after[n + 1] = Visit(stale, after[n])
    BY <1>0, <1>2
  <2>4. QED BY <2>2, <2>3
<1>5. G(Len(es))
  <2> HIDE DEF G
  <2>1. Len(es) \in P
    <3>1. 0 \in P /\ \A n \in Nat : n \in P => n + 1 \in P
      BY <1>3, <1>4
    <3> HIDE DEF P
    <3>2. QED BY <1>0, <3>1, Inductive
  <2>2. QED BY <2>1
<1>6. PICK p : Reached(after[Len(es)], p, Len(es), es, stale, S)
  BY <1>0, <1>5
<1>7. PICK a, i : a = after[Len(es)].es /\ i = after[Len(es)].i
  OBVIOUS
<1>8. /\ a \in Seq(S) /\ Selects(p, es, a)
      /\ i \in Nat /\ i - 1 + Len(es) - Len(a) = Len(es)
      /\ \A j \in 1 .. i - 1 : a[j] \notin stale
      /\ \A k \in DOMAIN es : es[k] \notin stale => \E j \in DOMAIN p : p[j] = k
  BY <1>6, <1>7 DEF Reached
<1>9. i - 1 = Len(a)
  BY <1>0, <1>8
<1>10. \A j \in DOMAIN p : es[p[j]] \notin stale
  BY <1>8, <1>9 DEF Selects
<1>11. QED BY <1>1, <1>7, <1>8, <1>10

\* The places of the entries in A, and of the entries selected.
Kind(es, A) == {i \in DOMAIN es : es[i] \in A}
Places(p) == {p[j] : j \in DOMAIN p}

LEMMA Indices ==
    ASSUME NEW S, NEW es \in Seq(S)
    PROVE  /\ Len(es) \in Nat /\ DOMAIN es = 1 .. Len(es)
           /\ IsFiniteSet(DOMAIN es) /\ Cardinality(DOMAIN es) = Len(es)
           /\ \A A : IsFiniteSet(Kind(es, A)) /\ Cardinality(Kind(es, A)) \in Nat
<1>1. Len(es) \in Nat /\ DOMAIN es = 1 .. Len(es)
  OBVIOUS
<1>2. PICK n \in Nat : n = Len(es)
  BY <1>1
<1>3. IsFiniteSet(1 .. n) /\ Cardinality(1 .. n) = n
  BY FS_Interval
<1>4. \A A : Kind(es, A) \in SUBSET DOMAIN es
  BY DEF Kind
<1>5. \A A : IsFiniteSet(Kind(es, A)) /\ Cardinality(Kind(es, A)) \in Nat
  BY <1>1, <1>2, <1>3, <1>4, FS_Subset, FS_CardinalityType
<1>6. QED BY <1>1, <1>2, <1>3, <1>5

\* How many entries of a kind are left.
LEMMA SelectsCount ==
    ASSUME NEW S, NEW es \in Seq(S), NEW r \in Seq(S), NEW p, Selects(p, es, r), NEW A
    PROVE  Cardinality(Kind(r, A)) = Cardinality(Kind(es, A) \cap Places(p))
<1> DEFINE J == Kind(r, A)
           K == Kind(es, A) \cap Places(p)
           f == [j \in J |-> p[j]]
<1>1. /\ Len(es) \in Nat /\ DOMAIN es = 1 .. Len(es)
      /\ p \in Seq(DOMAIN es) /\ DOMAIN p = DOMAIN r /\ \A j \in DOMAIN r : p[j] \in DOMAIN es
      /\ \A j \in DOMAIN r : r[j] = es[p[j]]
      /\ \A j, k \in DOMAIN r : p[j] = p[k] => j = k
  BY DEF Selects
<1>2. f \in [J -> K]
  BY <1>1 DEF Kind, Places
<1>3. \A j, k \in J : f[j] = f[k] => j = k
  BY <1>1 DEF Kind
<1>4. \A i \in K : \E j \in J : f[j] = i
  BY <1>1 DEF Kind, Places
<1>5. IsFiniteSet(J)
  BY Indices
<1> HIDE DEF f, J, K
<1>6. f \in Bijection(J, K)
  BY <1>2, <1>3, <1>4 DEF Bijection, Injection, Surjection, IsInjective
<1>7. ExistsBijection(J, K)
  BY <1>6 DEF ExistsBijection
<1>8. Cardinality(K) = Cardinality(J)
  BY <1>5, <1>7, FS_Bijection
<1>9. QED BY <1>8 DEF J, K

LEMMA SwapOutFrees ==
    ASSUME NEW S, NEW es \in Seq(S), NEW i \in DOMAIN es, NEW A
    PROVE  Cardinality(Kind(SwapOut(es, i), A)) = Cardinality(Kind(es, A) \ {i})
<1> DEFINE n == Len(es)
<1>0. n \in Nat /\ DOMAIN es = 1 .. n /\ i \in 1 .. n
  BY Indices
<1>1. PICK p : p = [j \in DOMAIN es |-> j]
  OBVIOUS
<1>2. p \in Seq(DOMAIN es) /\ DOMAIN p = DOMAIN es /\ Len(p) = n /\ \A j \in DOMAIN es : p[j] = j
  BY <1>0, <1>1
<1>3. PICK q, r : q = SwapOut(p, i) /\ r = SwapOut(es, i)
  OBVIOUS
<1> HIDE DEF n
<1>4. Selects(p, es, es)
  BY <1>0, <1>2 DEF Selects
<1>5. /\ Selects(q, es, r)
      /\ \A k \in DOMAIN es : (\E j \in DOMAIN p : p[j] = k) /\ k # p[i] => \E j \in DOMAIN q : q[j] = k
  BY <1>3, <1>4, SwapOutSelects
<1>6. r \in Seq(S)
  BY <1>3, SwapOutIs
<1>7. /\ DOMAIN q = 1 .. Len(p) - 1
      /\ \A j \in 1 .. Len(p) - 1 : q[j] = IF j = i THEN p[Len(p)] ELSE p[j]
  <2>1. p \in Seq(DOMAIN es) /\ i \in DOMAIN p
    BY <1>2
  <2>2. /\ DOMAIN SwapOut(p, i) = 1 .. Len(p) - 1
        /\ \A j \in 1 .. Len(p) - 1 : SwapOut(p, i)[j] = IF j = i THEN p[Len(p)] ELSE p[j]
    BY <2>1, SwapOutIs
  <2>3. q = SwapOut(p, i)
    BY <1>3
  <2>4. QED BY <2>2, <2>3
<1>8. \A j \in DOMAIN q : q[j] \in DOMAIN es \ {i}
  <2> SUFFICES ASSUME NEW j \in 1 .. n - 1 PROVE q[j] \in 1 .. n /\ q[j] # i
    BY <1>0, <1>2, <1>7
  <2>1. q[j] = (IF j = i THEN p[n] ELSE p[j]) /\ p[n] = n /\ p[j] = j /\ j # n
    BY <1>0, <1>2, <1>7, SMTT(15)
  <2>2. QED BY <1>0, <2>1
<1>9. Kind(es, A) \cap Places(q) = Kind(es, A) \ {i}
  BY <1>2, <1>5, <1>8 DEF Kind, Places
<1>10. Cardinality(Kind(r, A)) = Cardinality(Kind(es, A) \cap Places(q))
  BY <1>5, <1>6, SelectsCount
<1>11. QED BY <1>3, <1>9, <1>10

LEMMA SweepFrees ==
    ASSUME NEW S, NEW es \in Seq(S), NEW stale
    PROVE  /\ Sweep(es, stale) \in Seq(S)
           /\ Len(Sweep(es, stale)) = Len(es) - Cardinality(Kind(es, stale))
           /\ ToSet(Sweep(es, stale)) = ToSet(es) \ stale
           /\ \A A : Cardinality(Kind(Sweep(es, stale), A)) = Cardinality(Kind(es, A \ stale))
<1>1. PICK r : r = Sweep(es, stale)
  OBVIOUS
<1>2. PICK p : /\ Selects(p, es, r)
               /\ \A j \in DOMAIN p : es[p[j]] \notin stale
               /\ \A k \in DOMAIN es : es[k] \notin stale => \E j \in DOMAIN p : p[j] = k
  BY <1>1, SweepSelects
<1>3. r \in Seq(S)
  BY <1>1, SweepSelects
<1>4. ASSUME NEW A
      PROVE  Cardinality(Kind(r, A)) = Cardinality(Kind(es, A \ stale))
  <2>1. Kind(es, A) \cap Places(p) = Kind(es, A \ stale)
    BY <1>2 DEF Kind, Places
  <2>2. Selects(p, es, r)
    BY <1>2
  <2>3. Cardinality(Kind(r, A)) = Cardinality(Kind(es, A) \cap Places(p))
    BY <1>3, <2>2, SelectsCount
  <2>4. QED BY <2>1, <2>3
<1>5. Len(r) = Len(es) - Cardinality(Kind(es, stale))
  <2>1. Kind(r, S) = DOMAIN r /\ Cardinality(DOMAIN r) = Len(r)
    <3>1. \A j \in DOMAIN r : r[j] \in S
      BY <1>3
    <3>2. Kind(r, S) = DOMAIN r
      BY <3>1 DEF Kind
    <3>3. QED BY <1>3, <3>2, Indices
  <2>2. Kind(es, S \ stale) = DOMAIN es \ Kind(es, stale)
    BY Indices DEF Kind
  <2>3. DOMAIN es \cap Kind(es, stale) = Kind(es, stale)
    BY DEF Kind
  <2>4. IsFiniteSet(DOMAIN es) /\ Cardinality(DOMAIN es) = Len(es)
    BY Indices
  <2>5. Cardinality(DOMAIN es \ Kind(es, stale)) = Len(es) - Cardinality(Kind(es, stale))
    <3>1. Cardinality(DOMAIN es \ Kind(es, stale)) =
             Cardinality(DOMAIN es) - Cardinality(DOMAIN es \cap Kind(es, stale))
      BY <2>4, FS_Difference
    <3>2. QED BY <2>3, <2>4, <3>1
  <2>6. QED BY <1>4, <2>1, <2>2, <2>5
<1>6. ToSet(r) = ToSet(es) \ stale
  <2>1. \A j \in DOMAIN r : r[j] = es[p[j]] /\ p[j] \in DOMAIN es /\ j \in DOMAIN p
    BY <1>2, <1>3 DEF Selects
  <2>2. \A j \in DOMAIN p : j \in DOMAIN r
    BY <1>2, <1>3 DEF Selects
  <2>3. QED BY <1>2, <2>1, <2>2 DEF ToSet
<1>7. QED BY <1>1, <1>3, <1>4, <1>5, <1>6

\* r is es without its entry i, the one at j moved from m[j].
Moves(m, es, r, i) ==
    /\ m \in [DOMAIN r -> DOMAIN es \ {i}]
    /\ \A j, k \in DOMAIN r : m[j] = m[k] => j = k
    /\ \A k \in DOMAIN es \ {i} : \E j \in DOMAIN r : m[j] = k
    /\ \A j \in DOMAIN r : r[j] = es[m[j]]

LEMMA SwapOutMoves ==
    ASSUME NEW S, NEW es \in Seq(S), NEW i \in DOMAIN es
    PROVE  \E m : Moves(m, es, SwapOut(es, i), i)
<1>1. PICK n \in Nat : n = Len(es) /\ DOMAIN es = 1 .. n /\ i \in 1 .. n
  OBVIOUS
<1>2. PICK r : r = SwapOut(es, i)
  OBVIOUS
<1>3. DOMAIN r = 1 .. n - 1 /\ \A j \in 1 .. n - 1 : r[j] = IF j = i THEN es[n] ELSE es[j]
  BY <1>1, <1>2, SwapOutIs
<1>4. PICK m : m = [j \in 1 .. n - 1 |-> IF j = i THEN n ELSE j]
  OBVIOUS
<1>5. \A j \in 1 .. n - 1 : m[j] = (IF j = i THEN n ELSE j) /\ m[j] \in (1 .. n) \ {i}
  BY <1>1, <1>4
<1>6. m \in [1 .. n - 1 -> (1 .. n) \ {i}]
  BY <1>4, <1>5
<1>7. \A j, k \in 1 .. n - 1 : m[j] = m[k] => j = k
  BY <1>1, <1>5
<1>8. ASSUME NEW k \in (1 .. n) \ {i} PROVE \E j \in 1 .. n - 1 : m[j] = k
  <2>1. CASE k = n
    BY <1>1, <1>5, <2>1
  <2>2. CASE k # n
    BY <1>1, <1>5, <2>2
  <2>3. QED BY <2>1, <2>2
<1>9. \A j \in 1 .. n - 1 : r[j] = es[m[j]]
  BY <1>3, <1>5
<1>10. DOMAIN r = 1 .. n - 1 /\ DOMAIN es = 1 .. n
  BY <1>1, <1>3
<1>11. Moves(m, es, r, i)
  BY <1>6, <1>7, <1>8, <1>9, <1>10, Zenon DEF Moves
<1>12. QED BY <1>2, <1>11
=============================================================================
