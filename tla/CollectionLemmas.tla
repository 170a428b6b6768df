-------------------------- MODULE CollectionLemmas --------------------------
(***************************************************************************)
(* What the proofs need of finite sets, numbers and sequences, whatever    *)
(* they hold: induction over the subsets of a finite set, sums and folds,  *)
(* which unfold to recursive functions on those subsets, and positions by  *)
(* their rank.                                                             *)
(***************************************************************************)
EXTENDS Naturals, Sequences, FiniteSets, Functions, FiniteSetsExt,
        FiniteSetTheorems, SequenceTheorems, WellFoundedInduction, TLAPS

-----------------------------------------------------------------------------
(* Induction over the subsets of a finite set                              *)

\* Every subset of a finite set is in P when each one is in P whose strict
\* subsets are.
LEMMA SubsetInduct ==
    ASSUME NEW S, IsFiniteSet(S), NEW P,
           \A T \in SUBSET S : (\A U \in SUBSET T : U # T => U \in P) => T \in P
    PROVE  \A T \in SUBSET S : T \in P
<1> DEFINE Bad == {T \in SUBSET S : T \notin P}
           Less == StrictSubsetOrdering(S)
<1>1. IsWellFoundedOn(Less, FiniteSubsetsOf(S)) /\ FiniteSubsetsOf(S) = SUBSET S
  BY FS_StrictSubsetOrderingWellFounded, FS_FiniteSubsetsOfFinite
<1>2. SUFFICES ASSUME Bad # {} PROVE FALSE
  OBVIOUS
<1>3. \E T \in Bad : \A U \in Bad : ~(<<U, T>> \in Less)
  <2>1. Bad \subseteq SUBSET S
    OBVIOUS
  <2>2. IsWellFoundedOn(Less, SUBSET S)
    BY <1>1
  <2> HIDE DEF Bad, Less
  <2>3. Bad # {}
    BY <1>2
  <2>4. QED
    BY <2>1, <2>2, <2>3, WFMin
<1>4. PICK T \in Bad : \A U \in Bad : ~(<<U, T>> \in Less)
  BY <1>3
<1>5. \A U \in SUBSET T : U # T => U \in P
  BY <1>4 DEF StrictSubsetOrdering
<1>6. QED
  BY <1>4, <1>5

\* A set of natural numbers that is not empty has a least one.
LEMMA LeastOfSet ==
    ASSUME NEW S, S \subseteq Nat, S # {}
    PROVE  \E n \in S : \A m \in S : n <= m
<1> DEFINE Less == {p \in Nat \X Nat : p[1] < p[2]}
<1>1. IsWellFoundedOn(Less, Nat)
  BY NatLessThanWellFounded DEF OpToRel
<1>2. \E n \in S : \A m \in S : ~(<<m, n>> \in Less)
  <2> HIDE DEF Less
  <2> QED BY <1>1, WFMin, Zenon
<1>3. PICK n \in S : \A m \in S : ~(<<m, n>> \in Less)
  BY <1>2
<1>4. ASSUME NEW m \in S PROVE n <= m
  <2>1. n \in Nat /\ m \in Nat
    OBVIOUS
  <2>2. SUFFICES ASSUME m < n PROVE FALSE
    BY <2>1
  <2>3. <<m, n>> \in Less
    BY <2>1, <2>2
  <2>4. QED
    BY <2>3, <1>3
<1>5. QED
  BY <1>4

-----------------------------------------------------------------------------
(* Sums over finite sets                                                   *)

\* What SumFunctionOnSet unfolds to.
First(s) == CHOOSE x \in s : TRUE
Adds(f, g, S) ==
    g = [s \in SUBSET S |-> IF s = {} THEN 0 ELSE f[First(s)] + g[s \ {First(s)}]]

LEMMA SumIs ==
    ASSUME NEW f, NEW S
    PROVE  SumFunctionOnSet(f, S) = (CHOOSE g : Adds(f, g, S))[S]
BY DEF SumFunctionOnSet, FoldFunctionOnSet, MapThenFoldSet, Adds, First

LEMMA FirstIn == ASSUME NEW s, s # {} PROVE First(s) \in s
BY DEF First

LEMMA AddsAgree ==
    ASSUME NEW f, NEW g, NEW h, NEW S, NEW T, Adds(f, g, S), Adds(f, h, T),
           NEW U \in SUBSET S, U \in SUBSET T, IsFiniteSet(U)
    PROVE  g[U] = h[U]
<1> DEFINE P == {V \in SUBSET U : g[V] = h[V]}
<1>1. ASSUME NEW V \in SUBSET U, \A W \in SUBSET V : W # V => W \in P
      PROVE  V \in P
  <2>1. CASE V = {}
    BY <2>1 DEF Adds
  <2>2. CASE V # {}
    <3>1. V \ {First(V)} \in SUBSET V /\ V \ {First(V)} # V
      BY <2>2, FirstIn
    <3>2. g[V \ {First(V)}] = h[V \ {First(V)}]
      BY <1>1, <3>1
    <3>3. g[V] = f[First(V)] + g[V \ {First(V)}] /\ h[V] = f[First(V)] + h[V \ {First(V)}]
      BY <2>2 DEF Adds
    <3>4. QED
      BY <3>2, <3>3
  <2>3. QED
    BY <2>1, <2>2
<1>2. \A V \in SUBSET U : V \in P
  <2> HIDE DEF P
  <2> QED BY <1>1, SubsetInduct
<1>3. QED
  BY <1>2

LEMMA AddsExists ==
    ASSUME NEW f, NEW S, IsFiniteSet(S)
    PROVE  \E g : Adds(f, g, S)
<1> DEFINE P == {T \in SUBSET S : \E g : Adds(f, g, T)}
           G(T) == CHOOSE g : Adds(f, g, T)
<1>1. ASSUME NEW T \in SUBSET S, \A U \in SUBSET T : U # T => U \in P
      PROVE  T \in P
  <2> DEFINE rest(s) == s \ {First(s)}
             h == [s \in SUBSET T |-> IF s = {} THEN 0 ELSE f[First(s)] + G(rest(s))[rest(s)]]
  <2>1. \A U \in SUBSET T : U # T => Adds(f, G(U), U)
    BY <1>1
  <2>2. \A s \in SUBSET T : s # {} => /\ rest(s) \in SUBSET s /\ rest(s) \in SUBSET T /\ rest(s) # T
                                     /\ rest(s) # s
    BY FirstIn
  <2>3. ASSUME NEW U \in SUBSET T, U # T
        PROVE  h[U] = G(U)[U]
    <3>1. Adds(f, G(U), U)
      BY <2>1, <2>3
    <3>2. CASE U = {}
      BY <3>1, <3>2 DEF Adds
    <3>3. CASE U # {}
      <4>1. Adds(f, G(rest(U)), rest(U))
        BY <2>1, <2>2, <3>3
      <4>2. IsFiniteSet(rest(U)) /\ rest(U) \in SUBSET U /\ rest(U) \in SUBSET rest(U)
        <5>1. rest(U) \in SUBSET S
          OBVIOUS
        <5>2. QED
          BY <5>1, FS_Subset
      <4> HIDE DEF G
      <4>3. G(U)[rest(U)] = G(rest(U))[rest(U)]
        <5> HIDE DEF rest
        <5> QED BY <3>1, <4>1, <4>2, AddsAgree
      <4>4. G(U)[U] = f[First(U)] + G(U)[rest(U)]
        BY <3>1, <3>3 DEF Adds
      <4>5. h[U] = f[First(U)] + G(rest(U))[rest(U)]
        BY <3>3
      <4>6. QED
        BY <4>3, <4>4, <4>5
    <3>4. QED
      BY <3>2, <3>3
  <2>4. h = [s \in SUBSET T |-> IF s = {} THEN 0 ELSE f[First(s)] + h[s \ {First(s)}]]
    <3>1. \A s \in SUBSET T : s # {} => h[rest(s)] = G(rest(s))[rest(s)]
      BY <2>2, <2>3
    <3> DEFINE H == [s \in SUBSET T |-> IF s = {} THEN 0 ELSE f[First(s)] + h[s \ {First(s)}]]
    <3>2. ASSUME NEW s \in SUBSET T PROVE h[s] = H[s]
      <4>1. CASE s = {}
        BY <4>1
      <4>2. CASE s # {}
        <5>1. h[s] = f[First(s)] + G(rest(s))[rest(s)] /\ H[s] = f[First(s)] + h[rest(s)]
          BY <4>2
        <5> HIDE DEF h, H, G, rest
        <5>2. QED
          BY <3>1, <4>2, <5>1
      <4>3. QED
        BY <4>1, <4>2
    <3>4. h = H
      <4>1. \A s \in SUBSET T :
                (IF s = {} THEN 0 ELSE f[First(s)] + G(rest(s))[rest(s)])
              = (IF s = {} THEN 0 ELSE f[First(s)] + h[s \ {First(s)}])
        <5>1. \A s \in SUBSET T : h[s] = H[s]
          BY <3>2
        <5>2. \A s \in SUBSET T : h[s] = IF s = {} THEN 0 ELSE f[First(s)] + G(rest(s))[rest(s)]
          BY Zenon
        <5>3. \A s \in SUBSET T : H[s] = IF s = {} THEN 0 ELSE f[First(s)] + h[s \ {First(s)}]
          BY Zenon
        <5> HIDE DEF h, H, G, rest
        <5>4. QED
          BY <5>1, <5>2, <5>3
      <4> DEFINE v(s) == IF s = {} THEN 0 ELSE f[First(s)] + G(rest(s))[rest(s)]
                 w(s) == IF s = {} THEN 0 ELSE f[First(s)] + h[s \ {First(s)}]
      <4>2. \A s \in SUBSET T : v(s) = w(s)
        BY <4>1
      <4> HIDE DEF v, w
      <4>3. [s \in SUBSET T |-> v(s)] = [s \in SUBSET T |-> w(s)]
        BY <4>2
      <4>4. QED
        BY <4>3 DEF v, w
    <3>5. QED
      BY <3>4
  <2>5. Adds(f, h, T)
    BY <2>4 DEF Adds
  <2>6. QED
    BY <2>5
<1>2. \A T \in SUBSET S : T \in P
  <2> HIDE DEF P
  <2> QED BY <1>1, SubsetInduct
<1>3. QED
  BY <1>2

\* A sum is the value of one element and the sum of the rest, whichever it is.
LEMMA SumFirst ==
    ASSUME NEW f, NEW S, IsFiniteSet(S)
    PROVE  /\ SumFunctionOnSet(f, {}) = 0
           /\ S # {} => SumFunctionOnSet(f, S) = f[First(S)] + SumFunctionOnSet(f, S \ {First(S)})
<1> DEFINE G(T) == CHOOSE g : Adds(f, g, T)
           rest == S \ {First(S)}
<1>1. \A T : IsFiniteSet(T) => Adds(f, G(T), T)
  BY AddsExists
<1>2. \A T : SumFunctionOnSet(f, T) = G(T)[T]
  BY SumIs
<1>3. IsFiniteSet({}) /\ IsFiniteSet(rest)
  BY FS_EmptySet, FS_RemoveElement
<1>4. Adds(f, G({}), {}) /\ Adds(f, G(S), S) /\ Adds(f, G(rest), rest)
  BY <1>1, <1>3
<1> HIDE DEF G
<1>5. G({})[{}] = 0
  BY <1>4 DEF Adds
<1>6. ASSUME S # {} PROVE G(S)[S] = f[First(S)] + G(rest)[rest]
  <2>1. G(S)[S] = f[First(S)] + G(S)[rest]
    BY <1>4, <1>6 DEF Adds
  <2>2. rest \in SUBSET S /\ rest \in SUBSET rest
    OBVIOUS
  <2>3. G(S)[rest] = G(rest)[rest]
    <3> HIDE DEF rest
    <3> QED BY <1>3, <1>4, <2>2, AddsAgree
  <2>4. QED
    BY <2>1, <2>3
<1>7. QED
  BY <1>2, <1>5, <1>6

LEMMA SumIsNat ==
    ASSUME NEW f, NEW S, IsFiniteSet(S), \A x \in S : f[x] \in Nat
    PROVE  SumFunctionOnSet(f, S) \in Nat
<1> DEFINE P == {T \in SUBSET S : SumFunctionOnSet(f, T) \in Nat}
<1>1. ASSUME NEW T \in SUBSET S, \A U \in SUBSET T : U # T => U \in P
      PROVE  T \in P
  <2>1. IsFiniteSet(T)
    BY FS_Subset
  <2>2. CASE T = {}
    <3>1. SumFunctionOnSet(f, {}) = 0
      BY FS_EmptySet, SumFirst
    <3>2. QED
      BY <2>2, <3>1
  <2>3. CASE T # {}
    <3>1. First(T) \in T /\ T \ {First(T)} \in SUBSET T /\ T \ {First(T)} # T
      BY <2>3, FirstIn
    <3>2. SumFunctionOnSet(f, T \ {First(T)}) \in Nat /\ f[First(T)] \in Nat
      BY <1>1, <3>1
    <3>3. QED
      BY <2>1, <2>3, <3>2, SumFirst
  <2>4. QED
    BY <2>2, <2>3
<1>2. \A T \in SUBSET S : T \in P
  <2> HIDE DEF P
  <2> QED BY <1>1, SubsetInduct
<1>3. QED
  BY <1>2

LEMMA SumWithout ==
    ASSUME NEW f, NEW S, IsFiniteSet(S), \A y \in S : f[y] \in Nat, NEW x \in S
    PROVE  SumFunctionOnSet(f, S) = f[x] + SumFunctionOnSet(f, S \ {x})
<1> DEFINE sum(T) == SumFunctionOnSet(f, T)
           P == {T \in SUBSET S : \A y \in T : sum(T) = f[y] + sum(T \ {y})}
<1>1. ASSUME NEW T \in SUBSET S, \A U \in SUBSET T : U # T => U \in P
      PROVE  T \in P
  <2>1. IsFiniteSet(T) /\ \A y \in T : f[y] \in Nat
    BY FS_Subset
  <2>2. SUFFICES ASSUME NEW y \in T PROVE sum(T) = f[y] + sum(T \ {y})
    OBVIOUS
  <2> DEFINE c == First(T)
             one == T \ {c}
             other == T \ {y}
             both == T \ {c, y}
  <2>3. c \in T
    BY <2>2, FirstIn
  <2>4. sum(T) = f[c] + sum(one)
    BY <2>1, <2>3, SumFirst
  <2>5. CASE y = c
    BY <2>4, <2>5
  <2>6. CASE y # c
    <3>1. /\ one \in SUBSET T /\ one # T /\ other \in SUBSET T /\ other # T
          /\ y \in one /\ c \in other /\ one \ {y} = both /\ other \ {c} = both
      BY <2>3, <2>6
    <3>2. sum(one) = f[y] + sum(both) /\ sum(other) = f[c] + sum(both)
      BY <1>1, <3>1
    <3>3. f[y] \in Nat /\ f[c] \in Nat /\ sum(both) \in Nat
      <4>1. IsFiniteSet(both) /\ \A z \in both : f[z] \in Nat
        <5>1. both \in SUBSET T
          OBVIOUS
        <5>2. QED
          BY <2>1, <5>1, FS_Subset
      <4>2. QED
        BY <2>1, <2>3, <4>1, SumIsNat
    <3> HIDE DEF sum, c, one, other, both
    <3>4. QED
      BY <2>4, <3>2, <3>3 DEF other
  <2>7. QED
    BY <2>5, <2>6
<1>2. \A T \in SUBSET S : T \in P
  <2> HIDE DEF P
  <2> QED BY <1>1, SubsetInduct
<1>3. QED
  BY <1>2

LEMMA SumAgree ==
    ASSUME NEW f, NEW g, NEW S, IsFiniteSet(S), \A x \in S : f[x] = g[x]
    PROVE  SumFunctionOnSet(f, S) = SumFunctionOnSet(g, S)
<1> DEFINE P == {T \in SUBSET S : SumFunctionOnSet(f, T) = SumFunctionOnSet(g, T)}
<1>1. ASSUME NEW T \in SUBSET S, \A U \in SUBSET T : U # T => U \in P
      PROVE  T \in P
  <2>1. IsFiniteSet(T)
    BY FS_Subset
  <2>2. CASE T = {}
    <3>1. SumFunctionOnSet(f, {}) = 0 /\ SumFunctionOnSet(g, {}) = 0
      BY FS_EmptySet, SumFirst
    <3>2. QED
      BY <2>2, <3>1
  <2>3. CASE T # {}
    <3>1. First(T) \in T /\ T \ {First(T)} \in SUBSET T /\ T \ {First(T)} # T
      BY <2>3, FirstIn
    <3>2. /\ SumFunctionOnSet(f, T \ {First(T)}) = SumFunctionOnSet(g, T \ {First(T)})
          /\ f[First(T)] = g[First(T)]
      BY <1>1, <3>1
    <3>3. QED
      BY <2>1, <2>3, <3>2, SumFirst
  <2>4. QED
    BY <2>2, <2>3
<1>2. \A T \in SUBSET S : T \in P
  <2> HIDE DEF P
  <2> QED BY <1>1, SubsetInduct
<1>3. QED
  BY <1>2

\* The sum over a set is the sum over a part of it and over the rest.
LEMMA SumSplit ==
    ASSUME NEW f, NEW S, IsFiniteSet(S), \A y \in S : f[y] \in Nat, NEW A \in SUBSET S
    PROVE  /\ SumFunctionOnSet(f, S) = SumFunctionOnSet(f, A) + SumFunctionOnSet(f, S \ A)
           /\ SumFunctionOnSet(f, A) \in Nat /\ SumFunctionOnSet(f, S \ A) \in Nat
<1> DEFINE sum(T) == SumFunctionOnSet(f, T)
           P == {B \in SUBSET S : sum(S) = sum(B) + sum(S \ B)}
<1>0. ASSUME NEW T \in SUBSET S PROVE IsFiniteSet(T) /\ sum(T) \in Nat
  <2>1. IsFiniteSet(T)
    BY FS_Subset
  <2>2. QED
    BY <2>1, SumIsNat
<1>1. ASSUME NEW B \in SUBSET S, \A U \in SUBSET B : U # B => U \in P
      PROVE  B \in P
  <2>2. CASE B = {}
    <3>1. sum({}) = 0 /\ S \ {} = S
      BY FS_EmptySet, SumFirst
    <3>2. QED
      BY <1>0, <2>2, <3>1
  <2>3. CASE B # {}
    <3> DEFINE x == First(B)
               less == B \ {x}
    <3>1. /\ x \in B /\ less \in SUBSET B /\ less # B /\ less \in SUBSET S
          /\ x \in S \ less /\ (S \ less) \ {x} = S \ B /\ S \ less \in SUBSET S /\ S \ B \in SUBSET S
      BY <2>3, FirstIn
    <3>2. sum(S) = sum(less) + sum(S \ less)
      BY <1>1, <3>1
    <3>3. sum(S \ less) = f[x] + sum((S \ less) \ {x})
      <4>1. IsFiniteSet(S \ less) /\ \A y \in S \ less : f[y] \in Nat
        BY <1>0, <3>1
      <4> HIDE DEF x, less
      <4>2. QED
        BY <3>1, <4>1, SumWithout
    <3>4. sum(B) = f[x] + sum(less)
      BY <1>0, <2>3, SumFirst
    <3>5. sum(less) \in Nat /\ f[x] \in Nat /\ sum(S \ B) \in Nat /\ sum(S \ less) \in Nat
      BY <1>0, <3>1
    <3> HIDE DEF sum, x, less
    <3>6. QED
      BY <3>1, <3>2, <3>3, <3>4, <3>5
  <2>4. QED
    BY <2>2, <2>3
<1>2. \A B \in SUBSET S : B \in P
  <2> HIDE DEF P
  <2> QED BY <1>1, SubsetInduct
<1>3. S \ A \in SUBSET S
  OBVIOUS
<1>4. QED
  BY <1>0, <1>2, <1>3

LEMMA SumOfPart ==
    ASSUME NEW f, NEW S, IsFiniteSet(S), \A y \in S : f[y] \in Nat, NEW A \in SUBSET S
    PROVE  SumFunctionOnSet(f, A) <= SumFunctionOnSet(f, S)
<1>1. /\ SumFunctionOnSet(f, S) = SumFunctionOnSet(f, A) + SumFunctionOnSet(f, S \ A)
      /\ SumFunctionOnSet(f, A) \in Nat /\ SumFunctionOnSet(f, S \ A) \in Nat
  BY SumSplit
<1>2. QED
  BY <1>1

LEMMA SumOfNothing ==
    ASSUME NEW f, NEW S, IsFiniteSet(S), \A x \in S : f[x] = 0
    PROVE  SumFunctionOnSet(f, S) = 0
<1> DEFINE P == {T \in SUBSET S : SumFunctionOnSet(f, T) = 0}
<1>1. ASSUME NEW T \in SUBSET S, \A U \in SUBSET T : U # T => U \in P
      PROVE  T \in P
  <2>1. IsFiniteSet(T)
    BY FS_Subset
  <2>2. CASE T = {}
    <3>1. SumFunctionOnSet(f, {}) = 0
      BY FS_EmptySet, SumFirst
    <3>2. QED
      BY <2>2, <3>1
  <2>3. CASE T # {}
    <3>1. First(T) \in T /\ T \ {First(T)} \in SUBSET T /\ T \ {First(T)} # T
      BY <2>3, FirstIn
    <3>2. SumFunctionOnSet(f, T \ {First(T)}) = 0 /\ f[First(T)] = 0
      BY <1>1, <3>1
    <3>3. QED
      BY <2>1, <2>3, <3>2, SumFirst
  <2>4. QED
    BY <2>2, <2>3
<1>2. \A T \in SUBSET S : T \in P
  <2> HIDE DEF P
  <2> QED BY <1>1, SubsetInduct
<1>3. QED
  BY <1>2

-----------------------------------------------------------------------------
(* Numbers, sequences and places                                           *)

LEMMA SeqOfFunction ==
    ASSUME NEW n \in Nat, NEW S, NEW f \in [1 .. n -> S]
    PROVE  f \in Seq(S) /\ Len(f) = n
  BY SeqDef

LEMMA MaxOf ==
    ASSUME NEW n \in Nat, NEW S \in SUBSET (0 .. n), S # {}
    PROVE  Max(S) \in S /\ \A e \in S : e <= Max(S)
<1> DEFINE Less == {p \in Nat \X Nat : p[1] < p[2]}
           T == {n - d : d \in S}
<1>1. IsWellFoundedOn(Less, Nat)
  BY NatLessThanWellFounded DEF OpToRel
<1>2. T \subseteq Nat /\ T # {}
  <2>1. ASSUME NEW d \in S PROVE n - d \in Nat
    OBVIOUS
  <2>2. QED
    BY <2>1
<1>3. \E k \in T : \A m \in T : ~(<<m, k>> \in Less)
  <2> HIDE DEF Less, T
  <2> QED BY <1>1, <1>2, WFMin, Zenon
<1>4. PICK d \in S : \A m \in T : ~(<<m, n - d>> \in Less)
  <2> HIDE DEF Less
  <2>1. QED
    BY <1>3
<1>5. ASSUME NEW e \in S PROVE e <= d
  <2>1. n - e \in Nat /\ n - d \in Nat /\ e \in Nat /\ d \in Nat
    OBVIOUS
  <2>2. ~(<<n - e, n - d>> \in Less)
    <3> HIDE DEF Less
    <3>1. QED
      BY <1>4
  <2>3. ~(n - e < n - d)
    BY <2>1, <2>2
  <2>4. QED
    BY <2>1, <2>3
<1>6. \E x \in S : \A y \in S : x >= y
  BY <1>5
<1>7. Max(S) \in S /\ \A y \in S : Max(S) >= y
  BY <1>6 DEF Max
<1>8. QED
  BY <1>7

LEMMA MinOf ==
    ASSUME NEW S \in SUBSET Nat, S # {}
    PROVE  Min(S) \in S /\ \A e \in S : Min(S) <= e
<1> DEFINE Less == {p \in Nat \X Nat : p[1] < p[2]}
<1>1. IsWellFoundedOn(Less, Nat)
  BY NatLessThanWellFounded DEF OpToRel
<1>3. \E k \in S : \A m \in S : ~(<<m, k>> \in Less)
  <2>1. S \subseteq Nat
    OBVIOUS
  <2> HIDE DEF Less
  <2>2. QED
    BY <1>1, <2>1, WFMin, Zenon
<1>4. PICK k \in S : \A m \in S : ~(<<m, k>> \in Less)
  BY <1>3
<1>5. ASSUME NEW m \in S PROVE k <= m
  <2>1. ~(<<m, k>> \in Less) /\ m \in Nat /\ k \in Nat
    BY <1>4, Zenon
  <2>2. ~(m < k)
    BY <2>1
  <2>3. QED
    BY <2>1, <2>2
<1>6. \E x \in S : \A y \in S : x =< y
  BY <1>5
<1>7. QED
  BY <1>6 DEF Min


-----------------------------------------------------------------------------
(* Positions, by their rank                                                *)

RankIn(S, i) == Cardinality({j \in S : j <= i})
PlaceIn(S, k) == CHOOSE i \in S : RankIn(S, i) = k

LEMMA RankFacts ==
    ASSUME NEW n \in Nat, NEW S \in SUBSET (1 .. n)
    PROVE  /\ IsFiniteSet(S) /\ Cardinality(S) \in Nat
           /\ \A i \in S : RankIn(S, i) \in 1 .. Cardinality(S)
           /\ \A i, j \in S : RankIn(S, i) = RankIn(S, j) => i = j
           /\ \A i, j \in S : i < j => RankIn(S, i) < RankIn(S, j)
<1>1. IsFiniteSet(S) /\ Cardinality(S) \in Nat
  <2>1. IsFiniteSet(1 .. n) /\ S \in SUBSET (1 .. n)
    BY FS_Interval
  <2>2. IsFiniteSet(S)
    BY <2>1, FS_Subset
  <2>3. QED
    BY <2>2, FS_CardinalityType
<1>2. ASSUME NEW i \in S
      PROVE  /\ IsFiniteSet({j \in S : j <= i}) /\ RankIn(S, i) \in Nat
             /\ RankIn(S, i) <= Cardinality(S) /\ RankIn(S, i) # 0
  <2> DEFINE B == {j \in S : j <= i}
  <2>1. B \in SUBSET S /\ i \in B
    OBVIOUS
  <2> HIDE DEF B
  <2>2. IsFiniteSet(B) /\ Cardinality(B) <= Cardinality(S)
    BY <1>1, <2>1, FS_Subset
  <2>3. Cardinality(B) \in Nat /\ (Cardinality(B) = 0 <=> B = {})
    BY <2>2, FS_CardinalityType, FS_EmptySet
  <2>4. QED
    BY <2>1, <2>2, <2>3 DEF B, RankIn
<1>3. ASSUME NEW i \in S, NEW j \in S, i < j PROVE RankIn(S, i) < RankIn(S, j)
  <2> DEFINE B == {e \in S : e <= i}
             C == {e \in S : e <= j}
  <2>1. B \in SUBSET C /\ j \in C /\ j \notin B
    <3>1. i \in Int /\ j \in Int
      OBVIOUS
    <3>2. ASSUME NEW e \in S, e <= i PROVE e <= j
      <4>1. e \in Int
        OBVIOUS
      <4>2. QED
        BY <1>3, <3>1, <3>2, <4>1
    <3>3. ~(j <= i)
      BY <1>3, <3>1
    <3>4. B \in SUBSET C
      BY <3>2
    <3>5. j \in C
      BY <3>1
    <3>6. QED
      BY <3>3, <3>4, <3>5
  <2>2. IsFiniteSet(C)
    BY <1>2
  <2>3. Cardinality(B) # Cardinality(C) /\ Cardinality(B) <= Cardinality(C)
    <3> HIDE DEF B, C
    <3> QED BY <2>1, <2>2, FS_Subset
  <2>4. RankIn(S, i) = Cardinality(B) /\ RankIn(S, j) = Cardinality(C)
    BY DEF RankIn
  <2>5. RankIn(S, i) \in Nat /\ RankIn(S, j) \in Nat
    BY <1>2
  <2> HIDE DEF B, C
  <2>6. QED
    BY <2>3, <2>4, <2>5
<1>4. ASSUME NEW i \in S, NEW j \in S, RankIn(S, i) = RankIn(S, j) PROVE i = j
  <2>1. i \in Int /\ j \in Int
    OBVIOUS
  <2>2. RankIn(S, i) \in Nat
    BY <1>2
  <2>3. ~(i < j) /\ ~(j < i)
    <3>1. ~(RankIn(S, i) < RankIn(S, j)) /\ ~(RankIn(S, j) < RankIn(S, i))
      BY <1>4, <2>2
    <3>2. QED
      BY <1>3, <3>1
  <2>4. QED
    BY <2>1, <2>3
<1>5. ASSUME NEW i \in S PROVE RankIn(S, i) \in 1 .. Cardinality(S)
  <2>1. RankIn(S, i) \in Nat /\ RankIn(S, i) <= Cardinality(S) /\ RankIn(S, i) # 0
    BY <1>2
  <2>2. QED
    BY <1>1, <2>1
<1>6. QED
  BY <1>1, <1>3, <1>4, <1>5

LEMMA PlaceFacts ==
    ASSUME NEW n \in Nat, NEW S \in SUBSET (1 .. n)
    PROVE  /\ Cardinality(S) \in Nat
           /\ \A k \in 1 .. Cardinality(S) : PlaceIn(S, k) \in S /\ RankIn(S, PlaceIn(S, k)) = k
           /\ \A i \in S : RankIn(S, i) \in 1 .. Cardinality(S) /\ PlaceIn(S, RankIn(S, i)) = i
           /\ \A i, j \in S : i < j => RankIn(S, i) < RankIn(S, j)
<1> DEFINE N == 1 .. Cardinality(S)
           f == [i \in S |-> RankIn(S, i)]
<1>1. /\ IsFiniteSet(S) /\ Cardinality(S) \in Nat
      /\ \A i \in S : RankIn(S, i) \in 1 .. Cardinality(S)
      /\ \A i, j \in S : RankIn(S, i) = RankIn(S, j) => i = j
      /\ \A i, j \in S : i < j => RankIn(S, i) < RankIn(S, j)
  BY RankFacts
<1>2. IsFiniteSet(N) /\ Cardinality(N) = Cardinality(S)
  BY <1>1, FS_Interval
<1>3. f \in Injection(S, N)
  BY <1>1 DEF Injection, IsInjective
<1>4. f \in Surjection(S, N)
  <2> HIDE DEF f, N
  <2> QED BY <1>2, <1>3, FS_Injection
<1>5. \A k \in N : \E i \in S : RankIn(S, i) = k
  BY <1>4 DEF Surjection
<1>6. ASSUME NEW k \in N PROVE PlaceIn(S, k) \in S /\ RankIn(S, PlaceIn(S, k)) = k
  BY <1>5, <1>6 DEF PlaceIn
<1>7. ASSUME NEW i \in S PROVE PlaceIn(S, RankIn(S, i)) = i
  BY <1>1, <1>6
<1>8. QED
  BY <1>1, <1>6, <1>7

-----------------------------------------------------------------------------
(* Folds over a sequence                                                   *)

\* Positions of a sequence.
LEMMA LastOfPositions ==
    ASSUME NEW n \in Nat, NEW S \in SUBSET (1 .. n), S # {}
    PROVE  Max(S) \in S
  BY MaxOf

\* What FoldLeft unfolds to: the value at a set of positions is the step at the
\* last of them from the value at the others.
Folds(op, base, g, S) ==
    g = [s \in SUBSET S |-> IF s = {} THEN base ELSE op[<<g[s \ {Max(s)}], Max(s)>>]]

LEMMA FoldsAgree ==
    ASSUME NEW op, NEW base, NEW n \in Nat, NEW S \in SUBSET (1 .. n), NEW T \in SUBSET (1 .. n),
           NEW g, NEW h, Folds(op, base, g, S), Folds(op, base, h, T),
           NEW U \in SUBSET S, U \in SUBSET T
    PROVE  g[U] = h[U]
<1> DEFINE P == {V \in SUBSET U : g[V] = h[V]}
<1>1. ASSUME NEW V \in SUBSET U, \A W \in SUBSET V : W # V => W \in P
      PROVE  V \in P
  <2>1. CASE V = {}
    BY <2>1 DEF Folds
  <2>2. CASE V # {}
    <3>1. V \ {Max(V)} \in SUBSET V /\ V \ {Max(V)} # V
      BY <2>2, LastOfPositions
    <3>2. g[V \ {Max(V)}] = h[V \ {Max(V)}]
      BY <1>1, <3>1
    <3>3. g[V] = op[<<g[V \ {Max(V)}], Max(V)>>] /\ h[V] = op[<<h[V \ {Max(V)}], Max(V)>>]
      BY <2>2 DEF Folds
    <3>4. QED
      BY <3>2, <3>3
  <2>3. QED
    BY <2>1, <2>2
<1>2. IsFiniteSet(1 .. n) /\ U \subseteq 1 .. n
  BY FS_Interval
<1>4. IsFiniteSet(U)
  BY <1>2, FS_Subset
<1>3. \A V \in SUBSET U : V \in P
  <2> HIDE DEF P
  <2> QED BY <1>1, <1>4, SubsetInduct
<1>5. QED
  BY <1>3

\* The facts about two sets of positions that FoldsAgree needs, in one.
Below(T, S, n) == S \in SUBSET (1 .. n) /\ T \in SUBSET (1 .. n) /\ T \in SUBSET S

LEMMA FoldsAgreeOn ==
    ASSUME NEW op, NEW base, NEW n \in Nat, NEW S, NEW T, NEW g, NEW h, Below(T, S, n),
           Folds(op, base, g, S), Folds(op, base, h, T)
    PROVE  g[T] = h[T]
<1>1. T \in SUBSET S /\ T \in SUBSET (1 .. n) /\ S \in SUBSET (1 .. n)
  BY DEF Below
<1>2. \A V \in SUBSET T : g[V] = h[V]
  BY <1>1, FoldsAgree
<1>3. QED
  BY <1>2

LEMMA FoldsExist ==
    ASSUME NEW op, NEW base, NEW n \in Nat
    PROVE  \E g : Folds(op, base, g, 1 .. n)
<1> DEFINE S == 1 .. n
           P == {T \in SUBSET S : \E g : Folds(op, base, g, T)}
           G(T) == CHOOSE g : Folds(op, base, g, T)
<1>0. IsFiniteSet(S)
  BY FS_Interval
<1>1. ASSUME NEW T \in SUBSET S, \A U \in SUBSET T : U # T => U \in P
      PROVE  T \in P
  <2> DEFINE rest(s) == s \ {Max(s)}
             h == [s \in SUBSET T |-> IF s = {} THEN base ELSE op[<<G(rest(s))[rest(s)], Max(s)>>]]
  <2>1. \A U \in SUBSET T : U # T => Folds(op, base, G(U), U)
    BY <1>1
  <2>2. \A s \in SUBSET T : s # {} => /\ rest(s) \in SUBSET s /\ rest(s) \in SUBSET T /\ rest(s) # T
                                     /\ rest(s) # s
    BY LastOfPositions
  <2>3. ASSUME NEW U \in SUBSET T, U # T
        PROVE  h[U] = G(U)[U]
    <3>1. Folds(op, base, G(U), U)
      BY <2>1, <2>3
    <3>2. CASE U = {}
      BY <3>1, <3>2 DEF Folds
    <3>3. CASE U # {}
      <4>1. Folds(op, base, G(rest(U)), rest(U))
        BY <2>1, <2>2, <3>3
      <4>2. rest(U) \in SUBSET U /\ rest(U) \in SUBSET rest(U) /\ rest(U) \in SUBSET (1 .. n)
            /\ U \in SUBSET (1 .. n)
        OBVIOUS
      <4> HIDE DEF G
      <4>3. G(U)[rest(U)] = G(rest(U))[rest(U)]
        <5> DEFINE r == rest(U)
                   gU == G(U)
                   gR == G(r)
        <5>1. /\ Folds(op, base, gU, U) /\ Folds(op, base, gR, r)
              /\ r \in SUBSET U /\ r \in SUBSET r /\ r \in SUBSET (1 .. n) /\ U \in SUBSET (1 .. n)
          BY <3>1, <4>1, <4>2
        <5> HIDE DEF r, gU, gR
        <5>2. gU[r] = gR[r]
          <6>1. Below(r, U, n)
            BY <5>1 DEF Below
          <6>2. Folds(op, base, gU, U) /\ Folds(op, base, gR, r)
            BY <5>1, Zenon
          <6>3. QED
            BY <6>1, <6>2, FoldsAgreeOn
        <5>3. QED
          BY <5>2 DEF r, gU, gR
      <4>4. G(U)[U] = op[<<G(U)[rest(U)], Max(U)>>]
        BY <3>1, <3>3 DEF Folds
      <4>5. h[U] = op[<<G(rest(U))[rest(U)], Max(U)>>]
        BY <3>3
      <4>6. QED
        BY <4>3, <4>4, <4>5
    <3>4. QED
      BY <3>2, <3>3
  <2>4. h = [s \in SUBSET T |-> IF s = {} THEN base ELSE op[<<h[s \ {Max(s)}], Max(s)>>]]
    <3>1. \A s \in SUBSET T : s # {} => h[rest(s)] = G(rest(s))[rest(s)]
      BY <2>2, <2>3
    <3> DEFINE v(s) == IF s = {} THEN base ELSE op[<<G(rest(s))[rest(s)], Max(s)>>]
               w(s) == IF s = {} THEN base ELSE op[<<h[rest(s)], Max(s)>>]
    <3>2. \A s \in SUBSET T : v(s) = w(s)
      <4> HIDE DEF h, G, rest
      <4> QED BY <3>1
    <3>3. h = [s \in SUBSET T |-> v(s)]
      OBVIOUS
    <3>4. [s \in SUBSET T |-> v(s)] = [s \in SUBSET T |-> w(s)]
      <4> HIDE DEF v, w
      <4> QED BY <3>2
    <3>5. [s \in SUBSET T |-> w(s)]
            = [s \in SUBSET T |-> IF s = {} THEN base ELSE op[<<h[s \ {Max(s)}], Max(s)>>]]
      BY Zenon
    <3> HIDE DEF h, v, w
    <3>6. QED
      BY <3>3, <3>4, <3>5
  <2>5. Folds(op, base, h, T)
    <3> HIDE DEF h
    <3> QED BY <2>4 DEF Folds
  <2>6. QED
    BY <2>5
<1>2. \A T \in SUBSET S : T \in P
  <2> HIDE DEF P
  <2> QED BY <1>0, <1>1, SubsetInduct
<1>3. QED
  BY <1>2

\* A fold over a sequence, of a step that stays in A.
LEMMA FoldIn ==
    ASSUME NEW A, NEW base \in A, NEW n \in Nat, NEW op \in [A \X (1 .. n) -> A],
           NEW g, Folds(op, base, g, 1 .. n)
    PROVE  \A s \in SUBSET (1 .. n) : g[s] \in A
<1> DEFINE P == {s \in SUBSET (1 .. n) : g[s] \in A}
<1>1. ASSUME NEW V \in SUBSET (1 .. n), \A W \in SUBSET V : W # V => W \in P
      PROVE  V \in P
  <2>1. CASE V = {}
    BY <2>1 DEF Folds
  <2>2. CASE V # {}
    <3>1. V \ {Max(V)} \in SUBSET V /\ V \ {Max(V)} # V /\ Max(V) \in 1 .. n
      BY <2>2, LastOfPositions
    <3>2. g[V \ {Max(V)}] \in A
      BY <1>1, <3>1
    <3>3. g[V] = op[<<g[V \ {Max(V)}], Max(V)>>]
      BY <2>2 DEF Folds
    <3> DEFINE m == Max(V)
               x == g[V \ {Max(V)}]
    <3>4. m \in 1 .. n /\ x \in A /\ g[V] = op[<<x, m>>]
      BY <3>1, <3>2, <3>3
    <3> HIDE DEF m, x
    <3>5. QED
      BY <3>4
  <2>3. QED
    BY <2>1, <2>2
<1>2. IsFiniteSet(1 .. n)
  BY FS_Interval
<1>3. \A V \in SUBSET (1 .. n) : V \in P
  <2> HIDE DEF P
  <2> QED BY <1>1, <1>2, SubsetInduct
<1>4. QED
  BY <1>3
=============================================================================
