--------------------------- MODULE DataInduction ---------------------------
(***************************************************************************)
(* Induction in a form the provers can use.  The library's induction       *)
(* theorems are about a predicate P(_) and have to be instantiated with    *)
(* one; here the predicate is a set, and the principle is drawn from the   *)
(* minimal element that a well-founded relation gives to every non-empty   *)
(* set.  With it the library's recursive definitions are shown to satisfy  *)
(* the equations they are read as.                                         *)
(***************************************************************************)
EXTENDS SequencesExt, FiniteSetTheorems, TLAPS

(* A set of naturals that has an element has a least one. *)
LEMMA LeastNatural ==
  ASSUME NEW T, T \subseteq Nat, T # {}
  PROVE  \E m \in T : \A k \in T : m <= k
<1> DEFINE R == OpToRel(<, Nat)
<1>1. IsWellFoundedOn(R, Nat)
  BY NatLessThanWellFounded
<1>2. \E m \in T : \A k \in T : <<k, m>> \notin R
  <2> HIDE DEF R
  <2> QED BY <1>1, WFMin
<1>3. \A k, m \in Nat : k < m => <<k, m>> \in R
  BY DEF OpToRel
<1> HIDE DEF R
<1>4. PICK m \in T : \A k \in T : <<k, m>> \notin R
  BY <1>2
<1>5. \A k \in T : ~(k < m)
  BY <1>3, <1>4
<1>6. \A k \in T : k \in Nat /\ m \in Nat
  OBVIOUS
<1> QED BY <1>5, <1>6

(* Induction over the naturals, as a fact about a set. *)
LEMMA Counting ==
  ASSUME NEW T, 0 \in T, \A n \in Nat : n \in T => n + 1 \in T
  PROVE  Nat \subseteq T
<1> SUFFICES ASSUME Nat \ T # {} PROVE FALSE
  OBVIOUS
<1>1. PICK m \in Nat \ T : \A k \in Nat \ T : m <= k
  BY LeastNatural
<1>2. m - 1 \in Nat /\ m - 1 \notin Nat \ T
  BY <1>1
<1> QED BY <1>1, <1>2

(* Induction over the subsets of a finite set, as a fact about a set of    *)
(* them.                                                                   *)
LEMMA SubsetInduction ==
  ASSUME NEW S, IsFiniteSet(S), NEW F,
         \A T \in SUBSET S : (\A U \in SUBSET T : U # T => U \in F) => T \in F
  PROVE  S \in F
<1> DEFINE R == StrictSubsetOrdering(S)
           B == (SUBSET S) \ F
<1>1. IsWellFoundedOn(R, SUBSET S)
  BY FS_StrictSubsetOrderingWellFounded, FS_FiniteSubsetsOfFinite
<1>2. SUFFICES ASSUME B # {} PROVE FALSE
  OBVIOUS
<1>3. PICK T \in B : \A U \in B : <<U, T>> \notin R
  <2>1. B \subseteq SUBSET S
    OBVIOUS
  <2> HIDE DEF R, B
  <2> QED BY <1>1, <1>2, <2>1, WFMin
<1>4. ASSUME NEW U \in SUBSET T, U # T PROVE U \in F
  <2>1. U \in SUBSET S /\ T \in SUBSET S
    OBVIOUS
  <2>2. <<U, T>> \in R
    BY <1>4, <2>1 DEF StrictSubsetOrdering
  <2> HIDE DEF R
  <2> QED BY <1>3, <2>1, <2>2
<1> QED BY <1>3, <1>4

-----------------------------------------------------------------------------
(* The greatest of a finite set of naturals *)

LEMMA Greatest ==
  ASSUME NEW S, IsFiniteSet(S), S \subseteq Nat, S # {}
  PROVE  /\ Max(S) \in S
         /\ \A i \in S : i <= Max(S)
<1> DEFINE F == {T \in SUBSET S : T = {} \/ \E m \in T : \A i \in T : i <= m}
<1>1. ASSUME NEW T \in SUBSET S, \A V \in SUBSET T : V # T => V \in F
      PROVE  T \in F
  <2>1. CASE T = {}
    BY <2>1
  <2>2. CASE T # {}
    <3>1. PICK x \in T : TRUE
      BY <2>2
    <3> DEFINE V == T \ {x}
    <3>2. V \in F
      BY <1>1, <3>1
    <3>3. CASE V = {}
      <4>1. \A i \in T : i <= x
        BY <3>1, <3>3
      <4> QED BY <3>1, <4>1
    <3>4. CASE V # {}
      <4>1. PICK m \in V : \A i \in V : i <= m
        BY <3>2, <3>4
      <4>2. CASE x <= m
        <5>1. \A i \in T : i <= m
          BY <4>1, <4>2
        <5> QED BY <4>1, <5>1
      <4>3. CASE ~(x <= m)
        <5>1. \A i \in T : i <= x
          BY <3>1, <4>1, <4>3
        <5> QED BY <3>1, <5>1
      <4> QED BY <4>2, <4>3
    <3> QED BY <3>3, <3>4
  <2> QED BY <2>1, <2>2
<1>2. S \in F
  <2> HIDE DEF F
  <2> QED BY <1>1, SubsetInduction
<1>3. PICK m \in S : \A i \in S : m >= i
  BY <1>2
<1> QED BY <1>3 DEF Max

LEMMA IsGreatest ==
  ASSUME NEW S, S \subseteq Nat, NEW m \in Nat, \A i \in S : i < m
  PROVE  Max(S \cup {m}) = m
<1>1. \A x \in S \cup {m} : (\A y \in S \cup {m} : x >= y) => x = m
  OBVIOUS
<1>2. m \in S \cup {m} /\ \A y \in S \cup {m} : m >= y
  OBVIOUS
<1> QED BY <1>1, <1>2 DEF Max

-----------------------------------------------------------------------------
(* Sequences put one behind the other *)

IsFlat(g, ss, n) == g = [i \in 1..n |-> IF i = 1 THEN ss[i] ELSE g[i - 1] \o ss[i]]

LEMMA FlattenIsChosen ==
  ASSUME NEW ss, Len(ss) # 0
  PROVE  FlattenSeq(ss) = (CHOOSE g : IsFlat(g, ss, Len(ss)))[Len(ss)]
BY DEF FlattenSeq, IsFlat

LEMMA FlatExists ==
  ASSUME NEW ss, NEW n \in Nat
  PROVE  \E g : IsFlat(g, ss, n)
<1> DEFINE N == {k \in Nat : \E g : IsFlat(g, ss, k)}
<1>1. 0 \in N
  <2> DEFINE g == [i \in 1..0 |-> ss[i]]
  <2>1. g = [i \in 1..0 |-> IF i = 1 THEN ss[i] ELSE g[i - 1] \o ss[i]]
    <3>1. 1..0 = {}
      OBVIOUS
    <3> QED BY <3>1
  <2> QED BY <2>1 DEF IsFlat
<1>2. ASSUME NEW k \in N PROVE k + 1 \in N
  <2>1. PICK g : IsFlat(g, ss, k)
    BY <1>2
  <2> DEFINE h == [i \in 1..k + 1 |-> IF i = 1 THEN ss[i] ELSE g[i - 1] \o ss[i]]
  <2>2. \A i \in 1..k : g[i] = IF i = 1 THEN ss[i] ELSE g[i - 1] \o ss[i]
    BY <2>1 DEF IsFlat
  <2>3. \A i \in 1..k : h[i] = g[i]
    BY <1>2, <2>2
  <2>4. \A i \in 1..k + 1 : i = 1 \/ i - 1 \in 1..k
    BY <1>2
  <2>5. h = [i \in 1..k + 1 |-> IF i = 1 THEN ss[i] ELSE h[i - 1] \o ss[i]]
    <3>1. \A i \in 1..k + 1 : (IF i = 1 THEN ss[i] ELSE g[i - 1] \o ss[i])
                                = (IF i = 1 THEN ss[i] ELSE h[i - 1] \o ss[i])
      <4> HIDE DEF h
      <4> QED BY <2>3, <2>4
    <3>2. h = [i \in 1..k + 1 |-> IF i = 1 THEN ss[i] ELSE g[i - 1] \o ss[i]]
      OBVIOUS
    <3> HIDE DEF h
    <3> QED BY <3>1, <3>2
  <2> HIDE DEF h
  <2>6. IsFlat(h, ss, k + 1)
    BY <2>5 DEF IsFlat
  <2> QED BY <1>2, <2>6
<1>3. Nat \subseteq N
  <2> HIDE DEF N
  <2> QED BY <1>1, <1>2, Counting
<1> QED BY <1>3

-----------------------------------------------------------------------------
(* Sums over finite sets *)

Chosen(s) == CHOOSE x \in s : TRUE

SumBody(g, f, s) == IF s = {} THEN 0 ELSE f[Chosen(s)] + g[s \ {Chosen(s)}]

IsSum(g, f, S) == g = [s \in SUBSET S |-> SumBody(g, f, s)]

(* The library's sum is the value at S of a function that satisfies the    *)
(* recursion, if there is one.                                             *)
LEMMA SumIsChosen ==
  ASSUME NEW f, NEW S
  PROVE  SumFunctionOnSet(f, S) = (CHOOSE g : IsSum(g, f, S))[S]
BY DEF SumFunctionOnSet, FoldFunctionOnSet, MapThenFoldSet, IsSum, SumBody, Chosen

(* There is one: built for the subsets of at most n elements, n by n. *)
LEMMA SumExists ==
  ASSUME NEW f, NEW S, IsFiniteSet(S)
  PROVE  \E g : IsSum(g, f, S)
<1> DEFINE Upto(n) == {s \in SUBSET S : Cardinality(s) <= n}
           Layer(g, n) == g = [s \in Upto(n) |-> SumBody(g, f, s)]
           N == {n \in Nat : \E g : Layer(g, n)}
<1>1. \A s \in SUBSET S : IsFiniteSet(s) /\ Cardinality(s) \in Nat /\ Cardinality(s) <= Cardinality(S)
  BY FS_Subset, FS_CardinalityType
<1>2. 0 \in N
  <2> DEFINE g == [s \in Upto(0) |-> 0]
  <2>1. \A s \in Upto(0) : s = {}
    BY <1>1, FS_EmptySet
  <2>2. Layer(g, 0)
    BY <2>1 DEF SumBody
  <2> HIDE DEF g
  <2> QED BY <2>2
<1>3. ASSUME NEW n \in N PROVE n + 1 \in N
  <2>1. PICK g : Layer(g, n)
    BY <1>3
  <2> DEFINE h == [s \in Upto(n + 1) |-> SumBody(g, f, s)]
  <2>2. ASSUME NEW s \in Upto(n + 1) PROVE SumBody(h, f, s) = SumBody(g, f, s)
    <3>1. CASE s = {}
      BY <3>1 DEF SumBody
    <3>2. CASE s # {}
      <4> DEFINE t == s \ {Chosen(s)}
      <4>1. Chosen(s) \in s
        BY <3>2 DEF Chosen
      <4>2. t \in SUBSET S /\ Cardinality(t) = Cardinality(s) - 1
        BY <1>1, <4>1, FS_RemoveElement
      <4>3. t \in Upto(n) /\ t \in Upto(n + 1)
        BY <1>1, <4>2
      <4> HIDE DEF t
      <4>4. g[t] = SumBody(g, f, t)
        <5> HIDE DEF Upto
        <5> QED BY <2>1, <4>3
      <4>5. h[t] = SumBody(g, f, t)
        <5> HIDE DEF Upto
        <5> QED BY <4>3
      <4> HIDE DEF h
      <4> QED BY <3>2, <4>4, <4>5 DEF SumBody, t
    <3> QED BY <3>1, <3>2
  <2>3. Layer(h, n + 1)
    <3>1. h = [s \in Upto(n + 1) |-> SumBody(g, f, s)]
      OBVIOUS
    <3> HIDE DEF h, Upto
    <3> QED BY <2>2, <3>1
  <2> HIDE DEF Layer
  <2> QED BY <1>3, <2>3
<1>4. Nat \subseteq N
  <2> HIDE DEF N
  <2> QED BY <1>2, <1>3, Counting
<1>5. PICK g : Layer(g, Cardinality(S))
  BY <1>1, <1>4
<1>6. Upto(Cardinality(S)) = SUBSET S
  BY <1>1
<1> HIDE DEF Upto
<1> QED BY <1>5, <1>6 DEF IsSum

(* A sum of naturals is a natural; one more occasion counts in the sets it *)
(* belongs to and in no other; and a sum of noughts is nought.             *)
LEMMA SumFacts ==
  ASSUME NEW D, NEW S \in SUBSET D, IsFiniteSet(S), NEW x,
         NEW f \in [D -> Nat], NEW e \in [D -> Nat],
         x \in D => e[x] = f[x] + 1,
         \A y \in D : y # x => e[y] = f[y]
  PROVE  /\ SumFunctionOnSet(f, S) \in Nat
         /\ SumFunctionOnSet(e, S) = SumFunctionOnSet(f, S) + (IF x \in S THEN 1 ELSE 0)
         /\ (\A s \in S : f[s] = 0) => SumFunctionOnSet(f, S) = 0
<1> DEFINE g == CHOOSE g : IsSum(g, f, S)
           h == CHOOSE h : IsSum(h, e, S)
           F == {T \in SUBSET S : /\ g[T] \in Nat
                                  /\ h[T] = g[T] + (IF x \in T THEN 1 ELSE 0)
                                  /\ (\A s \in T : f[s] = 0) => g[T] = 0}
<1>1. IsSum(g, f, S) /\ IsSum(h, e, S)
  BY SumExists
<1>2. SumFunctionOnSet(f, S) = g[S] /\ SumFunctionOnSet(e, S) = h[S]
  BY SumIsChosen
<1> HIDE DEF g, h
<1>3. ASSUME NEW T \in SUBSET S, \A V \in SUBSET T : V # T => V \in F
      PROVE  T \in F
  <2>1. g[T] = SumBody(g, f, T) /\ h[T] = SumBody(h, e, T)
    BY <1>1 DEF IsSum
  <2>2. CASE T = {}
    BY <2>1, <2>2 DEF SumBody
  <2>3. CASE T # {}
    <3> DEFINE p == Chosen(T)
               V == T \ {p}
    <3>1. p \in T /\ V \in SUBSET T /\ V # T
      BY <2>3 DEF Chosen
    <3>2. /\ g[V] \in Nat
          /\ h[V] = g[V] + (IF x \in V THEN 1 ELSE 0)
          /\ (\A s \in V : f[s] = 0) => g[V] = 0
      BY <1>3, <3>1
    <3>3. g[T] = f[p] + g[V] /\ h[T] = e[p] + h[V]
      BY <2>1, <2>3 DEF SumBody
    <3>4. p \in D /\ (x \in T <=> x = p \/ x \in V) /\ (x = p => x \notin V)
      BY <3>1
    <3>5. h[T] = g[T] + (IF x \in T THEN 1 ELSE 0) /\ g[T] \in Nat
      <4> HIDE DEF V, p
      <4> QED BY <3>2, <3>3, <3>4
    <3>6. (\A s \in T : f[s] = 0) => g[T] = 0
      BY <3>1, <3>2, <3>3
    <3> QED BY <3>5, <3>6
  <2> QED BY <2>2, <2>3
<1>4. S \in F
  <2> HIDE DEF F
  <2> QED BY <1>3, SubsetInduction
<1> QED BY <1>2, <1>4

(* The same of one function alone. *)
LEMMA SumOfNaturals ==
  ASSUME NEW D, NEW S \in SUBSET D, IsFiniteSet(S), NEW f \in [D -> Nat]
  PROVE  /\ SumFunctionOnSet(f, S) \in Nat
         /\ (\A s \in S : f[s] = 0) => SumFunctionOnSet(f, S) = 0
<1> DEFINE x == {}
           e == [y \in D |-> IF y = x THEN f[y] + 1 ELSE f[y]]
<1>1. e \in [D -> Nat] /\ (x \in D => e[x] = f[x] + 1)
  OBVIOUS
<1>2. \A y \in D : y # x => e[y] = f[y]
  OBVIOUS
<1> HIDE DEF e, x
<1>3. /\ SumFunctionOnSet(f, S) \in Nat
      /\ SumFunctionOnSet(e, S) = SumFunctionOnSet(f, S) + (IF x \in S THEN 1 ELSE 0)
      /\ (\A s \in S : f[s] = 0) => SumFunctionOnSet(f, S) = 0
  BY <1>1, <1>2, SumFacts
<1> QED BY <1>3
=============================================================================
