-------------------------- MODULE ModelStreamProofs --------------------------
(***************************************************************************)
(* Proofs about ModelStream for any scripts an upstream may send.          *)
(***************************************************************************)
EXTENDS ModelStream, DataInduction, SequenceTheorems

-----------------------------------------------------------------------------
(* The order of a finite set of naturals *)

(* How many numbers of S are below i. *)
Below(S, i) == {j \in S : j < i}

LEMMA BelowFacts ==
  ASSUME NEW S, IsFiniteSet(S), NEW i
  PROVE  /\ IsFiniteSet(Below(S, i)) /\ Cardinality(Below(S, i)) \in Nat
         /\ Cardinality(Below(S, i)) <= Cardinality(S) /\ Cardinality(S) \in Nat
BY FS_Subset, FS_CardinalityType DEF Below

(* Numbers that come after all of T leave T's order alone. *)
LEMMA KthOfPart ==
  ASSUME NEW S, IsFiniteSet(S), S \subseteq Nat, NEW T \in SUBSET S,
         \A i \in T, j \in S \ T : i < j, NEW k \in 1..Cardinality(T)
  PROVE  Kth(S, k) = Kth(T, k)
<1>1. IsFiniteSet(T) /\ Cardinality(T) \in Nat
  BY FS_Subset, FS_CardinalityType
<1>2. ASSUME NEW i \in T PROVE Below(S, i) = Below(T, i)
  <2>1. \A j \in S : j < i => j \in T
    <3> SUFFICES ASSUME NEW j \in S \ T, j < i PROVE FALSE
      OBVIOUS
    <3>1. i \in Nat /\ j \in Nat /\ i < j
      OBVIOUS
    <3> QED BY <3>1
  <2> QED BY <2>1 DEF Below
<1>3. ASSUME NEW i \in S \ T PROVE Cardinality(Below(S, i)) # k - 1
  <2>1. T \in SUBSET Below(S, i)
    BY DEF Below
  <2>2. Cardinality(T) <= Cardinality(Below(S, i))
    BY <2>1, BelowFacts, FS_Subset
  <2> QED BY <1>1, <2>2, BelowFacts
<1>4. {i \in S : Cardinality(Below(S, i)) = k - 1} = {i \in T : Cardinality(Below(T, i)) = k - 1}
  BY <1>2, <1>3
<1> QED BY <1>4 DEF Kth, Below

(* A number that comes after all of S is the last of the two together.     *)
LEMMA KthOfLast ==
  ASSUME NEW S, IsFiniteSet(S), S \subseteq Nat, NEW m \in Nat, \A i \in S : i < m
  PROVE  Kth(S \cup {m}, Cardinality(S) + 1) = m
<1> DEFINE U == S \cup {m}
           n == Cardinality(S)
<1>1. n \in Nat /\ IsFiniteSet(U) /\ (n + 1) - 1 = n
  BY FS_CardinalityType, FS_AddElement
<1>2. Below(U, m) = S
  <2>1. ~(m < m)
    OBVIOUS
  <2> QED BY <2>1 DEF Below
<1>3. ASSUME NEW i \in S PROVE Cardinality(Below(U, i)) # n
  <2>1. Below(U, i) \in SUBSET (S \ {i})
    BY DEF Below
  <2>2. IsFiniteSet(S \ {i}) /\ Cardinality(S \ {i}) = n - 1
    BY FS_RemoveElement
  <2>3. Cardinality(Below(U, i)) <= n - 1
    BY <2>1, <2>2, FS_Subset
  <2> QED BY <1>1, <2>3, BelowFacts
<1>4. {i \in U : Cardinality(Below(U, i)) = (n + 1) - 1} = {m}
  BY <1>1, <1>2, <1>3
<1> HIDE DEF U, n
<1>5. Kth(U, n + 1) = CHOOSE i \in {m} : TRUE
  BY <1>4 DEF Kth, Below
<1> QED BY <1>5 DEF U, n

(* Kth numbers the set, from the smallest to the largest. *)
LEMMA KthInOrder ==
  ASSUME NEW S, IsFiniteSet(S), S \subseteq Nat
  PROVE  /\ \A k \in 1..Cardinality(S) : Kth(S, k) \in S
         /\ \A k, l \in 1..Cardinality(S) : k < l => Kth(S, k) < Kth(S, l)
<1> DEFINE Good(T) == /\ \A k \in 1..Cardinality(T) : Kth(T, k) \in T
                      /\ \A k, l \in 1..Cardinality(T) : k < l => Kth(T, k) < Kth(T, l)
           F == {T \in SUBSET S : Good(T)}
<1>1. ASSUME NEW T \in SUBSET S, \A V \in SUBSET T : V # T => V \in F
      PROVE  T \in F
  <2>1. IsFiniteSet(T)
    BY FS_Subset
  <2>2. CASE T = {}
    <3>1. Cardinality(T) = 0
      BY <2>2, FS_EmptySet
    <3> QED BY <3>1
  <2>3. CASE T # {}
    <3> DEFINE m == Max(T)
               V == T \ {m}
               n == Cardinality(V)
    <3>1. m \in T /\ \A i \in T : i <= m
      BY <2>1, <2>3, Greatest
    <3>2. /\ V \in SUBSET T /\ V # T /\ T = V \cup {m} /\ V \subseteq Nat /\ m \in Nat
          /\ \A i \in V : i < m
      <4> HIDE DEF m
      <4>1. m \in Nat /\ V \subseteq Nat
        BY <3>1
      <4>2. \A i \in V : i \in T /\ i # m
        OBVIOUS
      <4>3. \A i \in V : i < m
        BY <3>1, <4>1, <4>2
      <4> QED BY <3>1, <4>1, <4>3
    <3>3. IsFiniteSet(V) /\ n \in Nat /\ Cardinality(T) = n + 1
      <4>1. Cardinality(T) \in Nat
        BY <2>1, FS_CardinalityType
      <4> HIDE DEF m
      <4>2. IsFiniteSet(V) /\ n = Cardinality(T) - 1
        BY <2>1, <3>1, FS_RemoveElement
      <4>3. n \in Nat
        BY <4>2, FS_CardinalityType
      <4> QED BY <4>1, <4>2, <4>3
    <3>4. V \in F
      BY <1>1, <3>2
    <3> HIDE DEF V, n, m
    <3>5. \A k \in 1..n : Kth(T, k) = Kth(V, k)
      <4>1. T \subseteq Nat /\ \A i \in V, j \in T \ V : i < j
        BY <3>2
      <4> QED BY <2>1, <3>2, <4>1, KthOfPart DEF n
    <3>6. Kth(T, n + 1) = m
      BY <3>2, <3>3, KthOfLast DEF n
    <3>7. \A k \in 1..n : Kth(V, k) \in V
      BY <3>4 DEF n
    <3>8. \A k, l \in 1..n : k < l => Kth(V, k) < Kth(V, l)
      BY <3>4 DEF n
    <3>9. ASSUME NEW k \in 1..n + 1 PROVE Kth(T, k) \in T
      <4>1. k \in 1..n \/ k = n + 1
        BY <3>3
      <4> QED BY <3>2, <3>5, <3>6, <3>7, <4>1
    <3>10. ASSUME NEW k \in 1..n + 1, NEW l \in 1..n + 1, k < l
           PROVE  Kth(T, k) < Kth(T, l)
      <4>1. k \in 1..n /\ (l \in 1..n \/ l = n + 1)
        BY <3>3, <3>10
      <4> QED BY <3>2, <3>5, <3>6, <3>7, <3>8, <3>10, <4>1
    <3> QED BY <3>3, <3>9, <3>10
  <2> QED BY <2>2, <2>3
<1>2. S \in F
  <2> HIDE DEF F
  <2> QED BY <1>1, SubsetInduction
<1> QED BY <1>2

(* What is listed in order: a later number adds its item at the end.       *)
LEMMA InOrderIsSeq ==
  ASSUME NEW S, IsFiniteSet(S), S \subseteq Nat, NEW V, NEW f, \A i \in S : f[i] \in V
  PROVE  /\ InOrder(S, f) \in Seq(V)
         /\ Len(InOrder(S, f)) = Cardinality(S)
         /\ \A k \in 1..Cardinality(S) : InOrder(S, f)[k] = f[Kth(S, k)]
<1>1. Cardinality(S) \in Nat /\ \A k \in 1..Cardinality(S) : f[Kth(S, k)] \in V
  BY FS_CardinalityType, KthInOrder
<1> QED BY <1>1 DEF InOrder

OneLater(S, m, f, g) ==
  /\ IsFiniteSet(S) /\ S \subseteq Nat
  /\ m \in Nat /\ \A i \in S : i < m
  /\ \A i \in S : f[i] \in Pieces
  /\ \A i \in S : g[i] = f[i]
  /\ g[m] \in Pieces

OneListedLast(S, m, f, g) == InOrder(S \cup {m}, g) = Append(InOrder(S, f), g[m])

LEMMA InOrderAppend ==
  ASSUME NEW S, NEW m, NEW f, NEW g, OneLater(S, m, f, g)
  PROVE  OneListedLast(S, m, f, g)
<1> USE DEF OneLater, OneListedLast
<1> DEFINE U == S \cup {m}
           n == Cardinality(S)
           a == InOrder(U, g)
           b == InOrder(S, f)
<1>1. IsFiniteSet(U) /\ Cardinality(U) = n + 1 /\ n \in Nat
  <2>1. m \notin S
    OBVIOUS
  <2> QED BY <2>1, FS_AddElement, FS_CardinalityType
<1>2. U \subseteq Nat /\ \A i \in U : g[i] \in Pieces
  OBVIOUS
<1>3. a \in Seq(Pieces) /\ Len(a) = n + 1 /\ \A k \in 1..n + 1 : a[k] = g[Kth(U, k)]
  <2>1. IsFiniteSet(U) /\ U \subseteq Nat /\ \A i \in U : g[i] \in Pieces
    BY <1>1, <1>2
  <2> HIDE DEF U
  <2>2. /\ InOrder(U, g) \in Seq(Pieces) /\ Len(InOrder(U, g)) = Cardinality(U)
        /\ \A k \in 1..Cardinality(U) : InOrder(U, g)[k] = g[Kth(U, k)]
    BY <2>1, InOrderIsSeq
  <2> HIDE DEF n
  <2> QED BY <1>1, <2>2
<1>4. b \in Seq(Pieces) /\ Len(b) = n /\ \A k \in 1..n : b[k] = f[Kth(S, k)]
  BY InOrderIsSeq
<1>5. Kth(U, n + 1) = m
  BY KthOfLast
<1>6. ASSUME NEW k \in 1..n PROVE Kth(U, k) = Kth(S, k) /\ Kth(S, k) \in S
  <2>1. S \in SUBSET U /\ \A i \in S, j \in U \ S : i < j
    OBVIOUS
  <2> HIDE DEF U
  <2> QED BY <1>1, <1>2, <2>1, KthOfPart, KthInOrder
<1> HIDE DEF U, n, a, b
<1>7. ASSUME NEW k \in 1..n PROVE a[k] = b[k]
  <2>1. k \in 1..n + 1
    BY <1>1
  <2>2. a[k] = g[Kth(U, k)] /\ b[k] = f[Kth(S, k)]
    BY <1>3, <1>4, <2>1
  <2> QED BY <1>6, <2>2
<1>8. a[n + 1] = g[m]
  BY <1>1, <1>3, <1>5
<1>9. /\ Append(b, g[m]) \in Seq(Pieces) /\ Len(Append(b, g[m])) = n + 1
      /\ \A k \in 1..n : Append(b, g[m])[k] = b[k]
      /\ Append(b, g[m])[n + 1] = g[m]
  BY <1>4, AppendProperties
<1>10. \A k \in 1..n + 1 : a[k] = Append(b, g[m])[k]
  <2> SUFFICES ASSUME NEW k \in 1..n + 1 PROVE a[k] = Append(b, g[m])[k]
    OBVIOUS
  <2>1. k \in 1..n \/ k = n + 1
    BY <1>1
  <2> QED BY <1>7, <1>8, <1>9, <2>1
<1>11. a = Append(b, g[m])
  BY <1>3, <1>9, <1>10, SeqEqual
<1> QED BY <1>11 DEF a, b, U

(* The first of what is listed in order is listed first. *)
LEMMA InOrderPart ==
  ASSUME NEW S, IsFiniteSet(S), S \subseteq Nat, NEW T \in SUBSET S,
         \A i \in T, j \in S \ T : i < j, NEW V, NEW f, \A i \in S : f[i] \in V
  PROVE  IsPrefix(InOrder(T, f), InOrder(S, f))
<1> DEFINE a == InOrder(T, f)
           b == InOrder(S, f)
           n == Cardinality(T)
<1>1. IsFiniteSet(T) /\ T \subseteq Nat /\ \A i \in T : f[i] \in V
  BY FS_Subset
<1>2. n \in Nat /\ Cardinality(S) \in Nat /\ n <= Cardinality(S)
  BY <1>1, FS_Subset, FS_CardinalityType
<1>3. a \in Seq(V) /\ Len(a) = n /\ \A k \in 1..n : a[k] = f[Kth(T, k)]
  BY <1>1, InOrderIsSeq
<1>4. b \in Seq(V) /\ Len(b) = Cardinality(S)
      /\ \A k \in 1..Cardinality(S) : b[k] = f[Kth(S, k)]
  BY InOrderIsSeq
<1>5. \A k \in 1..n : Kth(S, k) = Kth(T, k)
  BY KthOfPart
<1> HIDE DEF a, b, n
<1>6. \A k \in 1..n : a[k] = b[k]
  BY <1>2, <1>3, <1>4, <1>5
<1>7. SubSeq(a, 1, n) \in Seq(V) /\ Len(SubSeq(a, 1, n)) = n
      /\ \A k \in 1..n : SubSeq(a, 1, n)[k] = a[k]
  BY <1>2, <1>3
<1>8. SubSeq(b, 1, n) \in Seq(V) /\ Len(SubSeq(b, 1, n)) = n
      /\ \A k \in 1..n : SubSeq(b, 1, n)[k] = b[k]
  BY <1>2, <1>4
<1>9. SubSeq(a, 1, n) = SubSeq(b, 1, n)
  BY <1>6, <1>7, <1>8, SeqEqual
<1> QED BY <1>2, <1>3, <1>4, <1>9 DEF IsPrefix, a, b

-----------------------------------------------------------------------------
(* Merging fragments one by one, and reading them all at once *)

Call == [id: Ids \cup {Nothing}, args: Seq(Pieces)]

LEMMA CallInFacts ==
  ASSUME NEW fs \in Seq(Fragment), NEW i
  PROVE  CallIn(fs, i) \in Call
<1> DEFINE mine == {p \in DOMAIN fs : fs[p].index = i}
           named == {p \in mine : fs[p].id # Nothing}
           said == {p \in mine : fs[p].args # Nothing}
<1>1. DOMAIN fs = 1..Len(fs) /\ Len(fs) \in Nat /\ IsFiniteSet(DOMAIN fs)
  BY FS_Interval
<1>2. \A p \in DOMAIN fs : fs[p] \in Fragment
  BY <1>1
<1>3. IsFiniteSet(named) /\ named \subseteq Nat /\ IsFiniteSet(said) /\ said \subseteq Nat
  BY <1>1, FS_Subset
<1>4. (IF named = {} THEN Nothing ELSE fs[Max(named)].id) \in Ids \cup {Nothing}
  <2>1. ASSUME named # {} PROVE Max(named) \in DOMAIN fs
    <3>1. Max(named) \in named
      <4> HIDE DEF named
      <4> QED BY <1>3, <2>1, Greatest
    <3> QED BY <3>1
  <2> HIDE DEF named
  <2> QED BY <1>2, <2>1 DEF Fragment
<1>5. InOrder(said, [p \in said |-> fs[p].args]) \in Seq(Pieces)
  <2>1. \A p \in said : [q \in said |-> fs[q].args][p] \in Pieces
    BY <1>2 DEF Fragment
  <2> HIDE DEF said
  <2> QED BY <1>3, <2>1, InOrderIsSeq
<1> QED BY <1>4, <1>5 DEF CallIn, Call

Named(fs, i) == {p \in DOMAIN fs : fs[p].index = i /\ fs[p].id # Nothing}
Said(fs, i) == {p \in DOMAIN fs : fs[p].index = i /\ fs[p].args # Nothing}
NameIn(fs, i) == IF Named(fs, i) = {} THEN Nothing ELSE fs[Max(Named(fs, i))].id
ArgsIn(fs, i) == InOrder(Said(fs, i), [p \in Said(fs, i) |-> fs[p].args])

LEMMA CallInIs ==
  ASSUME NEW fs, NEW i
  PROVE  CallIn(fs, i) = [id |-> NameIn(fs, i), args |-> ArgsIn(fs, i)]
<1>1. /\ {p \in {p \in DOMAIN fs : fs[p].index = i} : fs[p].id # Nothing} = Named(fs, i)
      /\ {p \in {p \in DOMAIN fs : fs[p].index = i} : fs[p].args # Nothing} = Said(fs, i)
  BY DEF Named, Said
<1> QED BY <1>1 DEF CallIn, NameIn, ArgsIn

LEMMA PlacesFacts ==
  ASSUME NEW fs \in Seq(Fragment), NEW i
  PROVE  /\ Len(fs) \in Nat /\ DOMAIN fs = 1..Len(fs)
         /\ \A p \in DOMAIN fs : fs[p] \in Fragment
         /\ Named(fs, i) \in SUBSET DOMAIN fs /\ Said(fs, i) \in SUBSET DOMAIN fs
         /\ IsFiniteSet(Named(fs, i)) /\ IsFiniteSet(Said(fs, i))
         /\ Named(fs, i) \subseteq Nat /\ Said(fs, i) \subseteq Nat
         /\ \A p \in Said(fs, i) : fs[p].args \in Pieces
         /\ ArgsIn(fs, i) \in Seq(Pieces)
<1>1. Len(fs) \in Nat /\ DOMAIN fs = 1..Len(fs) /\ IsFiniteSet(DOMAIN fs)
      /\ \A p \in DOMAIN fs : fs[p] \in Fragment
  BY FS_Interval
<1>2. /\ Named(fs, i) \in SUBSET DOMAIN fs /\ Said(fs, i) \in SUBSET DOMAIN fs
  BY DEF Named, Said
<1>3. IsFiniteSet(Named(fs, i)) /\ IsFiniteSet(Said(fs, i))
  BY <1>1, <1>2, FS_Subset
<1>4. Named(fs, i) \subseteq Nat /\ Said(fs, i) \subseteq Nat
  BY <1>1, <1>2
<1>5. \A p \in Said(fs, i) : fs[p].args \in Pieces
  BY <1>1 DEF Said, Fragment
<1>6. \A p \in Said(fs, i) : [q \in Said(fs, i) |-> fs[q].args][p] \in Pieces
  BY <1>5
<1>7. ArgsIn(fs, i) \in Seq(Pieces)
  BY <1>3, <1>4, <1>6, InOrderIsSeq DEF ArgsIn
<1> QED BY <1>1, <1>2, <1>3, <1>4, <1>5, <1>7

LEMMA ExtendedSeq ==
  ASSUME NEW fs \in Seq(Fragment), NEW f \in Fragment
  PROVE  /\ Append(fs, f) \in Seq(Fragment)
         /\ DOMAIN Append(fs, f) = DOMAIN fs \cup {Len(fs) + 1}
         /\ \A p \in DOMAIN fs : p < Len(fs) + 1 /\ Append(fs, f)[p] = fs[p]
         /\ Append(fs, f)[Len(fs) + 1] = f
<1>1. /\ Append(fs, f) \in Seq(Fragment) /\ Len(Append(fs, f)) = Len(fs) + 1
      /\ \A p \in 1..Len(fs) : Append(fs, f)[p] = fs[p]
      /\ Append(fs, f)[Len(fs) + 1] = f
  BY AppendProperties
<1>2. DOMAIN Append(fs, f) = 1..Len(fs) + 1 /\ DOMAIN fs = 1..Len(fs) /\ Len(fs) \in Nat
  BY <1>1
<1> QED BY <1>1, <1>2

(* One more fragment: the name it brings, and the arguments. *)
LEMMA NameOfOneMore ==
  ASSUME NEW fs \in Seq(Fragment), NEW f \in Fragment, NEW i
  PROVE  NameIn(Append(fs, f), i)
           = IF f.index = i THEN Latest(NameIn(fs, i), f.id) ELSE NameIn(fs, i)
<1> DEFINE es == Append(fs, f)
           m == Len(fs) + 1
<1>1. /\ es \in Seq(Fragment) /\ DOMAIN es = DOMAIN fs \cup {m} /\ es[m] = f
      /\ \A p \in DOMAIN fs : p < m /\ es[p] = fs[p]
  BY ExtendedSeq
<1>2. m \in Nat /\ m \notin DOMAIN fs
  BY PlacesFacts
<1> HIDE DEF es, m
<1>3. CASE f.index = i /\ f.id # Nothing
  <2>1. Named(es, i) = Named(fs, i) \cup {m}
    BY <1>1, <1>3 DEF Named
  <2>2. \A p \in Named(fs, i) : p < m
    BY <1>1, PlacesFacts
  <2>3. Max(Named(fs, i) \cup {m}) = m
    BY <1>2, <2>2, PlacesFacts, IsGreatest
  <2>4. NameIn(es, i) = f.id
    BY <1>1, <2>1, <2>3 DEF NameIn
  <2> QED BY <1>3, <2>4 DEF Latest, es
<1>4. CASE ~(f.index = i /\ f.id # Nothing)
  <2>1. Named(es, i) = Named(fs, i)
    BY <1>1, <1>4 DEF Named
  <2>2. ASSUME Named(fs, i) # {} PROVE es[Max(Named(fs, i))] = fs[Max(Named(fs, i))]
    <3>1. Max(Named(fs, i)) \in DOMAIN fs
      BY <2>2, PlacesFacts, Greatest
    <3> QED BY <1>1, <3>1
  <2>3. NameIn(es, i) = NameIn(fs, i)
    BY <2>1, <2>2 DEF NameIn
  <2> QED BY <1>4, <2>3 DEF Latest, es
<1> QED BY <1>3, <1>4

LEMMA ArgsOfOneMore ==
  ASSUME NEW fs \in Seq(Fragment), NEW f \in Fragment, NEW i
  PROVE  ArgsIn(Append(fs, f), i)
           = IF f.index = i THEN Put(ArgsIn(fs, i), f.args) ELSE ArgsIn(fs, i)
<1> DEFINE es == Append(fs, f)
           m == Len(fs) + 1
           old == [p \in Said(fs, i) |-> fs[p].args]
           new == [p \in Said(es, i) |-> es[p].args]
<1>1. /\ es \in Seq(Fragment) /\ DOMAIN es = DOMAIN fs \cup {m} /\ es[m] = f
      /\ \A p \in DOMAIN fs : p < m /\ es[p] = fs[p]
  BY ExtendedSeq
<1>2. m \in Nat /\ m \notin DOMAIN fs
  BY PlacesFacts
<1>3. /\ \A p \in Said(fs, i) : old[p] \in Pieces /\ old[p] = fs[p].args
      /\ \A p \in Said(es, i) : new[p] = es[p].args
  BY PlacesFacts
<1>4. ArgsIn(fs, i) = InOrder(Said(fs, i), old) /\ ArgsIn(es, i) = InOrder(Said(es, i), new)
  BY DEF ArgsIn
<1> HIDE DEF es, m
<1>5. CASE f.index = i /\ f.args # Nothing
  <2>1. Said(es, i) = Said(fs, i) \cup {m}
    BY <1>1, <1>5 DEF Said
  <2>2. \A p \in Said(fs, i) : p < m /\ p \in DOMAIN fs
    BY <1>1, PlacesFacts
  <2>3. \A p \in Said(fs, i) : new[p] = old[p]
    BY <1>1, <1>3, <2>1, <2>2
  <2>4. new[m] = f.args /\ f.args \in Pieces
    BY <1>1, <1>3, <1>5, <2>1 DEF Fragment
  <2> HIDE DEF old, new
  <2> DEFINE S == Said(fs, i)
  <2>5. /\ IsFiniteSet(S) /\ S \subseteq Nat /\ \A p \in S : p < m
        /\ \A p \in S : old[p] \in Pieces
        /\ \A p \in S : new[p] = old[p]
        /\ new[m] \in Pieces
    BY <1>3, <2>2, <2>3, <2>4, PlacesFacts
  <2> HIDE DEF S
  <2>6. OneLater(S, m, old, new)
    BY <1>2, <2>5 DEF OneLater
  <2>7. OneListedLast(S, m, old, new)
    BY <2>6, InOrderAppend
  <2>8. InOrder(S \cup {m}, new) = Append(InOrder(S, old), new[m])
    BY <2>7 DEF OneListedLast
  <2> QED BY <1>4, <1>5, <2>1, <2>4, <2>8 DEF Put, es, S
<1>6. CASE ~(f.index = i /\ f.args # Nothing)
  <2>1. Said(es, i) = Said(fs, i)
    BY <1>1, <1>6 DEF Said
  <2>2. \A p \in Said(fs, i) : es[p] = fs[p]
    BY <1>1, PlacesFacts
  <2>3. new = old
    BY <2>1, <2>2
  <2> HIDE DEF old, new
  <2> QED BY <1>4, <1>6, <2>1, <2>3 DEF Put, es
<1> QED BY <1>5, <1>6

LEMMA UnknownIndex ==
  ASSUME NEW fs \in Seq(Fragment), NEW i, i \notin IndexesIn(fs)
  PROVE  CallIn(fs, i) = [id |-> Nothing, args |-> <<>>]
<1>1. Named(fs, i) = {} /\ Said(fs, i) = {}
  BY DEF Named, Said, IndexesIn
<1>2. NameIn(fs, i) = Nothing
  BY <1>1 DEF NameIn
<1>3. Len(ArgsIn(fs, i)) = 0
  <2> DEFINE g == [p \in Said(fs, i) |-> fs[p].args]
  <2>1. \A p \in Said(fs, i) : g[p] \in Pieces
    BY <1>1
  <2> HIDE DEF g
  <2>2. Len(InOrder(Said(fs, i), g)) = Cardinality(Said(fs, i))
    BY <2>1, PlacesFacts, InOrderIsSeq
  <2> QED BY <1>1, <2>2, FS_EmptySet DEF ArgsIn, g
<1>4. ArgsIn(fs, i) = <<>>
  BY <1>3, PlacesFacts, EmptySeq
<1> QED BY <1>2, <1>4, CallInIs

(* stream.go:222-238: what the loop over a chunk's fragments does to the   *)
(* map of calls is what one more fragment means for the calls as a whole.  *)
LEMMA MergeIsOneMore ==
  ASSUME NEW fs \in Seq(Fragment), NEW f \in Fragment
  PROVE  Merge(CallsIn(fs), f) = CallsIn(Append(fs, f))
<1> DEFINE es == Append(fs, f)
<1>1. IndexesIn(es) = IndexesIn(fs) \cup {f.index}
  <2>1. /\ DOMAIN es = DOMAIN fs \cup {Len(fs) + 1} /\ es[Len(fs) + 1] = f
        /\ \A p \in DOMAIN fs : es[p] = fs[p]
    BY ExtendedSeq
  <2> HIDE DEF es
  <2> QED BY <2>1 DEF IndexesIn
<1>2. DOMAIN CallsIn(fs) = IndexesIn(fs)
      /\ \A i \in IndexesIn(fs) : CallsIn(fs)[i] = CallIn(fs, i)
  BY DEF CallsIn
<1> DEFINE old == IF f.index \in DOMAIN CallsIn(fs) THEN CallsIn(fs)[f.index]
                  ELSE [id |-> Nothing, args |-> <<>>]
<1>3. old = CallIn(fs, f.index)
  BY <1>2, UnknownIndex
<1>4. CallIn(fs, f.index) = [id |-> NameIn(fs, f.index), args |-> ArgsIn(fs, f.index)]
  BY CallInIs
<1>5. CallIn(es, f.index) = [id |-> Latest(old.id, f.id), args |-> Put(old.args, f.args)]
  <2>1. CallIn(es, f.index) = [id |-> NameIn(es, f.index), args |-> ArgsIn(es, f.index)]
    BY CallInIs
  <2>2. NameIn(es, f.index) = Latest(NameIn(fs, f.index), f.id)
    BY NameOfOneMore
  <2>3. ArgsIn(es, f.index) = Put(ArgsIn(fs, f.index), f.args)
    BY ArgsOfOneMore
  <2> HIDE DEF es, old
  <2>4. old.id = NameIn(fs, f.index) /\ old.args = ArgsIn(fs, f.index)
    BY <1>3, <1>4
  <2> QED BY <2>1, <2>2, <2>3, <2>4
<1>6. ASSUME NEW i, i # f.index PROVE CallIn(es, i) = CallIn(fs, i)
  <2>1. NameIn(es, i) = NameIn(fs, i) /\ ArgsIn(es, i) = ArgsIn(fs, i)
    BY <1>6, NameOfOneMore, ArgsOfOneMore
  <2> QED BY <2>1, CallInIs
<1>7. Merge(CallsIn(fs), f) =
        [i \in IndexesIn(fs) \cup {f.index} |->
           IF i = f.index THEN [id |-> Latest(old.id, f.id), args |-> Put(old.args, f.args)]
           ELSE CallsIn(fs)[i]]
  BY <1>2 DEF Merge
<1> HIDE DEF es, old
<1>8. CallsIn(es) = [i \in IndexesIn(fs) \cup {f.index} |-> CallIn(es, i)]
  BY <1>1 DEF CallsIn
<1>9. \A i \in IndexesIn(fs) \cup {f.index} :
        CallIn(es, i) = IF i = f.index THEN [id |-> Latest(old.id, f.id), args |-> Put(old.args, f.args)]
                        ELSE CallsIn(fs)[i]
  BY <1>2, <1>5, <1>6
<1>10. Merge(CallsIn(fs), f) = CallsIn(es)
  BY <1>7, <1>8, <1>9
<1> QED BY <1>10 DEF es

-----------------------------------------------------------------------------
(* FoldLeft takes the fragments of a chunk one after the other *)

FoldBody(g, base, seq, s) ==
  IF s = {} THEN base ELSE Merge(g[s \ {Max(s)}], seq[Max(s)])

IsFold(g, base, seq) == g = [s \in SUBSET DOMAIN seq |-> FoldBody(g, base, seq, s)]

LEMMA FoldIsChosen ==
  ASSUME NEW base, NEW seq
  PROVE  FoldLeft(Merge, base, seq) = (CHOOSE g : IsFold(g, base, seq))[DOMAIN seq]
BY DEF FoldLeft, MapThenFoldSet, IsFold, FoldBody

(* There is such a function: built for at most n fragments, n by n. *)
LEMMA FoldExists ==
  ASSUME NEW base, NEW seq \in Seq(Fragment)
  PROVE  \E g : IsFold(g, base, seq)
<1> DEFINE S == DOMAIN seq
           Upto(n) == {s \in SUBSET S : Cardinality(s) <= n}
           Layer(g, n) == g = [s \in Upto(n) |-> FoldBody(g, base, seq, s)]
           N == {n \in Nat : \E g : Layer(g, n)}
<1>1. IsFiniteSet(S) /\ S \subseteq Nat /\ Cardinality(S) \in Nat
  <2>1. DOMAIN seq = 1..Len(seq) /\ Len(seq) \in Nat
    OBVIOUS
  <2>2. IsFiniteSet(1..Len(seq))
    BY <2>1, FS_Interval
  <2> QED BY <2>1, <2>2, FS_CardinalityType
<1>2. \A s \in SUBSET S : /\ IsFiniteSet(s) /\ Cardinality(s) \in Nat
                          /\ Cardinality(s) <= Cardinality(S)
  BY <1>1, FS_Subset, FS_CardinalityType
<1>3. \A s \in SUBSET S : s # {} => Max(s) \in s
  BY <1>1, <1>2, Greatest
<1> HIDE DEF S
<1>4. 0 \in N
  <2> DEFINE g == [s \in Upto(0) |-> base]
  <2>1. \A s \in Upto(0) : s = {}
    BY <1>2, FS_EmptySet
  <2>2. Layer(g, 0)
    BY <2>1 DEF FoldBody
  <2> HIDE DEF g
  <2> QED BY <2>2
<1>5. ASSUME NEW n \in N PROVE n + 1 \in N
  <2>1. PICK g : Layer(g, n)
    BY <1>5
  <2> DEFINE h == [s \in Upto(n + 1) |-> FoldBody(g, base, seq, s)]
  <2>2. ASSUME NEW s \in Upto(n + 1)
        PROVE  FoldBody(h, base, seq, s) = FoldBody(g, base, seq, s)
    <3>1. CASE s = {}
      BY <3>1 DEF FoldBody
    <3>2. CASE s # {}
      <4> DEFINE t == s \ {Max(s)}
      <4>1. Max(s) \in s
        BY <1>3, <3>2
      <4>2. t \in SUBSET S /\ Cardinality(t) = Cardinality(s) - 1
        BY <1>2, <4>1, FS_RemoveElement
      <4>3. t \in Upto(n) /\ t \in Upto(n + 1)
        BY <1>2, <4>2
      <4> HIDE DEF t
      <4>4. g[t] = FoldBody(g, base, seq, t)
        <5> HIDE DEF Upto
        <5> QED BY <2>1, <4>3
      <4>5. h[t] = FoldBody(g, base, seq, t)
        <5> HIDE DEF Upto
        <5> QED BY <4>3
      <4> HIDE DEF h
      <4> QED BY <3>2, <4>4, <4>5 DEF FoldBody, t
    <3> QED BY <3>1, <3>2
  <2>3. Layer(h, n + 1)
    <3>1. h = [s \in Upto(n + 1) |-> FoldBody(g, base, seq, s)]
      OBVIOUS
    <3> HIDE DEF h, Upto
    <3> QED BY <2>2, <3>1
  <2> HIDE DEF Layer
  <2> QED BY <1>5, <2>3
<1>6. Nat \subseteq N
  <2> HIDE DEF N
  <2> QED BY <1>4, <1>5, Counting
<1>7. PICK g : Layer(g, Cardinality(S))
  BY <1>1, <1>6
<1>8. Upto(Cardinality(S)) = SUBSET S
  BY <1>2
<1> HIDE DEF Upto
<1> QED BY <1>7, <1>8 DEF IsFold, S

(* The sequence fs followed by the first k of es. *)
LEMMA FirstOnes ==
  ASSUME NEW fs \in Seq(Fragment), NEW es \in Seq(Fragment)
  PROVE  /\ fs \o SubSeq(es, 1, 0) = fs
         /\ fs \o SubSeq(es, 1, Len(es)) = fs \o es
         /\ \A k \in 0..Len(es) : fs \o SubSeq(es, 1, k) \in Seq(Fragment)
         /\ \A k \in 0..Len(es) : k + 1 <= Len(es) =>
              fs \o SubSeq(es, 1, k + 1) = Append(fs \o SubSeq(es, 1, k), es[k + 1])
<1>1. SubSeq(es, 1, 0) = <<>> /\ fs \o <<>> = fs
  OBVIOUS
<1>2. SubSeq(es, 1, Len(es)) = es
  OBVIOUS
<1>3. ASSUME NEW k \in 0..Len(es) PROVE fs \o SubSeq(es, 1, k) \in Seq(Fragment)
  OBVIOUS
<1>4. ASSUME NEW k \in 0..Len(es), k + 1 <= Len(es)
      PROVE  fs \o SubSeq(es, 1, k + 1) = Append(fs \o SubSeq(es, 1, k), es[k + 1])
  BY <1>4
<1> QED BY <1>1, <1>2, <1>3, <1>4

(* stream.go:222-238, the loop as a whole: after any fragments fs, those   *)
(* of a chunk leave the calls that all of them together make.              *)
LEMMA MergeAll ==
  ASSUME NEW fs \in Seq(Fragment), NEW es \in Seq(Fragment)
  PROVE  FoldLeft(Merge, CallsIn(fs), es) = CallsIn(fs \o es)
<1> DEFINE base == CallsIn(fs)
           g == CHOOSE g : IsFold(g, base, es)
           upto(k) == fs \o SubSeq(es, 1, k)
           N == {k \in Nat : k <= Len(es) => g[1..k] = CallsIn(upto(k))}
<1>1. FoldLeft(Merge, base, es) = g[DOMAIN es] /\ IsFold(g, base, es)
  BY FoldIsChosen, FoldExists
<1>2. DOMAIN es = 1..Len(es) /\ Len(es) \in Nat /\ \A k \in 1..Len(es) : es[k] \in Fragment
  OBVIOUS
<1> HIDE DEF g, base
<1>3. \A s \in SUBSET DOMAIN es : g[s] = FoldBody(g, base, es, s)
  BY <1>1 DEF IsFold
<1>4. 0 \in N
  <2>1. 1..0 = {} /\ {} \in SUBSET DOMAIN es
    OBVIOUS
  <2>2. g[1..0] = base
    BY <1>3, <2>1 DEF FoldBody
  <2> QED BY <2>2, FirstOnes DEF base
<1>5. ASSUME NEW k \in N PROVE k + 1 \in N
  <2> SUFFICES ASSUME k + 1 <= Len(es) PROVE g[1..k + 1] = CallsIn(upto(k + 1))
    OBVIOUS
  <2>1. k \in Nat /\ k \in 0..Len(es) /\ k + 1 \in 1..Len(es)
    BY <1>2
  <2>2. g[1..k] = CallsIn(upto(k))
    BY <1>2, <2>1
  <2>3. Max(1..k + 1) = k + 1
    <3>1. 1..k \subseteq Nat /\ k + 1 \in Nat /\ \A i \in 1..k : i < k + 1
      BY <2>1
    <3>2. 1..k + 1 = (1..k) \cup {k + 1}
      BY <2>1
    <3>3. Max((1..k) \cup {k + 1}) = k + 1
      BY <3>1, IsGreatest
    <3> QED BY <3>2, <3>3
  <2>4. (1..k + 1) \ {k + 1} = 1..k /\ 1..k + 1 # {} /\ 1..k + 1 \in SUBSET DOMAIN es
    <3>1. (1..k + 1) \ {k + 1} = 1..k
      BY <2>1
    <3>2. k + 1 \in 1..k + 1
      BY <2>1
    <3>3. \A i \in 1..k + 1 : i \in 1..Len(es)
      BY <1>2, <2>1
    <3> QED BY <1>2, <3>1, <3>2, <3>3
  <2>5. g[1..k + 1] = Merge(CallsIn(upto(k)), es[k + 1])
    BY <1>3, <2>2, <2>3, <2>4 DEF FoldBody
  <2>6. upto(k) \in Seq(Fragment) /\ upto(k + 1) = Append(upto(k), es[k + 1])
    BY <2>1, FirstOnes
  <2>7. es[k + 1] \in Fragment
    BY <1>2, <2>1
  <2> HIDE DEF upto
  <2> QED BY <2>5, <2>6, <2>7, MergeIsOneMore
<1>6. Nat \subseteq N
  <2> HIDE DEF N
  <2> QED BY <1>4, <1>5, Counting
<1>7. g[1..Len(es)] = CallsIn(upto(Len(es)))
  BY <1>2, <1>6
<1> QED BY <1>1, <1>2, <1>7, FirstOnes DEF base

-----------------------------------------------------------------------------
(* FlattenSeq puts the chunks' fragments one behind the other *)

(* What comes first decides what is put together first. *)
LEMMA FlatAgrees ==
  ASSUME NEW g, NEW h, NEW ss, NEW tt, NEW n \in Nat, NEW m \in Nat, n <= m,
         IsFlat(g, ss, n), IsFlat(h, tt, m), \A i \in 1..n : ss[i] = tt[i]
  PROVE  \A i \in 1..n : g[i] = h[i]
<1> DEFINE N == {i \in Nat : i \in 1..n => g[i] = h[i]}
<1>1. \A i \in 1..n : g[i] = IF i = 1 THEN ss[i] ELSE g[i - 1] \o ss[i]
  BY DEF IsFlat
<1>2. \A i \in 1..n : i \in 1..m
  OBVIOUS
<1>3. \A i \in 1..n : h[i] = IF i = 1 THEN ss[i] ELSE h[i - 1] \o ss[i]
  BY <1>2 DEF IsFlat
<1>4. 0 \in N
  OBVIOUS
<1>5. ASSUME NEW i \in N PROVE i + 1 \in N
  <2> SUFFICES ASSUME i + 1 \in 1..n PROVE g[i + 1] = h[i + 1]
    OBVIOUS
  <2>1. i \in Nat /\ (i + 1) - 1 = i /\ (i + 1 # 1 => i \in 1..n)
    OBVIOUS
  <2>2. i + 1 # 1 => g[i] = h[i]
    BY <2>1
  <2>3. g[i + 1] = IF i + 1 = 1 THEN ss[i + 1] ELSE g[i] \o ss[i + 1]
    BY <1>1, <2>1
  <2>4. h[i + 1] = IF i + 1 = 1 THEN ss[i + 1] ELSE h[i] \o ss[i + 1]
    BY <1>3, <2>1
  <2> QED BY <2>2, <2>3, <2>4
<1>6. Nat \subseteq N
  <2> HIDE DEF N
  <2> QED BY <1>4, <1>5, Counting
<1> QED BY <1>6

LEMMA FlattenFacts ==
  ASSUME NEW ss \in Seq(Seq(Fragment)), NEW es \in Seq(Fragment)
  PROVE  /\ FlattenSeq(ss) \in Seq(Fragment)
         /\ FlattenSeq(Append(ss, es)) = FlattenSeq(ss) \o es
<1> DEFINE n == Len(ss)
           tt == Append(ss, es)
           g == CHOOSE g : IsFlat(g, ss, n)
           h == CHOOSE h : IsFlat(h, tt, n + 1)
<1>1. /\ n \in Nat /\ Len(tt) = n + 1 /\ tt[n + 1] = es
      /\ \A i \in 1..n : ss[i] \in Seq(Fragment) /\ tt[i] = ss[i]
  OBVIOUS
<1>2. IsFlat(g, ss, n) /\ IsFlat(h, tt, n + 1)
  <2>1. n \in Nat /\ n + 1 \in Nat
    BY <1>1
  <2> HIDE DEF n, tt
  <2>2. (\E k : IsFlat(k, ss, n)) /\ (\E k : IsFlat(k, tt, n + 1))
    BY <2>1, FlatExists
  <2> QED BY <2>2
<1>3. n # 0 => FlattenSeq(ss) = g[n]
  BY FlattenIsChosen
<1>4. FlattenSeq(tt) = h[n + 1]
  <2>1. Len(tt) # 0
    BY <1>1
  <2> HIDE DEF tt
  <2>2. FlattenSeq(tt) = (CHOOSE k : IsFlat(k, tt, Len(tt)))[Len(tt)]
    BY <2>1, FlattenIsChosen
  <2> QED BY <1>1, <2>2
<1>5. n = 0 => ss = <<>> /\ FlattenSeq(ss) = ss
  BY DEF FlattenSeq
<1> HIDE DEF n, tt, g, h
<1>6. \A i \in 1..n : g[i] = h[i]
  <2> DEFINE m == n + 1
  <2>1. m \in Nat /\ n <= m /\ n \in Nat /\ \A i \in 1..n : ss[i] = tt[i]
    BY <1>1
  <2>2. IsFlat(g, ss, n) /\ IsFlat(h, tt, m)
    BY <1>2
  <2> HIDE DEF m
  <2> QED BY <2>1, <2>2, FlatAgrees
<1>7. /\ \A i \in 1..n : g[i] = IF i = 1 THEN ss[i] ELSE g[i - 1] \o ss[i]
      /\ h[n + 1] = IF n + 1 = 1 THEN tt[n + 1] ELSE h[(n + 1) - 1] \o tt[n + 1]
  <2>1. n + 1 \in 1..n + 1
    BY <1>1
  <2> QED BY <1>2, <2>1 DEF IsFlat
<1>8. \A i \in 1..n : g[i] \in Seq(Fragment)
  <2> DEFINE N == {i \in Nat : i \in 1..n => g[i] \in Seq(Fragment)}
  <2>1. 0 \in N
    OBVIOUS
  <2>2. ASSUME NEW i \in N PROVE i + 1 \in N
    <3> SUFFICES ASSUME i + 1 \in 1..n PROVE g[i + 1] \in Seq(Fragment)
      OBVIOUS
    <3>1. i \in Nat /\ (i + 1) - 1 = i /\ (i + 1 # 1 => i \in 1..n)
      BY <1>1
    <3>2. i + 1 # 1 => g[i] \in Seq(Fragment)
      BY <3>1
    <3>3. g[i + 1] = IF i + 1 = 1 THEN ss[i + 1] ELSE g[i] \o ss[i + 1]
      BY <1>7, <3>1
    <3>4. ss[i + 1] \in Seq(Fragment)
      BY <1>1
    <3>5. i + 1 # 1 => g[i] \o ss[i + 1] \in Seq(Fragment)
      BY <3>2, <3>4
    <3> QED BY <3>3, <3>4, <3>5
  <2>3. Nat \subseteq N
    <3> HIDE DEF N
    <3> QED BY <2>1, <2>2, Counting
  <2> QED BY <2>3
<1>9. CASE n = 0
  <2>1. FlattenSeq(ss) = <<>> /\ FlattenSeq(tt) = es
    BY <1>1, <1>4, <1>5, <1>7, <1>9
  <2>2. <<>> \in Seq(Fragment) /\ <<>> \o es = es
    OBVIOUS
  <2> QED BY <2>1, <2>2 DEF tt
<1>10. CASE n # 0
  <2>1. n \in 1..n /\ (n + 1) - 1 = n /\ n + 1 # 1
    BY <1>1, <1>10
  <2>2. FlattenSeq(tt) = g[n] \o es
    BY <1>1, <1>4, <1>6, <1>7, <2>1
  <2> QED BY <1>3, <1>8, <1>10, <2>1, <2>2 DEF tt
<1> QED BY <1>9, <1>10

-----------------------------------------------------------------------------
(* The reply so far *)

TextUpto(k) == {n \in TextAt : n <= k}
TextList == [n \in TextAt |-> Own(n).text]
TextOf(k) == InOrder(TextUpto(k), TextList)

UsageUpto(k) == {n \in UsageAt : n <= k}
UsageOf(k) == IF UsageUpto(k) = {} THEN Nothing ELSE UsageIn(Max(UsageUpto(k)))

FragsList == [n \in DOMAIN script |-> IF n \in Ours THEN Own(n).frags ELSE <<>>]
FragsOf(k) == FlattenSeq(SubSeq(FragsList, 1, k))

(* What has been built is what the chunks read so far say, the visitor has *)
(* seen all of its text, and a message is made of it only after the last.  *)
StreamInv ==
  /\ script \in Scripts
  /\ pos \in 0..Len(script)
  /\ text = TextOf(pos)
  /\ shown = text
  /\ usage = UsageOf(pos)
  /\ partials = CallsIn(FragsOf(pos))
  /\ outcome = "message" => pos = Len(script) /\ message = Assembled
  /\ outcome # "message" => message = Nothing

LEMMA ScriptFacts ==
  ASSUME script \in Scripts
  PROVE  /\ Len(script) \in Nat /\ DOMAIN script = 1..Len(script)
         /\ \A n \in 1..Len(script) : script[n] \in Chunk
         /\ \A n \in Ours : n \in 1..Len(script) /\ Own(n) \in Choice
         /\ \A n \in TextAt : TextList[n] = Own(n).text /\ TextList[n] \in Pieces
         /\ \A n \in 1..Len(script) : UsageIn(n) \in Nat \cup {Nothing}
         /\ FragsList \in Seq(Seq(Fragment)) /\ Len(FragsList) = Len(script)
<1>1. script \in Seq(Chunk)
  BY StreamAssumption
<1>2. Len(script) \in Nat /\ DOMAIN script = 1..Len(script)
  BY <1>1
<1>3. \A n \in 1..Len(script) : script[n] \in Chunk
  BY <1>1
<1>4. ASSUME NEW n \in Ours PROVE n \in 1..Len(script) /\ Own(n) \in Choice
  <2>1. n \in 1..Len(script) /\ script[n].choices # <<>>
    BY <1>2 DEF Ours
  <2>2. script[n].choices \in Seq(Choice)
    BY <1>3, <2>1 DEF Chunk
  <2>3. Head(script[n].choices) \in Choice
    BY <2>1, <2>2
  <2> QED BY <2>1, <2>3 DEF Own
<1>5. \A n \in TextAt : TextList[n] = Own(n).text /\ TextList[n] \in Pieces
  BY <1>4 DEF TextAt, TextList, Choice
<1>6. \A n \in 1..Len(script) : UsageIn(n) \in Nat \cup {Nothing}
  BY <1>3, <1>4 DEF UsageIn, Chunk, Choice
<1>7. FragsList \in Seq(Seq(Fragment)) /\ Len(FragsList) = Len(script)
  <2>1. \A n \in 1..Len(script) :
          (IF n \in Ours THEN Own(n).frags ELSE <<>>) \in Seq(Fragment)
    BY <1>4 DEF Choice
  <2> QED BY <1>2, <2>1 DEF FragsList
<1> QED BY <1>2, <1>3, <1>4, <1>5, <1>6, <1>7

(* Places of the script up to k: finite sets of naturals. *)
LEMMA UptoFacts ==
  ASSUME script \in Scripts, NEW k \in Nat
  PROVE  /\ IsFiniteSet(TextUpto(k)) /\ TextUpto(k) \subseteq Nat
         /\ IsFiniteSet(UsageUpto(k)) /\ UsageUpto(k) \subseteq Nat
         /\ TextUpto(k) \in SUBSET TextAt /\ UsageUpto(k) \in SUBSET UsageAt
         /\ IsFiniteSet(TextAt) /\ TextAt \subseteq Nat
<1>1. Len(script) \in Nat /\ DOMAIN script = 1..Len(script)
  BY ScriptFacts
<1>2. IsFiniteSet(DOMAIN script) /\ DOMAIN script \subseteq Nat
  <2>1. IsFiniteSet(1..Len(script))
    BY <1>1, FS_Interval
  <2> QED BY <1>1, <2>1
<1>3. TextAt \in SUBSET DOMAIN script /\ UsageAt \in SUBSET DOMAIN script
  BY DEF TextAt, UsageAt, Ours
<1>4. TextUpto(k) \in SUBSET TextAt /\ UsageUpto(k) \in SUBSET UsageAt
  BY DEF TextUpto, UsageUpto
<1>5. /\ TextUpto(k) \in SUBSET DOMAIN script /\ UsageUpto(k) \in SUBSET DOMAIN script
  BY <1>3, <1>4
<1>6. IsFiniteSet(TextUpto(k)) /\ IsFiniteSet(UsageUpto(k)) /\ IsFiniteSet(TextAt)
  BY <1>2, <1>3, <1>5, FS_Subset
<1> QED BY <1>2, <1>3, <1>4, <1>5, <1>6

(* One more chunk adds its text, its usage and its fragments. *)
LEMMA TextOfOneMore ==
  ASSUME script \in Scripts, NEW k \in Nat, k < Len(script)
  PROVE  TextOf(k + 1) = IF script[k + 1].choices = <<>> THEN TextOf(k)
                         ELSE Put(TextOf(k), Head(script[k + 1].choices).text)
<1> DEFINE S == TextUpto(k)
           m == k + 1
<1>1. m \in Nat /\ m \in DOMAIN script /\ \A n \in S : n < m
  <2>1. m \in 1..Len(script) /\ DOMAIN script = 1..Len(script)
    BY ScriptFacts
  <2>2. \A n \in S : n \in Nat /\ n <= k
    BY UptoFacts DEF TextUpto
  <2> QED BY <2>1, <2>2
<1>2. \A n \in TextAt : n <= m <=> n <= k \/ n = m
  BY UptoFacts
<1>3. TextUpto(m) = IF m \in TextAt THEN S \cup {m} ELSE S
  BY <1>1, <1>2 DEF TextUpto
<1>4. m \in TextAt <=> script[m].choices # <<>> /\ Own(m).text # Nothing
  BY <1>1 DEF TextAt, Ours
<1>5. CASE m \in TextAt
  <2>1. TextList[m] \in Pieces /\ TextList[m] = Own(m).text /\ \A n \in S : TextList[n] \in Pieces
    BY <1>5, ScriptFacts, UptoFacts
  <2>2. IsFiniteSet(S) /\ S \subseteq Nat
    BY UptoFacts
  <2> HIDE DEF S, m
  <2>3. OneLater(S, m, TextList, TextList)
    BY <1>1, <2>1, <2>2 DEF OneLater
  <2>4. OneListedLast(S, m, TextList, TextList)
    BY <2>3, InOrderAppend
  <2>5. InOrder(TextUpto(m), TextList) = Append(InOrder(S, TextList), Own(m).text)
    BY <1>3, <1>5, <2>1, <2>4 DEF OneListedLast
  <2>6. TextOf(m) = Put(TextOf(k), Own(m).text)
    BY <1>4, <1>5, <2>5 DEF TextOf, Put, S
  <2> QED BY <1>4, <1>5, <2>6 DEF Own, m
<1>6. CASE m \notin TextAt
  <2>1. TextOf(m) = TextOf(k)
    BY <1>3, <1>6 DEF TextOf
  <2> HIDE DEF S
  <2> QED BY <1>4, <1>6, <2>1 DEF Put, Own
<1> QED BY <1>5, <1>6

LEMMA UsageOfOneMore ==
  ASSUME script \in Scripts, NEW k \in Nat, k < Len(script)
  PROVE  UsageOf(k + 1) = UsageAfter(script[k + 1], UsageOf(k))
<1> DEFINE S == UsageUpto(k)
           m == k + 1
<1>1. m \in Nat /\ m \in DOMAIN script /\ \A n \in S : n < m
  <2>1. m \in 1..Len(script) /\ DOMAIN script = 1..Len(script)
    BY ScriptFacts
  <2>2. \A n \in S : n \in Nat /\ n <= k
    BY UptoFacts DEF UsageUpto
  <2> QED BY <2>1, <2>2
<1>2. \A n \in UsageAt : n \in Nat
  BY ScriptFacts DEF UsageAt
<1>3. \A n \in UsageAt : n <= m <=> n <= k \/ n = m
  BY <1>2
<1>4. UsageUpto(m) = IF m \in UsageAt THEN S \cup {m} ELSE S
  BY <1>1, <1>3 DEF UsageUpto
<1>5. m \in UsageAt <=> UsageIn(m) # Nothing
  BY <1>1 DEF UsageAt
<1>6. UsageOf(m) = Latest(UsageOf(k), UsageIn(m))
  <2>1. CASE m \in UsageAt
    <3>1. S \subseteq Nat
      BY UptoFacts
    <3> HIDE DEF S, m
    <3>2. Max(S \cup {m}) = m
      BY <1>1, <3>1, IsGreatest
    <3>3. UsageOf(m) = UsageIn(m)
      BY <1>4, <2>1, <3>2 DEF UsageOf
    <3> QED BY <1>5, <2>1, <3>3 DEF Latest
  <2>2. CASE m \notin UsageAt
    <3> HIDE DEF m
    <3> QED BY <1>4, <1>5, <2>2 DEF UsageOf, Latest
  <2> QED BY <2>1, <2>2
<1>7. UsageAfter(script[m], UsageOf(k)) = Latest(UsageOf(k), UsageIn(m))
  <2>1. m \in Ours <=> script[m].choices # <<>>
    BY <1>1 DEF Ours
  <2> HIDE DEF m
  <2> QED BY <2>1 DEF UsageAfter, UsageIn, Latest, Own
<1> QED BY <1>6, <1>7

LEMMA FragsOfOneMore ==
  ASSUME script \in Scripts, NEW k \in Nat, k < Len(script)
  PROVE  CallsIn(FragsOf(k + 1))
           = IF script[k + 1].choices = <<>> THEN CallsIn(FragsOf(k))
             ELSE FoldLeft(Merge, CallsIn(FragsOf(k)), Head(script[k + 1].choices).frags)
<1> DEFINE m == k + 1
           es == FragsList[m]
           ss == SubSeq(FragsList, 1, k)
<1>1. m \in DOMAIN script /\ Len(script) \in Nat /\ m <= Len(script)
  BY ScriptFacts
<1>2. FragsList \in Seq(Seq(Fragment)) /\ Len(FragsList) = Len(script)
  BY ScriptFacts
<1>3. ss \in Seq(Seq(Fragment)) /\ es \in Seq(Fragment) /\ SubSeq(FragsList, 1, m) = Append(ss, es)
  BY <1>1, <1>2
<1>4. m \in Ours <=> script[m].choices # <<>>
  BY <1>1 DEF Ours
<1>5. es = IF script[m].choices # <<>> THEN Head(script[m].choices).frags ELSE <<>>
  BY <1>1, <1>4 DEF FragsList, Own
<1> HIDE DEF m, ss, es
<1>6. FragsOf(m) = FlattenSeq(ss) \o es /\ FlattenSeq(ss) \in Seq(Fragment)
  BY <1>3, FlattenFacts DEF FragsOf
<1>7. FragsOf(k) = FlattenSeq(ss)
  BY DEF FragsOf, ss
<1>8. CASE script[m].choices = <<>>
  <2>1. FlattenSeq(ss) \o <<>> = FlattenSeq(ss)
    BY <1>6
  <2> QED BY <1>5, <1>6, <1>7, <1>8, <2>1 DEF m
<1>9. CASE script[m].choices # <<>>
  <2>1. FoldLeft(Merge, CallsIn(FlattenSeq(ss)), es) = CallsIn(FlattenSeq(ss) \o es)
    BY <1>3, <1>6, MergeAll
  <2> QED BY <1>5, <1>6, <1>7, <1>9, <2>1 DEF m
<1> QED BY <1>8, <1>9

(* Before the first chunk there is nothing, after the last the whole. *)
LEMMA Ends ==
  ASSUME script \in Scripts
  PROVE  /\ TextOf(0) = <<>> /\ UsageOf(0) = Nothing /\ CallsIn(FragsOf(0)) = NoCalls
         /\ TextOf(Len(script)) = TextSent
         /\ UsageOf(Len(script)) = UsageSent
         /\ FragsOf(Len(script)) = FragsSent
<1>1. \A n \in TextAt \cup UsageAt : n \in 1..Len(script)
  BY ScriptFacts DEF TextAt, UsageAt
<1>2. TextUpto(0) = {} /\ UsageUpto(0) = {}
  BY <1>1, ScriptFacts DEF TextUpto, UsageUpto
<1>3. TextUpto(Len(script)) = TextAt /\ UsageUpto(Len(script)) = UsageAt
  BY <1>1, ScriptFacts DEF TextUpto, UsageUpto
<1>4. TextOf(0) = <<>>
  <2>1. 1..0 = {} /\ Cardinality({}) = 0
    BY FS_EmptySet
  <2>2. InOrder({}, TextList) = [j \in 1..0 |-> TextList[Kth({}, j)]]
    BY <2>1 DEF InOrder
  <2>3. InOrder({}, TextList) = <<>>
    BY <2>1, <2>2
  <2> QED BY <1>2, <2>3 DEF TextOf
<1>5. FragsList \in Seq(Seq(Fragment)) /\ Len(FragsList) = Len(script) /\ Len(script) \in Nat
  BY ScriptFacts
<1>6. FragsOf(0) = <<>>
  <2>1. SubSeq(FragsList, 1, 0) = <<>>
    BY <1>5
  <2> QED BY <2>1 DEF FragsOf, FlattenSeq
<1>7. CallsIn(<<>>) = NoCalls
  <2>1. IndexesIn(<<>>) = {}
    BY DEF IndexesIn
  <2> QED BY <2>1 DEF CallsIn, NoCalls
<1>8. FragsOf(Len(script)) = FragsSent
  <2>1. SubSeq(FragsList, 1, Len(script)) = FragsList
    BY <1>5
  <2> QED BY <2>1 DEF FragsOf, FragsSent, FragsList
<1>9. TextOf(Len(script)) = TextSent
  BY <1>3 DEF TextOf, TextSent, TextList
<1>10. UsageOf(0) = Nothing
  BY <1>2 DEF UsageOf
<1>11. UsageOf(Len(script)) = UsageSent
  BY <1>3 DEF UsageOf, UsageSent
<1> QED BY <1>4, <1>6, <1>7, <1>8, <1>9, <1>10, <1>11

LEMMA StreamInvInit == Init => StreamInv
<1> SUFFICES ASSUME Init PROVE StreamInv
  OBVIOUS
<1>1. script \in Scripts /\ pos = 0 /\ Len(script) \in Nat
  BY ScriptFacts DEF Init
<1> QED BY <1>1, Ends DEF Init, StreamInv

(* While the script stays what it is, so does what it says. *)
LEMMA SameScript ==
  ASSUME UNCHANGED script, NEW k
  PROVE  TextOf(k)' = TextOf(k) /\ UsageOf(k)' = UsageOf(k) /\ FragsOf(k)' = FragsOf(k)
BY DEF TextOf, TextUpto, TextList, TextAt, UsageOf, UsageUpto, UsageAt, UsageIn,
       FragsOf, FragsList, Ours, Own

LEMMA InScript ==
  ASSUME StreamInv
  PROVE  script \in Scripts /\ pos \in Nat /\ Len(script) \in Nat
<1>1. script \in Scripts /\ pos \in 0..Len(script)
  BY DEF StreamInv
<1>2. Len(script) \in Nat
  BY <1>1, ScriptFacts
<1> QED BY <1>1, <1>2

LEMMA StreamInvStep ==
  ASSUME StreamInv, [Next]_vars
  PROVE  StreamInv'
<1>1. CASE ReadChunk
  <2>1. /\ outcome = "reading" /\ pos < Len(script) /\ pos' = pos + 1
        /\ UNCHANGED <<script, outcome, message>>
        /\ usage' = UsageAfter(script[pos + 1], usage)
    BY <1>1 DEF ReadChunk
  <2>2. script \in Scripts /\ pos \in Nat /\ Len(script) \in Nat
    BY InScript
  <2>3. pos' \in 0..Len(script)
    BY <2>1, <2>2
  <2>4. /\ text' = TextOf(pos + 1) /\ shown' = text'
        /\ partials' = CallsIn(FragsOf(pos + 1))
    <3>1. CASE script[pos + 1].choices = <<>>
      BY <1>1, <2>1, <2>2, <3>1, TextOfOneMore, FragsOfOneMore DEF ReadChunk, StreamInv
    <3>2. CASE script[pos + 1].choices # <<>>
      <4>1. /\ text' = Put(text, Head(script[pos + 1].choices).text)
            /\ shown' = Put(shown, Head(script[pos + 1].choices).text)
            /\ partials' = FoldLeft(Merge, partials, Head(script[pos + 1].choices).frags)
        BY <1>1, <3>2 DEF ReadChunk
      <4>2. text = TextOf(pos) /\ shown = text /\ partials = CallsIn(FragsOf(pos))
        BY DEF StreamInv
      <4> QED BY <2>1, <2>2, <3>2, <4>1, <4>2, TextOfOneMore, FragsOfOneMore
    <3> QED BY <3>1, <3>2
  <2>5. usage' = UsageOf(pos + 1)
    BY <2>1, <2>2, UsageOfOneMore DEF StreamInv
  <2>6. /\ \A k : TextOf(k)' = TextOf(k)
        /\ \A k : UsageOf(k)' = UsageOf(k)
        /\ \A k : FragsOf(k)' = FragsOf(k)
    BY <2>1, SameScript
  <2> QED BY <2>1, <2>2, <2>3, <2>4, <2>5, <2>6 DEF StreamInv
<1>2. CASE VisitorGone
  BY <1>2, SameScript DEF StreamInv, VisitorGone, Give, Assembled
<1>3. CASE ReadDone
  BY <1>3, SameScript DEF StreamInv, ReadDone, Give, Assembled
<1>4. CASE EndEarly
  BY <1>4, SameScript DEF StreamInv, EndEarly, Give, Assembled
<1>5. CASE UNCHANGED vars
  BY <1>5, SameScript DEF StreamInv, vars, Assembled
<1> QED BY <1>1, <1>2, <1>3, <1>4, <1>5 DEF Next

(* stream.go:116-118 and 237-245: a message that Stream returns is the     *)
(* whole reply of the upstream, with its text, its last usage and its      *)
(* calls in index order, and a stream that ends before [DONE] gives none.  *)
THEOREM WholeReplies == Spec => []WholeOrNothing
<1>1. StreamInv => WholeOrNothing
  <2> SUFFICES ASSUME StreamInv, message # Nothing
               PROVE  outcome = "message" /\ message = Whole
    BY DEF WholeOrNothing
  <2>1. /\ script \in Scripts /\ outcome = "message" /\ pos = Len(script)
        /\ message = Assembled
    BY DEF StreamInv
  <2>2. text = TextSent /\ usage = UsageSent /\ partials = CallsIn(FragsSent)
    BY <2>1, Ends DEF StreamInv
  <2>3. DOMAIN partials = IndexesIn(FragsSent)
    BY <2>2 DEF CallsIn
  <2> QED BY <2>1, <2>2, <2>3 DEF Assembled, Whole
<1> QED BY <1>1, StreamInvInit, StreamInvStep, PTL DEF Spec

(* stream.go:214-221: at any moment the visitor has seen a prefix of the   *)
(* text the upstream sends, and exactly the text of the message when there *)
(* is one.                                                                 *)
THEOREM TextWasShown == Spec => []VisitorSawTheText
<1>1. StreamInv => VisitorSawTheText
  <2> SUFFICES ASSUME StreamInv PROVE VisitorSawTheText
    OBVIOUS
  <2>1. script \in Scripts /\ pos \in Nat /\ shown = TextOf(pos) /\ shown = text
    BY InScript DEF StreamInv
  <2>2. IsPrefix(TextOf(pos), TextSent)
    <3> DEFINE S == TextAt
               T == TextUpto(pos)
    <3>1. IsFiniteSet(S) /\ S \subseteq Nat /\ T \in SUBSET S
      BY <2>1, UptoFacts
    <3>2. \A i \in T, j \in S \ T : i < j
      BY <2>1, <3>1 DEF TextUpto
    <3>3. \A i \in S : TextList[i] \in Pieces
      BY <2>1, ScriptFacts
    <3>4. TextOf(pos) = InOrder(T, TextList) /\ TextSent = InOrder(S, TextList)
      BY DEF TextOf, TextSent, TextList
    <3> HIDE DEF S, T
    <3> QED BY <3>1, <3>2, <3>3, <3>4, InOrderPart
  <2>3. message # Nothing => message.text = text
    BY DEF StreamInv, Assembled
  <2> QED BY <2>1, <2>2, <2>3 DEF VisitorSawTheText
<1> QED BY <1>1, StreamInvInit, StreamInvStep, PTL DEF Spec
=============================================================================
