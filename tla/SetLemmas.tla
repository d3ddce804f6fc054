------------------------------ MODULE SetLemmas -----------------------------
(***************************************************************************)
(* Least and greatest elements, where Min and Max of FiniteSetsExt exist,  *)
(* sums over finite sets, SumFunctionOnSet of Functions, and sets in       *)
(* ascending order.                                                        *)
(***************************************************************************)
EXTENDS Integers, Sequences, FiniteSetsExt, Functions, FiniteSetTheorems, SequenceTheorems,
        WellFoundedInduction, TLAPS

LessThan == {pair \in Nat \X Nat : pair[1] < pair[2]}

\* No sequence of naturals descends for ever.
LEMMA LessThanWellFounded == IsWellFoundedOn(LessThan, Nat)
<1>1. OpToRel(<, Nat) = LessThan
  BY Zenon DEF OpToRel, LessThan
<1> QED BY <1>1, NatLessThanWellFounded

\* A set of naturals that is not empty has a least element.
LEMMA MinExists ==
    ASSUME NEW S \in SUBSET Nat, S # {}
    PROVE  Min(S) \in S /\ \A y \in S : Min(S) <= y
<1>1. PICK x \in S : \A y \in S : ~(<<y, x>> \in LessThan)
  BY LessThanWellFounded, WFMin
<1>2. \A y \in S : x <= y
  <2> SUFFICES ASSUME NEW y \in S PROVE x <= y
    OBVIOUS
  <2>1. x \in Nat /\ y \in Nat
    OBVIOUS
  <2>2. y < x => <<y, x>> \in LessThan
    BY <2>1 DEF LessThan
  <2> QED BY <1>1, <2>1, <2>2
<1> QED BY <1>1, <1>2 DEF Min

\* A set of naturals below some bound has a greatest one.
LEMMA MaxExists ==
    ASSUME NEW n \in Nat, NEW S \in SUBSET (0..n), S # {}
    PROVE  Max(S) \in S /\ \A y \in S : y <= Max(S)
<1> DEFINE D == {n - y : y \in S}
<1>1. D \in SUBSET Nat /\ D # {}
  <2>1. \A y \in S : n - y \in Nat
    OBVIOUS
  <2>2. PICK y \in S : TRUE
    OBVIOUS
  <2>3. n - y \in D
    OBVIOUS
  <2> QED BY <2>1, <2>3
<1>2. PICK x \in S : n - x = Min(D)
  BY <1>1, MinExists
<1>3. \A y \in S : n - x <= n - y
  BY <1>1, <1>2, MinExists
<1>4. \A y \in S : x >= y
  BY <1>2, <1>3
<1> QED BY <1>2, <1>4 DEF Max

\* The greater of two integers.
LEMMA MaxOfTwo ==
    ASSUME NEW a \in Int, NEW b \in Int
    PROVE  /\ Max({a, b}) \in {a, b}
           /\ a <= Max({a, b}) /\ b <= Max({a, b})
BY DEF Max

\* Min of two sets is the same when the smaller one has an element at most all of the larger's.
LEMMA MinSame ==
    ASSUME NEW A, NEW B, A \subseteq B, B \subseteq Int, NEW a \in A, \A b \in B : a <= b
    PROVE  Min(A) = Min(B)
<1>1. \A S : S \subseteq B /\ a \in S => Min(S) = a
  <2>. SUFFICES ASSUME NEW S, S \subseteq B, a \in S PROVE Min(S) = a
    OBVIOUS
  <2>1. a \in S /\ \A y \in S : a <= y
    OBVIOUS
  <2>2. \A x \in S : (\A y \in S : x <= y) => x = a
    <3>. SUFFICES ASSUME NEW x \in S, \A y \in S : x <= y PROVE x = a
      OBVIOUS
    <3>1. x <= a /\ a <= x /\ x \in Int /\ a \in Int
      BY <2>1
    <3>. QED
      BY <3>1
  <2>. QED
    BY <2>1, <2>2 DEF Min
<1>. QED
  BY <1>1

\* A set of positions without its last one is smaller.
LEMMA PositionsSmaller ==
    ASSUME NEW n \in Nat, NEW S \in SUBSET (1 .. n), S # {}
    PROVE  /\ Max(S) \in S /\ \A i \in S : i <= Max(S)
           /\ IsFiniteSet(S) /\ Cardinality(S) \in Nat
           /\ Cardinality(S \ {Max(S)}) = Cardinality(S) - 1
<1>1. S \in SUBSET (0 .. n) /\ IsFiniteSet(1 .. n)
  BY FS_Interval
<1>2. Max(S) \in S /\ \A i \in S : i <= Max(S)
  BY <1>1, MaxExists
<1>3. IsFiniteSet(S)
  BY <1>1, FS_Subset
<1>. QED
  BY <1>2, <1>3, FS_RemoveElement, FS_CardinalityType
-----------------------------------------------------------------------------
(***************************************************************************)
(* Sums.  SumFunctionOnSet chooses an order and recurses: that it is well  *)
(* defined and does not depend on the order follows from the absence of a  *)
(* smallest set for which it would not be so.                              *)
(***************************************************************************)

First(s) == CHOOSE x \in s : TRUE
Rest(s)  == s \ {First(s)}

\* The partial sums over the subsets of D.
Adds(f, D, h) == h = [s \in SUBSET D |-> IF s = {} THEN 0 ELSE f[First(s)] + h[Rest(s)]]

\* Without its first element a finite set is smaller by one.
LEMMA RestSmaller ==
    ASSUME NEW s, IsFiniteSet(s), s # {}
    PROVE  /\ First(s) \in s /\ Rest(s) \subseteq s /\ IsFiniteSet(Rest(s))
           /\ Cardinality(s) \in Nat /\ Cardinality(Rest(s)) \in Nat
           /\ Cardinality(Rest(s)) = Cardinality(s) - 1
<1>1. First(s) \in s
  BY DEF First
<1> QED BY <1>1, FS_RemoveElement, FS_CardinalityType DEF Rest

\* The partial sums over a set are determined.
LEMMA AddsUnique ==
    ASSUME NEW f, NEW D, NEW E, NEW g, NEW h, Adds(f, D, g), Adds(f, E, h),
           NEW S \in SUBSET (D \cap E), IsFiniteSet(S)
    PROVE  g[S] = h[S]
<1> DEFINE Bad == {n \in Nat : \E s \in SUBSET S : Cardinality(s) = n /\ g[s] # h[s]}
<1> SUFFICES ASSUME g[S] # h[S] PROVE FALSE
  OBVIOUS
<1>1. Cardinality(S) \in Bad
  BY FS_CardinalityType
<1>2. PICK n \in Bad : \A m \in Bad : n <= m
  BY <1>1, MinExists
<1>3. PICK s \in SUBSET S : Cardinality(s) = n /\ g[s] # h[s]
  BY <1>2
<1>4. s # {} /\ IsFiniteSet(s)
  BY <1>3, FS_Subset DEF Adds
<1>5. g[Rest(s)] # h[Rest(s)]
  BY <1>3, <1>4 DEF Adds
<1>6. Cardinality(Rest(s)) \in Bad
  BY <1>4, <1>5, RestSmaller
<1> QED BY <1>2, <1>3, <1>4, <1>6, RestSmaller

\* There are partial sums over a finite set.
LEMMA AddsExist ==
    ASSUME NEW f, NEW D, IsFiniteSet(D)
    PROVE  \E h : Adds(f, D, h)
<1> DEFINE Small(n) == {s \in SUBSET D : Cardinality(s) <= n}
           Upto(n, h) == h = [s \in Small(n) |->
                                 IF s = {} THEN 0 ELSE f[First(s)] + h[Rest(s)]]
           Bad == {n \in Nat : ~\E h : Upto(n, h)}
<1>0. \A s \in SUBSET D : IsFiniteSet(s) /\ Cardinality(s) \in Nat
  BY FS_Subset, FS_CardinalityType
<1>1. Bad = {}
  <2> SUFFICES ASSUME Bad # {} PROVE FALSE
    OBVIOUS
  <2>1. PICK n \in Bad : \A m \in Bad : n <= m
    BY MinExists
  <2>2. CASE n = 0
    <3> DEFINE h == [s \in Small(0) |-> 0]
    <3>1. \A s \in Small(0) : s = {}
      BY <1>0, FS_EmptySet
    <3>2. Upto(0, h)
      BY <3>1
    <3> QED BY <2>1, <2>2, <3>2
  <2>3. CASE n # 0
    <3>0. n \in Nat
      BY <2>1
    <3>1. n - 1 \in Nat /\ n - 1 \notin Bad
      <4> HIDE DEF Bad
      <4> QED BY <2>1, <2>3, <3>0
    <3>2. PICK h : Upto(n - 1, h)
      BY <3>1
    <3> DEFINE H(s) == IF s = {} THEN 0 ELSE f[First(s)] + h[Rest(s)]
               g == [s \in Small(n) |-> H(s)]
    <3>3. \A s \in Small(n - 1) : s \in Small(n) /\ h[s] = H(s)
      BY <1>0, <2>1, <3>2
    <3>4. \A s \in Small(n) : s # {} => Rest(s) \in Small(n - 1)
      <4> SUFFICES ASSUME NEW s \in Small(n), s # {} PROVE Rest(s) \in Small(n - 1)
        OBVIOUS
      <4>1. IsFiniteSet(s) /\ Cardinality(s) <= n
        BY <1>0
      <4> QED BY <2>1, <4>1, RestSmaller
    <3>5. \A s \in Small(n - 1) : g[s] = h[s]
      BY <3>3
    <3>6. \A s \in Small(n) : s # {} => g[Rest(s)] = h[Rest(s)]
      BY <3>4, <3>5
    <3>7. Upto(n, g)
      <4> HIDE DEF Small
      <4> QED BY <3>6
    <3> QED BY <2>1, <3>7
  <2> QED BY <2>2, <2>3
<1>2. PICK h : Upto(Cardinality(D), h)
  BY <1>0, <1>1
<1>3. Small(Cardinality(D)) = SUBSET D
  BY <1>0, FS_Subset
<1> QED BY <1>2, <1>3 DEF Adds

\* The sum is a partial sum.
LEMMA SumIsPartial ==
    ASSUME NEW f, NEW S, NEW D, NEW h, Adds(f, D, h), S \subseteq D, IsFiniteSet(S)
    PROVE  SumFunctionOnSet(f, S) = h[S]
<1> DEFINE g == CHOOSE k : Adds(f, S, k)
<1>1. SumFunctionOnSet(f, S) = g[S]
  BY DEF SumFunctionOnSet, FoldFunctionOnSet, MapThenFoldSet, Adds, First, Rest
<1>2. Adds(f, S, g)
  BY AddsExist
<1> HIDE DEF g
<1> QED BY <1>1, <1>2, AddsUnique

\* A sum is its first summand and the sum of the rest.
LEMMA SumUnfold ==
    ASSUME NEW f, NEW S, IsFiniteSet(S)
    PROVE  SumFunctionOnSet(f, S) =
               IF S = {} THEN 0 ELSE f[First(S)] + SumFunctionOnSet(f, Rest(S))
<1>1. PICK h : Adds(f, S, h)
  BY AddsExist
<1>2. SumFunctionOnSet(f, S) = h[S]
  BY <1>1, SumIsPartial
<1>3. S # {} => SumFunctionOnSet(f, Rest(S)) = h[Rest(S)]
  BY <1>1, SumIsPartial, RestSmaller
<1> QED BY <1>1, <1>2, <1>3, RestSmaller DEF Adds

\* Nothing adds up to nothing.
LEMMA SumEmpty == ASSUME NEW f PROVE SumFunctionOnSet(f, {}) = 0
BY SumUnfold, FS_EmptySet

\* The sum of integers is one.
LEMMA SumType ==
    ASSUME NEW f, NEW S, IsFiniteSet(S), \A x \in S : f[x] \in Int
    PROVE  SumFunctionOnSet(f, S) \in Int
<1> DEFINE Wrong(s) == SumFunctionOnSet(f, s) \notin Int
           Bad == {n \in Nat : \E s \in SUBSET S : Cardinality(s) = n /\ Wrong(s)}
<1> SUFFICES ASSUME Wrong(S) PROVE FALSE
  OBVIOUS
<1>1. Cardinality(S) \in Bad
  BY FS_CardinalityType
<1>2. PICK n \in Bad : \A m \in Bad : n <= m
  BY <1>1, MinExists
<1>3. PICK s \in SUBSET S : Cardinality(s) = n /\ Wrong(s)
  BY <1>2
<1>4. IsFiniteSet(s) /\ s # {}
  <2>1. IsFiniteSet(s)
    BY <1>3, FS_Subset
  <2>2. ~Wrong({})
    BY SumEmpty
  <2>3. s # {}
    <3> HIDE DEF Wrong
    <3> QED BY <1>3, <2>2
  <2> QED BY <2>1, <2>3
<1>5. Wrong(Rest(s))
  BY <1>3, <1>4, SumUnfold, RestSmaller
<1> QED BY <1>2, <1>3, <1>4, <1>5, RestSmaller

\* Functions that agree on a set have the same sum over it.
LEMMA SumSame ==
    ASSUME NEW f, NEW g, NEW S, IsFiniteSet(S), \A x \in S : f[x] = g[x]
    PROVE  SumFunctionOnSet(f, S) = SumFunctionOnSet(g, S)
<1> DEFINE Wrong(s) == SumFunctionOnSet(f, s) # SumFunctionOnSet(g, s)
           Bad == {n \in Nat : \E s \in SUBSET S : Cardinality(s) = n /\ Wrong(s)}
<1> SUFFICES ASSUME Wrong(S) PROVE FALSE
  OBVIOUS
<1>1. Cardinality(S) \in Bad
  BY FS_CardinalityType
<1>2. PICK n \in Bad : \A m \in Bad : n <= m
  BY <1>1, MinExists
<1>3. PICK s \in SUBSET S : Cardinality(s) = n /\ Wrong(s)
  BY <1>2
<1>4. IsFiniteSet(s) /\ s # {}
  <2>1. IsFiniteSet(s)
    BY <1>3, FS_Subset
  <2>2. ~Wrong({})
    BY SumEmpty
  <2>3. s # {}
    <3> HIDE DEF Wrong
    <3> QED BY <1>3, <2>2
  <2> QED BY <2>1, <2>3
<1>5. Wrong(Rest(s))
  BY <1>3, <1>4, SumUnfold, RestSmaller
<1> QED BY <1>2, <1>3, <1>4, <1>5, RestSmaller

\* One more element adds its value, wherever the order puts it.
LEMMA SumAdd ==
    ASSUME NEW f, NEW S, IsFiniteSet(S), NEW e, e \notin S, \A x \in S \cup {e} : f[x] \in Int
    PROVE  SumFunctionOnSet(f, S \cup {e}) = f[e] + SumFunctionOnSet(f, S)
<1> DEFINE Wrong(s, x) == SumFunctionOnSet(f, s \cup {x}) # f[x] + SumFunctionOnSet(f, s)
           All == S \cup {e}
           Bad == {n \in Nat : \E s \in SUBSET All : \E x \in All :
                      Cardinality(s) = n /\ x \notin s /\ Wrong(s, x)}
<1> SUFFICES ASSUME Wrong(S, e) PROVE FALSE
  OBVIOUS
<1>0. IsFiniteSet(All) /\ \A s \in SUBSET All : IsFiniteSet(s)
  <2>1. IsFiniteSet(All)
    BY FS_AddElement
  <2> QED BY <2>1, FS_Subset
<1>1. Cardinality(S) \in Bad
  BY FS_CardinalityType
<1>2. PICK n \in Bad : \A m \in Bad : n <= m
  BY <1>1, MinExists
<1>3. PICK s \in SUBSET All, x \in All : Cardinality(s) = n /\ x \notin s /\ Wrong(s, x)
  BY <1>2
<1> HIDE DEF All
<1>a. \A y \in All : f[y] \in Int
  BY DEF All
<1> DEFINE t == s \cup {x}
           y == First(t)
<1>4. t # {} /\ t \in SUBSET All /\ IsFiniteSet(t) /\ y \in t /\ Rest(t) = t \ {y}
  BY <1>0, <1>3, RestSmaller, ZenonT(30) DEF Rest
<1>5. SumFunctionOnSet(f, t) = f[y] + SumFunctionOnSet(f, Rest(t))
  BY <1>4, SumUnfold
<1> HIDE DEF y
<1>6. y # x
  <2> SUFFICES ASSUME y = x PROVE FALSE
    OBVIOUS
  <2>1. Rest(t) = s
    BY <1>3, <1>4
  <2> QED BY <1>3, <1>5, <2>1
<1> DEFINE r == s \ {y}
<1>7. y \in s /\ Rest(t) = r \cup {x} /\ s = r \cup {y} /\ x \notin r /\ y \notin r
  BY <1>3, <1>4, <1>6
<1>8. Cardinality(r) \in Nat /\ Cardinality(r) < n /\ IsFiniteSet(r) /\ r \in SUBSET All
  BY <1>0, <1>2, <1>3, <1>7, FS_RemoveElement, FS_CardinalityType
<1>9. ~Wrong(r, x) /\ ~Wrong(r, y)
  <2>1. Cardinality(r) \notin Bad
    <3>1. n \in Nat
      BY <1>2
    <3> HIDE DEF Bad, r
    <3> QED BY <1>2, <1>8, <3>1
  <2>2. y \in All
    BY <1>3, <1>7
  <2> QED BY <1>3, <1>7, <1>8, <2>1, <2>2
<1>10. SumFunctionOnSet(f, r) \in Int /\ f[x] \in Int /\ f[y] \in Int
  BY <1>a, <1>3, <1>7, <1>8, SumType
<1> HIDE DEF r
<1>11. SumFunctionOnSet(f, t) = f[y] + (f[x] + SumFunctionOnSet(f, r))
  BY <1>5, <1>7, <1>9
<1>12. SumFunctionOnSet(f, s) = f[y] + SumFunctionOnSet(f, r)
  BY <1>7, <1>9
<1> QED BY <1>3, <1>10, <1>11, <1>12

\* The sum of naturals is one.
LEMMA SumNat ==
    ASSUME NEW f, NEW S, IsFiniteSet(S), \A x \in S : f[x] \in Nat
    PROVE  SumFunctionOnSet(f, S) \in Nat
<1> DEFINE Wrong(s) == SumFunctionOnSet(f, s) \notin Nat
           Bad == {n \in Nat : \E s \in SUBSET S : Cardinality(s) = n /\ Wrong(s)}
<1> SUFFICES ASSUME Wrong(S) PROVE FALSE
  OBVIOUS
<1>1. Cardinality(S) \in Bad
  BY FS_CardinalityType
<1>2. PICK n \in Bad : \A m \in Bad : n <= m
  BY <1>1, MinExists
<1>3. PICK s \in SUBSET S : Cardinality(s) = n /\ Wrong(s)
  BY <1>2
<1>4. IsFiniteSet(s) /\ s # {}
  <2>1. IsFiniteSet(s)
    BY <1>3, FS_Subset
  <2>2. ~Wrong({})
    BY SumEmpty
  <2>3. s # {}
    <3> HIDE DEF Wrong
    <3> QED BY <1>3, <2>2
  <2> QED BY <2>1, <2>3
<1>5. Wrong(Rest(s))
  BY <1>3, <1>4, SumUnfold, RestSmaller
<1> QED BY <1>2, <1>3, <1>4, <1>5, RestSmaller

\* Two sets with nothing in common add up.
LEMMA SumUnion ==
    ASSUME NEW f, NEW S, NEW R, IsFiniteSet(S), IsFiniteSet(R), S \cap R = {},
           \A x \in S \cup R : f[x] \in Int
    PROVE  SumFunctionOnSet(f, S \cup R) = SumFunctionOnSet(f, S) + SumFunctionOnSet(f, R)
<1> DEFINE Wrong(r) == SumFunctionOnSet(f, S \cup r) # SumFunctionOnSet(f, S) + SumFunctionOnSet(f, r)
           Bad == {n \in Nat : \E r \in SUBSET R : Cardinality(r) = n /\ Wrong(r)}
<1> SUFFICES ASSUME Wrong(R) PROVE FALSE
  OBVIOUS
<1>1. Cardinality(R) \in Bad
  BY FS_CardinalityType
<1>2. PICK n \in Bad : \A m \in Bad : n <= m
  BY <1>1, MinExists
<1>3. PICK r \in SUBSET R : Cardinality(r) = n /\ Wrong(r)
  BY <1>2
<1>4. IsFiniteSet(r) /\ SumFunctionOnSet(f, S) \in Int
  BY <1>3, FS_Subset, SumType
<1>5. r # {}
  <2> SUFFICES ASSUME r = {} PROVE FALSE
    OBVIOUS
  <2>1. S \cup r = S /\ SumFunctionOnSet(f, r) = 0
    BY SumEmpty
  <2> QED BY <1>3, <1>4, <2>1
<1> DEFINE e == First(r)
           q == Rest(r)
<1>6. /\ e \in r /\ q = r \ {e} /\ IsFiniteSet(q) /\ q \subseteq r
      /\ Cardinality(q) \in Nat /\ Cardinality(q) = Cardinality(r) - 1
  BY <1>4, <1>5, RestSmaller DEF Rest
<1>7. ~Wrong(q)
  <2>1. Cardinality(q) < n /\ n \in Nat
    BY <1>2, <1>3, <1>6
  <2>2. Cardinality(q) \notin Bad
    <3> HIDE DEF Bad, q
    <3> QED BY <1>2, <1>6, <2>1
  <2> QED BY <1>3, <1>6, <2>2
<1> HIDE DEF e, q
<1>8. SumFunctionOnSet(f, r) = f[e] + SumFunctionOnSet(f, q)
  BY <1>4, <1>5, SumUnfold DEF e, q
<1>9. SumFunctionOnSet(f, S \cup r) = f[e] + SumFunctionOnSet(f, S \cup q)
  <2>1. S \cup r = (S \cup q) \cup {e} /\ e \notin S \cup q
    BY <1>3, <1>6
  <2>2. IsFiniteSet(S \cup q) /\ \A x \in (S \cup q) \cup {e} : f[x] \in Int
    BY <1>3, <1>6, FS_Union
  <2> DEFINE u == S \cup q
  <2>3. IsFiniteSet(u) /\ e \notin u /\ \A x \in u \cup {e} : f[x] \in Int
    BY <2>1, <2>2
  <2> HIDE DEF u
  <2>4. SumFunctionOnSet(f, u \cup {e}) = f[e] + SumFunctionOnSet(f, u)
    BY <2>3, SumAdd
  <2> QED BY <2>1, <2>4 DEF u
<1>10. f[e] \in Int /\ SumFunctionOnSet(f, q) \in Int
  BY <1>3, <1>6, SumType
<1> QED BY <1>3, <1>4, <1>7, <1>8, <1>9, <1>10

\* The lesser and the greater of two integers.
LEMMA OfTwo ==
    ASSUME NEW a \in Int, NEW b \in Int
    PROVE  /\ Min({a, b}) = IF a <= b THEN a ELSE b
           /\ Max({a, b}) = IF a >= b THEN a ELSE b
BY DEF Min, Max
-----------------------------------------------------------------------------
(***************************************************************************)
(* The elements of a set in ascending order.                               *)
(***************************************************************************)

InOrder(q, S) ==
    /\ q \in Seq(Nat)
    /\ \A a, b \in DOMAIN q : a < b => q[a] < q[b]
    /\ S = {q[a] : a \in DOMAIN q}

\* An order lists its set, every element once.
LEMMA OrderFacts ==
    ASSUME NEW S, NEW q, InOrder(q, S)
    PROVE  /\ q \in Seq(Nat) /\ Len(q) \in Nat /\ DOMAIN q = 1..Len(q)
           /\ \A i \in DOMAIN q : q[i] \in Nat /\ q[i] \in S
           /\ \A x \in S : \E i \in DOMAIN q : q[i] = x
           /\ \A i, j \in DOMAIN q : i < j => q[i] < q[j]
<1>1. q \in Seq(Nat)
  BY DEF InOrder
<1>2. Len(q) \in Nat /\ DOMAIN q = 1..Len(q) /\ \A i \in DOMAIN q : q[i] \in Nat
  BY <1>1
<1>3. /\ \A i \in DOMAIN q : q[i] \in S
      /\ \A x \in S : \E i \in DOMAIN q : q[i] = x
      /\ \A i, j \in DOMAIN q : i < j => q[i] < q[j]
  BY DEF InOrder
<1> QED BY <1>1, <1>2, <1>3

\* Two orders do not part at k.
LEMMA OrdersAgree ==
    ASSUME NEW S, NEW u, NEW v, InOrder(u, S), InOrder(v, S), NEW k \in DOMAIN u,
           \A i \in 1 .. k - 1 : i \in DOMAIN v /\ u[i] = v[i],
           k \in DOMAIN v => u[k] < v[k]
    PROVE  FALSE
<1>1. /\ DOMAIN u = 1..Len(u) /\ DOMAIN v = 1..Len(v) /\ Len(u) \in Nat /\ Len(v) \in Nat
      /\ k \in Nat /\ k <= Len(u)
  BY OrderFacts
<1>2. u[k] \in Nat /\ u[k] \in S
  BY OrderFacts
<1>3. PICK i \in DOMAIN v : v[i] = u[k]
  BY <1>2, OrderFacts
<1>4. i \in Nat /\ i >= 1 /\ i <= Len(v)
  BY <1>1
<1>5. i # k
  BY <1>2, <1>3
<1>6. CASE k < i
  <2>1. k \in DOMAIN v
    BY <1>1, <1>4, <1>6
  <2>2. v[k] < v[i] /\ v[k] \in Nat
    BY <1>3, <1>6, <2>1, OrderFacts
  <2> QED BY <1>2, <1>3, <2>1, <2>2
<1>7. CASE i < k
  <2>1. i \in 1 .. k - 1 /\ i \in DOMAIN u
    BY <1>1, <1>4, <1>7
  <2>2. u[i] = u[k]
    BY <1>3, <2>1
  <2>3. u[i] < u[k]
    BY <1>7, <2>1, OrderFacts
  <2> QED BY <1>2, <2>2, <2>3
<1> QED BY <1>1, <1>4, <1>5, <1>6, <1>7

\* There is one order only.
LEMMA OrderUnique ==
    ASSUME NEW S, NEW p, NEW q, InOrder(p, S), InOrder(q, S)
    PROVE  p = q
<1> DEFINE Bad == {k \in DOMAIN p \cap DOMAIN q : p[k] # q[k]}
<1>0. /\ p \in Seq(Nat) /\ Len(p) \in Nat /\ DOMAIN p = 1..Len(p)
      /\ q \in Seq(Nat) /\ Len(q) \in Nat /\ DOMAIN q = 1..Len(q)
  BY OrderFacts
<1>1. Bad = {}
  <2> SUFFICES ASSUME Bad # {} PROVE FALSE
    OBVIOUS
  <2>1. Bad \in SUBSET Nat
    BY <1>0
  <2>2. PICK k \in Bad : \A j \in Bad : k <= j
    <3> HIDE DEF Bad
    <3> QED BY <2>1, MinExists
  <2>3. k \in DOMAIN p /\ k \in DOMAIN q /\ p[k] # q[k]
    BY <2>2
  <2>4. \A i \in 1 .. k - 1 : i \in DOMAIN p /\ i \in DOMAIN q /\ i \notin Bad
    <3> HIDE DEF Bad
    <3> QED BY <1>0, <2>1, <2>2, <2>3, SMTT(30)
  <2>5. \A i \in 1 .. k - 1 : i \in DOMAIN p /\ i \in DOMAIN q /\ p[i] = q[i] /\ q[i] = p[i]
    BY <2>4
  <2>6. p[k] \in Nat /\ q[k] \in Nat
    BY <2>3, OrderFacts
  <2> HIDE DEF Bad
  <2>7. CASE p[k] < q[k]
    BY <2>3, <2>5, <2>7, OrdersAgree
  <2>8. CASE q[k] < p[k]
    BY <2>3, <2>5, <2>8, OrdersAgree
  <2> QED BY <2>3, <2>6, <2>7, <2>8
<1>2. \A i \in DOMAIN p \cap DOMAIN q : p[i] = q[i]
  BY <1>1
<1>3. ASSUME NEW u, NEW v, InOrder(u, S), InOrder(v, S), Len(v) < Len(u),
             \A i \in DOMAIN u \cap DOMAIN v : u[i] = v[i]
      PROVE  FALSE
  <2>0. /\ DOMAIN u = 1..Len(u) /\ DOMAIN v = 1..Len(v) /\ Len(u) \in Nat /\ Len(v) \in Nat
    BY <1>3, OrderFacts
  <2> DEFINE k == Len(v) + 1
  <2>1. k \in DOMAIN u /\ k \notin DOMAIN v
    BY <1>3, <2>0
  <2>2. \A i \in 1 .. k - 1 : i \in DOMAIN u /\ i \in DOMAIN v
    BY <1>3, <2>0
  <2> HIDE DEF k
  <2>3. \A i \in 1 .. k - 1 : i \in DOMAIN v /\ u[i] = v[i]
    BY <1>3, <2>2
  <2> QED BY <1>3, <2>1, <2>3, OrdersAgree
<1>4. ~(Len(p) < Len(q))
  BY <1>2, <1>3
<1>5. ~(Len(q) < Len(p))
  BY <1>2, <1>3
<1>6. Len(p) = Len(q)
  <2> DEFINE x == Len(p)
             y == Len(q)
  <2>1. x \in Nat /\ y \in Nat /\ ~(x < y) /\ ~(y < x)
    BY <1>0, <1>4, <1>5
  <2> HIDE DEF x, y
  <2>2. x = y
    BY <2>1
  <2> QED BY <2>2 DEF x, y
<1> QED BY <1>0, <1>2, <1>6

\* The elements of a concatenation.
LEMMA ConcatParts ==
    ASSUME NEW S, NEW p \in Seq(S), NEW q \in Seq(S)
    PROVE  LET u == p \o q
           IN  /\ u \in Seq(S) /\ DOMAIN u = 1 .. Len(p) + Len(q)
               /\ \A i \in DOMAIN u :
                     \/ i \in DOMAIN p /\ u[i] = p[i]
                     \/ i > Len(p) /\ i - Len(p) \in DOMAIN q /\ u[i] = q[i - Len(p)]
               /\ \A i \in DOMAIN p : i \in DOMAIN u /\ u[i] = p[i]
               /\ \A i \in DOMAIN q : i + Len(p) \in DOMAIN u /\ u[i + Len(p)] = q[i]
<1> DEFINE u == p \o q
<1>1. /\ u \in Seq(S) /\ Len(u) = Len(p) + Len(q)
      /\ \A i \in 1..Len(p) : u[i] = p[i]
      /\ \A i \in Len(p) + 1 .. Len(p) + Len(q) : u[i] = q[i - Len(p)]
  BY ConcatProperties
<1>2. /\ DOMAIN p = 1..Len(p) /\ DOMAIN q = 1..Len(q)
      /\ Len(p) \in Nat /\ Len(q) \in Nat /\ DOMAIN u = 1 .. Len(p) + Len(q)
  BY <1>1
<1> HIDE DEF u
<1>3. ASSUME NEW i \in DOMAIN u
      PROVE  \/ i \in DOMAIN p /\ u[i] = p[i]
             \/ i > Len(p) /\ i - Len(p) \in DOMAIN q /\ u[i] = q[i - Len(p)]
  <2>1. CASE i \in 1..Len(p)
    BY <1>1, <1>2, <2>1
  <2>2. CASE i \in Len(p) + 1 .. Len(p) + Len(q)
    <3>1. i - Len(p) \in 1..Len(q) /\ i > Len(p)
      BY <1>2, <2>2
    <3> QED BY <1>1, <1>2, <2>2, <3>1
  <2>3. i \in 1..Len(p) \/ i \in Len(p) + 1 .. Len(p) + Len(q)
    BY <1>2
  <2> QED BY <2>1, <2>2, <2>3
<1>4. \A i \in DOMAIN p : i \in DOMAIN u /\ u[i] = p[i]
  BY <1>1, <1>2
<1>5. \A i \in DOMAIN q : i + Len(p) \in DOMAIN u /\ u[i + Len(p)] = q[i]
  BY <1>1, <1>2
<1> QED BY <1>1, <1>2, <1>3, <1>4, <1>5 DEF u

\* One after the other, in order.
LEMMA OrderConcat ==
    ASSUME NEW A, NEW B, NEW p, NEW q, InOrder(p, A), InOrder(q, B),
           \A a \in A, b \in B : a < b
    PROVE  InOrder(p \o q, A \cup B)
<1> DEFINE u == p \o q
<1>0. /\ p \in Seq(Nat) /\ Len(p) \in Nat /\ DOMAIN p = 1..Len(p)
      /\ q \in Seq(Nat) /\ Len(q) \in Nat /\ DOMAIN q = 1..Len(q)
  BY OrderFacts
<1>1. /\ u \in Seq(Nat) /\ DOMAIN u = 1 .. Len(p) + Len(q)
      /\ \A i \in DOMAIN u :
            \/ i \in DOMAIN p /\ u[i] = p[i]
            \/ i > Len(p) /\ i - Len(p) \in DOMAIN q /\ u[i] = q[i - Len(p)]
      /\ \A i \in DOMAIN p : i \in DOMAIN u /\ u[i] = p[i]
      /\ \A i \in DOMAIN q : i + Len(p) \in DOMAIN u /\ u[i + Len(p)] = q[i]
  BY <1>0, ConcatParts, SMTT(30)
<1> HIDE DEF u
<1>2. ASSUME NEW i \in DOMAIN u, NEW j \in DOMAIN u, i < j PROVE u[i] < u[j]
  <2>1. i \in Nat /\ j \in Nat
    BY <1>0, <1>1
  <2>2. CASE j \in DOMAIN p
    <3>1. i \in DOMAIN p
      BY <1>0, <1>1, <1>2, <2>1, <2>2
    <3>2. p[i] < p[j] /\ u[i] = p[i] /\ u[j] = p[j]
      BY <1>1, <1>2, <2>2, <3>1, OrderFacts
    <3> QED BY <3>2
  <2>3. CASE j \notin DOMAIN p /\ i \in DOMAIN p
    <3>1. u[j] = q[j - Len(p)] /\ j - Len(p) \in DOMAIN q
      BY <1>1, <2>3
    <3>2. u[j] \in B
      BY <3>1, OrderFacts
    <3>3. u[i] \in A
      BY <1>1, <2>3, OrderFacts
    <3> QED BY <3>2, <3>3
  <2>4. CASE j \notin DOMAIN p /\ i \notin DOMAIN p
    <3>1. /\ i - Len(p) \in DOMAIN q /\ u[i] = q[i - Len(p)]
          /\ j - Len(p) \in DOMAIN q /\ u[j] = q[j - Len(p)]
      BY <1>1, <2>4
    <3>2. i - Len(p) < j - Len(p)
      BY <1>0, <1>2, <2>1
    <3>3. q[i - Len(p)] < q[j - Len(p)]
      BY <3>1, <3>2, OrderFacts
    <3> QED BY <3>1, <3>3
  <2> QED BY <2>2, <2>3, <2>4
<1>3. \A x \in A \cup B : \E i \in DOMAIN u : x = u[i]
  <2>1. \A x \in A : \E i \in DOMAIN p : p[i] = x
    BY OrderFacts
  <2>2. \A x \in B : \E i \in DOMAIN q : q[i] = x
    BY OrderFacts
  <2> QED BY <1>1, <2>1, <2>2
<1>4. ASSUME NEW i \in DOMAIN u PROVE u[i] \in A \cup B
  <2>1. CASE i \in DOMAIN p /\ u[i] = p[i]
    <3>1. p[i] \in A
      BY <2>1, OrderFacts
    <3> QED BY <2>1, <3>1
  <2>2. CASE i - Len(p) \in DOMAIN q /\ u[i] = q[i - Len(p)]
    <3>1. q[i - Len(p)] \in B
      BY <2>2, OrderFacts
    <3> QED BY <2>2, <3>1
  <2> QED BY <1>1, <2>1, <2>2
<1>5. A \cup B = {u[i] : i \in DOMAIN u}
  BY <1>3, <1>4
<1>6. InOrder(u, A \cup B)
  BY <1>1, <1>2, <1>5 DEF InOrder
<1> QED BY <1>6 DEF u

\* The empty sequence orders the empty set.
LEMMA OrderEmpty == InOrder(<<>>, {})
BY DEF InOrder

\* One natural is in order.
LEMMA OrderOne ==
    ASSUME NEW x \in Nat
    PROVE  InOrder(<<x>>, {x})
BY DEF InOrder

\* Any bounded set of naturals has an order.
LEMMA OrderExists ==
    ASSUME NEW n \in Nat, NEW S \in SUBSET (1..n)
    PROVE  \E q : InOrder(q, S)
<1> DEFINE Bad == {k \in Nat : \E s \in SUBSET (1..k) : ~\E q : InOrder(q, s)}
<1> SUFFICES ASSUME Bad # {} PROVE FALSE
  OBVIOUS
<1>1. PICK k \in Bad : \A j \in Bad : k <= j
  <2>1. Bad \in SUBSET Nat
    OBVIOUS
  <2> HIDE DEF Bad
  <2> QED BY <2>1, MinExists
<1>2. k \in Nat /\ \E s \in SUBSET (1..k) : ~\E q : InOrder(q, s)
  BY <1>1
<1>3. PICK s \in SUBSET (1..k) : ~\E q : InOrder(q, s)
  BY <1>2
<1>4. s # {}
  BY <1>3, OrderEmpty
<1>5. k - 1 \in Nat
  <2>1. PICK x \in s : TRUE
    BY <1>4
  <2>2. x \in 1..k
    BY <1>3
  <2> HIDE DEF Bad
  <2> QED BY <1>2, <2>2
<1>6. \A r \in SUBSET (1 .. k - 1) : \E q : InOrder(q, r)
  <2>1. k - 1 \notin Bad
    <3> HIDE DEF Bad
    <3> QED BY <1>1, <1>2, <1>5
  <2> QED BY <1>5, <2>1
<1> HIDE DEF Bad
<1>7. s \ {k} \in SUBSET (1 .. k - 1)
  BY <1>2, <1>3
<1>8. PICK q : InOrder(q, s \ {k})
  BY <1>6, <1>7
<1>9. CASE k \notin s
  <2>1. s \ {k} = s
    BY <1>9
  <2> QED BY <1>3, <1>8, <2>1
<1>10. CASE k \in s
  <2>1. (s \ {k}) \cup {k} = s
    BY <1>10
  <2>2. \A a \in s \ {k}, b \in {k} : a < b
    BY <1>2, <1>7
  <2>3. InOrder(<<k>>, {k})
    BY <1>2, OrderOne
  <2>4. InOrder(q \o <<k>>, (s \ {k}) \cup {k})
    BY <1>8, <2>2, <2>3, OrderConcat
  <2> QED BY <1>3, <2>1, <2>4
<1> QED BY <1>9, <1>10
=============================================================================
