------------------------------ MODULE SetFacts ------------------------------
(***************************************************************************)
(* Facts about finite sets that the proofs share: some numbers of an       *)
(* interval have a least and a greatest among them (Extremes), so have the *)
(* values of a row (GreatestOf), some subsets of a finite set one with no  *)
(* other inside it (SmallestSubset), the elements of a set in an order a   *)
(* rank each (Ranks). And what MapThenSumSet makes of the amounts of a     *)
(* finite set of entries: it is a number, it does not depend on the order  *)
(* in which the entries are taken, and it can be split. Accounting and     *)
(* Books add entries up with it, as the code does with a loop over a list. *)
(*                                                                         *)
(* MapThenSumSet picks one element after the other. Facts about it are     *)
(* proved by the smallest subset that would break them.                    *)
(***************************************************************************)
EXTENDS FiniteSetsExt, FiniteSetTheorems, TLAPS

-----------------------------------------------------------------------------
(* Least and smallest                                                       *)

\* Some numbers from m to n have a least and a greatest among them.
LEMMA Extremes ==
  ASSUME NEW m \in Int, NEW n \in Int, NEW T \in SUBSET (m..n), T # {}
  PROVE  /\ Min(T) \in T /\ \A y \in T : Min(T) =< y
         /\ Max(T) \in T /\ \A y \in T : y =< Max(T)
<1> DEFINE W == m..n
<1>1. IsWellFoundedOn(StrictSubsetOrdering(W), SUBSET W)
  <2>1. IsFiniteSet(W)
    BY FS_Interval
  <2> HIDE DEF W
  <2>2. QED
    BY <2>1, FS_StrictSubsetOrderingWellFounded, FS_FiniteSubsetsOfFinite
<1>2. \E x \in T : \A y \in T : x =< y
  <2> DEFINE U == {m..j : j \in T}
  <2>1. U \subseteq SUBSET W /\ U # {}
    <3>1. \A j \in T : m..j \in SUBSET W
      OBVIOUS
    <3>2. QED
      BY <3>1, Zenon
  <2>2. PICK u \in U : \A v \in U : ~ (<<v, u>> \in StrictSubsetOrdering(W))
    <3> HIDE DEF U, W
    <3>1. QED
      BY <1>1, <2>1, WFMin
  <2>3. PICK x \in T : u = m..x
    BY <2>2
  <2>4. ASSUME NEW y \in T PROVE x =< y
    <3>1. ~ (<<m..y, m..x>> \in StrictSubsetOrdering(W))
      BY <2>2, <2>3
    <3>2. m..x \in SUBSET W /\ m..y \in SUBSET W
      BY <2>1
    <3>3. ~ (m..y \subseteq m..x /\ m..y # m..x)
      BY <3>1, <3>2 DEF StrictSubsetOrdering
    <3>4. y < x => m..y \subseteq m..x /\ x \in m..x /\ x \notin m..y
      OBVIOUS
    <3>5. QED
      BY <3>3, <3>4
  <2>5. QED
    BY <2>4
<1>3. \E x \in T : \A y \in T : x >= y
  <2> DEFINE U == {j..n : j \in T}
  <2>1. U \subseteq SUBSET W /\ U # {}
    <3>1. \A j \in T : j..n \in SUBSET W
      OBVIOUS
    <3>2. QED
      BY <3>1, Zenon
  <2>2. PICK u \in U : \A v \in U : ~ (<<v, u>> \in StrictSubsetOrdering(W))
    <3> HIDE DEF U, W
    <3>1. QED
      BY <1>1, <2>1, WFMin
  <2>3. PICK x \in T : u = x..n
    BY <2>2
  <2>4. ASSUME NEW y \in T PROVE x >= y
    <3>1. ~ (<<y..n, x..n>> \in StrictSubsetOrdering(W))
      BY <2>2, <2>3
    <3>2. x..n \in SUBSET W /\ y..n \in SUBSET W
      BY <2>1
    <3>3. ~ (y..n \subseteq x..n /\ y..n # x..n)
      BY <3>1, <3>2 DEF StrictSubsetOrdering
    <3>4. y > x => y..n \subseteq x..n /\ x \in x..n /\ x \notin y..n
      OBVIOUS
    <3>5. QED
      BY <3>3, <3>4
  <2>5. QED
    BY <2>4
<1>4. Min(T) \in T /\ \A y \in T : Min(T) =< y
  BY <1>2 DEF Min
<1>5. Max(T) \in T /\ \A y \in T : Max(T) >= y
  BY <1>3 DEF Max
<1>6. QED
  BY <1>4, <1>5

\* Of some subsets of a finite set one has no other of them inside it.
LEMMA SmallestSubset ==
  ASSUME NEW S, IsFiniteSet(S), NEW T \in SUBSET SUBSET S, T # {}
  PROVE  \E t \in T : \A u \in T : u \subseteq t => u = t
<1>1. IsWellFoundedOn(StrictSubsetOrdering(S), SUBSET S)
  BY FS_StrictSubsetOrderingWellFounded, FS_FiniteSubsetsOfFinite
<1>2. PICK t \in T : \A u \in T : ~ (<<u, t>> \in StrictSubsetOrdering(S))
  BY <1>1, WFMin
<1>3. \A u \in T : u \subseteq t => u = t
  BY <1>2 DEF StrictSubsetOrdering
<1>4. QED
  BY <1>3

\* Some numbers in a row have a greatest among them.
LEMMA GreatestOf ==
  ASSUME NEW l \in Int, NEW r \in Int, l =< r, NEW h \in [l..r -> Int],
         NEW V, V = {h[c] : c \in l..r}
  PROVE  /\ Max(V) \in V
         /\ \A c \in l..r : h[c] =< Max(V)
<1> DEFINE Tops(k) == \E c \in l..k : \A d \in l..k : h[d] =< h[c]
           T == {k \in l..r : ~ Tops(k)}
<1>1. T = {}
  <2>1. SUFFICES ASSUME T # {} PROVE FALSE
    OBVIOUS
  <2>2. T \in SUBSET (l..r)
    OBVIOUS
  <2>3. Min(T) \in T /\ \A y \in T : Min(T) =< y
    <3> HIDE DEF T
    <3>1. QED
      BY <2>1, <2>2, Extremes
  <2> DEFINE k == Min(T)
  <2>4. k \in l..r /\ ~ Tops(k) /\ \A y \in T : k =< y
    BY <2>3
  <2> HIDE DEF k
  <2>5. CASE k = l
    <3>1. l..k = {l}
      BY <2>4, <2>5
    <3>2. h[l] =< h[l]
      OBVIOUS
    <3>3. QED
      BY <2>4, <3>1, <3>2
  <2>6. CASE k # l
    <3>1. k - 1 \in l..r /\ l..k = (l..(k - 1)) \cup {k} /\ ~ (k =< k - 1)
      BY <2>4, <2>6
    <3>2. Tops(k - 1)
      <4> HIDE DEF Tops
      <4>1. QED
        BY <2>4, <3>1
    <3>3. PICK c \in l..(k - 1) : \A d \in l..(k - 1) : h[d] =< h[c]
      BY <3>2
    <3>4. h[c] \in Int /\ h[k] \in Int /\ c \in l..k /\ k \in l..k
      BY <2>4, <3>1
    <3>5. CASE h[k] =< h[c]
      <4>1. \A d \in l..k : h[d] =< h[c]
        BY <3>1, <3>3, <3>5
      <4>2. QED
        BY <2>4, <3>4, <4>1
    <3>6. CASE h[c] =< h[k]
      <4>1. \A d \in l..k : h[d] \in Int
        BY <2>4
      <4>2. \A d \in l..(k - 1) : h[d] =< h[k]
        BY <3>1, <3>3, <3>4, <3>6, <4>1
      <4>3. h[k] =< h[k]
        BY <3>4
      <4>4. \A d \in l..k : h[d] =< h[k]
        BY <3>1, <4>2, <4>3
      <4>5. QED
        BY <2>4, <3>4, <4>4
    <3>7. QED
      BY <3>4, <3>5, <3>6
  <2>7. QED
    BY <2>5, <2>6
<1>2. Tops(r)
  <2>1. r \in l..r
    OBVIOUS
  <2> HIDE DEF Tops
  <2>2. QED
    BY <1>1, <2>1
<1>3. PICK c \in l..r : \A d \in l..r : h[d] =< h[c]
  BY <1>2
<1>4. h[c] \in V /\ \A v \in V : h[c] >= v
  BY <1>3
<1>5. Max(V) \in V /\ \A v \in V : Max(V) >= v
  <2>1. \E x \in V : \A y \in V : x >= y
    BY <1>4
  <2>2. QED
    BY <2>1, Zenon DEF Max
<1>6. \A v \in V : v \in Int
  OBVIOUS
<1>7. \A v \in V : v =< Max(V)
  BY <1>5, <1>6
<1>8. \A d \in l..r : h[d] \in V
  OBVIOUS
<1>9. QED
  BY <1>5, <1>7, <1>8

-----------------------------------------------------------------------------
(* Orders                                                                   *)

\* R orders S: of two elements just one is before the other.
Orders(R, S) ==
  /\ \A s, t \in S : s # t => (<<s, t>> \in R <=> ~ (<<t, s>> \in R))
  /\ \A s, t, u \in S : <<s, t>> \in R /\ <<t, u>> \in R => <<s, u>> \in R

Earlier(R, S, s) == {t \in S \ {s} : <<t, s>> \in R}

\* In an ordered set each element has its own number of elements before it, and every
\* number below the size of the set is the number of one.
LEMMA Ranks ==
  ASSUME NEW S, IsFiniteSet(S), NEW R, Orders(R, S)
  PROVE  /\ Cardinality(S) \in Nat
         /\ \A s \in S : Cardinality(Earlier(R, S, s)) \in 0..Cardinality(S) - 1
         /\ \A s, t \in S : Cardinality(Earlier(R, S, s)) = Cardinality(Earlier(R, S, t)) => s = t
         /\ \A i \in 1..Cardinality(S) : \E s \in S : Cardinality(Earlier(R, S, s)) = i - 1
<1> DEFINE n == Cardinality(S)
           rank(s) == Cardinality(Earlier(R, S, s))
           f == [s \in S |-> rank(s) + 1]
<1>1. n \in Nat
  BY FS_CardinalityType
<1>2. ASSUME NEW s \in S PROVE IsFiniteSet(Earlier(R, S, s)) /\ rank(s) \in 0..n - 1
  <2>1. Earlier(R, S, s) \in SUBSET (S \ {s})
    BY DEF Earlier
  <2>2. IsFiniteSet(S \ {s}) /\ Cardinality(S \ {s}) = n - 1
    BY FS_RemoveElement
  <2>3. IsFiniteSet(Earlier(R, S, s)) /\ rank(s) <= Cardinality(S \ {s})
    BY <2>1, <2>2, FS_Subset
  <2>4. rank(s) \in Nat
    BY <2>3, FS_CardinalityType
  <2> HIDE DEF rank, n
  <2>5. QED
    BY <1>1, <2>2, <2>3, <2>4
<1>3. ASSUME NEW s \in S, NEW t \in S, s # t, <<s, t>> \in R PROVE rank(s) # rank(t)
  <2>1. ~ (<<t, s>> \in R) /\ \A u \in S : <<u, s>> \in R => <<u, t>> \in R
    BY <1>3 DEF Orders
  <2>2. Earlier(R, S, s) \in SUBSET Earlier(R, S, t)
    BY <2>1 DEF Earlier
  <2>3. s \in Earlier(R, S, t) /\ s \notin Earlier(R, S, s)
    BY <1>3 DEF Earlier
  <2>4. IsFiniteSet(Earlier(R, S, t))
    BY <1>2
  <2>5. Cardinality(Earlier(R, S, t)) = Cardinality(Earlier(R, S, s)) =>
          Earlier(R, S, t) = Earlier(R, S, s)
    BY <2>2, <2>4, FS_Subset
  <2>6. QED
    BY <2>3, <2>5
<1>4. \A s, t \in S : rank(s) = rank(t) => s = t
  <2> SUFFICES ASSUME NEW s \in S, NEW t \in S, s # t PROVE rank(s) # rank(t)
    OBVIOUS
  <2>1. <<s, t>> \in R \/ <<t, s>> \in R
    BY DEF Orders
  <2> HIDE DEF rank
  <2>2. QED
    BY <1>3, <2>1
<1>5. f \in Injection(S, 1..n)
  <2> HIDE DEF rank, n
  <2>1. f \in [S -> 1..n]
    BY <1>1, <1>2
  <2>2. \A s, t \in S : f[s] = f[t] => s = t
    <3> SUFFICES ASSUME NEW s \in S, NEW t \in S, f[s] = f[t] PROVE s = t
      OBVIOUS
    <3>1. rank(s) \in Int /\ rank(t) \in Int /\ rank(s) + 1 = rank(t) + 1
      BY <1>1, <1>2
    <3>2. QED
      BY <1>4, <3>1
  <2> HIDE DEF f
  <2>3. QED
    BY <2>1, <2>2 DEF Injection, IsInjective
<1>6. IsFiniteSet(1..n) /\ Cardinality(1..n) = n
  <2> HIDE DEF n
  <2>1. 1 \in Int /\ n \in Int
    BY <1>1
  <2>2. QED
    BY <1>1, <2>1, FS_Interval
<1>7. f \in Surjection(S, 1..n)
  <2> HIDE DEF f
  <2>1. Cardinality(S) = Cardinality(1..n)
    BY <1>6
  <2>2. QED
    BY <1>5, <1>6, <2>1, FS_Injection
<1>8. ASSUME NEW i \in 1..n PROVE \E s \in S : rank(s) = i - 1
  <2>1. PICK s \in S : f[s] = i
    <3> HIDE DEF f, n
    <3>1. QED
      BY <1>7 DEF Surjection
  <2>2. rank(s) \in Int /\ rank(s) + 1 = i /\ i \in Int
    <3> HIDE DEF rank, n
    <3>1. QED
      BY <1>1, <1>2, <2>1
  <2> HIDE DEF rank, n
  <2>3. QED
    BY <2>2
<1> HIDE DEF rank, n
<1>9. QED
  BY <1>1, <1>2, <1>4, <1>8 DEF rank, n

-----------------------------------------------------------------------------
(* Sums                                                                     *)

AmountSum(S) == MapThenSumSet(LAMBDA e : e.amount, S)

PickOf(s) == CHOOSE x \in s : TRUE

Adding(g, s) == IF s = {} THEN 0 ELSE PickOf(s).amount + g[s \ {PickOf(s)}]

\* g adds up every subset of S.
Adds(g, S) == g = [s \in SUBSET S |-> Adding(g, s)]

\* Two ways of adding up agree on the subsets both know.
LEMMA AddsAgree ==
  ASSUME NEW A, NEW B, NEW g, NEW h, Adds(g, A), Adds(h, B),
         NEW S, IsFiniteSet(S), S \subseteq A, S \subseteq B
  PROVE  g[S] = h[S]
<1> DEFINE T == {s \in SUBSET S : g[s] # h[s]}
<1>1. SUFFICES ASSUME T # {} PROVE FALSE
  OBVIOUS
<1>2. PICK t \in T : \A u \in T : u \subseteq t => u = t
  <2>1. T \in SUBSET SUBSET S
    OBVIOUS
  <2> HIDE DEF T
  <2>2. QED
    BY <1>1, <2>1, SmallestSubset
<1>3. g[t] = Adding(g, t) /\ h[t] = Adding(h, t)
  BY DEF Adds
<1>4. t # {}
  BY <1>3 DEF Adding
<1>5. PickOf(t) \in t
  BY <1>4 DEF PickOf
<1>6. g[t \ {PickOf(t)}] = h[t \ {PickOf(t)}]
  BY <1>2, <1>5
<1>7. QED
  BY <1>3, <1>4, <1>6 DEF Adding

\* There is a way of adding up a finite set: the recursion is well founded.
LEMMA AddsExists ==
  ASSUME NEW S, IsFiniteSet(S)
  PROVE  \E g : Adds(g, S)
<1> DEFINE T == {s \in SUBSET S : ~ \E g : Adds(g, s)}
<1>1. SUFFICES ASSUME T # {} PROVE FALSE
  OBVIOUS
<1>2. PICK t \in T : \A u \in T : u \subseteq t => u = t
  <2>1. T \in SUBSET SUBSET S
    OBVIOUS
  <2> HIDE DEF T
  <2>2. QED
    BY <1>1, <2>1, SmallestSubset
<1> DEFINE G(u) == CHOOSE g : Adds(g, u)
           Value(s) == IF s = {} THEN 0
                       ELSE PickOf(s).amount + G(s \ {PickOf(s)})[s \ {PickOf(s)}]
           h == [s \in SUBSET t |-> Value(s)]
<1>3. t \in SUBSET S
  BY <1>2
<1>4. ASSUME NEW u \in SUBSET t, u # t PROVE Adds(G(u), u)
  <2>1. \E g : Adds(g, u)
    BY <1>2, <1>3, <1>4
  <2>2. QED
    BY <2>1
<1>5. ASSUME NEW u \in SUBSET t, u # t PROVE h[u] = G(u)[u]
  <2>1. G(u)[u] = Adding(G(u), u)
    <3> HIDE DEF G
    <3>1. Adds(G(u), u)
      BY <1>4, <1>5
    <3>2. QED
      BY <3>1 DEF Adds
  <2>2. CASE u = {}
    BY <2>1, <2>2 DEF Adding
  <2>3. CASE u # {}
    <3> DEFINE v == u \ {PickOf(u)}
    <3>1. PickOf(u) \in u
      BY <2>3 DEF PickOf
    <3>2. v \in SUBSET t /\ v # t /\ v \subseteq u
      BY <3>1
    <3>3. Adds(G(v), v) /\ Adds(G(u), u)
      BY <1>4, <1>5, <3>2
    <3>4. IsFiniteSet(v)
      BY <1>3, <3>2, FS_Subset
    <3> HIDE DEF G
    <3>5. G(u)[v] = G(v)[v]
      BY <3>2, <3>3, <3>4, AddsAgree
    <3>6. QED
      BY <2>1, <2>3, <3>5 DEF Adding
  <2>4. QED
    BY <2>2, <2>3
<1>6. ASSUME NEW s \in SUBSET t PROVE h[s] = Adding(h, s)
  <2>1. CASE s = {}
    BY <2>1 DEF Adding
  <2>2. CASE s # {}
    <3>1. PickOf(s) \in s
      BY <2>2 DEF PickOf
    <3>2. s \ {PickOf(s)} \in SUBSET t /\ s \ {PickOf(s)} # t
      BY <3>1
    <3>3. h[s \ {PickOf(s)}] = G(s \ {PickOf(s)})[s \ {PickOf(s)}]
      BY <1>5, <3>2
    <3>4. h[s] = PickOf(s).amount + G(s \ {PickOf(s)})[s \ {PickOf(s)}]
      BY <2>2
    <3> HIDE DEF h, G
    <3>5. QED
      BY <2>2, <3>3, <3>4 DEF Adding
  <2>3. QED
    BY <2>1, <2>2
<1>7. h = [s \in SUBSET t |-> Adding(h, s)]
  BY <1>6
<1>8. Adds(h, t)
  BY <1>7 DEF Adds
<1>9. QED
  BY <1>2, <1>8

-----------------------------------------------------------------------------
\* The sum of a set is that of any way of adding up a larger one.
LEMMA AmountSumAdds ==
  ASSUME NEW S, IsFiniteSet(S)
  PROVE  \E g : Adds(g, S) /\ AmountSum(S) = g[S]
<1> DEFINE iter == CHOOSE g : Adds(g, S)
<1>1. AmountSum(S) = iter[S]
  BY DEF AmountSum, MapThenSumSet, MapThenFoldSet, Adds, Adding, PickOf
<1>2. Adds(iter, S)
  BY AddsExists
<1>3. QED
  BY <1>1, <1>2

\* The sum of nothing is 0.
LEMMA SumOfNothing == AmountSum({}) = 0
<1>1. PICK g : Adds(g, {}) /\ AmountSum({}) = g[{}]
  BY AmountSumAdds, FS_EmptySet
<1>2. g[{}] = Adding(g, {})
  BY <1>1 DEF Adds
<1>3. QED
  BY <1>1, <1>2 DEF Adding

\* The element that is picked first is added to the sum of the others.
LEMMA SumOfPicked ==
  ASSUME NEW S, IsFiniteSet(S), S # {}
  PROVE  /\ PickOf(S) \in S
         /\ AmountSum(S) = PickOf(S).amount + AmountSum(S \ {PickOf(S)})
<1> DEFINE R == S \ {PickOf(S)}
<1>1. PickOf(S) \in S
  BY DEF PickOf
<1>2. PICK g : Adds(g, S) /\ AmountSum(S) = g[S]
  BY AmountSumAdds
<1>3. IsFiniteSet(R)
  BY FS_Subset
<1>4. PICK h : Adds(h, R) /\ AmountSum(R) = h[R]
  BY <1>3, AmountSumAdds
<1>5. g[R] = h[R]
  BY <1>2, <1>3, <1>4, AddsAgree
<1>6. g[S] = Adding(g, S)
  BY <1>2 DEF Adds
<1>7. QED
  BY <1>1, <1>2, <1>4, <1>5, <1>6 DEF Adding

\* The entries may be taken in any order, and the sum of integers is one.
LEMMA SumOfOne ==
  ASSUME NEW S, IsFiniteSet(S), \A e \in S : e.amount \in Int
  PROVE  /\ AmountSum(S) \in Int
         /\ \A x \in S : AmountSum(S) = x.amount + AmountSum(S \ {x})
<1> DEFINE OK(s) == /\ AmountSum(s) \in Int
                    /\ \A x \in s : AmountSum(s) = x.amount + AmountSum(s \ {x})
           T == {s \in SUBSET S : ~ OK(s)}
<1>1. SUFFICES ASSUME T # {} PROVE FALSE
  BY DEF OK
<1>2. PICK t \in T : \A u \in T : u \subseteq t => u = t
  <2>1. T \in SUBSET SUBSET S
    OBVIOUS
  <2> HIDE DEF T
  <2>2. QED
    BY <1>1, <2>1, SmallestSubset
<1>3. t \in SUBSET S /\ ~ OK(t)
  BY <1>2
<1>4. ASSUME NEW u \in SUBSET t, u # t PROVE OK(u)
  BY <1>2, <1>3, <1>4
<1>5. IsFiniteSet(t)
  BY <1>3, FS_Subset
<1>6. t # {}
  <2>1. OK({})
    BY SumOfNothing
  <2> HIDE DEF OK
  <2>2. QED
    BY <1>3, <2>1
<1> DEFINE p == PickOf(t)
<1>7. p \in t /\ AmountSum(t) = p.amount + AmountSum(t \ {p})
  BY <1>5, <1>6, SumOfPicked
<1> HIDE DEF p
<1>8. OK(t \ {p})
  BY <1>4, <1>7
<1>9. AmountSum(t) \in Int
  BY <1>3, <1>7, <1>8
<1>10. ASSUME NEW x \in t PROVE AmountSum(t) = x.amount + AmountSum(t \ {x})
  <2>1. CASE x = p
    BY <1>7, <2>1
  <2>2. CASE x # p
    <3>1. AmountSum(t \ {p}) = x.amount + AmountSum((t \ {p}) \ {x})
      BY <1>8, <2>2
    <3>2. AmountSum(t \ {x}) = p.amount + AmountSum((t \ {x}) \ {p})
      <4>1. OK(t \ {x})
        BY <1>4
      <4>2. QED
        BY <1>7, <2>2, <4>1
    <3>3. AmountSum((t \ {x}) \ {p}) = AmountSum((t \ {p}) \ {x})
      <4>1. (t \ {x}) \ {p} = (t \ {p}) \ {x}
        OBVIOUS
      <4>2. QED
        BY <4>1, Zenon
    <3>4. AmountSum((t \ {p}) \ {x}) \in Int
      <4>1. OK((t \ {p}) \ {x})
        BY <1>4, <1>7
      <4>2. QED
        BY <4>1
    <3>5. x.amount \in Int /\ p.amount \in Int
      BY <1>3, <1>7
    <3>6. QED
      BY <1>7, <3>1, <3>2, <3>3, <3>4, <3>5
  <2>3. QED
    BY <2>1, <2>2
<1>11. QED
  BY <1>3, <1>9, <1>10

\* A new entry adds its amount.
LEMMA SumOfMore ==
  ASSUME NEW S, IsFiniteSet(S), \A e \in S : e.amount \in Int,
         NEW x, x \notin S, x.amount \in Int
  PROVE  AmountSum(S \cup {x}) = AmountSum(S) + x.amount
<1>1. IsFiniteSet(S \cup {x}) /\ \A e \in S \cup {x} : e.amount \in Int
  BY FS_AddElement
<1>2. AmountSum(S \cup {x}) = x.amount + AmountSum((S \cup {x}) \ {x})
  BY <1>1, SumOfOne
<1>3. AmountSum((S \cup {x}) \ {x}) = AmountSum(S)
  <2>1. (S \cup {x}) \ {x} = S
    OBVIOUS
  <2>2. QED
    BY <2>1, Zenon
<1>4. AmountSum(S) \in Int
  BY SumOfOne
<1>5. QED
  BY <1>2, <1>3, <1>4

\* A set may be added up in two parts.
LEMMA SumOfParts ==
  ASSUME NEW A, NEW B, IsFiniteSet(A), IsFiniteSet(B), A \cap B = {},
         \A e \in A \cup B : e.amount \in Int
  PROVE  AmountSum(A \cup B) = AmountSum(A) + AmountSum(B)
<1> DEFINE T == {s \in SUBSET B : AmountSum(A \cup s) # AmountSum(A) + AmountSum(s)}
<1>1. SUFFICES ASSUME T # {} PROVE FALSE
  OBVIOUS
<1>2. PICK t \in T : \A u \in T : u \subseteq t => u = t
  <2>1. T \in SUBSET SUBSET B
    OBVIOUS
  <2> HIDE DEF T
  <2>2. QED
    BY <1>1, <2>1, SmallestSubset
<1>3. t \in SUBSET B /\ AmountSum(A \cup t) # AmountSum(A) + AmountSum(t)
  BY <1>2
<1>4. AmountSum(A) \in Int
  BY SumOfOne
<1>5. ASSUME t = {} PROVE FALSE
  <2>1. AmountSum(t) = 0 /\ A \cup t = A
    BY <1>5, SumOfNothing, Zenon
  <2>2. AmountSum(A \cup t) = AmountSum(A)
    BY <2>1, Zenon
  <2>3. QED
    BY <1>3, <1>4, <2>1, <2>2
<1>6. PICK x \in t : TRUE
  BY <1>5
<1> DEFINE r == t \ {x}
<1>7. AmountSum(A \cup r) = AmountSum(A) + AmountSum(r)
  BY <1>2, <1>6
<1>8. IsFiniteSet(r) /\ IsFiniteSet(A \cup r)
  BY <1>3, FS_Subset, FS_Union
<1>9. AmountSum(r) \in Int /\ x.amount \in Int
  BY <1>3, <1>6, <1>8, SumOfOne
<1>10. AmountSum(r \cup {x}) = AmountSum(r) + x.amount
  BY <1>3, <1>8, <1>9, SumOfMore
<1>11. AmountSum((A \cup r) \cup {x}) = AmountSum(A \cup r) + x.amount
  <2>1. x \notin A \cup r /\ \A e \in A \cup r : e.amount \in Int
    BY <1>3, <1>6
  <2>2. QED
    BY <1>8, <1>9, <2>1, SumOfMore
<1>12. /\ AmountSum(r \cup {x}) = AmountSum(t)
       /\ AmountSum((A \cup r) \cup {x}) = AmountSum(A \cup t)
  <2>1. r \cup {x} = t /\ (A \cup r) \cup {x} = A \cup t
    BY <1>6
  <2> HIDE DEF r
  <2>2. QED
    BY <2>1, Zenon
<1> HIDE DEF r
<1>13. QED
  BY <1>3, <1>4, <1>7, <1>9, <1>10, <1>11, <1>12

\* Amounts that are not negative have no negative sum, and the other way round.
LEMMA SumOfSign ==
  ASSUME NEW S, IsFiniteSet(S), NEW sign \in {-1, 1},
         \A e \in S : e.amount \in Int /\ sign * e.amount >= 0
  PROVE  sign * AmountSum(S) >= 0
<1> DEFINE T == {s \in SUBSET S : ~ (sign * AmountSum(s) >= 0)}
<1>1. SUFFICES ASSUME T # {} PROVE FALSE
  OBVIOUS
<1>2. PICK t \in T : \A u \in T : u \subseteq t => u = t
  <2>1. T \in SUBSET SUBSET S
    OBVIOUS
  <2> HIDE DEF T
  <2>2. QED
    BY <1>1, <2>1, SmallestSubset
<1>3. t \in SUBSET S /\ ~ (sign * AmountSum(t) >= 0)
  BY <1>2
<1>4. ASSUME t = {} PROVE FALSE
  <2>1. AmountSum(t) = 0
    BY <1>4, SumOfNothing, Zenon
  <2>2. QED
    BY <1>3, <2>1
<1>5. PICK x \in t : TRUE
  BY <1>4
<1>6. sign * AmountSum(t \ {x}) >= 0
  BY <1>2, <1>5
<1>7. IsFiniteSet(t) /\ IsFiniteSet(t \ {x})
  BY <1>3, FS_Subset
<1>8. AmountSum(t) = x.amount + AmountSum(t \ {x})
  BY <1>3, <1>7, SumOfOne
<1>9. AmountSum(t \ {x}) \in Int /\ x.amount \in Int /\ sign * x.amount >= 0
  BY <1>3, <1>5, <1>7, SumOfOne
<1>10. QED
  BY <1>3, <1>6, <1>8, <1>9

=============================================================================
