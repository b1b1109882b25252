----------------------- MODULE AccountedSession_proofs -----------------------
(***************************************************************************)
(* Proofs about AccountedSession.                                          *)
(***************************************************************************)
EXTENDS AccountedSession, TLAPS, FiniteSetTheorems

-----------------------------------------------------------------------------
\* Finite sets and sums.  Induction over the subsets of a finite set is the
\* choice of a least one.

\* A family of subsets of a finite set has a least member.
LEMMA LeastSubset ==
  ASSUME NEW S, IsFiniteSet(S), NEW T, \A X \in T : X \subseteq S, NEW Z \in T
  PROVE  \E X \in T : \A Y \in T : Y \subseteq X => Y = X
<1>1. T \subseteq FiniteSubsetsOf(S)
  BY FS_FiniteSubsetsOfFinite
<1>2. PICK X \in T : \A Y \in T : <<Y, X>> \notin StrictSubsetOrdering(S)
  BY <1>1, WFMin, FS_StrictSubsetOrderingWellFounded
<1> QED
  BY <1>2 DEF StrictSubsetOrdering

\* Some member of a finite set has the greatest value.
LEMMA HasGreatest ==
  ASSUME NEW S, IsFiniteSet(S), S # {}, NEW f, \A x \in S : f[x] \in Nat
  PROVE  \E x \in S : \A y \in S : f[x] >= f[y]
<1> DEFINE Top(X) == \E x \in X : \A y \in X : f[x] >= f[y]
           T == {X \in SUBSET S : X # {} /\ ~Top(X)}
<1> SUFFICES ASSUME S \in T PROVE FALSE
  OBVIOUS
<1>1. PICK X \in T : \A Y \in T : Y \subseteq X => Y = X
  <2>1. \A X \in T : X \subseteq S
    OBVIOUS
  <2> HIDE DEF T
  <2> QED
    BY <2>1, LeastSubset
<1>2. PICK x \in X : TRUE
  BY <1>1
<1>3. X \ {x} \notin T /\ X \ {x} \in SUBSET S
  BY <1>1, <1>2
<1>4. CASE X \ {x} = {}
  BY <1>1, <1>2, <1>4
<1>5. CASE X \ {x} # {}
  <2>1. Top(X \ {x})
    BY <1>3, <1>5
  <2>2. PICK y \in X \ {x} : \A z \in X \ {x} : f[y] >= f[z]
    BY <2>1
  <2>3. f[x] \in Nat /\ f[y] \in Nat /\ \A z \in X : f[z] \in Nat
    BY <1>1, <1>2, <2>2
  <2>4. CASE f[x] >= f[y]
    <3>1. \A z \in X : f[x] >= f[z]
      BY <2>2, <2>3, <2>4
    <3> QED
      BY <3>1, <1>1, <1>2
  <2>5. CASE f[y] >= f[x]
    <3>1. \A z \in X : f[y] >= f[z]
      BY <2>2, <2>3, <2>5
    <3> QED
      BY <3>1, <1>1, <2>2
  <2> QED
    BY <2>3, <2>4, <2>5
<1> QED
  BY <1>4, <1>5

\* q lists n members of X in increasing order.
Increasing(q, n, X) ==
    /\ q \in [1..n -> X]
    /\ \A i, j \in 1..n : i < j => q[i] < q[j]

Listable(X) == \E q : Increasing(q, Cardinality(X), X)

\* The greatest number goes last.
LEMMA ListedWithLast ==
  ASSUME NEW X \in SUBSET Nat, NEW m \in X, \A y \in X : m >= y,
         NEW n \in Nat, NEW q, Increasing(q, n, X \ {m})
  PROVE  \E p : Increasing(p, n + 1, X)
<1> DEFINE p == [i \in 1..(n + 1) |-> IF i = n + 1 THEN m ELSE q[i]]
<1>1. /\ p \in [1..(n + 1) -> X]
      /\ p[n + 1] = m /\ \A i \in 1..n : p[i] = q[i] /\ q[i] \in X /\ q[i] # m
  BY DEF Increasing
<1> HIDE DEF p
<1>2. ASSUME NEW i \in 1..(n + 1), NEW j \in 1..(n + 1), i < j PROVE p[i] < p[j]
  <2>1. i \in 1..n
    BY <1>2
  <2>2. CASE j = n + 1
    <3>1. m \in Nat /\ q[i] \in Nat /\ m >= q[i] /\ q[i] # m
      BY <2>1, <1>1
    <3> QED
      BY <3>1, <2>1, <2>2, <1>1
  <2>3. CASE j \in 1..n
    BY <2>1, <2>3, <1>1, <1>2 DEF Increasing
  <2> QED
    BY <2>2, <2>3
<1> QED
  BY <1>1, <1>2 DEF Increasing

LEMMA FiniteIsListable ==
  ASSUME NEW S, S \subseteq Nat, IsFiniteSet(S)
  PROVE  Listable(S)
<1> DEFINE T == {X \in SUBSET S : ~Listable(X)}
<1> SUFFICES ASSUME S \in T PROVE FALSE
  OBVIOUS
<1>1. PICK X \in T : \A Y \in T : Y \subseteq X => Y = X
  <2>1. \A X \in T : X \subseteq S
    OBVIOUS
  <2> HIDE DEF T
  <2> QED
    BY ONLY <2>1, LeastSubset, IsFiniteSet(S), S \in T
<1>2. IsFiniteSet(X) /\ X \in SUBSET Nat /\ ~Listable(X)
  BY <1>1, FS_Subset
<1>3. X # {}
  <2> SUFFICES ASSUME X = {} PROVE FALSE
    OBVIOUS
  <2>1. Cardinality(X) = 0
    BY FS_EmptySet
  <2>2. Increasing(<<>>, 0, X)
    BY DEF Increasing
  <2> QED
    BY <2>1, <2>2, <1>2 DEF Listable
<1>4. PICK m \in X : \A y \in X : m >= y
  <2> DEFINE f == [x \in X |-> x]
  <2>1. \A x \in X : f[x] \in Nat /\ f[x] = x
    BY <1>2
  <2> HIDE DEF f
  <2>2. PICK m \in X : \A y \in X : f[m] >= f[y]
    BY <2>1, <1>2, <1>3, HasGreatest
  <2> QED
    BY <2>1, <2>2
<1>5. IsFiniteSet(X \ {m}) /\ Cardinality(X \ {m}) \in Nat
      /\ Cardinality(X) = Cardinality(X \ {m}) + 1
  <2>1. Cardinality(X) \in Nat
    BY <1>2, FS_CardinalityType
  <2>2. /\ IsFiniteSet(X \ {m})
        /\ Cardinality(X \ {m}) = Cardinality(X) - 1
    BY ONLY <1>2, m \in X, FS_RemoveElement
  <2>3. Cardinality(X \ {m}) \in Nat
    BY <2>2, FS_CardinalityType
  <2> QED
    BY <2>1, <2>2, <2>3
<1>6. Listable(X \ {m})
  BY <1>1, <1>4
<1> QED
  BY <1>2, <1>4, <1>5, <1>6, ListedWithLast DEF Listable

\* InOrder lists the members of a finite set of numbers.
LEMMA InOrderLists ==
  ASSUME NEW S \in SUBSET Nat, IsFiniteSet(S)
  PROVE  Cardinality(S) \in Nat /\ Increasing(InOrder(S), Cardinality(S), S)
<1>1. \E q \in [1..Cardinality(S) -> S] :
         \A i, j \in 1..Cardinality(S) : i < j => q[i] < q[j]
  BY FiniteIsListable DEF Listable, Increasing
<1> QED
  BY <1>1, FS_CardinalityType DEF InOrder, Increasing

\* SumFunctionOnSet adds up the subsets of S by a function g that takes away
\* one member at a time.
AnyOf(s) == CHOOSE x \in s : TRUE
AddsUp(g, F, S) ==
    g = [s \in SUBSET S |-> IF s = {} THEN 0
                            ELSE F[AnyOf(s)] + g[s \ {AnyOf(s)}]]
Adder(F, S) == CHOOSE g : AddsUp(g, F, S)

LEMMA SumIsAdder ==
  ASSUME NEW F, NEW S PROVE SumFunctionOnSet(F, S) = Adder(F, S)[S]
  BY DEF SumFunctionOnSet, FoldFunctionOnSet, MapThenFoldSet, Adder, AddsUp, AnyOf

LEMMA AnyOfIn == ASSUME NEW s, s # {} PROVE AnyOf(s) \in s
  BY DEF AnyOf

LEMMA AddsUpAt ==
  ASSUME NEW F, NEW S, NEW g, AddsUp(g, F, S), NEW s, s \subseteq S
  PROVE  /\ s = {} => g[s] = 0
         /\ s # {} => g[s] = F[AnyOf(s)] + g[s \ {AnyOf(s)}]
<1>1. g = [t \in SUBSET S |-> IF t = {} THEN 0
                              ELSE F[AnyOf(t)] + g[t \ {AnyOf(t)}]]
  BY DEF AddsUp
<1>2. s \in SUBSET S
  OBVIOUS
<1> QED
  BY ONLY <1>1, <1>2

\* Two such functions agree where both are defined.
LEMMA AddersAgree ==
  ASSUME NEW F, NEW S, IsFiniteSet(S), NEW U, NEW V, S \subseteq U, S \subseteq V,
         NEW g, AddsUp(g, F, U), NEW h, AddsUp(h, F, V)
  PROVE  g[S] = h[S]
<1> DEFINE T == {X \in SUBSET S : g[X] # h[X]}
<1> SUFFICES ASSUME S \in T PROVE FALSE
  OBVIOUS
<1>1. PICK X \in T : \A Y \in T : Y \subseteq X => Y = X
  <2>1. \A X \in T : X \subseteq S
    OBVIOUS
  <2> HIDE DEF T
  <2> QED
    BY ONLY <2>1, LeastSubset, IsFiniteSet(S), S \in T
<1>2. X \subseteq U /\ X \subseteq V /\ X \subseteq S /\ g[X] # h[X]
  BY <1>1
<1>3. X # {}
  BY <1>2, AddsUpAt
<1>4. g[X \ {AnyOf(X)}] = h[X \ {AnyOf(X)}]
  BY <1>1, <1>3, AnyOfIn
<1>5. g[X] = F[AnyOf(X)] + g[X \ {AnyOf(X)}]
  BY <1>2, <1>3, AddsUpAt
<1>6. h[X] = F[AnyOf(X)] + h[X \ {AnyOf(X)}]
  BY <1>2, <1>3, AddsUpAt
<1> QED
  BY <1>2, <1>4, <1>5, <1>6

\* Every finite set has one.
LEMMA AdderExists ==
  ASSUME NEW F, NEW S, IsFiniteSet(S)
  PROVE  AddsUp(Adder(F, S), F, S)
<1> DEFINE Has(X) == \E g : AddsUp(g, F, X)
           T == {X \in SUBSET S : ~Has(X)}
<1>0. SUFFICES ASSUME S \in T PROVE FALSE
  <2>1. Has(S)
    BY <1>0
  <2> QED
    BY <2>1 DEF Adder
<1>1. PICK X \in T : \A Y \in T : Y \subseteq X => Y = X
  <2>1. \A X \in T : X \subseteq S
    OBVIOUS
  <2> HIDE DEF T
  <2> QED
    BY ONLY <2>1, LeastSubset, IsFiniteSet(S), S \in T
<1>2. X \subseteq S /\ ~Has(X) /\ IsFiniteSet(X)
  BY <1>1, FS_Subset
<1>3. \A Y : Y \subseteq X /\ Y # X => AddsUp(Adder(F, Y), F, Y) /\ IsFiniteSet(Y)
  <2> SUFFICES ASSUME NEW Y, Y \subseteq X, Y # X
               PROVE  AddsUp(Adder(F, Y), F, Y) /\ IsFiniteSet(Y)
    OBVIOUS
  <2>1. Has(Y)
    BY <1>1, <1>2
  <2>2. IsFiniteSet(Y)
    BY <1>2, FS_Subset
  <2> QED
    BY <2>1, <2>2 DEF Adder
<1> DEFINE V(s) == Adder(F, s)[s]
           g == [s \in SUBSET X |-> IF s = {} THEN 0
                                    ELSE F[AnyOf(s)] + V(s \ {AnyOf(s)})]
<1>4. ASSUME NEW s, s \subseteq X, s # X PROVE g[s] = V(s)
  <2>1. AddsUp(Adder(F, s), F, s)
    BY <1>3, <1>4
  <2>2. s \in SUBSET X
    BY <1>4
  <2>3. CASE s = {}
    <3>1. V(s) = 0
      BY <2>1, <2>3, AddsUpAt
    <3> QED
      BY <2>2, <2>3, <3>1
  <2>4. CASE s # {}
    <3> DEFINE t == s \ {AnyOf(s)}
    <3>1. t \subseteq s /\ t \subseteq X /\ t # X
      BY <1>4
    <3>2. AddsUp(Adder(F, t), F, t) /\ IsFiniteSet(t)
      BY <1>3, <3>1
    <3>3. Adder(F, s)[t] = Adder(F, t)[t]
      <4> HIDE DEF t
      <4> QED
        BY <2>1, <3>1, <3>2, AddersAgree
    <3>4. V(s) = F[AnyOf(s)] + Adder(F, s)[t]
      BY <2>1, <2>4, AddsUpAt
    <3> QED
      BY <2>2, <2>4, <3>3, <3>4
  <2> QED
    BY <2>3, <2>4
<1>5. AddsUp(g, F, X)
  <2>1. ASSUME NEW s \in SUBSET X, s # {}
        PROVE  V(s \ {AnyOf(s)}) = g[s \ {AnyOf(s)}]
    <3>1. AnyOf(s) \in s
      BY <2>1, AnyOfIn
    <3>2. s \ {AnyOf(s)} \subseteq X /\ s \ {AnyOf(s)} # X
      BY <3>1
    <3> HIDE DEF g, V
    <3> QED
      BY <1>4, <3>2
  <2>2. g = [s \in SUBSET X |-> IF s = {} THEN 0
                                ELSE F[AnyOf(s)] + g[s \ {AnyOf(s)}]]
    <3>1. \A s \in SUBSET X : g[s] = IF s = {} THEN 0 ELSE F[AnyOf(s)] + V(s \ {AnyOf(s)})
      OBVIOUS
    <3>2. g = [s \in SUBSET X |-> g[s]]
      OBVIOUS
    <3> HIDE DEF g, V
    <3> QED
      BY <2>1, <3>1, <3>2
  <2> QED
    BY <2>2 DEF AddsUp
<1> QED
  BY <1>2, <1>5

LEMMA SumOfNothing == ASSUME NEW F PROVE SumFunctionOnSet(F, {}) = 0
<1>1. IsFiniteSet({})
  BY FS_EmptySet
<1>2. AddsUp(Adder(F, {}), F, {})
  BY <1>1, AdderExists
<1> QED
  BY <1>2, AddsUpAt, SumIsAdder

LEMMA SumTakesAny ==
  ASSUME NEW F, NEW S, IsFiniteSet(S), S # {}
  PROVE  SumFunctionOnSet(F, S) = F[AnyOf(S)] + SumFunctionOnSet(F, S \ {AnyOf(S)})
<1> DEFINE t == S \ {AnyOf(S)}
<1>1. IsFiniteSet(t) /\ t \subseteq S
  BY FS_Subset
<1>2. AddsUp(Adder(F, S), F, S) /\ AddsUp(Adder(F, t), F, t)
  <2> HIDE DEF t
  <2> QED
    BY <1>1, AdderExists
<1>3. Adder(F, S)[t] = Adder(F, t)[t]
  <2> HIDE DEF t
  <2> QED
    BY <1>1, <1>2, AddersAgree
<1>4. Adder(F, S)[S] = F[AnyOf(S)] + Adder(F, S)[t]
  BY <1>2, AddsUpAt
<1> QED
  BY <1>3, <1>4, SumIsAdder

\* A sum of numbers is a number, whichever of them is taken away first.
LEMMA SumWithout ==
  ASSUME NEW F, NEW S, IsFiniteSet(S), \A x \in S : F[x] \in Int
  PROVE  /\ SumFunctionOnSet(F, S) \in Int
         /\ \A y \in S : SumFunctionOnSet(F, S) = SumFunctionOnSet(F, S \ {y}) + F[y]
<1> DEFINE Sum(X) == SumFunctionOnSet(F, X)
           Good(X) == Sum(X) \in Int /\ \A y \in X : Sum(X) = Sum(X \ {y}) + F[y]
           T == {X \in SUBSET S : ~Good(X)}
<1>0. SUFFICES ASSUME S \in T PROVE FALSE
  BY <1>0
<1>1. PICK X \in T : \A Y \in T : Y \subseteq X => Y = X
  <2>1. \A X \in T : X \subseteq S
    OBVIOUS
  <2> HIDE DEF T
  <2> QED
    BY ONLY <2>1, LeastSubset, IsFiniteSet(S), S \in T
<1>2. X \subseteq S /\ ~Good(X) /\ IsFiniteSet(X)
  BY <1>1, FS_Subset
<1>3. ASSUME NEW x \in X PROVE Good(X \ {x})
  BY <1>1
<1>4. X # {}
  BY <1>2, SumOfNothing
<1> DEFINE a == AnyOf(X)
<1>5. a \in X
  BY <1>4, AnyOfIn
<1>6. Sum(X) = F[a] + Sum(X \ {a})
  BY <1>2, <1>4, SumTakesAny
<1>7. F[a] \in Int /\ Sum(X \ {a}) \in Int
  BY <1>2, <1>3, <1>5
<1>8. ASSUME NEW y \in X PROVE Sum(X) = Sum(X \ {y}) + F[y]
  <2> HIDE DEF Sum, a, T
  <2>1. CASE y = a
    BY <1>6, <1>7, <2>1
  <2>2. CASE y # a
    <3>1. Sum(X \ {a}) = Sum((X \ {a}) \ {y}) + F[y]
      BY <1>3, <1>5, <2>2
    <3>2. Sum(X \ {y}) = Sum((X \ {y}) \ {a}) + F[a] /\ Sum(X \ {y}) \in Int
      BY <1>3, <1>5, <2>2
    <3>3. (X \ {a}) \ {y} = (X \ {y}) \ {a}
      OBVIOUS
    <3>4. F[y] \in Int
      BY <1>2
    <3>5. Sum((X \ {a}) \ {y}) \in Int
      <4>1. y \in X \ {a} /\ X \ {a} \in SUBSET S
        BY <1>2, <2>2
      <4>2. (X \ {a}) \ {y} # X /\ (X \ {a}) \ {y} \subseteq X
        BY <1>5
      <4>3. (X \ {a}) \ {y} \notin T
        BY <1>1, <4>2
      <4> QED
        BY <4>3, <1>2 DEF T
    <3>6. Sum(X \ {a}) = Sum((X \ {a}) \ {y}) + F[y]
          /\ Sum(X \ {y}) = Sum((X \ {a}) \ {y}) + F[a]
      BY <3>1, <3>2, <3>3
    <3> QED
      BY ONLY <1>6, <1>7, <3>4, <3>5, <3>6
  <2> QED
    BY <2>1, <2>2
<1> QED
  BY <1>2, <1>6, <1>7, <1>8

LEMMA SumWith ==
  ASSUME NEW F, NEW S, IsFiniteSet(S), \A x \in S : F[x] \in Int,
         NEW y, y \notin S, F[y] \in Int
  PROVE  /\ SumFunctionOnSet(F, S) \in Int
         /\ SumFunctionOnSet(F, S \cup {y}) = SumFunctionOnSet(F, S) + F[y]
<1>1. IsFiniteSet(S \cup {y})
  BY FS_AddElement
<1>2. (S \cup {y}) \ {y} = S
  OBVIOUS
<1>3. \A x \in S \cup {y} : F[x] \in Int
  OBVIOUS
<1> QED
  BY <1>1, <1>2, <1>3, SumWithout

\* A sum depends on the values it adds only.
LEMMA SumOfSame ==
  ASSUME NEW F, NEW G, NEW S, IsFiniteSet(S), \A x \in S : F[x] = G[x]
  PROVE  SumFunctionOnSet(F, S) = SumFunctionOnSet(G, S)
<1> DEFINE T == {X \in SUBSET S : SumFunctionOnSet(F, X) # SumFunctionOnSet(G, X)}
<1> SUFFICES ASSUME S \in T PROVE FALSE
  OBVIOUS
<1>1. PICK X \in T : \A Y \in T : Y \subseteq X => Y = X
  <2>1. \A X \in T : X \subseteq S
    OBVIOUS
  <2> HIDE DEF T
  <2> QED
    BY ONLY <2>1, LeastSubset, IsFiniteSet(S), S \in T
<1>2. IsFiniteSet(X) /\ X \subseteq S
  BY <1>1, FS_Subset
<1>3. X # {}
  BY <1>1, SumOfNothing
<1>4. AnyOf(X) \in X
  BY <1>3, AnyOfIn
<1>5. SumFunctionOnSet(F, X \ {AnyOf(X)}) = SumFunctionOnSet(G, X \ {AnyOf(X)})
  BY <1>1, <1>4
<1>6. F[AnyOf(X)] = G[AnyOf(X)]
  BY <1>2, <1>4
<1>7. SumFunctionOnSet(F, X) = F[AnyOf(X)] + SumFunctionOnSet(F, X \ {AnyOf(X)})
  BY <1>2, <1>3, SumTakesAny
<1>8. SumFunctionOnSet(G, X) = G[AnyOf(X)] + SumFunctionOnSet(G, X \ {AnyOf(X)})
  BY <1>2, <1>3, SumTakesAny
<1> QED
  BY <1>1, <1>5, <1>6, <1>7, <1>8

\* A sum of natural numbers is one.
LEMMA SumOfNat ==
  ASSUME NEW F, NEW S, IsFiniteSet(S), \A x \in S : F[x] \in Nat
  PROVE  SumFunctionOnSet(F, S) \in Nat
<1> DEFINE T == {X \in SUBSET S : SumFunctionOnSet(F, X) \notin Nat}
<1> SUFFICES ASSUME S \in T PROVE FALSE
  OBVIOUS
<1>1. PICK X \in T : \A Y \in T : Y \subseteq X => Y = X
  <2>1. \A X \in T : X \subseteq S
    OBVIOUS
  <2> HIDE DEF T
  <2> QED
    BY ONLY <2>1, LeastSubset, IsFiniteSet(S), S \in T
<1>2. IsFiniteSet(X) /\ X \subseteq S
  BY <1>1, FS_Subset
<1>3. X # {}
  <2>1. SumFunctionOnSet(F, {}) \in Nat
    BY SumOfNothing
  <2> QED
    BY <2>1, <1>1
<1>4. AnyOf(X) \in X
  BY <1>3, AnyOfIn
<1>5. SumFunctionOnSet(F, X \ {AnyOf(X)}) \in Nat
  BY <1>1, <1>4
<1>6. F[AnyOf(X)] \in Nat
  BY <1>2, <1>4
<1>7. SumFunctionOnSet(F, X) = F[AnyOf(X)] + SumFunctionOnSet(F, X \ {AnyOf(X)})
  BY <1>2, <1>3, SumTakesAny
<1> QED
  BY <1>1, <1>5, <1>6, <1>7

\* A sum after one of its values changed.
LEMMA SumOfChanged ==
  ASSUME NEW F, NEW G, NEW S, IsFiniteSet(S), NEW y \in S,
         \A x \in S : F[x] \in Int /\ G[x] \in Int,
         \A x \in S \ {y} : F[x] = G[x]
  PROVE  SumFunctionOnSet(G, S) = SumFunctionOnSet(F, S) - F[y] + G[y]
<1>1. IsFiniteSet(S \ {y})
  BY FS_Subset
<1>2. SumFunctionOnSet(F, S \ {y}) = SumFunctionOnSet(G, S \ {y})
  BY <1>1, SumOfSame
<1>3. SumFunctionOnSet(F, S \ {y}) \in Int
  BY <1>1, SumWithout
<1>4. SumFunctionOnSet(F, S) = SumFunctionOnSet(F, S \ {y}) + F[y]
  BY SumWithout
<1>5. SumFunctionOnSet(G, S) = SumFunctionOnSet(G, S \ {y}) + G[y]
  BY SumWithout
<1>6. F[y] \in Int /\ G[y] \in Int
  OBVIOUS
<1> QED
  BY ONLY <1>2, <1>3, <1>4, <1>5, <1>6

-----------------------------------------------------------------------------
\* The findings of a delivery

ValuesCounted == \A v \in Values : Cardinality(Values) \in Nat \ {0}

LEMMA CountedValues == Cardinality(Values) \in Nat /\ ValuesCounted
<1>1. Cardinality(Values) \in Nat
  BY FiniteAssumption, FS_CardinalityType
<1>2. Values # {} => Cardinality(Values) # 0
  BY FiniteAssumption, FS_EmptySet
<1> QED
  BY <1>1, <1>2 DEF ValuesCounted

LEMMA HeaviestIsOne ==
  ASSUME Values # {}, NEW types, types \subseteq DataTypes, types # {}
  PROVE  Heaviest(types) \in types
<1> DEFINE f == [t \in DataTypes |-> Score[t][1]]
<1>1. IsFiniteSet(types)
  BY FiniteAssumption, FS_Subset
<1>2. 1 \in 0..Cardinality(Values)
  BY CountedValues DEF ValuesCounted
<1>3. \A t \in types : f[t] \in Nat /\ f[t] = Score[t][1]
  BY <1>2, ScoreAssumption
<1>4. \E t \in types : \A u \in types : f[t] >= f[u]
  <2> HIDE DEF f
  <2>1. \A t \in types : f[t] \in Nat
    BY <1>3
  <2> QED
    BY ONLY <1>1, <2>1, types # {}, HasGreatest
<1>5. \E t \in types : \A u \in types : Score[t][1] >= Score[u][1]
  BY <1>3, <1>4
<1> QED
  BY <1>5 DEF Heaviest

\* No two findings name the same value and destination.
PairsApart(fs) == \A i, j \in 1..Len(fs) : i < j => ~SamePair(fs[i], fs[j])

\* What coalescing leaves are findings, each of a pair of its own.
LEMMA CoalescedApart ==
  ASSUME NEW fs \in Seq(Findings)
  PROVE  Coalesced(fs) \in Seq(Findings) /\ PairsApart(Coalesced(fs))
<1> DEFINE first == {i \in DOMAIN fs : \A j \in 1..(i - 1) : ~SamePair(fs[i], fs[j])}
           same(i) == {fs[j] : j \in {j \in DOMAIN fs : SamePair(fs[i], fs[j])}}
           Merged(i) == [fs[i] EXCEPT !.type = Heaviest({f.type : f \in same(i)}),
                                      !.confirmed = \E f \in same(i) : f.confirmed]
           order == InOrder(first)
           n == Cardinality(first)
<1>1. Coalesced(fs) = [k \in DOMAIN order |-> Merged(order[k])]
  BY DEF Coalesced
<1>2. first \subseteq Nat /\ IsFiniteSet(first) /\ first \subseteq DOMAIN fs
  <2>1. DOMAIN fs = 1..Len(fs) /\ Len(fs) \in Nat
    OBVIOUS
  <2>2. IsFiniteSet(1..Len(fs))
    BY <2>1, FS_Interval
  <2> HIDE DEF same, Merged, order
  <2> QED
    BY <2>1, <2>2, FS_Subset
<1>3. n \in Nat /\ Increasing(order, n, first)
  <2> HIDE DEF first
  <2> QED
    BY <1>2, InOrderLists
<1>4. ASSUME NEW i \in DOMAIN fs
      PROVE  Merged(i) \in Findings /\ SamePair(Merged(i), fs[i])
  <2>0. fs[i] \in Findings
    <3>1. DOMAIN fs = 1..Len(fs) /\ \A j \in 1..Len(fs) : fs[j] \in Findings
      OBVIOUS
    <3> QED
      BY ONLY <3>1, i \in DOMAIN fs
  <2>1. fs[i] \in Findings /\ Values # {}
    BY ONLY <2>0 DEF Findings
  <2>2. \A f \in same(i) : f \in Findings
    OBVIOUS
  <2>3. fs[i] \in same(i)
    BY DEF SamePair
  <2> DEFINE types == {f.type : f \in same(i)}
  <2>4. types \subseteq DataTypes
    BY <2>2 DEF Findings
  <2>5. types # {}
    BY <2>3
  <2>6. Heaviest(types) \in DataTypes
    <3> HIDE DEF types
    <3> QED
      BY <2>1, <2>4, <2>5, HeaviestIsOne
  <2>7. (\E f \in same(i) : f.confirmed) \in BOOLEAN
    OBVIOUS
  <2> HIDE DEF same
  <2> QED
    BY <2>1, <2>6, <2>7 DEF Findings, SamePair
<1>5. order \in [1..n -> first] /\ DOMAIN order = 1..n
      /\ \A i, j \in 1..n : i < j => order[i] < order[j]
  BY <1>3 DEF Increasing
<1>6. /\ Coalesced(fs) \in [1..n -> Findings]
      /\ \A k \in 1..n : Coalesced(fs)[k] = Merged(order[k]) /\ order[k] \in first
  <2> HIDE DEF Merged, order, n, first
  <2> QED
    BY <1>1, <1>2, <1>4, <1>5
<1>7. Coalesced(fs) \in Seq(Findings) /\ Len(Coalesced(fs)) = n
  <2> HIDE DEF n
  <2>1. n \in Nat
    BY <1>3
  <2>2. \A q \in [1..n -> Findings] : q \in Seq(Findings) /\ Len(q) = n
    BY ONLY <2>1
  <2> QED
    BY <2>2, <1>6
<1>8. ASSUME NEW i \in 1..n, NEW j \in 1..n, i < j
      PROVE  ~SamePair(Coalesced(fs)[i], Coalesced(fs)[j])
  <2>1. order[i] \in first /\ order[j] \in first /\ order[i] < order[j]
    BY <1>5, <1>6, <1>8
  <2>2. order[i] \in 1..(order[j] - 1)
    <3> HIDE DEF order, n
    <3>1. order[i] \in DOMAIN fs /\ order[j] \in DOMAIN fs
      BY <2>1
    <3>2. DOMAIN fs = 1..Len(fs)
      OBVIOUS
    <3> QED
      BY <2>1, <3>1, <3>2
  <2>3. ~SamePair(fs[order[j]], fs[order[i]])
    BY <2>1, <2>2
  <2>4. SamePair(Merged(order[i]), fs[order[i]]) /\ SamePair(Merged(order[j]), fs[order[j]])
    BY <1>2, <1>4, <2>1
  <2> HIDE DEF Merged, order, n, first
  <2> QED
    BY <1>6, <2>3, <2>4 DEF SamePair
<1> QED
  <2> HIDE DEF n
  <2> QED
    BY <1>7, <1>8 DEF PairsApart

-----------------------------------------------------------------------------
\* Identity tables

\* A row holds a hash, under the first key, exactly while it is resolved and
\* the session has not ended, and no two resolved rows are about one thing.
Table(T, ended) ==
    /\ \A i \in 1..Len(T) :
          T[i].key = IF T[i].resolved /\ ~ended THEN 1 ELSE 0
    /\ \A i, j \in 1..Len(T) :
          T[i].resolved /\ T[j].resolved /\ T[i].of = T[j].of => i = j

\* U is T, or T with a row for x under k, which is row i.
Looked(T, U, i, k, x) ==
    /\ Len(U) \in {Len(T), Len(T) + 1}
    /\ \A j \in 1..Len(T) : U[j] = T[j]
    /\ i \in 1..Len(U)
    /\ U[i].of = x /\ (U[i].resolved <=> k # 0)
    /\ Len(U) = Len(T) + 1 => i = Len(U) /\ U[i].key = k

LEMMA RowLooked ==
  ASSUME NEW X, NEW T \in Seq(Identity(X)), NEW ended \in BOOLEAN, Table(T, ended),
         NEW k \in {0, 1}, k = 1 => ~ended, NEW x \in X,
         NEW d \in Deliveries \cup {Lifecycle}
  PROVE  /\ WithRow(T, k, x, d) \in Seq(Identity(X))
         /\ Table(WithRow(T, k, x, d), ended)
         /\ Looked(T, WithRow(T, k, x, d), RowOf(T, k, x, d), k, x)
<1> DEFINE U == WithRow(T, k, x, d)
           i == RowOf(T, k, x, d)
           row == [key |-> k, of |-> x, resolved |-> k # 0, by |-> d]
<1>1. row \in Identity(X) /\ row.key = k /\ row.of = x /\ row.by = d
      /\ (row.resolved <=> k # 0)
  <2>1. row \in Identity(X) /\ row.key = k /\ row.of = x /\ row.by = d
    BY DEF Identity
  <2>2. row.resolved = (k # 0)
    OBVIOUS
  <2> QED
    BY ONLY <2>1, <2>2, Zenon
<1>2. Len(T) \in Nat /\ \A j \in 1..Len(T) : T[j] \in Identity(X)
  OBVIOUS
<1>3. CASE Rows(T, k, x, d) # {}
  <2>1. U = T
    BY <1>3 DEF WithRow
  <2>2. i \in Rows(T, k, x, d)
    BY <1>3, <2>1 DEF RowOf
  <2>3. i \in 1..Len(T) /\ T[i].of = x /\ (T[i].resolved <=> k # 0)
    BY <2>2 DEF Rows, SameIdentity, Table
  <2> HIDE DEF U, i
  <2> QED
    BY <1>2, <2>1, <2>3 DEF U, i, Looked
<1>4. CASE Rows(T, k, x, d) = {}
  <2>1. U = Append(T, row)
    BY <1>4 DEF WithRow
  <2>2. /\ U \in Seq(Identity(X)) /\ Len(U) = Len(T) + 1
        /\ U[Len(T) + 1] = row /\ \A j \in 1..Len(T) : U[j] = T[j]
    <3> HIDE DEF U, row
    <3> QED
      BY <1>1, <1>2, <2>1
  <2>3. Len(T) + 1 \in Rows(U, k, x, d)
    <3> HIDE DEF U, row
    <3> QED
      BY <1>1, <1>2, <2>2 DEF Rows, SameIdentity
  <2>4. Rows(U, k, x, d) \subseteq {Len(T) + 1}
    <3> HIDE DEF U, row
    <3> QED
      BY <1>2, <1>4, <2>2 DEF Rows, SameIdentity
  <2>5. i = Len(T) + 1
    BY <2>3, <2>4 DEF RowOf
  <2>6. Table(U, ended)
    <3>1. \A j \in 1..Len(T) : k = 1 => ~(T[j].resolved /\ T[j].of = x)
      BY <1>4 DEF Rows, SameIdentity, Table
    <3> HIDE DEF U, row
    <3>2. \A j \in 1..Len(U) : U[j].key = IF U[j].resolved /\ ~ended THEN 1 ELSE 0
      BY <1>1, <1>2, <2>2 DEF Table
    <3>3. \A j, l \in 1..Len(U) :
             U[j].resolved /\ U[l].resolved /\ U[j].of = U[l].of => j = l
      BY <1>1, <1>2, <2>2, <3>1 DEF Table
    <3> QED
      BY <3>2, <3>3 DEF Table
  <2> HIDE DEF U, i, row
  <2> QED
    BY <1>1, <1>2, <2>2, <2>5, <2>6 DEF Looked, U, i
<1> QED
  BY <1>3, <1>4

-----------------------------------------------------------------------------
\* The inductive invariant

\* The daemon: it draws one key at most, and holds what it holds for the
\* session only while it serves and before the end; only a recording handler
\* has written what is not committed.
Serving ==
    /\ drawn \in {0, 1} /\ key \in {0, drawn} /\ engine \in {NoEngine, 0, drawn}
    /\ ~up => job = Idle /\ key = 0 /\ engine = NoEngine
    /\ up => process \in 1..MaxProcesses
    /\ job.at = "idle" => job = Idle
    /\ job.at \in {"observing", "recording"} =>
          job.delivery \in Deliveries /\ PairsApart(job.batch.findings)
    /\ job.at = "observing" => job.done = 0 /\ job.delta = 0
    /\ job.at # "recording" => work = db
    /\ job.at = "installing" => /\ db.version = 2 /\ ~db.ended
                                /\ drawn = 0 /\ engine = NoEngine
    /\ db.version = 0 => drawn = 0 /\ engine = NoEngine /\ ~db.ended
    /\ db.ended => key = 0 /\ engine = NoEngine

\* Before version 2 nothing is recorded.
Blank(L) ==
    L.version # 2 => /\ L.subjects = <<>> /\ L.recipients = <<>>
                     /\ L.events = <<>> /\ L.disclosures = <<>>
                     /\ L.observations = {} /\ L.score = 0

\* An event belongs to a recorded delivery and names rows about its value and
\* its destination, and a delivery names a pair of rows once.
Told(L, e) ==
    /\ Recorded(L, e.delivery)
    /\ e.subject \in 1..Len(L.subjects) /\ L.subjects[e.subject].of = e.value
    /\ e.recipient \in 1..Len(L.recipients) /\ L.recipients[e.recipient].of = e.to
EventsTold(L) ==
    /\ \A i \in 1..Len(L.events) : Told(L, L.events[i])
    /\ \A i, j \in 1..Len(L.events) :
          /\ L.events[i].delivery = L.events[j].delivery
          /\ L.events[i].subject = L.events[j].subject
          /\ L.events[i].recipient = L.events[j].recipient
          => i = j

\* A disclosure charges a confirmed event of resolved rows, in its group, and
\* no two charge one pair or one place of a group.
Charging(L, x) ==
    /\ x.event \in 1..Len(L.events)
    /\ L.events[x.event].confirmed /\ L.events[x.event].type = x.type
    /\ L.events[x.event].subject = x.subject
    /\ L.events[x.event].recipient = x.recipient
    /\ L.subjects[x.subject].resolved /\ L.recipients[x.recipient].resolved
    /\ x.n <= Cardinality(Group(L, x.type, x.recipient))
SamePairOfRows(x, y) == x.subject = y.subject /\ x.recipient = y.recipient
SamePlace(x, y) == x.type = y.type /\ x.recipient = y.recipient /\ x.n = y.n
ChargedOnce(L) ==
    /\ \A i \in 1..Len(L.disclosures) : Charging(L, L.disclosures[i])
    /\ \A i, j \in 1..Len(L.disclosures) :
          SamePairOfRows(L.disclosures[i], L.disclosures[j])
          \/ SamePlace(L.disclosures[i], L.disclosures[j]) => i = j

\* Every confirmed event of resolved rows has been charged by then.
ChargedByThen(L) ==
    \A j \in 1..Len(L.events) :
        /\ L.events[j].confirmed
        /\ L.subjects[L.events[j].subject].resolved
        /\ L.recipients[L.events[j].recipient].resolved
        => \E i \in 1..Len(L.disclosures) :
              /\ SamePairOfRows(L.disclosures[i], L.events[j])
              /\ L.disclosures[i].event <= j

\* The deltas add up to what the charges are worth, and to what the events
\* show.
Paid(L) == SumFunctionOnSet(Deltas(L), 1..Len(L.disclosures))
Shown(L) == [i \in 1..Len(L.events) |-> DeltaShown(L, i)]
Priced(L) ==
    /\ Paid(L) = Account!Worth(Charged(L))
    /\ Paid(L) = SumFunctionOnSet(Shown(L), 1..Len(L.events))

Sound(L) ==
    /\ Blank(L)
    /\ Table(L.subjects, L.ended) /\ Table(L.recipients, L.ended)
    /\ EventsTold(L) /\ ChargedOnce(L) /\ ChargedByThen(L) /\ Priced(L)

\* The open transaction adds the delivery it records, one event for each
\* finding done and what these charge.
NewEvents == (Len(db.events) + 1)..Len(work.events)
NewDisclosures == (Len(db.disclosures) + 1)..Len(work.disclosures)
RowsKept(old, new) ==
    Len(old) <= Len(new) /\ \A i \in 1..Len(old) : new[i] = old[i]
Recording ==
    /\ db.version = 2 /\ ~Recorded(db, job.delivery)
    /\ work.version = 2 /\ work.score = db.score /\ work.watch = db.watch
    /\ work.available <=> db.available
    /\ work.ended <=> db.ended
    /\ work.missed <=> db.missed
    /\ db.ended \/ Registered
    /\ work.observations = db.observations \cup
          {[delivery |-> job.delivery, observer |-> process, gap |-> job.batch.gap]}
    /\ job.done <= Len(job.batch.findings)
    /\ RowsKept(db.events, work.events)
    /\ Len(work.events) = Len(db.events) + job.done
    /\ \A i \in 1..job.done :
          LET e == work.events[Len(db.events) + i] IN
          /\ e.delivery = job.delivery
          /\ e.value = job.batch.findings[i].value /\ e.to = job.batch.findings[i].to
    /\ RowsKept(db.disclosures, work.disclosures)
    /\ \A i \in NewDisclosures : work.disclosures[i].event \in NewEvents
    /\ SumFunctionOnSet(Deltas(work), NewDisclosures) = job.delta
    /\ Paid(work) = Paid(db) + job.delta
    /\ ~Open(db) => work.disclosures = db.disclosures

\* A delivery was answered with its one result.
Answered ==
    \A d \in Deliveries :
        \/ answers[d] = {}
        \/ Recorded(db, d) /\ answers[d] = {RecordedResult(db, d)}

\* An observer on record for everything recorded before the end, and for what
\* this process is about to record.
Watching ==
    ~db.ended =>
        /\ \A o \in db.observations : \E w \in db.watch : w.observer = o.observer
        /\ Registered \/ job.at = "installing" =>
              \E w \in db.watch : w.observer = process

SessionInv ==
    /\ TypeOK /\ Serving
    /\ Sound(db) /\ Sound(work) /\ db.score = Paid(db)
    /\ job.at = "recording" => Recording
    /\ Answered /\ Watching

-----------------------------------------------------------------------------
\* Writes that leave the rows alone

\* M has the rows of L, its flags may have moved on.
Flagged(L, M) ==
    /\ M.subjects = L.subjects /\ M.recipients = L.recipients
    /\ M.events = L.events /\ M.disclosures = L.disclosures
    /\ M.score = L.score
    /\ L.observations \subseteq M.observations /\ L.watch \subseteq M.watch
    /\ M.version = 2 \/ (L.version # 2 /\ M.observations = L.observations)
    /\ L.version # 0 => M.version = L.version
    /\ (M.ended <=> L.ended) \/ (L.version = 1 /\ M.ended)
    /\ M.available => L.available

RowsOnly(L, M) ==
    /\ M.subjects = L.subjects /\ M.recipients = L.recipients
    /\ M.events = L.events /\ M.disclosures = L.disclosures
    /\ M.score = L.score
    /\ M.available <=> L.available

LEMMA Versioned ==
  ASSUME NEW L \in Ledger, NEW v \in 0..2
  PROVE  LET M == [L EXCEPT !.version = v] IN
         /\ M \in Ledger /\ RowsOnly(L, M) /\ (M.ended <=> L.ended)
         /\ M.version = v /\ M.observations = L.observations /\ M.watch = L.watch
<1> DEFINE M == [L EXCEPT !.version = v]
<1>1. M \in Ledger
  BY DEF Ledger
<1>2. /\ M.subjects = L.subjects /\ M.recipients = L.recipients
      /\ M.events = L.events /\ M.disclosures = L.disclosures /\ M.score = L.score
      /\ M.version = v /\ M.observations = L.observations /\ M.watch = L.watch
  BY DEF Ledger
<1>3. M.available = L.available /\ M.ended = L.ended
  BY DEF Ledger
<1> HIDE DEF M
<1>4. (M.available <=> L.available) /\ (M.ended <=> L.ended)
  BY ONLY <1>3, Zenon
<1>5. M \in Ledger /\ RowsOnly(L, M) /\ (M.ended <=> L.ended)
      /\ M.version = v /\ M.observations = L.observations /\ M.watch = L.watch
  BY ONLY <1>1, <1>2, <1>4 DEF RowsOnly
<1> QED
  BY ONLY <1>5 DEF M

LEMMA MissedOnly ==
  ASSUME NEW L \in Ledger
  PROVE  LET M == [L EXCEPT !.missed = TRUE] IN
         /\ M \in Ledger /\ Flagged(L, M) /\ (M.ended <=> L.ended)
         /\ M.version = L.version /\ M.observations = L.observations
<1> DEFINE M == [L EXCEPT !.missed = TRUE]
<1>1. M \in Ledger
  BY DEF Ledger
<1>2. /\ M.subjects = L.subjects /\ M.recipients = L.recipients
      /\ M.events = L.events /\ M.disclosures = L.disclosures /\ M.score = L.score
      /\ M.version = L.version /\ M.observations = L.observations /\ M.watch = L.watch
      /\ L.version \in 0..2
  BY DEF Ledger
<1>3. M.available = L.available /\ M.ended = L.ended
  BY DEF Ledger
<1> HIDE DEF M
<1>4. (M.available <=> L.available) /\ (M.ended <=> L.ended)
  BY ONLY <1>3, Zenon
<1>5. /\ M \in Ledger /\ Flagged(L, M) /\ (M.ended <=> L.ended)
      /\ M.version = L.version /\ M.observations = L.observations
  BY ONLY <1>1, <1>2, <1>4 DEF Flagged
<1> QED
  BY ONLY <1>5 DEF M

LEMMA EndedOnly ==
  ASSUME NEW L \in Ledger
  PROVE  LET M == [L EXCEPT !.ended = TRUE] IN
         /\ M \in Ledger /\ RowsOnly(L, M) /\ M.ended
         /\ M.version = L.version /\ M.observations = L.observations /\ M.watch = L.watch
<1> DEFINE M == [L EXCEPT !.ended = TRUE]
<1>1. M \in Ledger
  BY DEF Ledger
<1>2. /\ M.subjects = L.subjects /\ M.recipients = L.recipients
      /\ M.events = L.events /\ M.disclosures = L.disclosures /\ M.score = L.score
      /\ M.version = L.version /\ M.observations = L.observations /\ M.watch = L.watch
  BY DEF Ledger
<1>3. M.available = L.available /\ M.ended
  BY DEF Ledger
<1> HIDE DEF M
<1>4. (M.available <=> L.available) /\ M.ended
  BY ONLY <1>3, Zenon
<1>5. /\ M \in Ledger /\ RowsOnly(L, M) /\ M.ended
      /\ M.version = L.version /\ M.observations = L.observations /\ M.watch = L.watch
  BY ONLY <1>1, <1>2, <1>4 DEF RowsOnly
<1> QED
  BY ONLY <1>5 DEF M

LEMMA WatchOnly ==
  ASSUME NEW L \in Ledger, NEW W
  PROVE  LET M == [L EXCEPT !.watch = W] IN
         /\ RowsOnly(L, M) /\ (M.ended <=> L.ended)
         /\ M.version = L.version /\ M.observations = L.observations /\ M.watch = W
<1> DEFINE M == [L EXCEPT !.watch = W]
<1>2. /\ M.subjects = L.subjects /\ M.recipients = L.recipients
      /\ M.events = L.events /\ M.disclosures = L.disclosures /\ M.score = L.score
      /\ M.version = L.version /\ M.observations = L.observations /\ M.watch = W
  BY DEF Ledger
<1>3. M.available = L.available /\ M.ended = L.ended
  BY DEF Ledger
<1> HIDE DEF M
<1>4. (M.available <=> L.available) /\ (M.ended <=> L.ended)
  BY ONLY <1>3, Zenon
<1>5. /\ RowsOnly(L, M) /\ (M.ended <=> L.ended)
      /\ M.version = L.version /\ M.observations = L.observations /\ M.watch = W
  BY ONLY <1>2, <1>4 DEF RowsOnly
<1> QED
  BY ONLY <1>5 DEF M

LEMMA ObservationsOnly ==
  ASSUME NEW L \in Ledger, NEW W
  PROVE  LET M == [L EXCEPT !.observations = W] IN
         /\ RowsOnly(L, M) /\ (M.ended <=> L.ended) /\ (M.missed <=> L.missed)
         /\ M.version = L.version /\ M.observations = W /\ M.watch = L.watch
<1> DEFINE M == [L EXCEPT !.observations = W]
<1>2. /\ M.subjects = L.subjects /\ M.recipients = L.recipients
      /\ M.events = L.events /\ M.disclosures = L.disclosures /\ M.score = L.score
      /\ M.version = L.version /\ M.observations = W /\ M.watch = L.watch
  BY DEF Ledger
<1>3. M.available = L.available /\ M.ended = L.ended /\ M.missed = L.missed
  BY DEF Ledger
<1> HIDE DEF M
<1>4. (M.available <=> L.available) /\ (M.ended <=> L.ended) /\ (M.missed <=> L.missed)
  BY ONLY <1>3, Zenon
<1>5. /\ RowsOnly(L, M) /\ (M.ended <=> L.ended) /\ (M.missed <=> L.missed)
      /\ M.version = L.version /\ M.observations = W /\ M.watch = L.watch
  BY ONLY <1>2, <1>4 DEF RowsOnly
<1> QED
  BY ONLY <1>5 DEF M

LEMMA WatchedFlags ==
  ASSUME NEW L \in Ledger, process \in 1..MaxProcesses, NEW start \in BOOLEAN
  PROVE  /\ Watched(L, start) \in Ledger
         /\ Watched(L, start) = [L EXCEPT !.watch = Watched(L, start).watch]
         /\ L.watch \subseteq Watched(L, start).watch
         /\ \E w \in Watched(L, start).watch : w.observer = process
<1>1. CASE \E w \in L.watch : w.observer = process
  <2>1. Watched(L, start) = L
    BY <1>1 DEF Watched
  <2>2. L = [L EXCEPT !.watch = L.watch]
    BY DEF Ledger
  <2> QED
    BY <1>1, <2>1, <2>2
<1>2. CASE ~\E w \in L.watch : w.observer = process
  <2> DEFINE W == L.watch \cup {[observer |-> process, start |-> start]}
  <2>1. Watched(L, start) = [L EXCEPT !.watch = W]
    BY <1>2 DEF Watched
  <2> DEFINE w == [observer |-> process, start |-> start]
  <2>3. w \in [observer : 1..MaxProcesses, start : BOOLEAN] /\ w.observer = process
    OBVIOUS
  <2>4. L.watch \in SUBSET [observer : 1..MaxProcesses, start : BOOLEAN]
    BY DEF Ledger
  <2>2. /\ L.watch \subseteq W /\ w \in W
        /\ W \in SUBSET [observer : 1..MaxProcesses, start : BOOLEAN]
    <3> HIDE DEF w
    <3> QED
      BY <2>3, <2>4 DEF w
  <2> HIDE DEF W, w
  <2>5. [L EXCEPT !.watch = W] \in Ledger /\ [L EXCEPT !.watch = W].watch = W
    BY <2>2 DEF Ledger
  <2> QED
    BY <2>1, <2>2, <2>3, <2>5
<1> QED
  BY <1>1, <1>2

LEMMA ObservedFlags ==
  ASSUME NEW L \in Ledger, process \in 1..MaxProcesses,
         NEW d \in Deliveries \cup {Lifecycle}, NEW gap \in BOOLEAN
  PROVE  LET o == [delivery |-> d, observer |-> process, gap |-> gap] IN
         /\ Observed(L, d, gap) \in Ledger
         /\ Observed(L, d, gap) = [L EXCEPT !.observations = L.observations \cup {o}]
         /\ Observed(L, d, gap).observations = L.observations \cup {o}
<1> DEFINE W == L.observations \cup {[delivery |-> d, observer |-> process, gap |-> gap]}
<1>1. W \in SUBSET [delivery : Deliveries \cup {Lifecycle},
                    observer : 1..MaxProcesses, gap : BOOLEAN]
  BY DEF Ledger
<1>2. Observed(L, d, gap) = [L EXCEPT !.observations = W]
  BY DEF Observed
<1> HIDE DEF W
<1>3. [L EXCEPT !.observations = W] \in Ledger
      /\ [L EXCEPT !.observations = W].observations = W
  BY <1>1 DEF Ledger
<1> QED
  BY <1>2, <1>3 DEF W

LEMMA FlaggedAgain ==
  ASSUME NEW L \in Ledger, NEW M \in Ledger, NEW N \in Ledger,
         Flagged(L, M), Flagged(M, N), N.ended <=> M.ended
  PROVE  Flagged(L, N)
<1>1. L.version \in 0..2 /\ M.version \in 0..2 /\ N.version \in 0..2
  BY DEF Ledger
<1>2. L.observations \subseteq N.observations /\ L.watch \subseteq N.watch
  BY DEF Flagged
<1>3. /\ N.subjects = L.subjects /\ N.recipients = L.recipients
      /\ N.events = L.events /\ N.disclosures = L.disclosures
      /\ N.score = L.score
  BY DEF Flagged
<1>4. N.version = 2 \/ (L.version # 2 /\ N.observations = L.observations)
  BY <1>1 DEF Flagged
<1>5. L.version # 0 => N.version = L.version
  BY <1>1 DEF Flagged
<1>6. (N.ended <=> L.ended) \/ (L.version = 1 /\ N.ended)
  BY <1>1 DEF Flagged
<1>7. N.available => L.available
  BY DEF Flagged
<1> QED
  BY <1>2, <1>3, <1>4, <1>5, <1>6, <1>7 DEF Flagged

LEMMA EmptyIsLedger == EmptyLedger \in Ledger
  BY DEF EmptyLedger, Ledger

-----------------------------------------------------------------------------
\* The steps that write no rows

Jobs == [at : Steps, delivery : Deliveries \cup {Lifecycle},
         batch : [findings : Seq(Findings), gap : BOOLEAN],
         done : Nat, delta : Nat]

\* Nothing is left uncommitted, and what was committed only moved flags.
Quiet == work' = db' /\ db' \in Ledger /\ Flagged(db, db')

LEMMA FlaggedSelf == ASSUME NEW L \in Ledger PROVE Flagged(L, L)
  BY DEF Flagged, Ledger

LEMMA IdleIsJob == Idle \in Jobs /\ Idle.at = "idle"
  BY DEF Idle, Jobs, Steps

LEMMA Committing ==
  ASSUME TypeOK, Serving, job.at # "recording", UNCHANGED <<db, work>> PROVE Quiet
  BY FlaggedSelf DEF Quiet, TypeOK, Serving

LEMMA JobMoves ==
  ASSUME NEW r \in Jobs, NEW s \in Steps
  PROVE  LET q == [r EXCEPT !.at = s] IN
         q \in Jobs /\ q.at = s /\ q.delivery = r.delivery /\ q.batch = r.batch
         /\ q.done = r.done /\ q.delta = r.delta
  BY DEF Jobs

\* A handler begins.
LEMMA ArriveQuiet ==
  ASSUME TypeOK, Serving,
         StartArrives \/ \E d \in Deliveries, b \in Batches : HookArrives(d, b)
  PROVE  TypeOK' /\ Serving' /\ Quiet
<1>1. up /\ job = Idle /\ UNCHANGED <<db, work, process, up, key, engine, drawn, answers>>
  BY DEF StartArrives, HookArrives, memory
<1>2. job.at # "recording" /\ work = db
  BY <1>1, IdleIsJob DEF Serving
<1>3. Quiet
  BY <1>1, <1>2, Committing
<1>4. CASE StartArrives
  <2>1. job' \in Jobs /\ job'.at = "starting"
    <3>1. job' = [Idle EXCEPT !.at = "starting"]
      BY <1>4 DEF StartArrives
    <3> QED
      BY ONLY <3>1, JobMoves, IdleIsJob DEF Steps
  <2> QED
    BY <1>1, <1>2, <1>3, <2>1 DEF TypeOK, Serving, Jobs
<1>5. ASSUME NEW d \in Deliveries, NEW b \in Batches, HookArrives(d, b)
      PROVE  TypeOK' /\ Serving'
  <2>1. b.findings \in Seq(Findings) /\ b \in [findings : Seq(Findings), gap : BOOLEAN]
    BY BatchAssumption
  <2>2. Coalesced(b.findings) \in Seq(Findings) /\ PairsApart(Coalesced(b.findings))
    BY <2>1, CoalescedApart
  <2>3. PICK c \in [findings : Seq(Findings), gap : BOOLEAN] :
            /\ PairsApart(c.findings)
            /\ job' = [Idle EXCEPT !.at = "observing", !.delivery = d, !.batch = c]
    <3> DEFINE c == [b EXCEPT !.findings = Coalesced(b.findings)]
    <3>1. c \in [findings : Seq(Findings), gap : BOOLEAN] /\ PairsApart(c.findings)
      BY ONLY <2>1, <2>2
    <3>2. job' = [Idle EXCEPT !.at = "observing", !.delivery = d, !.batch = c]
      BY <1>5 DEF HookArrives
    <3> QED
      BY ONLY <3>1, <3>2
  <2>4. /\ job' \in Jobs /\ job'.at = "observing" /\ job'.delivery = d
        /\ PairsApart(job'.batch.findings)
        /\ job'.done = 0 /\ job'.delta = 0
    BY ONLY <2>3, d \in Deliveries DEF Idle, Jobs, Steps
  <2>5. TypeOK'
    BY <1>1, <2>4 DEF TypeOK, Jobs
  <2> QED
    BY <1>1, <1>2, <1>3, <2>4, <2>5 DEF Serving
<1> QED
  BY <1>3, <1>4, <1>5, StartArrives \/ \E d \in Deliveries, b \in Batches : HookArrives(d, b)

\* A handler returns, or raises, with nothing to write.
LEMMA ReturnQuiet ==
  ASSUME TypeOK, Serving, StartKnown \/ ObserveLegacy \/ Raise
  PROVE  TypeOK' /\ Serving' /\ Quiet
<1>1. /\ job' = Idle /\ job.at # "idle" /\ db' = db /\ work' = db
      /\ UNCHANGED <<process, up, key, engine, drawn, answers>>
  BY DEF StartKnown, ObserveLegacy, Raise, Return, Rollback, memory, Serving
<1>2. Quiet
  BY <1>1, FlaggedSelf DEF Quiet, TypeOK
<1>3. TypeOK'
  BY <1>1, IdleIsJob DEF TypeOK, Jobs
<1> QED
  BY <1>1, <1>2, <1>3, IdleIsJob DEF Serving

LEMMA IndicesFinite ==
  ASSUME NEW m \in Nat, NEW n \in Nat, NEW S, S \subseteq m..n PROVE IsFiniteSet(S)
<1>1. IsFiniteSet(m..n)
  BY FS_Interval
<1> DEFINE T == m..n
<1>2. S \in SUBSET T
  OBVIOUS
<1> HIDE DEF T
<1> QED
  BY ONLY <1>1, <1>2, FS_Subset DEF T

LEMMA DeltasTyped ==
  ASSUME NEW L \in Ledger, NEW i \in 1..Len(L.disclosures)
  PROVE  Deltas(L)[i] = L.disclosures[i].delta /\ Deltas(L)[i] \in Nat
<1>1. L.disclosures \in Seq(Disclosure)
  BY DEF Ledger
<1>2. L.disclosures[i] \in Disclosure
  BY <1>1
<1> QED
  BY <1>2 DEF Deltas, Disclosure

LEMMA PaidTyped ==
  ASSUME NEW L \in Ledger
  PROVE  Paid(L) \in Nat /\ IsFiniteSet(1..Len(L.disclosures))
<1>1. Len(L.disclosures) \in Nat /\ 1 \in Nat
  BY DEF Ledger
<1>2. IsFiniteSet(1..Len(L.disclosures))
  BY ONLY <1>1, FS_Interval
<1>3. \A j \in 1..Len(L.disclosures) : Deltas(L)[j] \in Nat
  BY DeltasTyped
<1> QED
  BY <1>2, <1>3, SumOfNat DEF Paid

\* What the ledger answers for a recorded delivery is a result.
LEMMA ResultTyped ==
  ASSUME NEW L \in Ledger, NEW d \in Deliveries
  PROVE  RecordedResult(L, d) \in Result
<1> DEFINE paid == {i \in 1..Len(L.disclosures) :
                       L.events[L.disclosures[i].event].delivery = d}
           told == {i \in 1..Len(L.events) : L.events[i].delivery = d}
<1>1. RecordedResult(L, d) = [events |-> told, disclosures |-> paid,
                              delta |-> SumFunctionOnSet(Deltas(L), paid)]
  BY DEF RecordedResult, ResultOf
<1>2. L.events \in Seq(Event) /\ L.disclosures \in Seq(Disclosure)
  BY DEF Ledger
<1>3. Len(L.events) \in Nat /\ Len(L.disclosures) \in Nat
  BY <1>2
<1>4. told \in SUBSET Nat /\ paid \in SUBSET Nat /\ paid \subseteq 1..Len(L.disclosures)
  BY <1>3
<1>5. IsFiniteSet(paid)
  <2> HIDE DEF paid
  <2>1. 1 \in Nat
    OBVIOUS
  <2> QED
    BY ONLY <2>1, <1>3, <1>4, IndicesFinite
<1>6. \A i \in 1..Len(L.disclosures) : Deltas(L)[i] \in Nat
  BY DeltasTyped
<1>7. SumFunctionOnSet(Deltas(L), paid) \in Nat
  <2> HIDE DEF paid
  <2>1. \A i \in paid : Deltas(L)[i] \in Nat
    BY <1>4, <1>6
  <2> QED
    BY ONLY <2>1, <1>5, SumOfNat
<1> HIDE DEF told, paid
<1> QED
  BY <1>1, <1>4, <1>7 DEF Result

\* A delivery that is told again changes what was answered only.
LEMMA AgainQuiet ==
  ASSUME TypeOK, Serving, ObserveAgain
  PROVE  TypeOK' /\ Serving' /\ Quiet
<1>1. /\ job' = Idle /\ job.at = "observing" /\ db' = db /\ work' = db
      /\ UNCHANGED <<process, up, key, engine, drawn>>
  BY DEF ObserveAgain, Return, memory, Serving
<1>2. Quiet
  BY <1>1, FlaggedSelf DEF Quiet, TypeOK
<1>3. RecordedResult(db, job.delivery) \in Result /\ job.delivery \in Deliveries
  BY <1>1, ResultTyped DEF Serving, TypeOK
<1>4. answers' \in [Deliveries -> SUBSET Result]
  <2>1. answers' = [answers EXCEPT ![job.delivery] =
                       @ \cup {RecordedResult(db, job.delivery)}]
    BY DEF ObserveAgain
  <2>2. answers \in [Deliveries -> SUBSET Result]
    BY DEF TypeOK
  <2> QED
    BY ONLY <1>3, <2>1, <2>2
<1>5. TypeOK'
  BY <1>1, <1>4, IdleIsJob DEF TypeOK, Jobs
<1> QED
  BY <1>1, <1>2, <1>5, IdleIsJob DEF Serving

\* The identity is discarded.
LEMMA DiscardQuiet ==
  ASSUME TypeOK, Serving, SessionEndFails \/ DaemonDies
  PROVE  TypeOK' /\ Serving' /\ Quiet
<1>1. /\ job' = Idle /\ up /\ db' = db /\ work' = db
      /\ key' = 0 /\ engine' = NoEngine /\ up' \in BOOLEAN
      /\ UNCHANGED <<process, drawn, answers>>
  BY IdleIsJob DEF SessionEndFails, DaemonDies, Return, Rollback, DiscardIdentity, Serving,
     TypeOK
<1>2. Quiet
  BY <1>1, FlaggedSelf DEF Quiet, TypeOK
<1>3. TypeOK'
  BY <1>1, IdleIsJob DEF TypeOK, Jobs
<1> QED
  BY <1>1, <1>2, <1>3, IdleIsJob DEF Serving

\* The account is closed, by whoever closes it.
LEMMA UnavailableFlags ==
  ASSUME NEW L \in Ledger
  PROVE  /\ Unavailable(L) \in Ledger /\ Flagged(L, Unavailable(L))
         /\ Unavailable(L).version = L.version
         /\ (Unavailable(L).ended <=> L.ended)
         /\ Unavailable(L).observations = L.observations
  BY DEF Unavailable, Ledger, Flagged

\* A genuine start installs its key, or fails to.
LEMMA InstallQuiet ==
  ASSUME TypeOK, Serving, Install \/ InstallFails
  PROVE  TypeOK' /\ Serving' /\ Quiet
<1>1. /\ job' = Idle /\ job.at = "installing" /\ drawn' = 1
      /\ (key' = 1 /\ engine' = 1) \/ (key' = 0 /\ engine' = NoEngine)
      /\ UNCHANGED <<process, up, answers>>
  BY DEF Install, InstallFails, Return, DiscardIdentity, Serving
<1>2. work' = db' /\ db' \in {db, Unavailable(db)}
  BY <1>1 DEF Install, InstallFails, Committed, Serving
<1>3. /\ Quiet /\ db'.version = 2 /\ ~db'.ended
  BY <1>1, <1>2, FlaggedSelf, UnavailableFlags DEF Quiet, TypeOK, Serving
<1>4. TypeOK'
  BY <1>1, <1>3, IdleIsJob DEF TypeOK, Jobs, Quiet
<1>5. up
  BY <1>1, IdleIsJob DEF Serving
<1> QED
  BY <1>1, <1>2, <1>3, <1>4, <1>5, IdleIsJob DEF Serving

\* A lost key is written down.
LEMMA MarkQuiet ==
  ASSUME TypeOK, Serving, MarkUnavailable
  PROVE  /\ TypeOK' /\ Serving' /\ Quiet
         /\ db'.observations = db.observations
<1>1. /\ job.at \in {"starting", "observing"} /\ db.version = 2
      /\ db' = Unavailable(db) /\ work' = db'
      /\ UNCHANGED <<job, process, up, key, engine, drawn, answers>>
  BY DEF MarkUnavailable, MustMark, Committed, memory
<1>2. /\ Quiet /\ db'.version = db.version /\ (db'.ended <=> db.ended)
  BY <1>1, UnavailableFlags DEF Quiet, TypeOK
<1>3. db'.observations = db.observations
  BY <1>1 DEF TypeOK, Ledger, Unavailable
<1>4. TypeOK'
  BY <1>1, <1>2 DEF TypeOK, Quiet
<1> QED
  BY <1>1, <1>2, <1>3, <1>4 DEF Serving

\* This process is on record, and only then has an engine.
LEMMA AttachQuiet ==
  ASSUME TypeOK, Serving, AttachKeyless
  PROVE  /\ TypeOK' /\ Serving' /\ Quiet
         /\ db'.observations = db.observations
         /\ \E w \in db'.watch : w.observer = process
<1> DEFINE L == IF db.version = 0 THEN [db EXCEPT !.version = 1] ELSE db
           start == job.at = "starting"
<1>1. /\ job.at \in {"starting", "observing"} /\ ~Resolved
      /\ db' = Watched(L, start) /\ work' = db' /\ engine' = 0
      /\ UNCHANGED <<job, process, up, key, drawn, answers>>
  BY DEF AttachKeyless, Committed
<1>2. up /\ process \in 1..MaxProcesses /\ ~db.ended
  BY <1>1 DEF Serving, Resolved, Idle
<1>3. L \in Ledger /\ Flagged(db, L) /\ L.version # 0 /\ ~L.ended
      /\ L.observations = db.observations
  <2>1. db \in Ledger /\ db.version \in 0..2
    BY DEF TypeOK, Ledger
  <2>2. CASE db.version # 0
    BY <1>2, <2>1, <2>2, FlaggedSelf
  <2>3. CASE db.version = 0
    <3>1. L = [db EXCEPT !.version = 1]
      BY <2>3
    <3> HIDE DEF L
    <3>2. /\ L \in Ledger /\ RowsOnly(db, L) /\ (L.ended <=> db.ended)
          /\ L.version = 1 /\ L.observations = db.observations /\ L.watch = db.watch
      <4>1. 1 \in 0..2
        OBVIOUS
      <4> QED
        BY ONLY <2>1, <3>1, <4>1, Versioned
    <3> QED
      BY <1>2, <2>1, <2>3, <3>2 DEF Flagged, RowsOnly
  <2> QED
    BY <2>2, <2>3
<1>4. start \in BOOLEAN
  OBVIOUS
<1> HIDE DEF L, start
<1>5. /\ db' \in Ledger
      /\ db' = [L EXCEPT !.watch = db'.watch]
      /\ L.watch \subseteq db'.watch
      /\ \E w \in db'.watch : w.observer = process
  BY <1>1, <1>2, <1>3, <1>4, WatchedFlags
<1>6. /\ Flagged(L, db') /\ db'.version = L.version /\ (db'.ended <=> L.ended)
      /\ db'.observations = L.observations
  <2>1. RowsOnly(L, db') /\ (db'.ended <=> L.ended)
        /\ db'.version = L.version /\ db'.observations = L.observations
    <3>1. \A W : LET M == [L EXCEPT !.watch = W] IN
             /\ RowsOnly(L, M) /\ (M.ended <=> L.ended)
             /\ M.version = L.version /\ M.observations = L.observations
      BY ONLY <1>3, WatchOnly
    <3> QED
      BY ONLY <3>1, <1>5
  <2>2. L.version \in 0..2
    BY <1>3 DEF Ledger
  <2> QED
    BY <2>1, <2>2, <1>3, <1>5 DEF Flagged, RowsOnly
<1>7. Quiet
  BY <1>1, <1>3, <1>5, <1>6, FlaggedAgain DEF Quiet, TypeOK
<1>8. TypeOK'
  BY <1>1, <1>5 DEF TypeOK
<1> QED
  BY <1>1, <1>2, <1>3, <1>5, <1>6, <1>7, <1>8 DEF Serving

\* A genuine start is on record with its observer.
LEMMA ActivateQuiet ==
  ASSUME TypeOK, Serving, Sound(db), Activate
  PROVE  /\ TypeOK' /\ Serving' /\ Quiet
         /\ \A o \in db'.observations : o.observer = process
         /\ \E w \in db'.watch : w.observer = process
<1> DEFINE L == [db EXCEPT !.version = 2]
           W == Watched(L, TRUE)
           o == [delivery |-> Lifecycle, observer |-> process, gap |-> FALSE]
<1>1. /\ job.at = "starting" /\ db.version = 0
      /\ db' = Observed(W, Lifecycle, FALSE) /\ work' = db'
      /\ job' = [job EXCEPT !.at = "installing"]
      /\ UNCHANGED <<process, up, key, engine, drawn, answers>>
  BY DEF Activate, GenuineStart, Committed, memory, Opened
<1>2. up /\ process \in 1..MaxProcesses /\ ~db.ended /\ drawn = 0 /\ db.observations = {}
  BY <1>1 DEF Serving, Sound, Blank, Idle
<1>3. L \in Ledger /\ Flagged(db, L) /\ L.version = 2 /\ ~L.ended
      /\ L.observations = {}
  <2>1. db \in Ledger
    BY DEF TypeOK
  <2>2. /\ L \in Ledger /\ RowsOnly(db, L) /\ (L.ended <=> db.ended)
        /\ L.version = 2 /\ L.observations = db.observations /\ L.watch = db.watch
    <3>1. 2 \in 0..2
      OBVIOUS
    <3> QED
      BY ONLY <2>1, <3>1, Versioned
  <2> HIDE DEF L
  <2> QED
    BY <1>1, <1>2, <2>2 DEF Flagged, RowsOnly
<1> HIDE DEF L
<1>4. /\ W \in Ledger /\ W = [L EXCEPT !.watch = W.watch]
      /\ L.watch \subseteq W.watch
      /\ \E w \in W.watch : w.observer = process
  BY <1>2, <1>3, WatchedFlags
<1> HIDE DEF W
<1>5. /\ db' \in Ledger
      /\ db' = [W EXCEPT !.observations = W.observations \cup {o}]
      /\ db'.observations = W.observations \cup {o}
  BY <1>1, <1>2, <1>4, ObservedFlags
<1>6. RowsOnly(L, W) /\ (W.ended <=> L.ended) /\ W.version = 2 /\ W.observations = {}
  <2>1. \A X : LET M == [L EXCEPT !.watch = X] IN
           /\ RowsOnly(L, M) /\ (M.ended <=> L.ended)
           /\ M.version = L.version /\ M.observations = L.observations
    BY ONLY <1>3, WatchOnly
  <2> QED
    BY ONLY <2>1, <1>3, <1>4
<1>7. RowsOnly(W, db') /\ (db'.ended <=> W.ended) /\ db'.version = 2
      /\ db'.observations = {o} /\ db'.watch = W.watch
  <2>1. \A X : LET M == [W EXCEPT !.observations = X] IN
           /\ RowsOnly(W, M) /\ (M.ended <=> W.ended)
           /\ M.version = W.version /\ M.observations = X /\ M.watch = W.watch
    BY ONLY <1>4, ObservationsOnly
  <2>2. W.observations \cup {o} = {o}
    BY <1>6
  <2> QED
    BY ONLY <2>1, <2>2, <1>5, <1>6
<1>8. Flagged(db, db') /\ db'.version = 2 /\ ~db'.ended
  BY <1>1, <1>2, <1>3, <1>4, <1>6, <1>7 DEF Flagged, RowsOnly
<1>9. job' \in Jobs /\ job'.at = "installing"
  <2>1. job \in Jobs
    BY DEF TypeOK, Jobs
  <2> QED
    BY ONLY <2>1, <1>1, JobMoves DEF Steps
<1>10. Quiet
  BY <1>1, <1>5, <1>8 DEF Quiet
<1>11. TypeOK'
  BY <1>1, <1>5, <1>9 DEF TypeOK, Jobs
<1>12. engine = NoEngine
  BY ONLY <1>1, Serving DEF Serving
<1>13. o.observer = process
  OBVIOUS
<1> HIDE DEF o
<1>14. Serving'
  BY <1>1, <1>2, <1>8, <1>9, <1>12 DEF Serving
<1> QED
  BY <1>4, <1>7, <1>10, <1>11, <1>13, <1>14

\* A daemon begins: it finds nothing of the session in memory.
LEMMA StartQuiet ==
  ASSUME TypeOK, Serving, StartDaemon
  PROVE  /\ TypeOK' /\ Serving' /\ Quiet
         /\ job' = Idle /\ engine' = NoEngine
         /\ db'.observations = db.observations
<1>1. /\ job = Idle /\ key = 0 /\ engine = NoEngine /\ process' = process + 1
      /\ process < MaxProcesses /\ process \in 0..MaxProcesses
      /\ UNCHANGED <<job, key, engine, drawn, answers>> /\ db \in Ledger
      /\ MaxProcesses \in Nat
  BY FiniteAssumption DEF StartDaemon, Serving, TypeOK, memory
<1>2. PICK L \in NoteMissed(db) :
          \/ /\ up' = TRUE
             /\ Committed(IF L.version = 2 /\ ~L.ended THEN Unavailable(L) ELSE L)
          \/ up' = FALSE /\ Committed(L)
  BY DEF StartDaemon
<1>3. /\ L \in Ledger /\ Flagged(db, L) /\ L.version = db.version
      /\ (L.ended <=> db.ended) /\ L.observations = db.observations
  <2>1. CASE L = db
    BY <1>1, <2>1, FlaggedSelf
  <2>2. CASE L = [db EXCEPT !.missed = TRUE]
    BY <1>1, <2>2, MissedOnly
  <2> QED
    BY <1>2, <2>1, <2>2 DEF NoteMissed
<1>4. /\ Unavailable(L) \in Ledger /\ Flagged(L, Unavailable(L))
      /\ Unavailable(L).version = L.version /\ (Unavailable(L).ended <=> L.ended)
      /\ Unavailable(L).observations = L.observations
  BY <1>3, UnavailableFlags
<1>5. work' = db' /\ db' \in {L, Unavailable(L)} /\ up' \in BOOLEAN
  BY <1>2 DEF Committed
<1>6. /\ db' \in Ledger /\ Flagged(db, db') /\ db'.version = db.version
      /\ (db'.ended <=> db.ended) /\ db'.observations = db.observations
  BY <1>1, <1>3, <1>4, <1>5, FlaggedAgain
<1>7. process' \in 0..MaxProcesses /\ process' \in 1..MaxProcesses
  BY <1>1
<1>8. TypeOK'
  BY <1>1, <1>5, <1>6, <1>7 DEF TypeOK
<1>9. Serving'
  BY <1>1, <1>5, <1>6, <1>7, IdleIsJob DEF Serving
<1> QED
  BY <1>1, <1>5, <1>6, <1>8, <1>9 DEF Quiet

-----------------------------------------------------------------------------
\* What a change of flags keeps

LEMMA FlaggedSound ==
  ASSUME NEW L \in Ledger, NEW M \in Ledger, Flagged(L, M), Sound(L)
  PROVE  Sound(M) /\ Paid(M) = Paid(L)
<1>1. /\ M.subjects = L.subjects /\ M.recipients = L.recipients
      /\ M.events = L.events /\ M.disclosures = L.disclosures /\ M.score = L.score
      /\ L.observations \subseteq M.observations
  BY DEF Flagged
<1>2. Blank(M)
  BY DEF Flagged, Sound, Blank
<1>3. Table(M.subjects, M.ended) /\ Table(M.recipients, M.ended)
  <2>1. CASE M.ended <=> L.ended
    BY <1>1, <2>1 DEF Sound, Table
  <2>2. CASE L.version = 1
    <3>1. L.subjects = <<>> /\ L.recipients = <<>>
      BY <2>2 DEF Sound, Blank
    <3> QED
      BY <3>1, <1>1 DEF Table
  <2> QED
    BY <2>1, <2>2 DEF Flagged
<1>4. EventsTold(M)
  BY <1>1 DEF Sound, EventsTold, Told, Recorded
<1>5. ChargedOnce(M)
  <2>1. \A q, r : Group(M, q, r) = Group(L, q, r)
    BY <1>1 DEF Group
  <2>2. \A x : Charging(L, x) => Charging(M, x)
    BY <1>1, <2>1 DEF Charging
  <2>3. ChargedOnce(L) /\ M.disclosures = L.disclosures
    BY <1>1 DEF Sound
  <2> QED
    BY ONLY <2>2, <2>3 DEF ChargedOnce
<1>6. ChargedByThen(M)
  BY <1>1 DEF Sound, ChargedByThen
<1>7. Deltas(M) = Deltas(L) /\ Charged(M) = Charged(L)
  BY <1>1 DEF Deltas, Charged, EventOf
<1>8. Shown(M) = Shown(L)
  BY <1>1, <1>7 DEF Shown, DeltaShown
<1>9. Paid(M) = Paid(L)
  BY <1>1, <1>7 DEF Paid
<1>10. Priced(M)
  BY <1>1, <1>7, <1>8, <1>9 DEF Priced, Sound
<1> QED
  BY <1>2, <1>3, <1>4, <1>5, <1>6, <1>9, <1>10 DEF Sound

LEMMA RecordedResultKept ==
  ASSUME NEW L, NEW M, NEW d, M.events = L.events, M.disclosures = L.disclosures
  PROVE  RecordedResult(M, d) = RecordedResult(L, d)
  BY DEF RecordedResult, ResultOf, Deltas

-----------------------------------------------------------------------------
\* The end of the session

\* The rows of T, whatever their hashes.
Alike(T, U) ==
    /\ Len(U) = Len(T)
    /\ \A i \in 1..Len(T) : U[i].of = T[i].of /\ (U[i].resolved <=> T[i].resolved)

LEMMA NulledRows ==
  ASSUME NEW X, NEW T \in Seq(Identity(X)), NEW e \in BOOLEAN, Table(T, e)
  PROVE  /\ Nulled(T) \in Seq(Identity(X)) /\ Table(Nulled(T), TRUE)
         /\ Alike(T, Nulled(T))
<1> DEFINE U == Nulled(T)
<1>1. Len(T) \in Nat /\ \A i \in 1..Len(T) : T[i] \in Identity(X)
  OBVIOUS
<1>2. \A r \in Identity(X) : LET q == [r EXCEPT !.key = 0] IN
         q \in Identity(X) /\ q.key = 0 /\ q.of = r.of /\ q.resolved = r.resolved
  BY DEF Identity
<1>3. DOMAIN U = 1..Len(T) /\ \A i \in 1..Len(T) : U[i] = [T[i] EXCEPT !.key = 0]
  BY DEF Nulled
<1> HIDE DEF U
<1>4. \A i \in 1..Len(T) :
         U[i] \in Identity(X) /\ U[i].key = 0 /\ U[i].of = T[i].of
         /\ U[i].resolved = T[i].resolved
  <2> SUFFICES ASSUME NEW i \in 1..Len(T)
               PROVE  U[i] \in Identity(X) /\ U[i].key = 0 /\ U[i].of = T[i].of
                      /\ U[i].resolved = T[i].resolved
    OBVIOUS
  <2>1. T[i] \in Identity(X) /\ U[i] = [T[i] EXCEPT !.key = 0]
    BY ONLY <1>1, <1>3
  <2>2. LET q == [T[i] EXCEPT !.key = 0] IN
           q \in Identity(X) /\ q.key = 0 /\ q.of = T[i].of /\ q.resolved = T[i].resolved
    BY ONLY <1>2, <2>1
  <2> QED
    BY ONLY <2>1, <2>2, Zenon
<1>5. U \in [1..Len(T) -> Identity(X)]
  BY ONLY <1>3, <1>4, U = [i \in 1..Len(T) |-> [T[i] EXCEPT !.key = 0]] DEF U, Nulled
<1>6. U \in Seq(Identity(X)) /\ Len(U) = Len(T)
  BY ONLY <1>1, <1>5
<1>7. \A i \in 1..Len(T) : U[i].resolved <=> T[i].resolved
  BY ONLY <1>4, Zenon
<1>8. Alike(T, U)
  BY ONLY <1>4, <1>6, <1>7 DEF Alike
<1>9. Table(U, TRUE)
  BY <1>4, <1>6, <1>7 DEF Table
<1> QED
  BY ONLY <1>6, <1>8, <1>9 DEF U

LEMMA AlikeSound ==
  ASSUME NEW L \in Ledger, NEW M \in Ledger, Sound(L), M.version = 2,
         Alike(L.subjects, M.subjects), Alike(L.recipients, M.recipients),
         Table(M.subjects, M.ended), Table(M.recipients, M.ended),
         M.events = L.events, M.disclosures = L.disclosures,
         L.observations \subseteq M.observations
  PROVE  Sound(M) /\ Paid(M) = Paid(L)
<1>1. L.events \in Seq(Event) /\ L.disclosures \in Seq(Disclosure)
  BY DEF Ledger
<1>2. /\ Len(M.subjects) = Len(L.subjects) /\ Len(M.recipients) = Len(L.recipients)
      /\ \A i \in 1..Len(L.subjects) : /\ M.subjects[i].of = L.subjects[i].of
                                       /\ M.subjects[i].resolved <=> L.subjects[i].resolved
      /\ \A i \in 1..Len(L.recipients) :
            /\ M.recipients[i].of = L.recipients[i].of
            /\ M.recipients[i].resolved <=> L.recipients[i].resolved
  BY DEF Alike
<1>3. \A i \in 1..Len(L.events) : Told(L, L.events[i])
  BY DEF Sound, EventsTold
<1>4. \A i \in 1..Len(L.events) :
         /\ L.events[i].subject \in 1..Len(L.subjects)
         /\ L.events[i].recipient \in 1..Len(L.recipients)
  BY <1>3 DEF Told
<1>5. EventsTold(M)
  <2>1. \A i \in 1..Len(M.events) : Told(M, M.events[i])
    <3> SUFFICES ASSUME NEW i \in 1..Len(L.events) PROVE Told(M, L.events[i])
      OBVIOUS
    <3>1. Told(L, L.events[i])
      BY <1>3
    <3>2. Recorded(M, L.events[i].delivery)
      BY <3>1 DEF Told, Recorded
    <3> QED
      BY ONLY <1>2, <3>1, <3>2 DEF Told
  <2> QED
    BY <2>1 DEF Sound, EventsTold
<1>6. ChargedOnce(M)
  <2>1. ASSUME NEW i \in 1..Len(L.disclosures) PROVE Charging(M, L.disclosures[i])
    <3>1. Charging(L, L.disclosures[i])
      BY DEF Sound, ChargedOnce
    <3>2. /\ L.disclosures[i].subject \in 1..Len(L.subjects)
          /\ L.disclosures[i].recipient \in 1..Len(L.recipients)
      BY <1>4, <3>1 DEF Charging
    <3>3. \A t, r : Group(M, t, r) = Group(L, t, r)
      BY DEF Group
    <3> QED
      BY <1>2, <3>1, <3>2, <3>3 DEF Charging
  <2> QED
    BY <2>1 DEF Sound, ChargedOnce
<1>7. ChargedByThen(M)
  BY <1>2, <1>4 DEF Sound, ChargedByThen
<1>8. Deltas(M) = Deltas(L) /\ Charged(M) = Charged(L)
  BY DEF Deltas, Charged, EventOf
<1>9. Shown(M) = Shown(L)
  BY <1>8 DEF Shown, DeltaShown
<1>10. Paid(M) = Paid(L)
  BY <1>8 DEF Paid
<1>11. Priced(M)
  BY <1>8, <1>9, <1>10 DEF Priced, Sound
<1> QED
  BY <1>5, <1>6, <1>7, <1>10, <1>11 DEF Sound, Blank

\* The session ends: its flags move on, or its hashes are gone too.
LEMMA EndErases ==
  ASSUME TypeOK, Serving, Sound(db), SessionEnd
  PROVE  /\ TypeOK' /\ Serving'
         /\ work' = db' /\ db' \in Ledger /\ job' = Idle /\ engine' = NoEngine
         /\ UNCHANGED answers
         /\ \/ Flagged(db, db') /\ db'.observations = db.observations
            \/ /\ db.version = 2 /\ db'.version = 2 /\ db'.ended
               /\ Sound(db') /\ Paid(db') = Paid(db)
               /\ db'.score = db.score /\ db'.watch = db.watch
               /\ db'.events = db.events /\ db'.disclosures = db.disclosures
               /\ db.observations \subseteq db'.observations
               /\ db'.subjects = Nulled(db.subjects)
               /\ db'.recipients = Nulled(db.recipients)
               /\ db'.available <=> db.available
<1>1. /\ up /\ job = Idle /\ key' = 0 /\ engine' = NoEngine
      /\ UNCHANGED <<job, process, up, drawn, answers>>
  BY DEF SessionEnd, DiscardIdentity
<1>2. db \in Ledger /\ db.version \in 0..2 /\ process \in 1..MaxProcesses
  BY <1>1 DEF TypeOK, Ledger, Serving
<1>3. CASE db.version = 0
  <2>1. db' = db /\ work' = db
    BY <1>3 DEF SessionEnd, Committed
  <2>2. TypeOK' /\ Serving'
    BY <1>1, <2>1, IdleIsJob DEF TypeOK, Serving
  <2> QED
    BY <1>1, <1>2, <2>1, <2>2, FlaggedSelf
<1>4. CASE db.version = 1
  <2> DEFINE L == [db EXCEPT !.ended = TRUE]
  <2>1. db' = L /\ work' = L
    BY <1>4 DEF SessionEnd, Committed
  <2>2. L \in Ledger /\ Flagged(db, L) /\ L.version = 1 /\ L.observations = db.observations
    BY <1>2, <1>4, EndedOnly DEF Flagged, RowsOnly
  <2> HIDE DEF L
  <2>3. TypeOK' /\ Serving'
    BY <1>1, <2>1, <2>2, IdleIsJob DEF TypeOK, Serving
  <2> QED
    BY <1>1, <1>2, <2>1, <2>2, <2>3
<1>5. CASE db.version = 2
  <2> DEFINE L == [db EXCEPT !.ended = TRUE]
             M == Observed(L, Lifecycle, FALSE)
             N == [M EXCEPT !.subjects = Nulled(M.subjects),
                            !.recipients = Nulled(M.recipients)]
             o == [delivery |-> Lifecycle, observer |-> process, gap |-> FALSE]
  <2>1. db' = N /\ work' = N
    BY <1>5 DEF SessionEnd, Committed, Erased
  <2>2. /\ L \in Ledger /\ RowsOnly(db, L) /\ L.ended /\ L.version = 2
        /\ L.observations = db.observations /\ L.watch = db.watch
    BY <1>2, <1>5, EndedOnly
  <2> HIDE DEF L
  <2>3. /\ M \in Ledger
        /\ M = [L EXCEPT !.observations = L.observations \cup {o}]
    BY <1>2, <2>2, ObservedFlags
  <2> HIDE DEF M
  <2>4. RowsOnly(L, M) /\ (M.ended <=> L.ended) /\ M.version = 2
        /\ M.watch = L.watch /\ L.observations \subseteq M.observations
    <3>1. \A X : LET Q == [L EXCEPT !.observations = X] IN
           /\ RowsOnly(L, Q) /\ (Q.ended <=> L.ended)
           /\ Q.version = L.version /\ Q.observations = X /\ Q.watch = L.watch
      BY ONLY <2>2, ObservationsOnly
    <3> HIDE DEF o
    <3> QED
      BY <3>1, <2>2, <2>3
  <2>5. /\ Nulled(db.subjects) \in Seq(Identity(Values)) /\ Table(Nulled(db.subjects), TRUE)
        /\ Alike(db.subjects, Nulled(db.subjects))
        /\ Nulled(db.recipients) \in Seq(Identity(Destinations))
        /\ Table(Nulled(db.recipients), TRUE) /\ Alike(db.recipients, Nulled(db.recipients))
    BY <1>2, NulledRows DEF Sound, Ledger
  <2>6. M.subjects = db.subjects /\ M.recipients = db.recipients
    BY <2>2, <2>4 DEF RowsOnly
  <2>7. /\ N \in Ledger
        /\ N.subjects = Nulled(db.subjects) /\ N.recipients = Nulled(db.recipients)
        /\ N.events = db.events /\ N.disclosures = db.disclosures /\ N.score = db.score
        /\ N.watch = db.watch /\ N.observations = M.observations /\ N.version = 2
        /\ N.ended = M.ended /\ N.available = M.available
    BY <2>2, <2>3, <2>4, <2>5, <2>6 DEF RowsOnly, Ledger
  <2> HIDE DEF N
  <2>8. N.ended /\ (N.available <=> db.available)
    <3>1. (N.ended <=> M.ended) /\ (N.available <=> M.available)
      BY ONLY <2>7, Zenon
    <3> QED
      BY <3>1, <2>2, <2>4 DEF RowsOnly
  <2>9. Sound(N) /\ Paid(N) = Paid(db)
    <3>1. Table(N.subjects, N.ended) /\ Table(N.recipients, N.ended)
      BY <2>5, <2>7, <2>8 DEF Table
    <3>2. db.observations \subseteq N.observations
      BY <2>2, <2>4, <2>7
    <3> QED
      BY <1>2, <2>5, <2>7, <3>1, <3>2, AlikeSound
  <2>10. TypeOK' /\ Serving'
    BY <1>1, <2>1, <2>7, IdleIsJob DEF TypeOK, Serving
  <2> QED
    BY <1>1, <1>5, <2>1, <2>2, <2>4, <2>7, <2>8, <2>9, <2>10
<1> QED
  BY <1>2, <1>3, <1>4, <1>5

-----------------------------------------------------------------------------
\* The transaction of a delivery

\* It opens with the observation row and nothing done.
LEMMA BeginKeeps ==
  ASSUME TypeOK, Serving, Sound(db), BeginRecord
  PROVE  /\ TypeOK' /\ Serving' /\ Sound(work)' /\ Recording'
         /\ Flagged(db, work')
         /\ job.at = "observing" /\ job'.at = "recording" /\ db' = db
         /\ UNCHANGED <<process, up, key, engine, drawn, answers>>
<1> DEFINE d == job.delivery
           gap == job.batch.gap
           o == [delivery |-> d, observer |-> process, gap |-> gap]
           W == db.observations \cup {o}
<1>1. /\ job.at = "observing" /\ Resolved /\ db.version = 2 /\ ~Recorded(db, d)
      /\ work' = Observed(db, d, gap) /\ job' = [job EXCEPT !.at = "recording"]
      /\ UNCHANGED <<db, process, up, key, engine, drawn, answers>>
  BY DEF BeginRecord, memory
<1>2. /\ job \in Jobs /\ job.delivery \in Deliveries /\ PairsApart(job.batch.findings)
      /\ job.done = 0 /\ job.delta = 0
  BY <1>1 DEF TypeOK, Jobs, Serving
<1>3. up /\ process \in 1..MaxProcesses /\ gap \in BOOLEAN /\ db \in Ledger
  BY <1>1, <1>2, IdleIsJob DEF Serving, Jobs, TypeOK
<1>4. /\ job' \in Jobs /\ job'.at = "recording" /\ job'.delivery = d
      /\ job'.batch = job.batch /\ job'.done = 0 /\ job'.delta = 0
  BY ONLY <1>1, <1>2, JobMoves DEF Steps
<1>5. work' \in Ledger /\ work' = [db EXCEPT !.observations = W]
  BY <1>1, <1>2, <1>3, ObservedFlags
<1>6. /\ RowsOnly(db, work') /\ (work'.ended <=> db.ended) /\ (work'.missed <=> db.missed)
      /\ work'.version = db.version /\ work'.observations = W /\ work'.watch = db.watch
  <2> HIDE DEF W
  <2> QED
    BY ONLY <1>3, <1>5, ObservationsOnly
<1>7. Flagged(db, work')
  <2>1. db.observations \subseteq work'.observations
    BY <1>6
  <2> HIDE DEF W
  <2> QED
    BY <1>1, <1>6, <2>1 DEF Flagged, RowsOnly
<1>8. Sound(work)'
  BY <1>3, <1>5, <1>7, FlaggedSound
<1>12. Paid(work') = Paid(db) + 0
  BY <1>3, <1>5, <1>7, FlaggedSound, PaidTyped
<1>9. Recording'
  <2>1. /\ work'.events = db.events /\ work'.disclosures = db.disclosures
        /\ work'.score = db.score /\ (work'.available <=> db.available)
    BY <1>6 DEF RowsOnly
  <2>2. Len(db.events) \in Nat /\ Len(db.disclosures) \in Nat
    BY <1>3 DEF Ledger
  <2>3. NewEvents' = {} /\ NewDisclosures' = {}
    BY <1>1, <2>1, <2>2 DEF NewEvents, NewDisclosures
  <2>4. SumFunctionOnSet(Deltas(work'), NewDisclosures') = 0
    BY <2>3, SumOfNothing
  <2>5. db.ended \/ Registered'
    BY <1>1 DEF Resolved, Registered
  <2>6. Len(job.batch.findings) \in Nat
    BY <1>2 DEF Jobs
  <2>7. RowsKept(db.events, work'.events) /\ RowsKept(db.disclosures, work'.disclosures)
    BY <2>1, <2>2 DEF RowsKept
  <2> HIDE DEF d, gap
  <2>8. work'.observations = db.observations \cup
           {[delivery |-> job'.delivery, observer |-> process', gap |-> job'.batch.gap]}
    BY <1>1, <1>4, <1>6 DEF gap
  <2> QED
    BY <1>1, <1>4, <1>6, <1>12, <2>1, <2>2, <2>3, <2>4, <2>5, <2>6, <2>7, <2>8 DEF Recording
<1>10. TypeOK'
  BY <1>1, <1>4, <1>5 DEF TypeOK, Jobs
<1>11. Serving'
  BY <1>1, <1>2, <1>3, <1>4, IdleIsJob DEF Serving
<1> QED
  BY <1>1, <1>4, <1>7, <1>8, <1>9, <1>10, <1>11

-----------------------------------------------------------------------------
\* One more event

LEMMA LedgerTyped ==
  ASSUME NEW L \in Ledger
  PROVE  /\ Len(L.subjects) \in Nat /\ Len(L.recipients) \in Nat
         /\ Len(L.events) \in Nat /\ Len(L.disclosures) \in Nat
         /\ \A i \in 1..Len(L.subjects) : L.subjects[i] \in Identity(Values)
         /\ \A i \in 1..Len(L.recipients) : L.recipients[i] \in Identity(Destinations)
         /\ \A i \in 1..Len(L.events) : L.events[i] \in Event
         /\ \A i \in 1..Len(L.disclosures) : L.disclosures[i] \in Disclosure
<1>1. /\ L.subjects \in Seq(Identity(Values)) /\ L.recipients \in Seq(Identity(Destinations))
      /\ L.events \in Seq(Event) /\ L.disclosures \in Seq(Disclosure)
  BY DEF Ledger
<1> QED
  BY ONLY <1>1

\* M is L with an event of delivery d for finding f, about rows s and r.
Extends(L, M, d, f, s, r) ==
    /\ L.version = 2 /\ M.version = 2 /\ M.observations = L.observations
    /\ RowsKept(L.subjects, M.subjects) /\ RowsKept(L.recipients, M.recipients)
    /\ Table(M.subjects, M.ended) /\ Table(M.recipients, M.ended)
    /\ s \in 1..Len(M.subjects) /\ M.subjects[s].of = f.value
    /\ r \in 1..Len(M.recipients) /\ M.recipients[r].of = f.to
    /\ Len(M.events) = Len(L.events) + 1 /\ RowsKept(L.events, M.events)
    /\ LET e == M.events[Len(L.events) + 1] IN
       /\ e.delivery = d /\ e.subject = s /\ e.recipient = r
       /\ e.type = f.type /\ e.value = f.value /\ e.to = f.to
       /\ e.confirmed <=> f.confirmed

Owes(M, f, s, r) ==
    f.confirmed /\ M.subjects[s].resolved /\ M.recipients[r].resolved

\* It owes nothing that was not charged before, or it is charged now.
NothingNew(L, M, f, s, r) ==
    /\ M.disclosures = L.disclosures
    /\ Owes(M, f, s, r) => Disclosed(L, s, r)
Charges(L, M, f, s, r) ==
    /\ Owes(M, f, s, r) /\ ~Disclosed(L, s, r)
    /\ Len(M.disclosures) = Len(L.disclosures) + 1
    /\ RowsKept(L.disclosures, M.disclosures)
    /\ LET x == M.disclosures[Len(L.disclosures) + 1]
           n == Cardinality(Group(L, f.type, r)) IN
       /\ x.event = Len(L.events) + 1 /\ x.subject = s /\ x.recipient = r
       /\ x.type = f.type /\ x.n = n + 1 /\ x.delta = NextDelta(f.type, n)

LEMMA EventAddsTold ==
  ASSUME NEW L \in Ledger, NEW M \in Ledger, NEW d, NEW f, NEW s, NEW r,
         EventsTold(L), Extends(L, M, d, f, s, r), Recorded(L, d),
         \A i \in 1..Len(L.events) :
            ~(/\ L.events[i].delivery = d /\ L.events[i].subject = s
              /\ L.events[i].recipient = r)
  PROVE  EventsTold(M)
<1> DEFINE n == Len(L.events)
<1>1. /\ n \in Nat /\ Len(L.subjects) \in Nat /\ Len(L.recipients) \in Nat
      /\ Len(M.subjects) \in Nat /\ Len(M.recipients) \in Nat
  BY LedgerTyped
<1>2. /\ Len(M.events) = n + 1 /\ \A i \in 1..n : M.events[i] = L.events[i]
      /\ M.events[n + 1].delivery = d /\ M.events[n + 1].subject = s
      /\ M.events[n + 1].recipient = r /\ M.events[n + 1].value = f.value
      /\ M.events[n + 1].to = f.to
  BY DEF Extends, RowsKept
<1>3. \A x : Recorded(L, x) => Recorded(M, x)
  BY DEF Extends, Recorded
<1>4. Told(M, M.events[n + 1])
  BY <1>2, <1>3 DEF Extends, Told
<1>5. ASSUME NEW i \in 1..n PROVE Told(M, M.events[i])
  <2>1. Told(L, L.events[i]) /\ M.events[i] = L.events[i]
    BY <1>2 DEF EventsTold
  <2>2. /\ Len(L.subjects) <= Len(M.subjects) /\ Len(L.recipients) <= Len(M.recipients)
        /\ \A j \in 1..Len(L.subjects) : M.subjects[j] = L.subjects[j]
        /\ \A j \in 1..Len(L.recipients) : M.recipients[j] = L.recipients[j]
    BY DEF Extends, RowsKept
  <2>3. /\ L.events[i].subject \in 1..Len(M.subjects)
        /\ L.events[i].recipient \in 1..Len(M.recipients)
    BY <1>1, <2>1, <2>2 DEF Told
  <2> QED
    BY <1>3, <2>1, <2>2, <2>3 DEF Told
<1>6. ASSUME NEW i \in 1..(n + 1), NEW j \in 1..(n + 1),
             M.events[i].delivery = M.events[j].delivery,
             M.events[i].subject = M.events[j].subject,
             M.events[i].recipient = M.events[j].recipient
      PROVE  i = j
  <2>1. (i \in 1..n \/ i = n + 1) /\ (j \in 1..n \/ j = n + 1)
    BY <1>1
  <2> HIDE DEF n
  <2>2. CASE i \in 1..n /\ j \in 1..n
    BY <1>2, <1>6, <2>2 DEF EventsTold, n
  <2>3. CASE i \in 1..n /\ j = n + 1
    BY <1>2, <1>6, <2>3 DEF n
  <2>4. CASE i = n + 1 /\ j \in 1..n
    BY <1>2, <1>6, <2>4 DEF n
  <2> QED
    BY <2>1, <2>2, <2>3, <2>4
<1>7. \A i \in 1..(n + 1) : Told(M, M.events[i])
  <2>1. \A i \in 1..(n + 1) : i \in 1..n \/ i = n + 1
    BY <1>1
  <2> HIDE DEF n
  <2> QED
    BY <1>4, <1>5, <2>1
<1> QED
  BY <1>2, <1>6, <1>7 DEF EventsTold

\* What the disclosures that were there say of the extended ledger.
LEMMA ChargingKept ==
  ASSUME NEW L \in Ledger, NEW M \in Ledger, NEW d, NEW f, NEW s, NEW r,
         EventsTold(L), Extends(L, M, d, f, s, r),
         NEW x, Charging(L, x)
  PROVE  /\ x.event \in 1..Len(M.events) /\ x.event <= Len(L.events)
         /\ M.events[x.event].confirmed /\ M.events[x.event].type = x.type
         /\ M.events[x.event].subject = x.subject
         /\ M.events[x.event].recipient = x.recipient
         /\ M.events[x.event] = L.events[x.event]
         /\ x.subject \in 1..Len(L.subjects) /\ M.subjects[x.subject] = L.subjects[x.subject]
         /\ x.recipient \in 1..Len(L.recipients)
         /\ M.recipients[x.recipient] = L.recipients[x.recipient]
         /\ M.subjects[x.subject].resolved /\ M.recipients[x.recipient].resolved
         /\ x.n <= Cardinality(Group(M, x.type, x.recipient)) => Charging(M, x)
<1>1. /\ Len(L.subjects) \in Nat /\ Len(L.recipients) \in Nat /\ Len(L.events) \in Nat
      /\ Len(M.subjects) \in Nat /\ Len(M.recipients) \in Nat
  BY LedgerTyped
<1>2. x.event \in 1..Len(L.events) /\ Told(L, L.events[x.event])
  BY DEF Charging, EventsTold
<1>3. M.events[x.event] = L.events[x.event] /\ Len(M.events) = Len(L.events) + 1
  BY <1>2 DEF Extends, RowsKept
<1>4. x.subject \in 1..Len(L.subjects) /\ x.recipient \in 1..Len(L.recipients)
  BY <1>2 DEF Told, Charging
<1>5. /\ M.subjects[x.subject] = L.subjects[x.subject]
      /\ M.recipients[x.recipient] = L.recipients[x.recipient]
  BY <1>4 DEF Extends, RowsKept
<1> QED
  BY <1>1, <1>2, <1>3, <1>4, <1>5 DEF Charging

LEMMA GroupsFinite ==
  ASSUME NEW L \in Ledger, NEW t, NEW r
  PROVE  IsFiniteSet(Group(L, t, r)) /\ Cardinality(Group(L, t, r)) \in Nat
<1>1. Len(L.disclosures) \in Nat /\ 1 \in Nat
  BY LedgerTyped
<1>2. Group(L, t, r) \subseteq 1..Len(L.disclosures)
  BY DEF Group
<1>3. IsFiniteSet(Group(L, t, r))
  BY ONLY <1>1, <1>2, IndicesFinite
<1> QED
  BY ONLY <1>3, FS_CardinalityType

LEMMA EventAddsByThen ==
  ASSUME NEW L \in Ledger, NEW M \in Ledger, NEW d, NEW f, NEW s, NEW r,
         EventsTold(L), ChargedOnce(L), ChargedByThen(L), Extends(L, M, d, f, s, r),
         NothingNew(L, M, f, s, r) \/ Charges(L, M, f, s, r)
  PROVE  ChargedByThen(M)
<1> DEFINE n == Len(L.events)
<1>1. /\ n \in Nat /\ Len(L.subjects) \in Nat /\ Len(L.recipients) \in Nat
      /\ Len(L.disclosures) \in Nat
  BY LedgerTyped
<1>2. /\ Len(M.events) = n + 1 /\ \A i \in 1..n : M.events[i] = L.events[i]
      /\ M.events[n + 1].subject = s /\ M.events[n + 1].recipient = r
      /\ M.events[n + 1].confirmed <=> f.confirmed
  BY DEF Extends, RowsKept
<1>3. /\ \A i \in 1..Len(L.disclosures) : i \in 1..Len(M.disclosures)
                                          /\ M.disclosures[i] = L.disclosures[i]
  BY <1>1 DEF NothingNew, Charges, RowsKept
<1>4. ASSUME NEW j \in 1..n, M.events[j].confirmed,
             M.subjects[M.events[j].subject].resolved,
             M.recipients[M.events[j].recipient].resolved
      PROVE  \E i \in 1..Len(M.disclosures) :
                /\ SamePairOfRows(M.disclosures[i], M.events[j])
                /\ M.disclosures[i].event <= j
  <2>1. Told(L, L.events[j]) /\ M.events[j] = L.events[j]
    BY <1>2 DEF EventsTold
  <2>2. /\ M.subjects[L.events[j].subject] = L.subjects[L.events[j].subject]
        /\ M.recipients[L.events[j].recipient] = L.recipients[L.events[j].recipient]
    BY <2>1 DEF Told, Extends, RowsKept
  <2>3. PICK i \in 1..Len(L.disclosures) :
            /\ SamePairOfRows(L.disclosures[i], L.events[j])
            /\ L.disclosures[i].event <= j
    BY <1>4, <2>1, <2>2 DEF ChargedByThen
  <2> QED
    BY <1>3, <2>1, <2>3
<1>5. ASSUME Owes(M, f, s, r)
      PROVE  \E i \in 1..Len(M.disclosures) :
                /\ SamePairOfRows(M.disclosures[i], M.events[n + 1])
                /\ M.disclosures[i].event <= n + 1
  <2>1. CASE NothingNew(L, M, f, s, r)
    <3>1. PICK i \in 1..Len(L.disclosures) : /\ L.disclosures[i].subject = s
                                             /\ L.disclosures[i].recipient = r
      BY <1>5, <2>1 DEF NothingNew, Disclosed
    <3>2. Charging(L, L.disclosures[i])
      BY DEF ChargedOnce
    <3>3. L.disclosures[i].event <= n + 1
      BY <1>1, <3>2 DEF Charging
    <3> QED
      BY <1>2, <1>3, <3>1, <3>3 DEF SamePairOfRows
  <2>2. CASE Charges(L, M, f, s, r)
    <3> DEFINE i == Len(L.disclosures) + 1
    <3>1. i \in 1..Len(M.disclosures)
      BY <1>1, <2>2 DEF Charges
    <3>2. M.disclosures[i].subject = s /\ M.disclosures[i].recipient = r
          /\ M.disclosures[i].event = n + 1
      BY <2>2 DEF Charges
    <3>3. n + 1 <= n + 1
      BY <1>1
    <3> HIDE DEF i, n
    <3> QED
      BY <1>2, <3>1, <3>2, <3>3 DEF SamePairOfRows
  <2> QED
    BY <2>1, <2>2
<1>6. \A i \in 1..(n + 1) : i \in 1..n \/ i = n + 1
  BY <1>1
<1> HIDE DEF n
<1> QED
  BY <1>2, <1>4, <1>5, <1>6 DEF ChargedByThen, Owes

LEMMA ChargeGrowsGroup ==
  ASSUME NEW L \in Ledger, NEW M \in Ledger, NEW f, NEW s, NEW r,
         Charges(L, M, f, s, r)
  PROVE  /\ Group(M, f.type, r) = Group(L, f.type, r) \cup {Len(L.disclosures) + 1}
         /\ Cardinality(Group(M, f.type, r)) = Cardinality(Group(L, f.type, r)) + 1
         /\ \A t, q : t # f.type \/ q # r => Group(M, t, q) = Group(L, t, q)
<1> DEFINE m == Len(L.disclosures)
<1>1. m \in Nat
  BY LedgerTyped
<1>2. /\ Len(M.disclosures) = m + 1
      /\ \A i \in 1..m : M.disclosures[i] = L.disclosures[i]
      /\ M.disclosures[m + 1].type = f.type /\ M.disclosures[m + 1].recipient = r
  BY DEF Charges, RowsKept
<1>3. /\ \A i \in 1..(m + 1) : i \in 1..m \/ i = m + 1
      /\ \A i \in 1..m : i \in 1..(m + 1)
      /\ m + 1 \in 1..(m + 1) /\ m + 1 \notin 1..m
  BY <1>1
<1>4. Group(M, f.type, r) = Group(L, f.type, r) \cup {m + 1}
  <2> HIDE DEF m
  <2> QED
    BY <1>2, <1>3 DEF Group, m
<1>5. \A t, q : t # f.type \/ q # r => Group(M, t, q) = Group(L, t, q)
  <2> HIDE DEF m
  <2> QED
    BY <1>2, <1>3 DEF Group, m
<1>6. m + 1 \notin Group(L, f.type, r)
  BY <1>3 DEF Group
<1>7. IsFiniteSet(Group(L, f.type, r))
  BY GroupsFinite
<1> HIDE DEF m
<1>8. Cardinality(Group(M, f.type, r)) = Cardinality(Group(L, f.type, r)) + 1
  BY ONLY <1>4, <1>6, <1>7, FS_AddElement
<1> QED
  BY <1>4, <1>5, <1>8 DEF m

LEMMA EventAddsOnce ==
  ASSUME NEW L \in Ledger, NEW M \in Ledger, NEW d, NEW f, NEW s, NEW r,
         EventsTold(L), ChargedOnce(L), Extends(L, M, d, f, s, r),
         NothingNew(L, M, f, s, r) \/ Charges(L, M, f, s, r)
  PROVE  ChargedOnce(M)
<1> DEFINE m == Len(L.disclosures)
<1>1. m \in Nat /\ Len(L.events) \in Nat
  BY LedgerTyped
<1>2. \A t, q : Cardinality(Group(L, t, q)) \in Nat
  BY GroupsFinite
<1>3. CASE NothingNew(L, M, f, s, r)
  <2>1. M.disclosures = L.disclosures
    BY <1>3 DEF NothingNew
  <2>2. \A t, q : Group(M, t, q) = Group(L, t, q)
    BY <2>1 DEF Group
  <2>3. ASSUME NEW i \in 1..Len(M.disclosures) PROVE Charging(M, M.disclosures[i])
    <3>1. Charging(L, L.disclosures[i])
      BY <2>1 DEF ChargedOnce
    <3> QED
      <4> DEFINE x == L.disclosures[i]
      <4>1. x.n <= Cardinality(Group(M, x.type, x.recipient))
        BY <2>2, <3>1 DEF Charging
      <4>2. Charging(L, x)
        BY <3>1
      <4> HIDE DEF x
      <4>3. Charging(M, x)
        BY <4>1, <4>2, ChargingKept
      <4> QED
        BY <2>1, <4>3 DEF x
  <2> QED
    BY <2>1, <2>3 DEF ChargedOnce
<1>4. CASE Charges(L, M, f, s, r)
  <2>1. /\ Len(M.disclosures) = m + 1
        /\ \A i \in 1..m : M.disclosures[i] = L.disclosures[i]
    BY <1>4 DEF Charges, RowsKept
  <2> DEFINE x == M.disclosures[m + 1]
             n == Cardinality(Group(L, f.type, r))
  <2>2. /\ x.event = Len(L.events) + 1 /\ x.subject = s /\ x.recipient = r
        /\ x.type = f.type /\ x.n = n + 1 /\ Owes(M, f, s, r) /\ ~Disclosed(L, s, r)
    BY <1>4 DEF Charges
  <2>3. /\ Cardinality(Group(M, f.type, r)) = n + 1
        /\ \A t, q : t # f.type \/ q # r => Group(M, t, q) = Group(L, t, q)
    BY <1>4, ChargeGrowsGroup
  <2>4. n \in Nat /\ \A t, q : Cardinality(Group(L, t, q)) <= Cardinality(Group(M, t, q))
    BY <1>2, <2>3
  <2>5. \A t, q : Cardinality(Group(M, t, q)) \in Nat
    BY GroupsFinite
  <2> HIDE DEF x, n
  <2>6. Charging(M, x)
    <3>1. x.event \in 1..Len(M.events)
      BY <1>1, <2>2 DEF Extends
    <3>2. x.n <= Cardinality(Group(M, x.type, x.recipient))
      BY <2>2, <2>3, <2>4
    <3> QED
      BY <2>2, <3>1, <3>2 DEF Charging, Extends, Owes
  <2>7. ASSUME NEW i \in 1..m
        PROVE  Charging(M, M.disclosures[i])
    <3>1. Charging(L, L.disclosures[i]) /\ M.disclosures[i] = L.disclosures[i]
      BY <2>1 DEF ChargedOnce
    <3>2. L.disclosures[i].n <= Cardinality(Group(M, L.disclosures[i].type,
                                                     L.disclosures[i].recipient))
      <4>1. L.disclosures[i].n \in Nat
        BY LedgerTyped DEF Disclosure
      <4> QED
        BY <1>2, <2>4, <2>5, <3>1, <4>1 DEF Charging
    <3> QED
      <4> DEFINE y == L.disclosures[i]
      <4>1. Charging(L, y) /\ y.n <= Cardinality(Group(M, y.type, y.recipient))
        BY <3>1, <3>2
      <4> HIDE DEF y
      <4>2. Charging(M, y)
        BY <4>1, ChargingKept
      <4> QED
        BY <3>1, <4>2 DEF y
  <2>8. ASSUME NEW i \in 1..m
        PROVE  ~SamePairOfRows(M.disclosures[i], x) /\ ~SamePairOfRows(x, M.disclosures[i])
               /\ ~SamePlace(M.disclosures[i], x) /\ ~SamePlace(x, M.disclosures[i])
    <3>1. Charging(L, L.disclosures[i]) /\ M.disclosures[i] = L.disclosures[i]
          /\ L.disclosures[i].n \in Nat
      BY <2>1, LedgerTyped DEF ChargedOnce, Disclosure
    <3>2. ~(L.disclosures[i].subject = s /\ L.disclosures[i].recipient = r)
      BY <2>2 DEF Disclosed
    <3>3. L.disclosures[i].type = f.type /\ L.disclosures[i].recipient = r
             => L.disclosures[i].n # n + 1
      BY <2>4, <3>1 DEF Charging, n
    <3> QED
      BY <2>2, <3>1, <3>2, <3>3 DEF SamePairOfRows, SamePlace
  <2>9. \A i \in 1..(m + 1) : i \in 1..m \/ i = m + 1
    BY <1>1
  <2>10. \A i, j \in 1..m :
          SamePairOfRows(M.disclosures[i], M.disclosures[j])
          \/ SamePlace(M.disclosures[i], M.disclosures[j]) => i = j
    BY <2>1 DEF ChargedOnce
  <2> HIDE DEF m
  <2>11. \A i \in 1..(m + 1) : Charging(M, M.disclosures[i])
    BY <2>6, <2>7, <2>9 DEF x
  <2>12. ASSUME NEW i \in 1..(m + 1), NEW j \in 1..(m + 1),
                SamePairOfRows(M.disclosures[i], M.disclosures[j])
                \/ SamePlace(M.disclosures[i], M.disclosures[j])
         PROVE  i = j
    BY <2>8, <2>9, <2>10, <2>12 DEF x
  <2> QED
    BY <2>1, <2>11, <2>12 DEF ChargedOnce
<1> QED
  BY <1>3, <1>4

-----------------------------------------------------------------------------
\* What the charges are worth

\* The charge of disclosure i, by what it is really about.
ChargeOf(L, i) ==
    [value |-> EventOf(L, L.disclosures[i]).value,
     to |-> EventOf(L, L.disclosures[i]).to, type |-> L.disclosures[i].type]
Tables(L) == Table(L.subjects, L.ended) /\ Table(L.recipients, L.ended)

LEMMA ChargesApart ==
  ASSUME NEW L \in Ledger, EventsTold(L), ChargedOnce(L), Tables(L)
  PROVE  /\ \A i \in 1..Len(L.disclosures) :
               /\ ChargeOf(L, i).value \in Values /\ ChargeOf(L, i).to \in Destinations
               /\ ChargeOf(L, i).type = L.disclosures[i].type
               /\ L.disclosures[i].type \in DataTypes
               /\ L.disclosures[i].subject \in 1..Len(L.subjects)
               /\ L.subjects[L.disclosures[i].subject].resolved
               /\ ChargeOf(L, i).value = L.subjects[L.disclosures[i].subject].of
         /\ \A i, j \in 1..Len(L.disclosures) :
               ChargeOf(L, i).to = ChargeOf(L, j).to
                  <=> L.disclosures[i].recipient = L.disclosures[j].recipient
         /\ \A i, j \in 1..Len(L.disclosures) :
               /\ ChargeOf(L, i).value = ChargeOf(L, j).value
               /\ ChargeOf(L, i).to = ChargeOf(L, j).to
               => i = j
<1>1. ASSUME NEW i \in 1..Len(L.disclosures)
      PROVE  LET x == L.disclosures[i] IN
             /\ ChargeOf(L, i).value \in Values /\ ChargeOf(L, i).to \in Destinations
             /\ ChargeOf(L, i).type = x.type /\ x.type \in DataTypes
             /\ x.subject \in 1..Len(L.subjects) /\ x.recipient \in 1..Len(L.recipients)
             /\ L.subjects[x.subject].resolved /\ L.recipients[x.recipient].resolved
             /\ ChargeOf(L, i).value = L.subjects[x.subject].of
             /\ ChargeOf(L, i).to = L.recipients[x.recipient].of
  <2> DEFINE x == L.disclosures[i]
             e == L.events[x.event]
  <2>1. Charging(L, x) /\ x \in Disclosure
    BY LedgerTyped DEF ChargedOnce
  <2>2. x.event \in 1..Len(L.events)
    BY <2>1 DEF Charging
  <2>3. Told(L, e) /\ e \in Event
    BY <2>2, LedgerTyped DEF EventsTold
  <2>4. ChargeOf(L, i).value = e.value /\ ChargeOf(L, i).to = e.to
        /\ ChargeOf(L, i).type = x.type
    BY DEF ChargeOf, EventOf
  <2> HIDE DEF x
  <2>5. e.subject = x.subject /\ e.recipient = x.recipient
        /\ L.subjects[x.subject].resolved /\ L.recipients[x.recipient].resolved
    BY <2>1 DEF Charging
  <2>6. e.value \in Values /\ e.to \in Destinations /\ x.type \in DataTypes
    BY <2>1, <2>3 DEF Event, Disclosure
  <2> HIDE DEF e
  <2>7. /\ x.subject \in 1..Len(L.subjects) /\ x.recipient \in 1..Len(L.recipients)
        /\ e.value = L.subjects[x.subject].of /\ e.to = L.recipients[x.recipient].of
    BY <2>3, <2>5 DEF Told
  <2>8. /\ ChargeOf(L, i).value \in Values /\ ChargeOf(L, i).to \in Destinations
        /\ ChargeOf(L, i).type = x.type /\ x.type \in DataTypes
        /\ x.subject \in 1..Len(L.subjects) /\ x.recipient \in 1..Len(L.recipients)
        /\ L.subjects[x.subject].resolved /\ L.recipients[x.recipient].resolved
        /\ ChargeOf(L, i).value = L.subjects[x.subject].of
        /\ ChargeOf(L, i).to = L.recipients[x.recipient].of
    BY ONLY <2>4, <2>5, <2>6, <2>7
  <2> QED
    BY ONLY <2>8 DEF x
<1>2. ASSUME NEW i \in 1..Len(L.disclosures), NEW j \in 1..Len(L.disclosures)
      PROVE  ChargeOf(L, i).to = ChargeOf(L, j).to
                  <=> L.disclosures[i].recipient = L.disclosures[j].recipient
  <2> DEFINE p == L.disclosures[i].recipient
             q == L.disclosures[j].recipient
  <2>1. /\ p \in 1..Len(L.recipients) /\ L.recipients[p].resolved
        /\ ChargeOf(L, i).to = L.recipients[p].of
        /\ q \in 1..Len(L.recipients) /\ L.recipients[q].resolved
        /\ ChargeOf(L, j).to = L.recipients[q].of
    BY <1>1
  <2> HIDE DEF p, q
  <2>2. L.recipients[p].of = L.recipients[q].of => p = q
    BY <2>1 DEF Tables, Table
  <2> QED
    BY <2>1, <2>2 DEF p, q
<1>3. ASSUME NEW i \in 1..Len(L.disclosures), NEW j \in 1..Len(L.disclosures),
             ChargeOf(L, i).value = ChargeOf(L, j).value,
             ChargeOf(L, i).to = ChargeOf(L, j).to
      PROVE  i = j
  <2> DEFINE p == L.disclosures[i].subject
             q == L.disclosures[j].subject
  <2>3. /\ p \in 1..Len(L.subjects) /\ L.subjects[p].resolved
        /\ ChargeOf(L, i).value = L.subjects[p].of
        /\ q \in 1..Len(L.subjects) /\ L.subjects[q].resolved
        /\ ChargeOf(L, j).value = L.subjects[q].of
    BY <1>1
  <2>1. L.disclosures[i].subject = L.disclosures[j].subject
    <3> HIDE DEF p, q
    <3>1. p = q
      BY <1>3, <2>3 DEF Tables, Table
    <3> QED
      BY <3>1 DEF p, q
  <2>2. SamePairOfRows(L.disclosures[i], L.disclosures[j])
    BY <1>2, <1>3, <2>1 DEF SamePairOfRows
  <2> QED
    BY <2>2 DEF ChargedOnce
<1> QED
  BY <1>1, <1>2, <1>3

\* A group has room for the disclosure of a value it does not have.
LEMMA GroupHasRoom ==
  ASSUME NEW L \in Ledger, EventsTold(L), ChargedOnce(L), Tables(L),
         NEW S \in Seq(Identity(Values)), RowsKept(L.subjects, S), NEW e, Table(S, e),
         NEW s \in 1..Len(S), S[s].resolved, S[s].of \in Values,
         NEW r, ~Disclosed(L, s, r), NEW t \in DataTypes
  PROVE  /\ Cardinality(Group(L, t, r)) + 1 <= Cardinality(Values)
         /\ NextDelta(t, Cardinality(Group(L, t, r))) \in Nat
<1> DEFINE G == Group(L, t, r)
           V == Values \ {S[s].of}
           h == [i \in G |-> ChargeOf(L, i).value]
<1>1. G \subseteq 1..Len(L.disclosures)
  BY DEF Group
<1>2. ASSUME NEW i \in G PROVE ChargeOf(L, i).value \in V
  <2>1. /\ L.disclosures[i].recipient = r /\ ChargeOf(L, i).value \in Values
        /\ L.disclosures[i].subject \in 1..Len(L.subjects)
        /\ L.subjects[L.disclosures[i].subject].resolved
        /\ ChargeOf(L, i).value = L.subjects[L.disclosures[i].subject].of
    BY <1>1, ChargesApart DEF Group
  <2>2. /\ L.disclosures[i].subject \in 1..Len(S)
        /\ S[L.disclosures[i].subject] = L.subjects[L.disclosures[i].subject]
    <3>1. Len(L.subjects) \in Nat
      BY LedgerTyped
    <3>2. Len(S) \in Nat
      OBVIOUS
    <3> QED
      BY <2>1, <3>1, <3>2 DEF RowsKept
  <2>3. L.disclosures[i].subject # s
    BY <1>1, <2>1 DEF Disclosed
  <2>4. S[s].of # ChargeOf(L, i).value
    BY <2>1, <2>2, <2>3 DEF Table
  <2> QED
    BY <2>1, <2>4
<1>3. ASSUME NEW i \in G, NEW j \in G, ChargeOf(L, i).value = ChargeOf(L, j).value
      PROVE  i = j
  <2>1. /\ L.disclosures[i].recipient = L.disclosures[j].recipient
        /\ i \in 1..Len(L.disclosures) /\ j \in 1..Len(L.disclosures)
    BY DEF Group
  <2> QED
    BY <1>3, <2>1, ChargesApart
<1>4. h \in Injection(G, V)
  <2>1. h \in [G -> V]
    BY <1>2
  <2>2. \A i, j \in G : h[i] = h[j] => i = j
    BY <1>3
  <2> HIDE DEF h, G, V
  <2> QED
    BY <2>1, <2>2 DEF Injection, IsInjective
<1>5. IsFiniteSet(V) /\ Cardinality(V) = Cardinality(Values) - 1
  <2>1. IsFiniteSet(Values)
    BY FiniteAssumption
  <2> QED
    BY <2>1, FS_RemoveElement
<1>6. Cardinality(G) <= Cardinality(V)
  <2> HIDE DEF h, G, V
  <2> QED
    BY ONLY <1>4, <1>5, FS_Injection
<1>7. Cardinality(G) \in Nat /\ Cardinality(Values) \in Nat
  BY GroupsFinite, CountedValues
<1> DEFINE n == Cardinality(G)
           N == Cardinality(Values)
<1> HIDE DEF G, V, h
<1>8. n + 1 <= N /\ n \in Nat /\ N \in Nat
  BY <1>5, <1>6, <1>7
<1>9. NextDelta(t, n) \in Nat
  <2>1. n \in 0..N /\ n + 1 \in 0..N /\ n + 1 \in 1..N /\ (n + 1) - 1 = n
    BY ONLY <1>8
  <2>2. Score[t][n] \in Nat /\ Score[t][n + 1] \in Nat /\ Score[t][n] <= Score[t][n + 1]
    BY <2>1, ScoreAssumption
  <2> HIDE DEF n
  <2> QED
    BY <2>2 DEF NextDelta
<1> QED
  BY <1>8, <1>9 DEF G

\* A set of charges has a pair once, and counts those of a group.
Accounts(C) ==
    C \subseteq Account!Charges /\ \A c, g \in C : Account!SamePair(c, g) => c = g
OfGroup(C, t, q) == {c \in C : c.type = t /\ c.to = q}
Points(C) == [g \in DataTypes \X Destinations |->
                 Score[g[1]][Cardinality(OfGroup(C, g[1], g[2]))]]

\* The abstract account counts and adds as the session does.
LEMMA SameCardinality ==
  ASSUME NEW S PROVE Account!Cardinality(S) = Cardinality(S)
  BY DEF Account!Cardinality, Cardinality

LEMMA SameSum ==
  ASSUME NEW F, NEW S PROVE Account!SumFunctionOnSet(F, S) = SumFunctionOnSet(F, S)
  BY SumIsAdder DEF Account!SumFunctionOnSet, Account!FoldFunctionOnSet,
     Account!MapThenFoldSet, Adder, AddsUp, AnyOf

LEMMA WorthIsPoints ==
  ASSUME NEW C
  PROVE  Account!Worth(C) = SumFunctionOnSet(Points(C), DataTypes \X Destinations)
<1>1. \A t, q : Account!Cardinality({c \in C : c.type = t /\ c.to = q})
                 = Cardinality(OfGroup(C, t, q))
  BY SameCardinality DEF OfGroup
<1>2. Account!Worth(C) = Account!SumFunction(Points(C))
  BY <1>1 DEF Account!Worth, Points
<1>3. DOMAIN Points(C) = DataTypes \X Destinations
  BY DEF Points
<1> HIDE DEF Points
<1> QED
  BY <1>2, <1>3, SameSum DEF Account!SumFunction

LEMMA CountBounded ==
  ASSUME NEW C, Accounts(C), NEW t \in DataTypes, NEW q
  PROVE  /\ IsFiniteSet(OfGroup(C, t, q))
         /\ Cardinality(OfGroup(C, t, q)) \in 0..Cardinality(Values)
         /\ Score[t][Cardinality(OfGroup(C, t, q))] \in Nat
<1> DEFINE G == OfGroup(C, t, q)
           h == [c \in G |-> c.value]
<1>1. \A c \in G : c.value \in Values /\ c.type = t /\ c.to = q /\ c \in C
  BY DEF Accounts, Account!Charges, OfGroup
<1>2. \A c, g \in G : c.value = g.value => c = g
  BY <1>1 DEF Accounts, Account!SamePair
<1>3. h \in Injection(G, Values)
  <2>1. h \in [G -> Values]
    BY <1>1
  <2>2. \A c, g \in G : h[c] = h[g] => c = g
    BY <1>2
  <2> HIDE DEF h, G
  <2> QED
    BY <2>1, <2>2 DEF Injection, IsInjective
<1>4. IsFiniteSet(Values) /\ Cardinality(Values) \in Nat
  BY FiniteAssumption, CountedValues
<1> HIDE DEF h, G
<1>5. IsFiniteSet(G) /\ Cardinality(G) <= Cardinality(Values)
  BY ONLY <1>3, <1>4, FS_Injection
<1>6. Cardinality(G) \in Nat
  BY ONLY <1>5, FS_CardinalityType
<1>7. Cardinality(G) \in 0..Cardinality(Values)
  BY <1>4, <1>5, <1>6
<1>8. Score[t][Cardinality(G)] \in Nat
  BY <1>7, ScoreAssumption
<1> QED
  BY <1>5, <1>7, <1>8 DEF G

LEMMA WorthGrows ==
  ASSUME NEW C, NEW c, c \notin C, Accounts(C \cup {c})
  PROVE  Account!Worth(C \cup {c})
            = Account!Worth(C) + NextDelta(c.type, Cardinality(OfGroup(C, c.type, c.to)))
<1> DEFINE D == C \cup {c}
           K == DataTypes \X Destinations
           k == <<c.type, c.to>>
<1>1. Accounts(C) /\ Accounts(D) /\ c \in D
  BY DEF Accounts
<1>2. c.type \in DataTypes /\ c.to \in Destinations /\ k \in K
  BY <1>1 DEF Accounts, Account!Charges
<1>3. IsFiniteSet(K)
  BY FiniteAssumption, FS_Product
<1>4. ASSUME NEW g \in K
      PROVE  Points(C)[g] \in Int /\ Points(D)[g] \in Int
  <2>1. g[1] \in DataTypes /\ g[2] \in Destinations
    OBVIOUS
  <2> HIDE DEF D
  <2>2. /\ Score[g[1]][Cardinality(OfGroup(C, g[1], g[2]))] \in Nat
        /\ Score[g[1]][Cardinality(OfGroup(D, g[1], g[2]))] \in Nat
    BY <1>1, <2>1, CountBounded
  <2> QED
    BY <2>2 DEF Points
<1>5. ASSUME NEW g \in K \ {k} PROVE Points(C)[g] = Points(D)[g]
  <2>1. g = <<g[1], g[2]>> /\ g[1] \in DataTypes /\ g[2] \in Destinations
    OBVIOUS
  <2>2. ~(c.type = g[1] /\ c.to = g[2])
    BY <2>1
  <2>3. OfGroup(D, g[1], g[2]) = OfGroup(C, g[1], g[2])
    BY <2>2 DEF OfGroup
  <2> HIDE DEF D
  <2> QED
    BY <2>3 DEF Points
<1>6. OfGroup(D, c.type, c.to) = OfGroup(C, c.type, c.to) \cup {c}
  BY DEF OfGroup
<1>7. IsFiniteSet(OfGroup(C, c.type, c.to)) /\ c \notin OfGroup(C, c.type, c.to)
  <2>1. c \notin OfGroup(C, c.type, c.to)
    BY DEF OfGroup
  <2> QED
    BY <1>1, <1>2, <2>1, CountBounded
<1> DEFINE n == Cardinality(OfGroup(C, c.type, c.to))
<1>8. Cardinality(OfGroup(D, c.type, c.to)) = n + 1
  <2> HIDE DEF D
  <2> QED
    BY ONLY <1>6, <1>7, FS_AddElement
<1>9. Points(C)[k] = Score[c.type][n] /\ Points(D)[k] = Score[c.type][n + 1]
  <2>1. k[1] = c.type /\ k[2] = c.to
    OBVIOUS
  <2> HIDE DEF D, k
  <2> QED
    BY <1>2, <1>8, <2>1 DEF Points
<1>10. Points(C)[k] \in Int /\ Points(D)[k] \in Int
  BY <1>2, <1>4
<1> HIDE DEF D, K, k, n
<1>11. SumFunctionOnSet(Points(D), K)
          = SumFunctionOnSet(Points(C), K) - Points(C)[k] + Points(D)[k]
  BY ONLY <1>2, <1>3, <1>4, <1>5, SumOfChanged
<1>12. SumFunctionOnSet(Points(C), K) \in Int
  BY ONLY <1>3, <1>4, SumWithout
<1>13. SumFunctionOnSet(Points(D), K)
          = SumFunctionOnSet(Points(C), K) + (Score[c.type][n + 1] - Score[c.type][n])
  BY ONLY <1>9, <1>10, <1>11, <1>12
<1>14. /\ Account!Worth(C) = SumFunctionOnSet(Points(C), K)
       /\ Account!Worth(D) = SumFunctionOnSet(Points(D), K)
  BY WorthIsPoints DEF K
<1> QED
  BY <1>13, <1>14 DEF NextDelta, D, n

LEMMA ChargedAccounts ==
  ASSUME NEW L \in Ledger, EventsTold(L), ChargedOnce(L), Tables(L)
  PROVE  /\ Charged(L) = {ChargeOf(L, i) : i \in 1..Len(L.disclosures)}
         /\ Accounts(Charged(L))
<1>1. Charged(L) = {ChargeOf(L, i) : i \in 1..Len(L.disclosures)}
  BY DEF Charged, ChargeOf
<1>2. \A i \in 1..Len(L.disclosures) : ChargeOf(L, i) \in Account!Charges
  <2>1. \A i \in 1..Len(L.disclosures) :
           /\ ChargeOf(L, i).value \in Values /\ ChargeOf(L, i).to \in Destinations
           /\ ChargeOf(L, i).type \in DataTypes
    BY ChargesApart
  <2> QED
    BY <2>1 DEF ChargeOf, Account!Charges
<1>3. \A i, j \in 1..Len(L.disclosures) :
         Account!SamePair(ChargeOf(L, i), ChargeOf(L, j)) => i = j
  BY ChargesApart DEF Account!SamePair
<1> QED
  BY <1>1, <1>2, <1>3 DEF Accounts

LEMMA GroupIsCharges ==
  ASSUME NEW L \in Ledger, EventsTold(L), ChargedOnce(L), Tables(L),
         NEW k \in 1..Len(L.disclosures)
  PROVE  Cardinality(OfGroup(Charged(L), L.disclosures[k].type, ChargeOf(L, k).to))
            = Cardinality(Group(L, L.disclosures[k].type, L.disclosures[k].recipient))
<1> DEFINE t == L.disclosures[k].type
           G == Group(L, t, L.disclosures[k].recipient)
           O == OfGroup(Charged(L), t, ChargeOf(L, k).to)
           h == [i \in G |-> ChargeOf(L, i)]
<1>1. \A i \in G : i \in 1..Len(L.disclosures)
  BY DEF Group
<1>2. \A i \in 1..Len(L.disclosures) :
         i \in G <=> (ChargeOf(L, i).type = t /\ ChargeOf(L, i).to = ChargeOf(L, k).to)
  <2>1. ASSUME NEW i \in 1..Len(L.disclosures)
        PROVE  i \in G <=> (ChargeOf(L, i).type = t /\ ChargeOf(L, i).to = ChargeOf(L, k).to)
    <3>1. /\ ChargeOf(L, i).type = L.disclosures[i].type
          /\ ChargeOf(L, i).to = ChargeOf(L, k).to
                <=> L.disclosures[i].recipient = L.disclosures[k].recipient
      BY ChargesApart
    <3> QED
      BY <3>1 DEF Group
  <2> QED
    BY <2>1
<1>3. \A i, j \in G : ChargeOf(L, i) = ChargeOf(L, j) => i = j
  BY <1>1, ChargesApart
<1>4. /\ \A i \in G : ChargeOf(L, i) \in O
      /\ \A c \in O : \E i \in G : ChargeOf(L, i) = c
  BY <1>1, <1>2, ChargedAccounts DEF OfGroup
<1>5. h \in Bijection(G, O)
  <2>1. h \in [G -> O]
    BY <1>4
  <2>2. \A i \in G : h[i] = ChargeOf(L, i)
    OBVIOUS
  <2> HIDE DEF h, G, O
  <2> QED
    BY <1>3, <1>4, <2>1, <2>2 DEF Bijection, Injection, Surjection, IsInjective
<1>6. IsFiniteSet(G)
  BY GroupsFinite
<1> HIDE DEF h, G, O
<1>7. Cardinality(O) = Cardinality(G)
  BY ONLY <1>5, <1>6, FS_Bijection DEF ExistsBijection
<1> QED
  BY <1>7 DEF O, G

\* The disclosures an event shows.
ShownFor(L, i) == {j \in 1..Len(L.disclosures) : L.disclosures[j].event = i}

LEMMA DeltaShownTyped ==
  ASSUME NEW L \in Ledger, NEW i
  PROVE  /\ DeltaShown(L, i) = SumFunctionOnSet(Deltas(L), ShownFor(L, i))
         /\ DeltaShown(L, i) \in Nat /\ IsFiniteSet(ShownFor(L, i))
<1>1. Len(L.disclosures) \in Nat /\ 1 \in Nat
  BY LedgerTyped
<1>2. ShownFor(L, i) \subseteq 1..Len(L.disclosures)
  BY DEF ShownFor
<1>3. IsFiniteSet(ShownFor(L, i))
  BY ONLY <1>1, <1>2, IndicesFinite
<1>4. \A j \in ShownFor(L, i) : Deltas(L)[j] \in Nat
  BY <1>2, DeltasTyped
<1>5. SumFunctionOnSet(Deltas(L), ShownFor(L, i)) \in Nat
  BY ONLY <1>3, <1>4, SumOfNat
<1> QED
  BY <1>3, <1>5 DEF DeltaShown, ShownFor

\* A sum over the first numbers gains its last term.
LEMMA SumOfNext ==
  ASSUME NEW F, NEW G, NEW n \in Nat,
         \A i \in 1..n : F[i] \in Int /\ G[i] = F[i], G[n + 1] \in Int
  PROVE  SumFunctionOnSet(G, 1..(n + 1)) = SumFunctionOnSet(F, 1..n) + G[n + 1]
<1> DEFINE S == 1..n
<1>1. IsFiniteSet(S)
  BY FS_Interval
<1>2. 1..(n + 1) = S \cup {n + 1} /\ n + 1 \notin S
  OBVIOUS
<1>3. \A i \in S : F[i] \in Int /\ G[i] = F[i] /\ F[i] = G[i] /\ G[i] \in Int
  OBVIOUS
<1> HIDE DEF S
<1>4. SumFunctionOnSet(F, S) = SumFunctionOnSet(G, S)
  BY ONLY <1>1, <1>3, SumOfSame
<1> DEFINE y == n + 1
<1>5. y \notin S /\ G[y] \in Int
  BY <1>2
<1> HIDE DEF y
<1>6. SumFunctionOnSet(G, S \cup {y}) = SumFunctionOnSet(G, S) + G[y]
  BY ONLY <1>1, <1>3, <1>5, SumWith
<1> QED
  BY <1>2, <1>4, <1>6 DEF y, S

\* The events that were there show what they showed.
LEMMA ShownGrows ==
  ASSUME NEW L \in Ledger, NEW M \in Ledger, Len(M.events) = Len(L.events) + 1,
         NEW delta \in Int, DeltaShown(M, Len(L.events) + 1) = delta,
         \A i \in 1..Len(L.events) : DeltaShown(M, i) = DeltaShown(L, i)
  PROVE  SumFunctionOnSet(Shown(M), 1..Len(M.events))
            = SumFunctionOnSet(Shown(L), 1..Len(L.events)) + delta
<1> DEFINE n == Len(L.events)
<1>1. n \in Nat
  BY LedgerTyped
<1>2. \A i \in 1..n : Shown(L)[i] = DeltaShown(L, i) /\ Shown(L)[i] \in Int
  <2>1. ASSUME NEW i \in 1..n PROVE DeltaShown(L, i) \in Int
    BY DeltaShownTyped
  <2> QED
    BY <2>1 DEF Shown
<1>3. \A i \in 1..(n + 1) : Shown(M)[i] = DeltaShown(M, i)
  BY DEF Shown
<1>4. (\A i \in 1..n : i \in 1..(n + 1)) /\ n + 1 \in 1..(n + 1)
  BY <1>1
<1>5. \A i \in 1..n : Shown(L)[i] \in Int /\ Shown(M)[i] = Shown(L)[i]
  BY <1>2, <1>3, <1>4
<1>6. Shown(M)[n + 1] = delta
  BY <1>3, <1>4
<1> HIDE DEF n
<1>7. Shown(M)[n + 1] \in Int
  BY <1>6
<1>8. SumFunctionOnSet(Shown(M), 1..(n + 1))
         = SumFunctionOnSet(Shown(L), 1..n) + Shown(M)[n + 1]
  BY ONLY <1>1, <1>5, <1>7, SumOfNext
<1> QED
  BY <1>6, <1>8 DEF n

LEMMA NothingNewPriced ==
  ASSUME NEW L \in Ledger, NEW M \in Ledger, NEW d, NEW f, NEW s, NEW r,
         ChargedOnce(L), Priced(L), Extends(L, M, d, f, s, r),
         NothingNew(L, M, f, s, r)
  PROVE  Priced(M) /\ Paid(M) = Paid(L)
<1>1. M.disclosures = L.disclosures
  BY DEF NothingNew
<1>2. Deltas(M) = Deltas(L) /\ Paid(M) = Paid(L)
  BY <1>1 DEF Deltas, Paid
<1>3. \A i \in 1..Len(L.disclosures) : L.disclosures[i].event \in 1..Len(L.events)
  BY DEF ChargedOnce, Charging
<1>4. \A i \in 1..Len(L.disclosures) : EventOf(M, M.disclosures[i]) = EventOf(L, L.disclosures[i])
  BY <1>1, <1>3 DEF EventOf, Extends, RowsKept
<1>5. Charged(M) = Charged(L)
  BY <1>1, <1>4 DEF Charged
<1>6. \A i : ShownFor(M, i) = ShownFor(L, i)
  BY <1>1 DEF ShownFor
<1>7. \A i : DeltaShown(M, i) = DeltaShown(L, i)
  BY <1>2, <1>6, DeltaShownTyped
<1>8. ShownFor(L, Len(L.events) + 1) = {}
  <2>1. Len(L.events) \in Nat
    BY LedgerTyped
  <2> QED
    BY <1>3, <2>1 DEF ShownFor
<1>9. DeltaShown(M, Len(L.events) + 1) = 0
  BY <1>7, <1>8, DeltaShownTyped, SumOfNothing
<1>10. Len(M.events) = Len(L.events) + 1 /\ 0 \in Int
  BY DEF Extends
<1>11. SumFunctionOnSet(Shown(M), 1..Len(M.events))
          = SumFunctionOnSet(Shown(L), 1..Len(L.events)) + 0
  BY <1>7, <1>9, <1>10, ShownGrows
<1>12. Paid(L) = SumFunctionOnSet(Shown(L), 1..Len(L.events)) /\ Paid(L) \in Nat
  BY PaidTyped DEF Priced
<1>13. Paid(M) = SumFunctionOnSet(Shown(M), 1..Len(M.events))
  BY <1>2, <1>11, <1>12
<1>14. Paid(M) = Account!Worth(Charged(M))
  BY <1>2, <1>5 DEF Priced
<1> QED
  BY <1>2, <1>13, <1>14 DEF Priced

LEMMA ChargesPriced ==
  ASSUME NEW L \in Ledger, NEW M \in Ledger, NEW d, NEW f, NEW s, NEW r,
         ChargedOnce(L), Priced(L), Extends(L, M, d, f, s, r),
         Charges(L, M, f, s, r), EventsTold(M), ChargedOnce(M), Tables(M)
  PROVE  Priced(M) /\ Paid(M) = Paid(L) + M.disclosures[Len(M.disclosures)].delta
<1> DEFINE m == Len(L.disclosures)
           n == Cardinality(Group(L, f.type, r))
           x == M.disclosures[m + 1]
           delta == x.delta
           c == ChargeOf(M, m + 1)
<1>1. m \in Nat /\ Len(L.events) \in Nat
  BY LedgerTyped
<1>2. /\ Len(M.disclosures) = m + 1
      /\ \A i \in 1..m : M.disclosures[i] = L.disclosures[i]
      /\ x.event = Len(L.events) + 1 /\ x.type = f.type /\ x.recipient = r
      /\ delta = NextDelta(f.type, n)
  BY DEF Charges, RowsKept
<1>3. \A i \in 1..m : L.disclosures[i].event \in 1..Len(L.events)
  BY DEF ChargedOnce, Charging
<1>4. /\ \A i \in 1..(m + 1) : i \in 1..m \/ i = m + 1
      /\ \A i \in 1..m : i \in 1..(m + 1) /\ i # m + 1
      /\ m + 1 \in 1..(m + 1)
  BY <1>1
<1>5. /\ \A i \in 1..m : Deltas(M)[i] = Deltas(L)[i] /\ Deltas(L)[i] \in Int
      /\ Deltas(M)[m + 1] = delta /\ delta \in Nat
  <2>1. \A i \in 1..m : Deltas(L)[i] = L.disclosures[i].delta /\ Deltas(L)[i] \in Nat
    BY DeltasTyped
  <2>2. \A i \in 1..(m + 1) : Deltas(M)[i] = M.disclosures[i].delta /\ Deltas(M)[i] \in Nat
    BY <1>2, DeltasTyped
  <2> HIDE DEF m
  <2> QED
    BY <1>2, <1>4, <2>1, <2>2
<1>6. Paid(M) = Paid(L) + delta
  <2> HIDE DEF m, delta
  <2>1. \A i \in 1..m : Deltas(L)[i] \in Int /\ Deltas(M)[i] = Deltas(L)[i]
    BY <1>5
  <2>2. Deltas(M)[m + 1] \in Int
    BY <1>5
  <2>3. SumFunctionOnSet(Deltas(M), 1..(m + 1))
           = SumFunctionOnSet(Deltas(L), 1..m) + Deltas(M)[m + 1]
    BY ONLY <1>1, <2>1, <2>2, SumOfNext
  <2> QED
    BY <1>2, <1>5, <2>3 DEF Paid, m
<1>7. \A i \in 1..m : ChargeOf(M, i) = ChargeOf(L, i)
  BY <1>2, <1>3 DEF ChargeOf, EventOf, Extends, RowsKept
<1>8. Charged(M) = Charged(L) \cup {c} /\ c \notin Charged(L)
  <2>1. Charged(M) = {ChargeOf(M, i) : i \in 1..(m + 1)}
    BY <1>2 DEF Charged, ChargeOf
  <2>2. Charged(L) = {ChargeOf(L, i) : i \in 1..m}
    BY DEF Charged, ChargeOf
  <2>3. \A i \in 1..m : ChargeOf(M, i) # ChargeOf(M, m + 1)
    <3>1. \A i, j \in 1..(m + 1) : ChargeOf(M, i) = ChargeOf(M, j) => i = j
      BY <1>2, ChargesApart
    <3> HIDE DEF m
    <3> QED
      BY <1>4, <3>1
  <2> HIDE DEF m
  <2> QED
    BY <1>4, <1>7, <2>1, <2>2, <2>3
<1>9. Accounts(Charged(L) \cup {c})
  BY <1>8, ChargedAccounts
<1>10. c.type = f.type
  BY <1>2 DEF ChargeOf
<1> HIDE DEF c
<1>11. Cardinality(OfGroup(Charged(L), c.type, c.to)) = n
  <2>1. Cardinality(OfGroup(Charged(M), c.type, c.to)) = Cardinality(Group(M, f.type, r))
    <3>1. m + 1 \in 1..Len(M.disclosures)
      BY <1>2, <1>4
    <3>2. Cardinality(OfGroup(Charged(M), x.type, ChargeOf(M, m + 1).to))
             = Cardinality(Group(M, x.type, x.recipient))
      BY <3>1, GroupIsCharges
    <3> QED
      BY <1>2, <1>10, <3>2 DEF c
  <2>2. Cardinality(Group(M, f.type, r)) = n + 1
    BY ChargeGrowsGroup
  <2>3. OfGroup(Charged(M), c.type, c.to) = OfGroup(Charged(L), c.type, c.to) \cup {c}
        /\ c \notin OfGroup(Charged(L), c.type, c.to)
    BY <1>8 DEF OfGroup
  <2>4. Accounts(Charged(L)) /\ c.type \in DataTypes
    BY <1>9 DEF Accounts, Account!Charges
  <2>5. IsFiniteSet(OfGroup(Charged(L), c.type, c.to))
        /\ Cardinality(OfGroup(Charged(L), c.type, c.to)) \in Nat
    BY <2>4, CountBounded, CountedValues
  <2>6. Cardinality(OfGroup(Charged(L), c.type, c.to) \cup {c})
           = Cardinality(OfGroup(Charged(L), c.type, c.to)) + 1
    BY ONLY <2>3, <2>5, FS_AddElement
  <2>7. n \in Nat
    BY GroupsFinite
  <2> HIDE DEF n
  <2> QED
    BY <2>1, <2>2, <2>3, <2>5, <2>6, <2>7
<1>12. Account!Worth(Charged(M)) = Account!Worth(Charged(L)) + delta
  BY <1>2, <1>8, <1>9, <1>10, <1>11, WorthGrows
<1>13. /\ \A i \in 1..Len(L.events) : ShownFor(M, i) = ShownFor(L, i)
       /\ ShownFor(M, Len(L.events) + 1) = {m + 1}
  <2>1. \A i \in 1..Len(L.events) : i # Len(L.events) + 1
    BY <1>1
  <2> HIDE DEF m
  <2>2. ASSUME NEW i \in 1..Len(L.events) PROVE ShownFor(M, i) = ShownFor(L, i)
    BY <1>2, <1>4, <2>1 DEF ShownFor, m
  <2>3. ShownFor(M, Len(L.events) + 1) = {m + 1}
    BY <1>2, <1>3, <1>4, <2>1 DEF ShownFor
  <2> QED
    BY <2>2, <2>3
<1>14. \A i \in 1..Len(L.events) : DeltaShown(M, i) = DeltaShown(L, i)
  <2>1. ASSUME NEW i \in 1..Len(L.events) PROVE DeltaShown(M, i) = DeltaShown(L, i)
    <3> DEFINE S == ShownFor(L, i)
    <3>1. /\ DeltaShown(M, i) = SumFunctionOnSet(Deltas(M), S)
          /\ DeltaShown(L, i) = SumFunctionOnSet(Deltas(L), S) /\ IsFiniteSet(S)
      BY <1>13, DeltaShownTyped
    <3>2. \A j \in S : Deltas(M)[j] = Deltas(L)[j]
      BY <1>5 DEF ShownFor
    <3> HIDE DEF S
    <3> QED
      BY <3>1, <3>2, SumOfSame
  <2> QED
    BY <2>1
<1>15. DeltaShown(M, Len(L.events) + 1) = delta
  <2>1. DeltaShown(M, Len(L.events) + 1) = SumFunctionOnSet(Deltas(M), {m + 1})
    BY <1>13, DeltaShownTyped
  <2> DEFINE y == m + 1
             E == {}
  <2>2. IsFiniteSet(E) /\ y \notin E /\ E \cup {y} = {y} /\ \A j \in E : Deltas(M)[j] \in Int
    BY FS_EmptySet
  <2>3. Deltas(M)[y] = delta /\ delta \in Int
    BY <1>5
  <2> HIDE DEF E, y, delta
  <2>4. SumFunctionOnSet(Deltas(M), E \cup {y}) = SumFunctionOnSet(Deltas(M), E) + Deltas(M)[y]
    BY <2>2, <2>3, SumWith
  <2>5. SumFunctionOnSet(Deltas(M), E) = 0
    BY SumOfNothing DEF E
  <2> QED
    <3>1. SumFunctionOnSet(Deltas(M), {y}) = delta
      BY ONLY <2>2, <2>3, <2>4, <2>5
    <3> QED
      BY <2>1, <3>1 DEF y
<1>16. SumFunctionOnSet(Shown(M), 1..Len(M.events))
          = SumFunctionOnSet(Shown(L), 1..Len(L.events)) + delta
  <2>1. Len(M.events) = Len(L.events) + 1 /\ delta \in Int
    BY <1>5 DEF Extends
  <2> HIDE DEF delta
  <2> QED
    BY <1>14, <1>15, <2>1, ShownGrows
<1>17. Priced(M)
  BY <1>6, <1>12, <1>16 DEF Priced
<1> QED
  BY <1>2, <1>6, <1>17

LEMMA EventSound ==
  ASSUME NEW L \in Ledger, NEW M \in Ledger, NEW d, NEW f, NEW s, NEW r,
         Sound(L), Extends(L, M, d, f, s, r), Recorded(L, d),
         \A i \in 1..Len(L.events) :
            ~(/\ L.events[i].delivery = d /\ L.events[i].subject = s
              /\ L.events[i].recipient = r),
         NothingNew(L, M, f, s, r) \/ Charges(L, M, f, s, r)
  PROVE  /\ Sound(M)
         /\ NothingNew(L, M, f, s, r) => Paid(M) = Paid(L)
         /\ Charges(L, M, f, s, r) =>
               Paid(M) = Paid(L) + M.disclosures[Len(M.disclosures)].delta
<1>1. EventsTold(M)
  BY EventAddsTold DEF Sound
<1>2. ChargedOnce(M)
  BY EventAddsOnce DEF Sound
<1>3. ChargedByThen(M)
  BY EventAddsByThen DEF Sound
<1>4. Tables(M)
  BY DEF Extends, Tables
<1>5. /\ Priced(M)
      /\ NothingNew(L, M, f, s, r) => Paid(M) = Paid(L)
      /\ Charges(L, M, f, s, r) =>
            Paid(M) = Paid(L) + M.disclosures[Len(M.disclosures)].delta
  BY <1>1, <1>2, <1>4, NothingNewPriced, ChargesPriced DEF Sound
<1>6. Blank(M)
  BY DEF Extends, Blank
<1> QED
  BY <1>1, <1>2, <1>3, <1>4, <1>5, <1>6 DEF Sound, Tables

-----------------------------------------------------------------------------
\* The steps that record

\* What a write of rows leaves alone.
FlagsKept(L, M) ==
    /\ M.version = L.version /\ M.score = L.score /\ M.watch = L.watch
    /\ M.observations = L.observations
    /\ M.available <=> L.available
    /\ M.ended <=> L.ended
    /\ M.missed <=> L.missed

WithRows(L, S, R, E) == [L EXCEPT !.subjects = S, !.recipients = R, !.events = E]

LEMMA RowsWritten ==
  ASSUME NEW L \in Ledger, NEW S \in Seq(Identity(Values)),
         NEW R \in Seq(Identity(Destinations)), NEW E \in Seq(Event)
  PROVE  LET M == WithRows(L, S, R, E) IN
         /\ M \in Ledger /\ FlagsKept(L, M) /\ M.disclosures = L.disclosures
         /\ M.subjects = S /\ M.recipients = R /\ M.events = E
<1> DEFINE M == WithRows(L, S, R, E)
<1>1. M \in Ledger
  BY DEF Ledger, WithRows
<1>2. /\ M.version = L.version /\ M.score = L.score /\ M.watch = L.watch
      /\ M.observations = L.observations /\ M.disclosures = L.disclosures
      /\ M.subjects = S /\ M.recipients = R /\ M.events = E
  BY DEF Ledger, WithRows
<1>3. M.available = L.available /\ M.ended = L.ended /\ M.missed = L.missed
  BY DEF Ledger, WithRows
<1> HIDE DEF M
<1>4. (M.available <=> L.available) /\ (M.ended <=> L.ended) /\ (M.missed <=> L.missed)
  BY ONLY <1>3, Zenon
<1>5. /\ M \in Ledger /\ FlagsKept(L, M) /\ M.disclosures = L.disclosures
      /\ M.subjects = S /\ M.recipients = R /\ M.events = E
  BY ONLY <1>1, <1>2, <1>4 DEF FlagsKept
<1> QED
  BY ONLY <1>5 DEF M

LEMMA DisclosureWritten ==
  ASSUME NEW L \in Ledger, NEW D \in Seq(Disclosure)
  PROVE  LET M == [L EXCEPT !.disclosures = D] IN
         /\ M \in Ledger /\ FlagsKept(L, M) /\ M.disclosures = D
         /\ M.subjects = L.subjects /\ M.recipients = L.recipients /\ M.events = L.events
<1> DEFINE M == [L EXCEPT !.disclosures = D]
<1>1. M \in Ledger
  BY DEF Ledger
<1>2. /\ M.version = L.version /\ M.score = L.score /\ M.watch = L.watch
      /\ M.observations = L.observations /\ M.disclosures = D
      /\ M.subjects = L.subjects /\ M.recipients = L.recipients /\ M.events = L.events
  BY DEF Ledger
<1>3. M.available = L.available /\ M.ended = L.ended /\ M.missed = L.missed
  BY DEF Ledger
<1> HIDE DEF M
<1>4. (M.available <=> L.available) /\ (M.ended <=> L.ended) /\ (M.missed <=> L.missed)
  BY ONLY <1>3, Zenon
<1>5. /\ M \in Ledger /\ FlagsKept(L, M) /\ M.disclosures = D
      /\ M.subjects = L.subjects /\ M.recipients = L.recipients /\ M.events = L.events
  BY ONLY <1>1, <1>2, <1>4 DEF FlagsKept
<1> QED
  BY ONLY <1>5 DEF M

LEMMA AppendRows ==
  ASSUME NEW T, NEW q \in Seq(T), NEW x \in T
  PROVE  /\ Append(q, x) \in Seq(T) /\ Len(Append(q, x)) = Len(q) + 1
         /\ RowsKept(q, Append(q, x)) /\ Append(q, x)[Len(q) + 1] = x
  BY DEF RowsKept

LEMMA LookedKept ==
  ASSUME NEW T, NEW U, NEW i, NEW k, NEW x, Len(T) \in Nat, Looked(T, U, i, k, x)
  PROVE  RowsKept(T, U)
  BY DEF Looked, RowsKept

\* A key is 1 while an engine and a key are held, for an open session only.
LEMMA KeysOfRows ==
  ASSUME TypeOK, Serving, NEW to
  PROVE  /\ SubjectKey \in {0, 1} /\ RecipientKey(to) \in {0, 1}
         /\ SubjectKey # 0 => Open(work)
         /\ RecipientKey(to) # 0 => Open(work)
  BY DEF SubjectKey, RecipientKey, Registered, Serving, NoEngine

\* The hashes that `new` has and `old` had not were made while M was open.
HashedWhileOpen(old, new, M) ==
    \A i \in (Len(old) + 1)..Len(new) : new[i].resolved => Open(M)

LEMMA AppendWrites ==
  ASSUME TypeOK, Serving, Sound(db), Sound(work), Recording, AppendEvent
  PROVE  /\ job.done + 1 <= Len(job.batch.findings)
         /\ job' = [job EXCEPT !.done = job.done + 1, !.delta = job'.delta]
         /\ work' \in Ledger /\ FlagsKept(work, work')
         /\ \E s, r \in Nat :
               LET f == job.batch.findings[job.done + 1] IN
               /\ f \in Findings
               /\ Extends(work, work', job.delivery, f, s, r)
               /\ \/ NothingNew(work, work', f, s, r) /\ job'.delta = job.delta
                  \/ /\ Charges(work, work', f, s, r) /\ Open(work)
                     /\ job'.delta = job.delta
                                       + work'.disclosures[Len(work'.disclosures)].delta
         /\ HashedWhileOpen(work.subjects, work'.subjects, work)
         /\ HashedWhileOpen(work.recipients, work'.recipients, work)
<1> DEFINE f == job.batch.findings[job.done + 1]
           d == job.delivery
           k == SubjectKey
           p == RecipientKey(f.to)
           S == WithRow(work.subjects, k, f.value, d)
           R == WithRow(work.recipients, p, f.to, d)
           s == RowOf(work.subjects, k, f.value, d)
           r == RowOf(work.recipients, p, f.to, d)
           e == [delivery |-> d, subject |-> s, recipient |-> r, type |-> f.type,
                 confirmed |-> f.confirmed, value |-> f.value, to |-> f.to]
           N == WithEvent(work, d, f, s, r)
           charge == Chargeable(f) /\ ~Disclosed(work, s, r)
           n == Cardinality(Group(work, f.type, r))
           delta == IF charge THEN NextDelta(f.type, n) ELSE 0
           x == [event |-> Len(N.events), subject |-> s, recipient |-> r,
                 type |-> f.type, n |-> n + 1, delta |-> delta]
<1>1. /\ job.at = "recording" /\ job.done < Len(job.batch.findings)
      /\ work' = IF charge THEN [N EXCEPT !.disclosures = Append(N.disclosures, x)] ELSE N
      /\ job' = [job EXCEPT !.done = job.done + 1, !.delta = job.delta + delta]
  BY DEF AppendEvent
<1>2. /\ job \in Jobs /\ work \in Ledger /\ d \in Deliveries /\ work.version = 2
      /\ job.done \in Nat /\ job.delta \in Nat /\ job.batch.findings \in Seq(Findings)
  BY <1>1 DEF TypeOK, Jobs, Serving, Recording
<1>3. f \in Findings /\ job.done + 1 <= Len(job.batch.findings)
  <2>1. Len(job.batch.findings) \in Nat
    BY <1>2
  <2>2. job.done + 1 \in 1..Len(job.batch.findings)
    <3>1. job.done \in Nat /\ job.done < Len(job.batch.findings)
      BY ONLY <1>1, <1>2
    <3> QED
      BY ONLY <2>1, <3>1
  <2> QED
    BY <1>2, <2>1, <2>2
<1> HIDE DEF f
<1>4. /\ f.value \in Values /\ f.to \in Destinations /\ f.type \in DataTypes
      /\ f.confirmed \in BOOLEAN
  BY <1>3 DEF Findings
<1>5. /\ k \in {0, 1} /\ p \in {0, 1} /\ (k # 0 => Open(work)) /\ (p # 0 => Open(work))
  BY KeysOfRows
<1>6. /\ work.subjects \in Seq(Identity(Values))
      /\ work.recipients \in Seq(Identity(Destinations))
      /\ work.events \in Seq(Event) /\ work.disclosures \in Seq(Disclosure)
      /\ work.ended \in BOOLEAN
  BY <1>2 DEF Ledger
<1>7. Table(work.subjects, work.ended) /\ Table(work.recipients, work.ended)
  BY DEF Sound
<1>8. d \in Deliveries \cup {Lifecycle} /\ (k = 1 => ~work.ended) /\ (p = 1 => ~work.ended)
  BY <1>2, <1>5 DEF Open
<1>9. /\ S \in Seq(Identity(Values)) /\ Table(S, work.ended)
      /\ Looked(work.subjects, S, s, k, f.value)
  <2> HIDE DEF k, d
  <2> QED
    BY ONLY <1>4, <1>5, <1>6, <1>7, <1>8, RowLooked
<1>10. /\ R \in Seq(Identity(Destinations)) /\ Table(R, work.ended)
       /\ Looked(work.recipients, R, r, p, f.to)
  <2> HIDE DEF p, d
  <2> QED
    BY ONLY <1>4, <1>5, <1>6, <1>7, <1>8, RowLooked
<1> HIDE DEF S, R, s, r, k, p, d
<1>11. /\ RowsKept(work.subjects, S) /\ s \in 1..Len(S) /\ S[s].of = f.value
       /\ (S[s].resolved <=> k # 0)
       /\ RowsKept(work.recipients, R) /\ r \in 1..Len(R) /\ R[r].of = f.to
       /\ (R[r].resolved <=> p # 0)
       /\ s \in Nat /\ r \in Nat
  <2>1. /\ Len(work.subjects) \in Nat /\ Len(work.recipients) \in Nat
        /\ Len(S) \in Nat /\ Len(R) \in Nat
    BY ONLY <1>6, <1>9, <1>10
  <2>2. RowsKept(work.subjects, S) /\ RowsKept(work.recipients, R)
    BY ONLY <2>1, <1>9, <1>10, LookedKept
  <2> QED
    BY <1>9, <1>10, <2>1, <2>2 DEF Looked
<1>12. /\ e \in Event /\ e.delivery = d /\ e.subject = s /\ e.recipient = r
       /\ e.type = f.type /\ e.value = f.value /\ e.to = f.to
       /\ e.confirmed = f.confirmed
  BY <1>2, <1>4, <1>11 DEF Event, d
<1> DEFINE E == Append(work.events, e)
<1>13. N = WithRows(work, S, R, E)
  BY DEF WithEvent, WithRows, S, R, k, p
<1> HIDE DEF N, e
<1>14. /\ E \in Seq(Event) /\ Len(E) = Len(work.events) + 1
       /\ RowsKept(work.events, E) /\ E[Len(work.events) + 1] = e
  BY ONLY <1>6, <1>12, AppendRows
<1> HIDE DEF E
<1>15. /\ N \in Ledger /\ FlagsKept(work, N) /\ N.disclosures = work.disclosures
       /\ N.subjects = S /\ N.recipients = R /\ N.events = E
  <2>1. /\ work \in Ledger /\ S \in Seq(Identity(Values))
        /\ R \in Seq(Identity(Destinations)) /\ E \in Seq(Event)
    BY ONLY <1>2, <1>9, <1>10, <1>14
  <2> QED
    BY ONLY <1>13, <2>1, RowsWritten
<1>16. ASSUME NEW M \in Ledger, FlagsKept(N, M), M.subjects = S, M.recipients = R,
              M.events = E
       PROVE  /\ FlagsKept(work, M) /\ Extends(work, M, d, f, s, r)
              /\ Owes(M, f, s, r) <=> Chargeable(f)
  <2>1. FlagsKept(work, M)
    BY <1>15, <1>16 DEF FlagsKept
  <2>2. Table(S, M.ended) /\ Table(R, M.ended)
    BY <1>9, <1>10, <2>1 DEF FlagsKept, Table
  <2>3. e.confirmed <=> f.confirmed
    BY ONLY <1>12, Zenon
  <2>4. Extends(work, M, d, f, s, r)
    BY <1>2, <1>11, <1>12, <1>14, <1>16, <2>1, <2>2, <2>3 DEF Extends, FlagsKept
  <2>5. Owes(M, f, s, r) <=> Chargeable(f)
    BY <1>5, <1>11, <1>16 DEF Owes, Chargeable, k, p
  <2> QED
    BY <2>1, <2>4, <2>5
<1>17. HashedWhileOpen(work.subjects, S, work) /\ HashedWhileOpen(work.recipients, R, work)
  <2>1. Len(work.subjects) \in Nat /\ Len(work.recipients) \in Nat
    BY ONLY <1>6
  <2> QED
    BY <1>5, <1>9, <1>10, <2>1 DEF Looked, HashedWhileOpen
<1>18. CASE charge
  <2>1. Owes(N, f, s, r) /\ Open(work) /\ S[s].resolved /\ ~Disclosed(work, s, r)
    <3>1. Owes(N, f, s, r)
      BY <1>15, <1>16, <1>18 DEF FlagsKept
    <3> QED
      BY <1>15, <1>18, <3>1 DEF Chargeable, Owes
  <2>2. n \in Nat /\ NextDelta(f.type, n) \in Nat
    <3>1. EventsTold(work) /\ ChargedOnce(work) /\ Tables(work)
      BY DEF Sound, Tables
    <3>2. S[s].of \in Values
      BY <1>4, <1>11
    <3>3. n \in Nat
      BY <1>2, GroupsFinite
    <3> QED
      BY <1>2, <1>4, <1>9, <1>11, <2>1, <3>1, <3>2, <3>3, GroupHasRoom
  <2>3. delta = NextDelta(f.type, n)
    BY <1>18
  <2> HIDE DEF n
  <2>4. /\ x \in Disclosure /\ x.event = Len(work.events) + 1 /\ x.subject = s
        /\ x.recipient = r /\ x.type = f.type /\ x.n = n + 1 /\ x.delta = delta
    <3>1. Len(work.events) \in Nat /\ Len(N.events) = Len(work.events) + 1
      BY <1>6, <1>14, <1>15
    <3> HIDE DEF delta
    <3> QED
      BY <1>4, <1>11, <2>2, <2>3, <3>1 DEF Disclosure
  <2> HIDE DEF x
  <2> DEFINE D == Append(work.disclosures, x)
  <2>5. /\ D \in Seq(Disclosure) /\ Len(D) = Len(work.disclosures) + 1
        /\ RowsKept(work.disclosures, D) /\ D[Len(work.disclosures) + 1] = x
    BY ONLY <1>6, <2>4, AppendRows
  <2>6. work' = [N EXCEPT !.disclosures = D]
    BY <1>1, <1>15, <1>18
  <2> HIDE DEF D
  <2>7. /\ work' \in Ledger /\ FlagsKept(N, work') /\ work'.disclosures = D
        /\ work'.subjects = S /\ work'.recipients = R /\ work'.events = E
    BY ONLY <1>15, <2>5, <2>6, DisclosureWritten
  <2>8. /\ FlagsKept(work, work') /\ Extends(work, work', d, f, s, r)
        /\ Owes(work', f, s, r)
    BY <1>16, <1>18, <2>7
  <2>9. Charges(work, work', f, s, r)
    BY <2>1, <2>3, <2>4, <2>5, <2>7, <2>8 DEF Charges, n
  <2>10. work'.disclosures[Len(work'.disclosures)].delta = delta
    BY <2>4, <2>5, <2>7
  <2>11. job' = [job EXCEPT !.done = job.done + 1, !.delta = job'.delta]
         /\ job'.delta = job.delta + delta
    <3> HIDE DEF delta
    <3> QED
      BY <1>1, <1>2 DEF Jobs
  <2> QED
    BY <1>3, <1>11, <1>17, <2>1, <2>7, <2>8, <2>9, <2>10, <2>11 DEF f, d
<1>19. CASE ~charge
  <2>1. work' = N /\ delta = 0
    BY <1>1, <1>19
  <2>2. /\ FlagsKept(work, N) /\ Extends(work, N, d, f, s, r)
        /\ Owes(N, f, s, r) <=> Chargeable(f)
    BY <1>15, <1>16 DEF FlagsKept
  <2>3. NothingNew(work, work', f, s, r)
    BY <1>15, <1>19, <2>1, <2>2 DEF NothingNew
  <2>4. job' = [job EXCEPT !.done = job.done + 1, !.delta = job'.delta]
         /\ job'.delta = job.delta
    <3>1. job' = [job EXCEPT !.done = job.done + 1, !.delta = job.delta + 0]
      BY <1>1, <2>1
    <3> QED
      BY ONLY <3>1, <1>2 DEF Jobs
  <2> QED
    BY <1>3, <1>11, <1>15, <1>17, <2>1, <2>2, <2>3, <2>4 DEF f, d
<1> QED
  BY <1>18, <1>19

\* A finding is told once by its delivery.
LEMMA FindingsApart ==
  ASSUME TypeOK, Serving, Sound(db), Sound(work), Recording, job.at = "recording",
         NEW s, NEW r, job.done + 1 <= Len(job.batch.findings),
         RowsKept(work.subjects, work'.subjects), RowsKept(work.recipients, work'.recipients),
         work'.subjects[s].of = job.batch.findings[job.done + 1].value,
         work'.recipients[r].of = job.batch.findings[job.done + 1].to,
         NEW i \in 1..Len(work.events),
         work.events[i].delivery = job.delivery,
         work.events[i].subject = s, work.events[i].recipient = r
  PROVE  FALSE
<1> DEFINE n == Len(db.events)
           fs == job.batch.findings
<1>1. /\ db \in Ledger /\ job.done \in Nat /\ n \in Nat /\ Len(fs) \in Nat
      /\ Len(work.events) = n + job.done /\ job.done + 1 <= Len(fs)
      /\ PairsApart(fs)
  <2>1. db \in Ledger /\ job.done \in Nat /\ fs \in Seq(Findings) /\ PairsApart(fs)
    BY DEF TypeOK, Serving
  <2>2. n \in Nat /\ Len(fs) \in Nat
    BY <2>1, LedgerTyped
  <2> QED
    BY <2>1, <2>2 DEF Recording
<1>2. \/ i \in 1..n
      \/ \E j \in 1..job.done : i = n + j
  <2> DEFINE j == i - n
  <2>1. i \in 1..(n + job.done)
    BY <1>1
  <2> HIDE DEF n
  <2>2. i \in 1..n \/ (j \in 1..job.done /\ i = n + j)
    BY ONLY <1>1, <2>1
  <2> QED
    BY <2>2
<1>3. CASE i \in 1..n
  <2>1. work.events[i] = db.events[i] /\ Told(db, db.events[i])
    BY <1>3 DEF Recording, RowsKept, Sound, EventsTold
  <2> QED
    BY <2>1 DEF Told, Recording
<1>4. ASSUME NEW j \in 1..job.done, i = n + j PROVE FALSE
  <2>1. work.events[i].value = fs[j].value /\ work.events[i].to = fs[j].to
    BY <1>4 DEF Recording
  <2>2. Told(work, work.events[i])
    BY DEF Sound, EventsTold
  <2>3. /\ s \in 1..Len(work.subjects) /\ work.subjects[s].of = fs[j].value
        /\ r \in 1..Len(work.recipients) /\ work.recipients[r].of = fs[j].to
    BY <2>1, <2>2 DEF Told
  <2>4. SamePair(fs[j], fs[job.done + 1])
    BY <2>3 DEF RowsKept, SamePair
  <2>5. j \in 1..Len(fs) /\ job.done + 1 \in 1..Len(fs) /\ j < job.done + 1
    BY <1>1
  <2> QED
    BY <1>1, <2>4, <2>5 DEF PairsApart
<1> QED
  BY <1>2, <1>3, <1>4

LEMMA RowsKeptOn ==
  ASSUME NEW q, NEW u, NEW v, Len(q) \in Nat, Len(u) \in Nat, Len(v) \in Nat,
         RowsKept(q, u), RowsKept(u, v)
  PROVE  RowsKept(q, v)
  BY DEF RowsKept

JobDone(r, n, p) == [r EXCEPT !.done = n, !.delta = p]
LEMMA JobGoesOn ==
  ASSUME NEW r \in Jobs, NEW n \in Nat, NEW p \in Nat
  PROVE  LET q == JobDone(r, n, p) IN
         q \in Jobs /\ q.at = r.at /\ q.delivery = r.delivery /\ q.batch = r.batch
         /\ q.done = n /\ q.delta = p
  BY DEF Jobs, JobDone

LEMMA AppendKeeps ==
  ASSUME TypeOK, Serving, Sound(db), Sound(work), Recording, AppendEvent
  PROVE  /\ TypeOK' /\ Serving' /\ Sound(work)' /\ Recording'
         /\ job.at = "recording" /\ job'.at = "recording"
         /\ UNCHANGED <<db, process, up, key, engine, drawn, answers>>
<1> DEFINE d == job.delivery
           f == job.batch.findings[job.done + 1]
           m == Len(work.disclosures)
           x == work'.disclosures[m + 1]
<1>1. /\ job.at = "recording"
      /\ UNCHANGED <<db, process, up, key, engine, drawn, answers>>
  BY DEF AppendEvent, memory
<1>2. /\ job.done + 1 <= Len(job.batch.findings)
      /\ job' = [job EXCEPT !.done = job.done + 1, !.delta = job'.delta]
      /\ work' \in Ledger /\ FlagsKept(work, work')
  BY AppendWrites
<1>3. PICK s \in Nat, r \in Nat :
         /\ f \in Findings
         /\ Extends(work, work', job.delivery, f, s, r)
         /\ \/ NothingNew(work, work', f, s, r) /\ job'.delta = job.delta
            \/ /\ Charges(work, work', f, s, r) /\ Open(work)
               /\ job'.delta = job.delta + work'.disclosures[Len(work'.disclosures)].delta
  BY AppendWrites
<1>4. /\ db \in Ledger /\ work \in Ledger /\ job \in Jobs /\ d \in Deliveries
      /\ job.done \in Nat /\ job.delta \in Nat
  BY <1>1 DEF TypeOK, Jobs, Serving
<1>5. /\ Len(db.events) \in Nat /\ Len(work.events) \in Nat /\ Len(work'.events) \in Nat
      /\ Len(db.disclosures) \in Nat /\ m \in Nat /\ Len(work'.disclosures) \in Nat
  BY <1>2, <1>4, LedgerTyped
<1>6. Recorded(work, d)
  <2> DEFINE o == [delivery |-> d, observer |-> process, gap |-> job.batch.gap]
  <2>1. o \in work.observations /\ o.delivery = d
    BY DEF Recording
  <2> HIDE DEF o
  <2> QED
    BY <2>1 DEF Recorded
<1>7. ASSUME NEW i \in 1..Len(work.events)
      PROVE  ~(/\ work.events[i].delivery = d /\ work.events[i].subject = s
               /\ work.events[i].recipient = r)
  <2>1. /\ RowsKept(work.subjects, work'.subjects) /\ RowsKept(work.recipients, work'.recipients)
        /\ work'.subjects[s].of = f.value /\ work'.recipients[r].of = f.to
    BY <1>3 DEF Extends
  <2> QED
    BY <1>1, <1>2, <2>1, FindingsApart
<1>8. /\ Sound(work')
      /\ NothingNew(work, work', f, s, r) => Paid(work') = Paid(work)
      /\ Charges(work, work', f, s, r) =>
            Paid(work') = Paid(work) + work'.disclosures[Len(work'.disclosures)].delta
  <2> HIDE DEF f, d
  <2> QED
    BY <1>2, <1>3, <1>4, <1>6, <1>7, EventSound DEF d
<1>24. Paid(work') = Paid(db) + job'.delta
  <2>1. Paid(work) = Paid(db) + job.delta
    BY DEF Recording
  <2>2. Paid(db) \in Nat
    BY <1>4, PaidTyped
  <2> DEFINE y == work'.disclosures[Len(work'.disclosures)].delta
  <2>3. \/ Paid(work') = Paid(work) /\ job'.delta = job.delta
        \/ Paid(work') = Paid(work) + y /\ job'.delta = job.delta + y /\ y \in Nat
    <3>1. CASE Charges(work, work', f, s, r)
      <4>1. Len(work'.disclosures) = m + 1 /\ m + 1 \in 1..(m + 1)
        BY <1>5, <3>1 DEF Charges
      <4>2. work'.disclosures[Len(work'.disclosures)] \in Disclosure
        BY <1>2, <4>1, LedgerTyped
      <4>3. y \in Nat
        BY <4>2 DEF Disclosure
      <4> QED
        BY <1>3, <1>8, <3>1, <4>3
    <3> QED
      BY <1>3, <1>8, <3>1
  <2> HIDE DEF y
  <2>4. job.delta \in Nat
    BY <1>4
  <2> QED
    BY ONLY <2>1, <2>2, <2>3, <2>4
<1>9. \/ NothingNew(work, work', f, s, r) /\ job'.delta = job.delta
      \/ /\ Charges(work, work', f, s, r) /\ Open(work)
         /\ Len(work'.disclosures) = m + 1 /\ job'.delta = job.delta + x.delta
         /\ x.delta \in Nat
  <2>1. CASE Charges(work, work', f, s, r)
    <3>1. Len(work'.disclosures) = m + 1
      BY <2>1 DEF Charges
    <3>2. m + 1 \in 1..Len(work'.disclosures)
      BY <1>5, <3>1
    <3>3. x \in Disclosure
      BY <1>2, <3>2, LedgerTyped
    <3>4. x.delta \in Nat
      BY <3>3 DEF Disclosure
    <3> QED
      BY <1>3, <2>1, <3>1, <3>4
  <2> QED
    BY <1>3, <2>1
<1>10. job'.delta \in Nat
  BY <1>4, <1>9
<1>11. /\ job' \in Jobs /\ job'.at = "recording" /\ job'.delivery = d
       /\ job'.batch = job.batch /\ job'.done = job.done + 1
  <2>1. job' = JobDone(job, job.done + 1, job'.delta) /\ job.done + 1 \in Nat
    BY <1>2, <1>4 DEF JobDone
  <2> QED
    <3> DEFINE n == job.done + 1
               p == job'.delta
               q == JobDone(job, n, p)
    <3>1. job \in Jobs /\ n \in Nat /\ p \in Nat /\ job' = q
      BY <1>4, <1>10, <2>1
    <3> HIDE DEF n, p
    <3>2. /\ q \in Jobs /\ q.at = job.at /\ q.delivery = job.delivery
          /\ q.batch = job.batch /\ q.done = n
      BY ONLY <3>1, JobGoesOn
    <3> HIDE DEF q
    <3> QED
      BY <1>1, <3>1, <3>2 DEF n
<1>12. TypeOK'
  BY <1>1, <1>2, <1>11 DEF TypeOK, Jobs
<1>13. Serving'
  BY <1>1, <1>4, <1>11, IdleIsJob DEF Serving
<1> HIDE DEF f, d, m, x
<1>14. /\ Len(work'.events) = Len(work.events) + 1 /\ RowsKept(work.events, work'.events)
       /\ LET e == work'.events[Len(work.events) + 1] IN
          e.delivery = d /\ e.value = f.value /\ e.to = f.to
  BY <1>3 DEF Extends, d
<1>15. RowsKept(db.events, work'.events) /\ Len(work.events) = Len(db.events) + job.done
       /\ Len(work'.events) = Len(db.events) + (job.done + 1)
  <2>1. RowsKept(db.events, work.events) /\ Len(work.events) = Len(db.events) + job.done
    BY DEF Recording
  <2> QED
    <3>1. RowsKept(db.events, work'.events)
      BY <1>5, <1>14, <2>1, RowsKeptOn
    <3>2. Len(work'.events) = Len(db.events) + (job.done + 1)
      <4>1. /\ Len(work'.events) = Len(work.events) + 1
            /\ Len(work.events) = Len(db.events) + job.done
            /\ Len(db.events) \in Nat /\ job.done \in Nat
        BY <1>4, <1>5, <1>14, <2>1
      <4> QED
        BY ONLY <4>1
    <3> QED
      BY <2>1, <3>1, <3>2
<1>16. ASSUME NEW i \in 1..(job.done + 1)
       PROVE  LET e == work'.events[Len(db.events) + i] IN
              e.delivery = d /\ e.value = job.batch.findings[i].value
              /\ e.to = job.batch.findings[i].to
  <2>1. CASE i \in 1..job.done
    <3>1. LET e == work.events[Len(db.events) + i] IN
              e.delivery = d /\ e.value = job.batch.findings[i].value
              /\ e.to = job.batch.findings[i].to
      BY <2>1 DEF Recording, d
    <3>2. Len(db.events) + i \in 1..Len(work.events)
      BY <1>4, <1>5, <1>15, <2>1
    <3>3. work'.events[Len(db.events) + i] = work.events[Len(db.events) + i]
      BY <1>14, <3>2 DEF RowsKept
    <3> QED
      BY <3>1, <3>3
  <2>2. CASE i = job.done + 1
    <3>1. Len(db.events) + i = Len(work.events) + 1
      BY <1>4, <1>5, <1>15, <2>2
    <3> QED
      BY <1>14, <2>2, <3>1 DEF f
  <2>3. i \in 1..job.done \/ i = job.done + 1
    BY <1>4
  <2> QED
    BY <2>1, <2>2, <2>3
<1>17. RowsKept(work.disclosures, work'.disclosures)
  BY <1>5, <1>9 DEF NothingNew, Charges, RowsKept, m
<1>18. RowsKept(db.disclosures, work'.disclosures) /\ Len(db.disclosures) <= m
  <2>1. RowsKept(db.disclosures, work.disclosures)
    BY DEF Recording
  <2> QED
    BY <1>5, <1>17, <2>1, RowsKeptOn DEF m, RowsKept
<1>19. \A i \in NewEvents : i \in NewEvents'
  BY <1>1, <1>5, <1>14 DEF NewEvents
<1>20. Len(work.events) + 1 \in NewEvents'
  <2>1. Len(db'.events) = Len(db.events) /\ Len(work'.events) = Len(work.events) + 1
    BY <1>1, <1>14
  <2>2. Len(work.events) = Len(db.events) + job.done /\ job.done \in Nat
    BY <1>4, <1>15
  <2>3. Len(work.events) + 1 \in (Len(db.events) + 1)..(Len(work.events) + 1)
    BY ONLY <1>5, <2>2
  <2> QED
    BY ONLY <2>1, <2>3 DEF NewEvents
<1>21. /\ \A i \in NewDisclosures : work.disclosures[i].event \in NewEvents
       /\ SumFunctionOnSet(Deltas(work), NewDisclosures) = job.delta
       /\ NewDisclosures = (Len(db.disclosures) + 1)..m
       /\ \A i \in NewDisclosures : i \in 1..m
  <2>1. NewDisclosures = (Len(db.disclosures) + 1)..m
    BY DEF NewDisclosures, m
  <2> QED
    BY <1>5, <2>1 DEF Recording
<1>22. /\ \A i \in NewDisclosures' : work'.disclosures[i].event \in NewEvents'
       /\ SumFunctionOnSet(Deltas(work'), NewDisclosures') = job'.delta
       /\ ~Open(db) => work'.disclosures = db.disclosures
  <2>1. CASE NothingNew(work, work', f, s, r) /\ job'.delta = job.delta
    <3>1. work'.disclosures = work.disclosures
      BY <2>1 DEF NothingNew
    <3>2. NewDisclosures' = NewDisclosures /\ Deltas(work') = Deltas(work)
      BY <1>1, <3>1 DEF NewDisclosures, Deltas
    <3>3. ~Open(db) => work.disclosures = db.disclosures
      BY DEF Recording
    <3> QED
      BY <1>19, <1>21, <2>1, <3>1, <3>2, <3>3
  <2>2. CASE /\ Charges(work, work', f, s, r) /\ Open(work)
             /\ Len(work'.disclosures) = m + 1 /\ job'.delta = job.delta + x.delta
             /\ x.delta \in Nat
    <3>1. NewDisclosures' = NewDisclosures \cup {m + 1} /\ m + 1 \notin NewDisclosures
      <4>1. NewDisclosures' = (Len(db.disclosures) + 1)..(m + 1)
        BY <1>1, <2>2 DEF NewDisclosures
      <4>2. Len(db.disclosures) \in Nat /\ m \in Nat /\ Len(db.disclosures) <= m
        BY <1>5, <1>18
      <4> QED
        BY ONLY <1>21, <4>1, <4>2
    <3>2. \A i \in NewDisclosures : work'.disclosures[i] = work.disclosures[i]
      BY <1>17, <1>21 DEF RowsKept, m
    <3>3. x.event = Len(work.events) + 1
      BY <2>2 DEF Charges, m, x
    <3>4. \A i \in NewDisclosures' : work'.disclosures[i].event \in NewEvents'
      BY <1>19, <1>20, <1>21, <3>1, <3>2, <3>3 DEF x
    <3>5. IsFiniteSet(NewDisclosures)
      <4>1. Len(db.disclosures) + 1 \in Int /\ m \in Int
        BY <1>5
      <4> QED
        BY ONLY <1>21, <4>1, FS_Interval
    <3>6. \A i \in NewDisclosures : Deltas(work)[i] = Deltas(work')[i] /\ Deltas(work)[i] \in Int
      <4>1. ASSUME NEW i \in NewDisclosures
            PROVE  Deltas(work)[i] = Deltas(work')[i] /\ Deltas(work)[i] \in Int
        <5>1. i \in 1..m /\ i \in 1..Len(work'.disclosures)
          BY <1>5, <1>21, <2>2
        <5>2. Deltas(work)[i] = work.disclosures[i].delta /\ Deltas(work)[i] \in Nat
          BY <1>4, <5>1, DeltasTyped DEF m
        <5>3. Deltas(work')[i] = work'.disclosures[i].delta
          BY <1>2, <5>1, DeltasTyped
        <5> QED
          BY <3>2, <5>2, <5>3
      <4> QED
        BY <4>1
    <3>7. Deltas(work')[m + 1] = x.delta
      <4>1. m + 1 \in 1..Len(work'.disclosures)
        BY <1>5, <2>2
      <4> QED
        BY <1>2, <4>1, DeltasTyped DEF x
    <3> DEFINE S == NewDisclosures
               F == Deltas(work)
               G == Deltas(work')
               y == m + 1
    <3>8. /\ IsFiniteSet(S) /\ y \notin S /\ G[y] \in Int /\ G[y] = x.delta
          /\ \A i \in S : F[i] = G[i] /\ F[i] \in Int /\ G[i] \in Int
          /\ NewDisclosures' = S \cup {y}
      BY <2>2, <3>1, <3>5, <3>6, <3>7
    <3> HIDE DEF S, F, G, y
    <3>9. SumFunctionOnSet(F, S) = SumFunctionOnSet(G, S)
      BY ONLY <3>8, SumOfSame
    <3>10. SumFunctionOnSet(G, S \cup {y}) = SumFunctionOnSet(G, S) + G[y]
      BY ONLY <3>8, SumWith
    <3>11. SumFunctionOnSet(G, NewDisclosures') = job'.delta
      BY <1>21, <2>2, <3>8, <3>9, <3>10 DEF S, F
    <3>12. Open(db)
      BY <2>2 DEF Recording, Open
    <3> QED
      BY <3>4, <3>11, <3>12 DEF G
  <2> QED
    BY <1>9, <2>1, <2>2
<1>23. Recording'
  <2>1. /\ db'.version = 2 /\ ~Recorded(db', job'.delivery)
        /\ work'.version = 2 /\ work'.score = db'.score /\ work'.watch = db'.watch
        /\ work'.available <=> db'.available
        /\ work'.ended <=> db'.ended
        /\ work'.missed <=> db'.missed
        /\ db'.ended \/ Registered'
        /\ work'.observations = db'.observations \cup
              {[delivery |-> job'.delivery, observer |-> process', gap |-> job'.batch.gap]}
    BY <1>1, <1>2, <1>11 DEF Recording, FlagsKept, Registered, d
  <2>2. /\ job'.done <= Len(job'.batch.findings)
        /\ RowsKept(db'.events, work'.events)
        /\ Len(work'.events) = Len(db'.events) + job'.done
        /\ \A i \in 1..job'.done :
             LET e == work'.events[Len(db'.events) + i] IN
             /\ e.delivery = job'.delivery
             /\ e.value = job'.batch.findings[i].value /\ e.to = job'.batch.findings[i].to
        /\ RowsKept(db'.disclosures, work'.disclosures)
        /\ \A i \in NewDisclosures' : work'.disclosures[i].event \in NewEvents'
        /\ SumFunctionOnSet(Deltas(work'), NewDisclosures') = job'.delta
        /\ Paid(work') = Paid(db') + job'.delta
        /\ ~Open(db') => work'.disclosures = db'.disclosures
    BY <1>1, <1>2, <1>11, <1>15, <1>16, <1>18, <1>22, <1>24
  <2> QED
    BY <2>1, <2>2 DEF Recording
<1> QED
  BY <1>1, <1>8, <1>11, <1>12, <1>13, <1>23

\* What the deliveries of the committed rows are, and those of the new ones.
LEMMA RowsOfDeliveries ==
  ASSUME TypeOK, Serving, Sound(db), Sound(work), Recording, job.at = "recording"
  PROVE  /\ \A i \in 1..Len(db.events) :
               /\ i \in 1..Len(work.events) /\ i \notin NewEvents
               /\ work.events[i] = db.events[i]
               /\ db.events[i].delivery # job.delivery
         /\ \A i \in 1..Len(work.events) : i \in 1..Len(db.events) \/ i \in NewEvents
         /\ \A i \in NewEvents :
               i \in 1..Len(work.events) /\ work.events[i].delivery = job.delivery
         /\ \A i \in 1..Len(db.disclosures) :
               /\ i \in 1..Len(work.disclosures) /\ i \notin NewDisclosures
               /\ work.disclosures[i] = db.disclosures[i]
               /\ db.disclosures[i].event \in 1..Len(db.events)
         /\ \A i \in 1..Len(work.disclosures) :
               i \in 1..Len(db.disclosures) \/ i \in NewDisclosures
         /\ \A i \in NewDisclosures :
               i \in 1..Len(work.disclosures) /\ work.disclosures[i].event \in NewEvents
<1> DEFINE n == Len(db.events)
           m == Len(db.disclosures)
           n2 == Len(work.events)
           m2 == Len(work.disclosures)
<1>1. /\ n \in Nat /\ m \in Nat /\ n2 \in Nat /\ m2 \in Nat /\ job.done \in Nat
      /\ n <= n2 /\ m <= m2 /\ n2 = n + job.done
      /\ \A i \in 1..n : work.events[i] = db.events[i]
      /\ \A i \in 1..m : work.disclosures[i] = db.disclosures[i]
  <2>1. n \in Nat /\ m \in Nat /\ n2 \in Nat /\ m2 \in Nat /\ job.done \in Nat
    BY LedgerTyped DEF TypeOK
  <2> QED
    BY <2>1 DEF Recording, RowsKept
<1>2. ASSUME NEW i \in 1..n PROVE db.events[i].delivery # job.delivery
  <2>1. Told(db, db.events[i])
    BY DEF Sound, EventsTold
  <2> QED
    BY <2>1 DEF Told, Recording
<1>3. ASSUME NEW i \in NewEvents PROVE i \in 1..n2 /\ work.events[i].delivery = job.delivery
  <2> DEFINE j == i - n
  <2>1. i \in (n + 1)..n2
    BY DEF NewEvents
  <2> HIDE DEF n, n2
  <2>2. i \in 1..n2 /\ j \in 1..job.done /\ i = n + j
    BY ONLY <1>1, <2>1
  <2> HIDE DEF j
  <2>3. work.events[n + j].delivery = job.delivery
    BY <2>2 DEF Recording, n
  <2> QED
    BY <2>2, <2>3
<1>4. \A i \in 1..m : db.disclosures[i].event \in 1..n
  BY DEF Sound, ChargedOnce, Charging
<1>5. \A i \in NewDisclosures : work.disclosures[i].event \in NewEvents
  BY DEF Recording
<1>6. NewEvents = (n + 1)..n2 /\ NewDisclosures = (m + 1)..m2
  BY DEF NewEvents, NewDisclosures
<1>7. /\ \A i \in 1..n : i \in 1..n2 /\ i \notin NewEvents
      /\ \A i \in 1..n2 : i \in 1..n \/ i \in NewEvents
      /\ \A i \in 1..m : i \in 1..m2 /\ i \notin NewDisclosures
      /\ \A i \in 1..m2 : i \in 1..m \/ i \in NewDisclosures
      /\ \A i \in NewDisclosures : i \in 1..m2
  <2> HIDE DEF n, n2, m, m2
  <2> QED
    BY ONLY <1>1, <1>6
<1> QED
  BY <1>1, <1>2, <1>3, <1>4, <1>5, <1>7

\* The delivery's result, as the rows will answer it.
NewResult == [events |-> NewEvents, disclosures |-> NewDisclosures, delta |-> job.delta]

LEMMA CommittedResults ==
  ASSUME TypeOK, Serving, Sound(db), Sound(work), Recording, job.at = "recording"
  PROVE  /\ RecordedResult(work, job.delivery) = NewResult
         /\ \A d \in Deliveries \ {job.delivery} :
               RecordedResult(work, d) = RecordedResult(db, d)
<1> DEFINE Told_(L, d) == {i \in 1..Len(L.events) : L.events[i].delivery = d}
           Paid_(L, d) == {i \in 1..Len(L.disclosures) :
                              L.events[L.disclosures[i].event].delivery = d}
<1>1. \A L, d : RecordedResult(L, d)
                   = [events |-> Told_(L, d), disclosures |-> Paid_(L, d),
                      delta |-> SumFunctionOnSet(Deltas(L), Paid_(L, d))]
  BY DEF RecordedResult, ResultOf
<1>2. Told_(work, job.delivery) = NewEvents
  BY RowsOfDeliveries
<1>3. Paid_(work, job.delivery) = NewDisclosures
  <2>1. \A i \in 1..Len(db.disclosures) :
           work.events[work.disclosures[i].event].delivery # job.delivery
    BY RowsOfDeliveries
  <2>2. \A i \in NewDisclosures :
           work.events[work.disclosures[i].event].delivery = job.delivery
    BY RowsOfDeliveries
  <2> QED
    BY <2>1, <2>2, RowsOfDeliveries
<1>4. ASSUME NEW d \in Deliveries \ {job.delivery}
      PROVE  /\ Told_(work, d) = Told_(db, d) /\ Paid_(work, d) = Paid_(db, d)
             /\ SumFunctionOnSet(Deltas(work), Paid_(db, d))
                   = SumFunctionOnSet(Deltas(db), Paid_(db, d))
  <2>1. Told_(work, d) = Told_(db, d)
    BY RowsOfDeliveries
  <2>2. Paid_(work, d) = Paid_(db, d)
    <3>1. \A i \in 1..Len(db.disclosures) :
             work.events[work.disclosures[i].event] = db.events[db.disclosures[i].event]
      BY RowsOfDeliveries
    <3>2. \A i \in NewDisclosures : work.events[work.disclosures[i].event].delivery # d
      BY RowsOfDeliveries
    <3> QED
      <4>1. \A i \in 1..Len(work.disclosures) :
               work.events[work.disclosures[i].event].delivery = d
                  => i \in 1..Len(db.disclosures)
        BY <3>2, RowsOfDeliveries
      <4>2. \A i \in 1..Len(db.disclosures) : i \in 1..Len(work.disclosures)
        BY RowsOfDeliveries
      <4> QED
        BY ONLY <3>1, <4>1, <4>2
  <2> DEFINE S == Paid_(db, d)
  <2>3. IsFiniteSet(S)
    <3>1. Len(db.disclosures) \in Nat /\ 1 \in Nat
      BY LedgerTyped DEF TypeOK
    <3>2. S \subseteq 1..Len(db.disclosures)
      OBVIOUS
    <3> HIDE DEF S
    <3> QED
      BY ONLY <3>1, <3>2, IndicesFinite
  <2>4. \A i \in S : Deltas(work)[i] = Deltas(db)[i]
    <3>1. ASSUME NEW i \in S PROVE Deltas(work)[i] = Deltas(db)[i]
      <4>1. /\ i \in 1..Len(db.disclosures) /\ i \in 1..Len(work.disclosures)
            /\ work.disclosures[i] = db.disclosures[i]
        BY RowsOfDeliveries
      <4> QED
        BY <4>1 DEF Deltas
    <3> QED
      BY <3>1
  <2> HIDE DEF S
  <2>5. SumFunctionOnSet(Deltas(work), S) = SumFunctionOnSet(Deltas(db), S)
    BY ONLY <2>3, <2>4, SumOfSame
  <2> QED
    BY <2>1, <2>2, <2>5 DEF S
<1>5. SumFunctionOnSet(Deltas(work), NewDisclosures) = job.delta
  BY DEF Recording
<1> HIDE DEF Told_, Paid_
<1> QED
  BY <1>1, <1>2, <1>3, <1>4, <1>5 DEF NewResult

WithScore(L, n) == [L EXCEPT !.score = n]
LEMMA Scored ==
  ASSUME NEW L \in Ledger, NEW n \in Nat
  PROVE  LET M == WithScore(L, n) IN
         /\ M \in Ledger /\ M.score = n
         /\ M.subjects = L.subjects /\ M.recipients = L.recipients /\ M.events = L.events
         /\ M.disclosures = L.disclosures
         /\ M.version = L.version /\ M.watch = L.watch /\ M.observations = L.observations
         /\ M.available <=> L.available
         /\ M.ended <=> L.ended
         /\ M.missed <=> L.missed
<1> DEFINE M == WithScore(L, n)
<1>1. /\ M \in Ledger /\ M.score = n
      /\ M.subjects = L.subjects /\ M.recipients = L.recipients /\ M.events = L.events
      /\ M.disclosures = L.disclosures
      /\ M.version = L.version /\ M.watch = L.watch /\ M.observations = L.observations
  BY DEF WithScore, Ledger
<1>2. M.available = L.available /\ M.ended = L.ended /\ M.missed = L.missed
  BY DEF WithScore, Ledger
<1> HIDE DEF M
<1>3. /\ M.available <=> L.available
      /\ M.ended <=> L.ended
      /\ M.missed <=> L.missed
  BY ONLY <1>2, Zenon
<1>4. /\ M \in Ledger /\ M.score = n
      /\ M.subjects = L.subjects /\ M.recipients = L.recipients /\ M.events = L.events
      /\ M.disclosures = L.disclosures
      /\ M.version = L.version /\ M.watch = L.watch /\ M.observations = L.observations
      /\ M.available <=> L.available
      /\ M.ended <=> L.ended
      /\ M.missed <=> L.missed
  BY ONLY <1>1, <1>3
<1> QED
  BY ONLY <1>4 DEF M

LEMMA CommitKeeps ==
  ASSUME TypeOK, Serving, Sound(db), Sound(work), db.score = Paid(db), Recording,
         Answered, CommitRecord
  PROVE  /\ TypeOK' /\ Serving' /\ Sound(db)' /\ Answered'
         /\ work' = db' /\ db'.score = Paid(db') /\ job' = Idle
         /\ db' \in Ledger /\ db' = WithScore(work, db.score + job.delta)
         /\ db.score + job.delta \in Nat
         /\ job.at = "recording" /\ UNCHANGED <<process, up, key, engine, drawn>>
<1> DEFINE d == job.delivery
           p == db.score + job.delta
<1>1. /\ job.at = "recording" /\ db' = [work EXCEPT !.score = work.score + job.delta]
      /\ work' = db' /\ job' = Idle
      /\ answers' = [answers EXCEPT ![d] = answers[d] \cup {NewResult}]
      /\ UNCHANGED <<process, up, key, engine, drawn>>
  BY DEF CommitRecord, Committed, Return, memory, NewResult, NewEvents, NewDisclosures
<1>2. /\ db \in Ledger /\ work \in Ledger /\ job.delta \in Nat /\ d \in Deliveries
      /\ answers \in [Deliveries -> SUBSET Result] /\ up
  BY <1>1, IdleIsJob DEF TypeOK, Serving
<1>3. db' = WithScore(work, p) /\ p \in Nat
  <2>1. work.score = db.score /\ db.score \in Nat
    BY <1>2 DEF Recording, Ledger
  <2> QED
    BY <1>1, <1>2, <2>1 DEF WithScore
<1> HIDE DEF p
<1>4. /\ db' \in Ledger /\ db'.score = p
      /\ db'.subjects = work.subjects /\ db'.recipients = work.recipients
      /\ db'.events = work.events /\ db'.disclosures = work.disclosures
      /\ db'.version = 2 /\ db'.observations = work.observations
      /\ db'.ended <=> work.ended
      /\ db'.ended <=> db.ended
  <2>1. /\ db' \in Ledger /\ db'.score = p
        /\ db'.subjects = work.subjects /\ db'.recipients = work.recipients
        /\ db'.events = work.events /\ db'.disclosures = work.disclosures
        /\ db'.version = work.version /\ db'.observations = work.observations
        /\ db'.ended <=> work.ended
    BY ONLY <1>2, <1>3, Scored
  <2> QED
    BY <2>1 DEF Recording
<1>5. Sound(db') /\ Paid(db') = Paid(work)
  <2>1. /\ Alike(work.subjects, db'.subjects) /\ Alike(work.recipients, db'.recipients)
        /\ Table(db'.subjects, db'.ended) /\ Table(db'.recipients, db'.ended)
    BY <1>4 DEF Alike, Table, Sound
  <2>2. work.observations \subseteq db'.observations
    BY <1>4
  <2> QED
    BY <1>2, <1>4, <2>1, <2>2, AlikeSound
<1>6. db'.score = Paid(db')
  BY <1>4, <1>5 DEF Recording, p
<1>7. \A c \in Deliveries : RecordedResult(db', c) = RecordedResult(work, c)
  BY <1>4, RecordedResultKept
<1>8. /\ RecordedResult(db', d) = NewResult
      /\ \A c \in Deliveries \ {d} : RecordedResult(db', c) = RecordedResult(db, c)
  BY <1>1, <1>2, <1>7, CommittedResults
<1>9. NewResult \in Result
  BY <1>2, <1>4, <1>8, ResultTyped
<1>10. /\ answers' \in [Deliveries -> SUBSET Result]
       /\ answers'[d] = answers[d] \cup {NewResult}
       /\ \A c \in Deliveries \ {d} : answers'[c] = answers[c]
  <2> HIDE DEF d
  <2> QED
    BY ONLY <1>1, <1>2, <1>9
<1>11. answers[d] = {} /\ \A c : Recorded(db, c) => Recorded(db', c)
  <2>1. ~Recorded(db, d)
    BY DEF Recording
  <2>2. db.observations \subseteq db'.observations
    BY <1>4 DEF Recording
  <2> QED
    BY <1>2, <2>1, <2>2 DEF Answered, Recorded
<1>12. Recorded(db', d)
  <2> DEFINE o == [delivery |-> d, observer |-> process, gap |-> job.batch.gap]
  <2>1. o \in db'.observations /\ o.delivery = d
    BY <1>4 DEF Recording
  <2> HIDE DEF o
  <2> QED
    BY <2>1 DEF Recorded
<1>13. Answered'
  <2>1. ASSUME NEW c \in Deliveries
        PROVE  answers'[c] = {} \/ (Recorded(db', c) /\ answers'[c] = {RecordedResult(db', c)})
    <3>1. CASE c = d
      BY <1>8, <1>10, <1>11, <1>12, <3>1
    <3>2. CASE c # d
      BY <1>8, <1>10, <1>11, <3>2 DEF Answered
    <3> QED
      BY <3>1, <3>2
  <2> QED
    BY <2>1 DEF Answered
<1>14. TypeOK'
  BY <1>1, <1>4, <1>10, IdleIsJob DEF TypeOK, Jobs
<1>15. Serving'
  BY <1>1, <1>2, <1>4, IdleIsJob DEF Serving
<1> QED
  BY <1>1, <1>3, <1>4, <1>5, <1>6, <1>13, <1>14, <1>15 DEF p

-----------------------------------------------------------------------------
\* The initial state

LEMMA SumOfZero ==
  ASSUME NEW F, NEW S, IsFiniteSet(S), \A x \in S : F[x] = 0
  PROVE  SumFunctionOnSet(F, S) = 0
<1> DEFINE T == {X \in SUBSET S : SumFunctionOnSet(F, X) # 0}
<1> SUFFICES ASSUME S \in T PROVE FALSE
  OBVIOUS
<1>1. PICK X \in T : \A Y \in T : Y \subseteq X => Y = X
  <2>1. \A X \in T : X \subseteq S
    OBVIOUS
  <2> HIDE DEF T
  <2> QED
    BY ONLY <2>1, LeastSubset, IsFiniteSet(S), S \in T
<1>2. IsFiniteSet(X) /\ X \subseteq S
  BY <1>1, FS_Subset
<1>3. X # {}
  <2>1. SumFunctionOnSet(F, {}) = 0
    BY SumOfNothing
  <2> QED
    BY <2>1, <1>1
<1>4. AnyOf(X) \in X
  BY <1>3, AnyOfIn
<1>5. SumFunctionOnSet(F, X \ {AnyOf(X)}) = 0
  BY <1>1, <1>4
<1>6. F[AnyOf(X)] = 0
  BY <1>2, <1>4
<1>7. SumFunctionOnSet(F, X) = F[AnyOf(X)] + SumFunctionOnSet(F, X \ {AnyOf(X)})
  BY <1>2, <1>3, SumTakesAny
<1> QED
  BY <1>1, <1>5, <1>6, <1>7

LEMMA WorthOfNothing == Account!Worth({}) = 0
<1> DEFINE K == DataTypes \X Destinations
<1>1. IsFiniteSet(K)
  BY FiniteAssumption, FS_Product
<1>2. \A g \in K : Points({})[g] = 0
  <2>1. \A t, q : OfGroup({}, t, q) = {}
    BY DEF OfGroup
  <2>2. Cardinality({}) = 0
    BY FS_EmptySet
  <2>3. \A t \in DataTypes : Score[t][0] = 0
    BY ScoreAssumption
  <2> QED
    BY <2>1, <2>2, <2>3 DEF Points
<1> HIDE DEF K
<1>3. SumFunctionOnSet(Points({}), K) = 0
  BY ONLY <1>1, <1>2, SumOfZero
<1> QED
  BY <1>3, WorthIsPoints DEF K

LEMMA EmptySound == Sound(EmptyLedger) /\ Paid(EmptyLedger) = 0
<1> DEFINE L == EmptyLedger
<1>1. /\ L.version = 0 /\ L.score = 0 /\ L.observations = {}
      /\ L.subjects = <<>> /\ L.recipients = <<>>
      /\ L.events = <<>> /\ L.disclosures = <<>>
  BY DEF EmptyLedger
<1> HIDE DEF L
<1>2. 1..Len(L.events) = {} /\ 1..Len(L.disclosures) = {}
      /\ 1..Len(L.subjects) = {} /\ 1..Len(L.recipients) = {}
  <2>1. Len(<<>>) = 0
    OBVIOUS
  <2> QED
    BY <1>1, <2>1
<1>3. Blank(L) /\ Table(L.subjects, L.ended) /\ Table(L.recipients, L.ended)
      /\ EventsTold(L) /\ ChargedOnce(L) /\ ChargedByThen(L)
  BY <1>1, <1>2 DEF Blank, Table, EventsTold, ChargedOnce, ChargedByThen
<1>4. Paid(L) = 0
  BY <1>2, SumOfNothing DEF Paid
<1>5. Charged(L) = {}
  BY <1>2 DEF Charged
<1>6. SumFunctionOnSet(Shown(L), 1..Len(L.events)) = 0
  BY <1>2, SumOfNothing
<1>7. Priced(L)
  BY <1>4, <1>5, <1>6, WorthOfNothing DEF Priced
<1>8. Sound(L) /\ Paid(L) = 0
  BY <1>3, <1>4, <1>7 DEF Sound
<1> QED
  BY <1>8 DEF L

LEMMA InitInv == Init => SessionInv
<1> SUFFICES ASSUME Init PROVE SessionInv
  OBVIOUS
<1>1. db = EmptyLedger /\ work = EmptyLedger /\ job = Idle /\ job \in Jobs /\ job.at = "idle"
      /\ answers = [d \in Deliveries |-> {}]
  BY IdleIsJob DEF Init
<1>2. /\ db.version = 0 /\ ~db.ended /\ db.score = 0 /\ db.observations = {}
  BY <1>1 DEF EmptyLedger
<1>3. TypeOK
  <2>1. answers \in [Deliveries -> SUBSET Result]
    BY ONLY <1>1
  <2>2. process \in 0..MaxProcesses /\ key \in Nat
        /\ engine \in Nat \cup {NoEngine} /\ drawn \in Nat
    <3>1. MaxProcesses \in Nat
      BY FiniteAssumption
    <3>2. process = 0 /\ key = 0 /\ engine = NoEngine /\ drawn = 0
      BY DEF Init
    <3> QED
      BY ONLY <3>1, <3>2
  <2>3. up \in BOOLEAN
    BY DEF Init
  <2> QED
    BY <1>1, <2>1, <2>2, <2>3, EmptyIsLedger DEF TypeOK, Jobs
<1>4. Serving
  BY <1>1, <1>2 DEF Serving, Init
<1>5. Sound(db) /\ Sound(work) /\ db.score = Paid(db)
  BY <1>1, <1>2, EmptySound
<1>6. Answered
  BY <1>1 DEF Answered
<1>7. Watching
  BY <1>1, <1>2 DEF Watching, Registered, Init
<1> QED
  BY <1>1, <1>3, <1>4, <1>5, <1>6, <1>7 DEF SessionInv

-----------------------------------------------------------------------------
\* Every step keeps the invariant

\* What is watched, after a step that records nothing.
LEMMA WatchingKept ==
  ASSUME Watching, db'.observations = db.observations, db.watch \subseteq db'.watch,
         ~db'.ended => ~db.ended,
         Registered' \/ job'.at = "installing" => \E w \in db'.watch : w.observer = process'
  PROVE  Watching'
  BY DEF Watching

\* What was answered, after a step that answers nothing.
LEMMA AnsweredKept ==
  ASSUME TypeOK, Answered, UNCHANGED answers, db.observations \subseteq db'.observations,
         db'.events = db.events, db'.disclosures = db.disclosures
  PROVE  Answered'
<1>1. \A d : Recorded(db, d) => Recorded(db', d)
  BY DEF Recorded
<1>2. \A d \in Deliveries : RecordedResult(db', d) = RecordedResult(db, d)
  BY RecordedResultKept
<1> QED
  BY <1>1, <1>2 DEF Answered

LEMMA QuietKeeps ==
  ASSUME SessionInv, TypeOK', Serving', Quiet, job'.at # "recording",
         Answered', Watching'
  PROVE  SessionInv'
<1>1. db \in Ledger /\ Sound(db) /\ db.score = Paid(db)
  BY DEF SessionInv, TypeOK
<1>2. db' \in Ledger /\ Flagged(db, db') /\ work' = db'
  BY DEF Quiet
<1>3. Sound(db') /\ Paid(db') = Paid(db) /\ db'.score = db.score
  BY <1>1, <1>2, FlaggedSound DEF Flagged
<1>4. Sound(db)' /\ Sound(work)' /\ (db.score = Paid(db))'
  BY <1>1, <1>2, <1>3
<1> QED
  BY <1>4 DEF SessionInv

LEMMA QuietAnswers ==
  ASSUME TypeOK, Answered, UNCHANGED answers, Quiet
  PROVE  Answered'
  BY AnsweredKept DEF Quiet, Flagged

LEMMA QuietWatches ==
  ASSUME Quiet PROVE db.watch \subseteq db'.watch /\ (~db'.ended => ~db.ended)
  BY DEF Quiet, Flagged

\* A hook arrives, is answered from what is recorded, or a handler raises.
LEMMA StepsKeep ==
  ASSUME SessionInv,
         \/ StartArrives \/ (\E d \in Deliveries, b \in Batches : HookArrives(d, b))
         \/ StartKnown \/ ObserveLegacy \/ Raise
  PROVE  SessionInv'
<1>1. TypeOK /\ Serving /\ Watching /\ Answered
  BY DEF SessionInv
<1>2. TypeOK' /\ Serving' /\ Quiet
  BY <1>1, ArriveQuiet, ReturnQuiet
<1>3. job'.at \in {"starting", "observing", "idle"}
  BY IdleIsJob DEF StartArrives, HookArrives, StartKnown, ObserveLegacy, Raise, Return, Idle
<1>4. UNCHANGED <<db, process, engine, answers>>
  BY DEF StartArrives, HookArrives, StartKnown, ObserveLegacy, Raise, Rollback, memory
<1>5. Answered'
  BY <1>1, <1>2, <1>4, QuietAnswers
<1>6. Watching'
  BY <1>1, <1>3, <1>4 DEF Watching, Registered
<1> QED
  BY <1>2, <1>3, <1>5, <1>6, QuietKeeps

\* A delivery that is told again is answered as before.
LEMMA AgainKeeps ==
  ASSUME SessionInv, ObserveAgain
  PROVE  SessionInv'
<1>1. TypeOK /\ Serving /\ Watching /\ Answered
  BY DEF SessionInv
<1>2. TypeOK' /\ Serving' /\ Quiet
  BY <1>1, AgainQuiet
<1>3. /\ job'.at = "idle" /\ job.at = "observing" /\ Recorded(db, job.delivery)
      /\ UNCHANGED <<db, process, engine>>
      /\ answers' = [answers EXCEPT ![job.delivery] =
                        @ \cup {RecordedResult(db, job.delivery)}]
  BY IdleIsJob DEF ObserveAgain, Return, memory
<1>4. answers \in [Deliveries -> SUBSET Result]
  BY <1>1 DEF TypeOK
<1>5. ASSUME NEW d \in Deliveries
      PROVE  \/ answers'[d] = {}
             \/ Recorded(db, d) /\ answers'[d] = {RecordedResult(db, d)}
  <2> DEFINE R == RecordedResult(db, d)
  <2>1. answers[d] = {} \/ (Recorded(db, d) /\ answers[d] = {R})
    BY <1>1 DEF Answered
  <2>2. CASE d = job.delivery
    <3>1. answers'[d] = answers[d] \cup {R}
      BY <1>3, <1>4, <2>2
    <3> QED
      BY <1>3, <2>1, <2>2, <3>1
  <2>3. CASE d # job.delivery
    <3>1. answers'[d] = answers[d]
      BY <1>3, <1>4, <2>3
    <3> QED
      BY <2>1, <3>1
  <2> QED
    BY <2>2, <2>3
<1>6. Answered'
  BY <1>3, <1>5 DEF Answered
<1>7. Watching'
  BY <1>1, <1>3 DEF Watching, Registered
<1> QED
  BY <1>2, <1>3, <1>6, <1>7, QuietKeeps

\* The identity is installed, is not, or is discarded, and a daemon starts.
LEMMA IdentityKeeps ==
  ASSUME SessionInv,
         Install \/ InstallFails \/ SessionEndFails \/ DaemonDies \/ StartDaemon
  PROVE  SessionInv'
<1>1. TypeOK /\ Serving /\ Watching /\ Answered
  BY DEF SessionInv
<1>2. TypeOK' /\ Serving' /\ Quiet
  BY <1>1, InstallQuiet, DiscardQuiet, StartQuiet
<1>3. db'.observations = db.observations
  <2>1. CASE StartDaemon
    BY <1>1, <2>1, StartQuiet
  <2>2. CASE Install \/ InstallFails \/ SessionEndFails \/ DaemonDies
    <3>1. db \in Ledger /\ (db' = db \/ db' = Unavailable(db))
      BY <1>1, <2>2 DEF TypeOK, Install, InstallFails, SessionEndFails, DaemonDies, Rollback,
         Committed
    <3> QED
      BY <3>1, UnavailableFlags
  <2> QED
    BY <2>1, <2>2
<1>4. job'.at = "idle"
  <2>1. CASE StartDaemon \/ SessionEndFails
    BY <1>1, <2>1, StartQuiet, IdleIsJob DEF SessionEndFails
  <2>2. CASE Install \/ InstallFails \/ DaemonDies
    BY <2>2, IdleIsJob DEF Install, InstallFails, DaemonDies, Return
  <2> QED
    BY <2>1, <2>2
<1>5. UNCHANGED answers
  BY DEF Install, InstallFails, SessionEndFails, DaemonDies, StartDaemon
<1>6. Registered' => job.at = "installing" /\ UNCHANGED process
  BY <1>1, StartQuiet DEF Install, InstallFails, SessionEndFails, DaemonDies, DiscardIdentity,
     Registered
<1>7. db.watch \subseteq db'.watch /\ (~db'.ended => ~db.ended)
  BY <1>2, QuietWatches
<1>8. Watching'
  <2>1. CASE db'.ended
    BY <2>1 DEF Watching
  <2>2. CASE ~db'.ended
    <3>1. Registered' \/ job'.at = "installing" => \E w \in db'.watch : w.observer = process'
      BY <1>1, <1>4, <1>6, <1>7, <2>2 DEF Watching
    <3> QED
      BY <1>1, <1>3, <1>7, <3>1, WatchingKept
  <2> QED
    BY <2>1, <2>2
<1>9. Answered'
  BY <1>1, <1>2, <1>5, QuietAnswers
<1> QED
  BY <1>2, <1>4, <1>8, <1>9, QuietKeeps

\* A genuine start commits its session, and a keyless one is attached to.
LEMMA AttachingKeeps ==
  ASSUME SessionInv, Activate \/ MarkUnavailable \/ AttachKeyless
  PROVE  SessionInv'
<1>1. TypeOK /\ Serving /\ Watching /\ Answered /\ Sound(db)
  BY DEF SessionInv
<1>2. TypeOK' /\ Serving' /\ Quiet
  BY <1>1, ActivateQuiet, MarkQuiet, AttachQuiet
<1>3. job'.at # "recording" /\ UNCHANGED <<process, answers>>
  <2>1. CASE Activate
    <3>1. job' = [job EXCEPT !.at = "installing"] /\ job \in Jobs
      BY <1>1, <2>1 DEF Activate, TypeOK, Jobs
    <3>2. job'.at = "installing"
      BY ONLY <3>1, JobMoves DEF Steps
    <3> QED
      BY <2>1, <3>2 DEF Activate
  <2>2. CASE MarkUnavailable \/ AttachKeyless
    BY <2>2 DEF MarkUnavailable, AttachKeyless
  <2> QED
    BY <2>1, <2>2
<1>4. db.watch \subseteq db'.watch /\ (~db'.ended => ~db.ended)
  BY <1>2, QuietWatches
<1>5. Watching'
  <2>1. CASE Activate
    BY <1>1, <1>3, <2>1, ActivateQuiet DEF Watching
  <2>2. CASE MarkUnavailable
    <3>1. db'.observations = db.observations
      BY <1>1, <2>2, MarkQuiet
    <3>2. job'.at # "installing" /\ (Registered' => Registered) /\ ~db.ended
      BY <2>2 DEF MarkUnavailable, memory, Registered, Resolved, MustMark
    <3>3. Registered' \/ job'.at = "installing" => \E w \in db'.watch : w.observer = process'
      BY <1>1, <1>3, <1>4, <3>2 DEF Watching
    <3> QED
      BY <1>1, <1>4, <3>1, <3>3, WatchingKept
  <2>3. CASE AttachKeyless
    <3>1. db'.observations = db.observations /\ \E w \in db'.watch : w.observer = process
      BY <1>1, <2>3, AttachQuiet
    <3> QED
      BY <1>1, <1>3, <1>4, <3>1, WatchingKept
  <2> QED
    BY <2>1, <2>2, <2>3
<1>6. Answered'
  BY <1>1, <1>2, <1>3, QuietAnswers
<1> QED
  BY <1>2, <1>3, <1>5, <1>6, QuietKeeps

\* The session ends.
LEMMA EndKeeps ==
  ASSUME SessionInv, SessionEnd
  PROVE  SessionInv'
<1>1. TypeOK /\ Serving /\ Watching /\ Answered /\ Sound(db) /\ db.score = Paid(db)
  BY DEF SessionInv
<1>2. /\ TypeOK' /\ Serving' /\ work' = db' /\ db' \in Ledger
      /\ job'.at = "idle" /\ engine' = NoEngine /\ UNCHANGED answers
  BY <1>1, EndErases, IdleIsJob
<1>3. CASE Flagged(db, db') /\ db'.observations = db.observations
  <2>1. Quiet
    BY <1>2, <1>3 DEF Quiet
  <2>2. Answered'
    BY <1>1, <1>2, <2>1, QuietAnswers
  <2>3. Watching'
    <3>1. Registered' \/ job'.at = "installing" => \E w \in db'.watch : w.observer = process'
      BY <1>2 DEF Registered
    <3> QED
      BY <1>1, <1>3, <2>1, <3>1, QuietWatches, WatchingKept
  <2> QED
    BY <1>2, <2>1, <2>2, <2>3, QuietKeeps
<1>4. CASE /\ db'.ended /\ Sound(db') /\ Paid(db') = Paid(db) /\ db'.score = db.score
           /\ db'.events = db.events /\ db'.disclosures = db.disclosures
           /\ db.observations \subseteq db'.observations
  <2>1. Answered'
    BY <1>1, <1>2, <1>4, AnsweredKept
  <2>2. Watching'
    BY <1>4 DEF Watching
  <2>3. Sound(db)' /\ Sound(work)' /\ (db.score = Paid(db))'
    BY <1>1, <1>2, <1>4
  <2> QED
    BY <1>2, <2>1, <2>2, <2>3 DEF SessionInv
<1> QED
  BY <1>1, <1>3, <1>4, EndErases

\* A transaction begins and goes on: nothing is committed.
LEMMA RecordingKeeps ==
  ASSUME SessionInv, BeginRecord \/ AppendEvent
  PROVE  SessionInv'
<1>1. /\ TypeOK /\ Serving /\ Watching /\ Answered /\ Sound(db) /\ Sound(work)
      /\ db.score = Paid(db) /\ (job.at = "recording" => Recording)
  BY DEF SessionInv
<1>2. /\ TypeOK' /\ Serving' /\ Sound(work)' /\ Recording' /\ job'.at = "recording"
      /\ UNCHANGED <<db, process, engine, answers>>
  <2>1. CASE BeginRecord
    BY <1>1, <2>1, BeginKeeps
  <2>2. CASE AppendEvent
    <3>1. Recording
      BY <1>1, <2>2 DEF AppendEvent
    <3> QED
      BY <1>1, <2>2, <3>1, AppendKeeps
  <2> QED
    BY <2>1, <2>2
<1>3. Watching'
  BY <1>1, <1>2 DEF Watching, Registered
<1>4. Answered'
  BY <1>1, <1>2, AnsweredKept
<1>5. Sound(db)' /\ (db.score = Paid(db))'
  BY <1>1, <1>2
<1> QED
  BY <1>2, <1>3, <1>4, <1>5 DEF SessionInv

\* What was recorded is committed and answered.
LEMMA CommitKeepsAll ==
  ASSUME SessionInv, CommitRecord
  PROVE  SessionInv'
<1>1. /\ TypeOK /\ Serving /\ Watching /\ Answered /\ Sound(db) /\ Sound(work)
      /\ db.score = Paid(db) /\ Recording /\ work \in Ledger
  BY DEF SessionInv, CommitRecord, TypeOK
<1>2. /\ TypeOK' /\ Serving' /\ Sound(db)' /\ Answered'
      /\ work' = db' /\ db'.score = Paid(db') /\ job'.at = "idle"
      /\ UNCHANGED <<process, engine>>
  BY <1>1, CommitKeeps, IdleIsJob
<1>3. /\ db'.watch = work.watch /\ db'.observations = work.observations
      /\ (db'.ended <=> work.ended)
  BY <1>1, CommitKeeps, Scored
<1>4. Watching'
  <2>1. SUFFICES ASSUME ~db'.ended PROVE Watching'
    BY DEF Watching
  <2>2. ~db.ended /\ Registered /\ db'.watch = db.watch
    BY <1>1, <1>3, <2>1 DEF Recording
  <2>3. \E w \in db.watch : w.observer = process
    BY <1>1, <2>2 DEF Watching
  <2>4. ASSUME NEW o \in db'.observations
        PROVE  o \in db.observations \/ o.observer = process
    BY <1>1, <1>3 DEF Recording
  <2> QED
    BY <1>1, <1>2, <2>2, <2>3, <2>4 DEF Watching
<1>5. Sound(work)' /\ (db.score = Paid(db))'
  BY <1>2
<1> QED
  BY <1>2, <1>4, <1>5 DEF SessionInv

LEMMA IdleKeeps ==
  ASSUME SessionInv, UNCHANGED vars
  PROVE  SessionInv'
<1>1. UNCHANGED <<db, work, job, process, up, key, engine, drawn, answers>>
  BY DEF vars, memory
<1>2. TypeOK'
  BY <1>1 DEF SessionInv, TypeOK
<1>3. Serving'
  BY <1>1 DEF SessionInv, Serving
<1>4. Sound(db)' /\ Sound(work)' /\ (db.score = Paid(db))'
  BY <1>1 DEF SessionInv
<1>5. (job.at = "recording" => Recording)'
  BY <1>1 DEF SessionInv, Recording, NewEvents, NewDisclosures, Registered
<1>6. Answered' /\ Watching'
  BY <1>1 DEF SessionInv, Answered, Watching, Registered
<1> QED
  BY <1>2, <1>3, <1>4, <1>5, <1>6 DEF SessionInv

LEMMA NextInv == SessionInv /\ [Next]_vars => SessionInv'
<1> SUFFICES ASSUME SessionInv, [Next]_vars PROVE SessionInv'
  OBVIOUS
<1>1. CASE Starting
  BY <1>1, StepsKeep, IdentityKeeps, AttachingKeeps DEF Starting
<1>2. CASE Attaching
  BY <1>2, AttachingKeeps DEF Attaching
<1>3. CASE Observing
  BY <1>3, StepsKeep, AgainKeeps, RecordingKeeps, CommitKeepsAll DEF Observing
<1>4. CASE Raise \/ SessionEndFails \/ DaemonDies \/ StartDaemon
  BY <1>4, StepsKeep, IdentityKeeps
<1>5. CASE SessionEnd
  BY <1>5, EndKeeps
<1>6. CASE UNCHANGED vars
  BY <1>6, IdleKeeps
<1> QED
  BY <1>1, <1>2, <1>3, <1>4, <1>5, <1>6 DEF Next

LEMMA SessionCorrect == Spec => []SessionInv
<1>1. Init => SessionInv
  BY InitInv
<1>2. SessionInv /\ [Next]_vars => SessionInv'
  BY NextInv
<1> QED
  BY <1>1, <1>2, PTL DEF Spec

-----------------------------------------------------------------------------
\* What is always true of a session

\* Whatever the session went through, its rows have the shape that the handlers
\* read them by: a delivery's result names rows there are, and a delta or a
\* score is never negative.
THEOREM TypeCorrect == Spec => []TypeOK
<1>1. SessionInv => TypeOK
  BY DEF SessionInv
<1> QED
  BY <1>1, SessionCorrect, PTL

\* All hashes of a session, open transaction included, are under one key: a
\* restarted daemon, a failed installation or a second start never hashes the
\* session's values again.
THEOREM OneKeyPerSession == Spec => []OneNamespace
<1>1. SessionInv => OneNamespace
  <2> SUFFICES ASSUME SessionInv, NEW L \in {db, work}
               PROVE  Cardinality(({L.subjects[i].key : i \in 1..Len(L.subjects)}
                                   \cup {L.recipients[i].key : i \in 1..Len(L.recipients)})
                                  \ {0}) <= 1
    BY DEF OneNamespace
  <2> DEFINE K == ({L.subjects[i].key : i \in 1..Len(L.subjects)}
                   \cup {L.recipients[i].key : i \in 1..Len(L.recipients)}) \ {0}
  <2>1. Table(L.subjects, L.ended) /\ Table(L.recipients, L.ended)
    BY DEF SessionInv, Sound
  <2>2. K \subseteq {1}
    BY <2>1 DEF Table
  <2>3. IsFiniteSet({1}) /\ Cardinality({1}) = 1
    BY FS_Singleton
  <2> HIDE DEF K
  <2>4. IsFiniteSet(K) /\ Cardinality(K) <= 1
    BY <2>2, <2>3, FS_Subset
  <2> QED
    BY <2>4 DEF K
<1> QED
  BY <1>1, SessionCorrect, PTL

\* Once the end is committed the rows hold no hash and the daemon no key,
\* whichever handler or daemon comes after it.
THEOREM EndForgets == Spec => []ErasedAtEnd
<1>1. SessionInv => ErasedAtEnd
  BY DEF SessionInv, Sound, Table, Serving, ErasedAtEnd
<1> QED
  BY <1>1, SessionCorrect, PTL

\* Every daemon that recorded into a session that is still open has its
\* coverage row, which is what keeps a second one from passing as watched.
THEOREM RecorderIsWatching == Spec => []OpenRecordsWatched
<1>1. SessionInv => OpenRecordsWatched
  BY DEF SessionInv, Watching, OpenRecordsWatched
<1> QED
  BY <1>1, SessionCorrect, PTL

\* The caller that recorded a delivery and every caller that tells it again are
\* given one result, reckoned from rows of which others were added and hashes
\* erased meanwhile.
THEOREM AnswersNeverChange == Spec => []SameAnswerForever
<1>1. SessionInv => SameAnswerForever
  <2> SUFFICES ASSUME SessionInv, NEW d \in Deliveries PROVE Cardinality(answers[d]) <= 1
    BY DEF SameAnswerForever
  <2>1. Cardinality({}) = 0 /\ Cardinality({RecordedResult(db, d)}) = 1
    BY FS_EmptySet, FS_Singleton
  <2> QED
    BY <2>1 DEF SessionInv, Answered
<1> QED
  BY <1>1, SessionCorrect, PTL

-----------------------------------------------------------------------------
\* The percentage

\* Where every row is resolved, the charges are what the events owe.
LEMMA OwedIsCharged ==
  ASSUME NEW L \in Ledger, Sound(L),
         \A i \in 1..Len(L.events) :
            /\ L.subjects[L.events[i].subject].resolved
            /\ L.recipients[L.events[i].recipient].resolved
  PROVE  Charged(L) = Owed(L)
<1> DEFINE E(i) == L.events[i]
           First(i) == \A j \in Confirmed(L) : Pair(E(j)) = Pair(E(i)) => i <= j
           Debt(i) == [value |-> E(i).value, to |-> E(i).to, type |-> E(i).type]
<1>1. \A i, j \in 1..Len(L.events) : Pair(E(i)) = Pair(E(j)) <=> SamePairOfRows(E(i), E(j))
  <2>1. \A i \in 1..Len(L.events) : Told(L, E(i))
    BY DEF Sound, EventsTold
  <2>2. Table(L.subjects, L.ended) /\ Table(L.recipients, L.ended)
    BY DEF Sound
  <2> SUFFICES ASSUME NEW i \in 1..Len(L.events), NEW j \in 1..Len(L.events)
               PROVE  Pair(E(i)) = Pair(E(j)) <=> SamePairOfRows(E(i), E(j))
    OBVIOUS
  <2> DEFINE s == E(i).subject
             u == E(j).subject
             r == E(i).recipient
             v == E(j).recipient
  <2>3. /\ s \in 1..Len(L.subjects) /\ u \in 1..Len(L.subjects)
        /\ L.subjects[s].of = E(i).value /\ L.subjects[u].of = E(j).value
        /\ L.subjects[s].resolved /\ L.subjects[u].resolved
        /\ r \in 1..Len(L.recipients) /\ v \in 1..Len(L.recipients)
        /\ L.recipients[r].of = E(i).to /\ L.recipients[v].of = E(j).to
        /\ L.recipients[r].resolved /\ L.recipients[v].resolved
    BY <2>1 DEF Told
  <2>4. Pair(E(i)) = Pair(E(j)) <=> E(i).value = E(j).value /\ E(i).to = E(j).to
    BY DEF Pair
  <2>5. SamePairOfRows(E(i), E(j)) <=> s = u /\ r = v
    BY DEF SamePairOfRows
  <2> HIDE DEF s, u, r, v, E
  <2>6. E(i).value = E(j).value <=> s = u
    BY <2>2, <2>3 DEF Table
  <2>7. E(i).to = E(j).to <=> r = v
    BY <2>2, <2>3 DEF Table
  <2> QED
    BY ONLY <2>4, <2>5, <2>6, <2>7
<1>2. \A k \in 1..Len(L.disclosures) :
         LET x == L.disclosures[k] IN
         /\ x.event \in Confirmed(L) /\ x.type = E(x.event).type
         /\ SamePairOfRows(x, E(x.event))
  BY DEF Sound, ChargedOnce, Charging, Confirmed, SamePairOfRows
<1>3. \A j \in Confirmed(L) : \E i \in 1..Len(L.disclosures) :
         SamePairOfRows(L.disclosures[i], E(j)) /\ L.disclosures[i].event <= j
  BY DEF Sound, ChargedByThen, Confirmed
<1>4. Confirmed(L) \subseteq 1..Len(L.events) /\ Len(L.events) \in Nat
  BY LedgerTyped DEF Confirmed
<1>5. \A i, j \in 1..Len(L.disclosures) :
         SamePairOfRows(L.disclosures[i], L.disclosures[j]) => i = j
  BY DEF Sound, ChargedOnce
<1>6. ASSUME NEW k \in 1..Len(L.disclosures) PROVE First(L.disclosures[k].event)
  <2> SUFFICES ASSUME NEW j \in Confirmed(L), Pair(E(j)) = Pair(E(L.disclosures[k].event))
               PROVE  L.disclosures[k].event <= j
    OBVIOUS
  <2>1. PICK i \in 1..Len(L.disclosures) :
           SamePairOfRows(L.disclosures[i], E(j)) /\ L.disclosures[i].event <= j
    BY <1>3
  <2>2. SamePairOfRows(E(j), E(L.disclosures[k].event))
    BY <1>1, <1>2, <1>4
  <2>3. SamePairOfRows(L.disclosures[i], L.disclosures[k])
    BY <1>2, <2>1, <2>2 DEF SamePairOfRows
  <2> QED
    BY <1>5, <2>1, <2>3
<1>7. ASSUME NEW i \in Confirmed(L), First(i)
      PROVE  \E k \in 1..Len(L.disclosures) : L.disclosures[k].event = i
  <2>1. PICK k \in 1..Len(L.disclosures) :
           SamePairOfRows(L.disclosures[k], E(i)) /\ L.disclosures[k].event <= i
    BY <1>3
  <2> DEFINE h == L.disclosures[k].event
  <2>2. h \in Confirmed(L) /\ SamePairOfRows(E(h), E(i))
    BY <1>2, <2>1 DEF SamePairOfRows
  <2>3. Pair(E(h)) = Pair(E(i))
    BY <1>1, <1>4, <2>2
  <2>4. i <= h /\ h <= i /\ h \in Nat /\ i \in Nat
    BY <1>4, <1>7, <2>1, <2>2, <2>3
  <2> HIDE DEF h
  <2>5. h = i
    BY ONLY <2>4
  <2> QED
    BY <2>5 DEF h
<1>8. Charged(L) = {Debt(L.disclosures[k].event) : k \in 1..Len(L.disclosures)}
  BY <1>2 DEF Charged, EventOf
<1>9. Owed(L) = {Debt(i) : i \in {i \in Confirmed(L) : First(i)}}
  BY DEF Owed
<1> HIDE DEF Debt, First
<1> QED
  BY <1>2, <1>6, <1>7, <1>8, <1>9

\* A percentage that is shown stands for exactly the pairs that the recorded
\* events confirm, each at the place it took in its group, and the listed
\* events' deltas add up to it.
THEOREM ShownIsExact == Spec => []PercentIsExact
<1>1. SessionInv => PercentIsExact
  <2> SUFFICES ASSUME SessionInv, PercentShown(db)
               PROVE  /\ db.score = Account!Worth(Owed(db))
                      /\ db.score = SumFunction(Shown(db))
    BY DEF PercentIsExact, Shown
  <2>1. db \in Ledger /\ Sound(db) /\ db.score = Paid(db)
    BY DEF SessionInv, TypeOK
  <2>2. Charged(db) = Owed(db)
    BY <2>1, OwedIsCharged DEF PercentShown
  <2>3. Paid(db) = Account!Worth(Charged(db))
        /\ Paid(db) = SumFunctionOnSet(Shown(db), 1..Len(db.events))
    BY <2>1 DEF Sound, Priced
  <2>4. DOMAIN Shown(db) = 1..Len(db.events)
    BY DEF Shown
  <2> QED
    BY <2>1, <2>2, <2>3, <2>4 DEF SumFunction
<1> QED
  BY <1>1, SessionCorrect, PTL

-----------------------------------------------------------------------------
\* The guards of the database

LEMMA PrefixKept ==
  ASSUME NEW X, NEW q \in Seq(X), NEW u \in Seq(X), RowsKept(q, u)
  PROVE  IsPrefix(q, u)
<1>1. Len(q) \in Nat /\ Len(u) \in Nat /\ Len(q) <= Len(u)
  BY DEF RowsKept
<1>2. \A i \in 1..Len(q) : u[i] = q[i]
  BY DEF RowsKept
<1>3. SubSeq(q, 1, Len(q)) = SubSeq(u, 1, Len(q))
  BY <1>1, <1>2
<1> QED
  BY <1>1, <1>3 DEF IsPrefix

\* Sound rows are unique where the database wants them so.
LEMMA SoundUnique ==
  ASSUME NEW M \in Ledger, Sound(M)
  PROVE  UniqueKept(M)
<1>1. Table(M.subjects, M.ended) /\ Table(M.recipients, M.ended)
  BY DEF Sound
<1>2. \A i, j \in 1..Len(M.subjects) :
         i < j /\ M.subjects[i].key # 0 =>
            <<M.subjects[i].key, M.subjects[i].of>> # <<M.subjects[j].key, M.subjects[j].of>>
  BY <1>1, LedgerTyped DEF Table
<1>3. \A i, j \in 1..Len(M.recipients) :
         i < j /\ M.recipients[i].key # 0 =>
            <<M.recipients[i].key, M.recipients[i].of>>
               # <<M.recipients[j].key, M.recipients[j].of>>
  BY <1>1, LedgerTyped DEF Table
<1>4. \A i, j \in 1..Len(M.events) :
         i < j => <<M.events[i].delivery, M.events[i].subject, M.events[i].recipient>>
                     # <<M.events[j].delivery, M.events[j].subject, M.events[j].recipient>>
  BY LedgerTyped DEF Sound, EventsTold
<1>5. ASSUME NEW i \in 1..Len(M.disclosures), NEW j \in 1..Len(M.disclosures), i < j
      PROVE  LET x == M.disclosures[i]
                 y == M.disclosures[j]
             IN /\ <<x.subject, x.recipient>> # <<y.subject, y.recipient>>
                /\ <<x.type, x.recipient, x.n>> # <<y.type, y.recipient, y.n>>
                /\ x.event # y.event
  <2> DEFINE x == M.disclosures[i]
             y == M.disclosures[j]
  <2>1. i # j
    BY <1>5, LedgerTyped
  <2>2. ~SamePairOfRows(x, y) /\ ~SamePlace(x, y)
    BY <2>1 DEF Sound, ChargedOnce
  <2>3. /\ M.events[x.event].subject = x.subject /\ M.events[x.event].recipient = x.recipient
        /\ M.events[y.event].subject = y.subject /\ M.events[y.event].recipient = y.recipient
    BY DEF Sound, ChargedOnce, Charging
  <2> HIDE DEF x, y
  <2>4. /\ <<x.subject, x.recipient>> # <<y.subject, y.recipient>>
        /\ <<x.type, x.recipient, x.n>> # <<y.type, y.recipient, y.n>>
        /\ x.event # y.event
    BY <2>2, <2>3 DEF SamePairOfRows, SamePlace
  <2> QED
    BY <2>4 DEF x, y
<1>6. /\ DOMAIN M.subjects = 1..Len(M.subjects) /\ DOMAIN M.recipients = 1..Len(M.recipients)
      /\ DOMAIN M.events = 1..Len(M.events) /\ DOMAIN M.disclosures = 1..Len(M.disclosures)
  BY DEF Ledger
<1> QED
  BY <1>2, <1>3, <1>4, <1>5, <1>6 DEF UniqueKept

LEMMA NoneBeyond == ASSUME NEW n \in Nat PROVE (n + 1)..n = {}
  OBVIOUS

LEMMA SameIdentitiesKept ==
  ASSUME NEW T, NEW U, NEW M, Len(T) \in Nat, U = T
  PROVE  IdentitiesKept(T, U, M)
  BY NoneBeyond DEF IdentitiesKept

\* A change of flags is one that the database lets pass.
LEMMA FlaggedPasses ==
  ASSUME NEW L \in Ledger, NEW M \in Ledger, Flagged(L, M), Sound(M)
  PROVE  GuardsPass(L, M)
<1>1. /\ M.subjects = L.subjects /\ M.recipients = L.recipients
      /\ M.events = L.events /\ M.disclosures = L.disclosures /\ M.score = L.score
  BY DEF Flagged
<1>2. /\ Len(L.subjects) \in Nat /\ Len(L.recipients) \in Nat
      /\ Len(L.events) \in Nat /\ Len(L.disclosures) \in Nat
  BY LedgerTyped
<1>3. SessionFrozen(L, M)
  <2>1. M.score >= L.score
    BY <1>1 DEF Ledger
  <2> QED
    BY <1>1, <2>1 DEF Flagged, SessionFrozen
<1>4. HistoryKept(L, M)
  <2>1. L.events \in Seq(Event) /\ L.disclosures \in Seq(Disclosure)
    BY DEF Ledger
  <2>2. RowsKept(L.events, M.events) /\ RowsKept(L.disclosures, M.disclosures)
    BY <1>1, <1>2 DEF RowsKept
  <2>3. IsPrefix(L.events, M.events) /\ IsPrefix(L.disclosures, M.disclosures)
    BY <1>1, <2>1, <2>2, PrefixKept
  <2> QED
    BY <2>3 DEF Flagged, HistoryKept
<1>5. NewRowsAllowed(L, M)
  <2>1. (Len(L.disclosures) + 1)..Len(M.disclosures) = {}
    BY <1>1, <1>2, NoneBeyond
  <2>2. M.observations # L.observations => M.version = 2
    BY DEF Flagged
  <2> QED
    BY <2>1, <2>2 DEF NewRowsAllowed
<1>6. IdentitiesKept(L.subjects, M.subjects, M) /\ IdentitiesKept(L.recipients, M.recipients, M)
  BY <1>1, <1>2, SameIdentitiesKept
<1> QED
  BY <1>3, <1>4, <1>5, <1>6, SoundUnique DEF GuardsPass

\* So does the erasure.
LEMMA ErasurePasses ==
  ASSUME NEW L \in Ledger, NEW M \in Ledger, Sound(M),
         L.version = 2, M.version = 2, M.ended,
         M.score = L.score, M.watch = L.watch, M.available <=> L.available,
         M.events = L.events, M.disclosures = L.disclosures,
         L.observations \subseteq M.observations,
         M.subjects = Nulled(L.subjects), M.recipients = Nulled(L.recipients)
  PROVE  GuardsPass(L, M)
<1>1. /\ Len(L.subjects) \in Nat /\ Len(L.recipients) \in Nat
      /\ Len(L.events) \in Nat /\ Len(L.disclosures) \in Nat
  BY LedgerTyped
<1>2. SessionFrozen(L, M)
  <2>1. M.score >= L.score
    BY DEF Ledger
  <2> QED
    BY <2>1 DEF SessionFrozen
<1>3. HistoryKept(L, M)
  <2>1. L.events \in Seq(Event) /\ L.disclosures \in Seq(Disclosure)
    BY DEF Ledger
  <2>2. RowsKept(L.events, M.events) /\ RowsKept(L.disclosures, M.disclosures)
    BY <1>1 DEF RowsKept
  <2>3. IsPrefix(L.events, M.events) /\ IsPrefix(L.disclosures, M.disclosures)
    BY <2>1, <2>2, PrefixKept
  <2> QED
    BY <2>3 DEF HistoryKept
<1>4. NewRowsAllowed(L, M)
  <2>1. (Len(L.disclosures) + 1)..Len(M.disclosures) = {}
    BY <1>1, NoneBeyond
  <2> QED
    BY <2>1 DEF NewRowsAllowed
<1>5. ASSUME NEW T, NEW X, T \in Seq(X), Len(T) \in Nat
      PROVE  IdentitiesKept(T, Nulled(T), M)
  <2>1. Nulled(T) = [i \in 1..Len(T) |-> [T[i] EXCEPT !.key = 0]] /\ Len(Nulled(T)) = Len(T)
    BY <1>5 DEF Nulled
  <2> QED
    BY <1>5, <2>1, NoneBeyond DEF IdentitiesKept
<1>6. IdentitiesKept(L.subjects, M.subjects, M) /\ IdentitiesKept(L.recipients, M.recipients, M)
  <2>1. L.subjects \in Seq(Identity(Values)) /\ L.recipients \in Seq(Identity(Destinations))
    BY DEF Ledger
  <2> QED
    BY <1>1, <1>5, <2>1
<1> QED
  BY <1>2, <1>3, <1>4, <1>6, SoundUnique DEF GuardsPass

\* A hash is written while the account is open only.
LEMMA GrownIdentitiesKept ==
  ASSUME NEW T, NEW U, NEW M, NEW L, Len(T) \in Nat, Len(U) \in Nat, RowsKept(T, U),
         Table(U, M.ended), HashedWhileOpen(T, U, L), Open(L) => Open(M), M.version = 2
  PROVE  IdentitiesKept(T, U, M)
<1>1. Len(T) <= Len(U) /\ \A i \in 1..Len(T) : U[i] = T[i]
  BY DEF RowsKept
<1>2. ASSUME NEW i \in (Len(T) + 1)..Len(U)
      PROVE  /\ M.version = 2
             /\ U[i].resolved <=> U[i].key # 0
             /\ U[i].resolved => Open(M)
  <2>1. i \in 1..Len(U)
    OBVIOUS
  <2>2. U[i].key = IF U[i].resolved /\ ~M.ended THEN 1 ELSE 0
    BY <2>1 DEF Table
  <2>3. U[i].resolved => Open(M)
    BY DEF HashedWhileOpen
  <2>4. Open(M) => ~M.ended
    BY DEF Open
  <2> QED
    BY <2>2, <2>3, <2>4
<1> QED
  BY <1>1, <1>2 DEF IdentitiesKept

LEMMA HashOfResolved ==
  ASSUME NEW T, NEW ended, Table(T, ended), ~ended, NEW i \in 1..Len(T), T[i].resolved
  PROVE  T[i].key # 0
  BY DEF Table

\* So does a turn of the recording loop.
LEMMA AppendPasses ==
  ASSUME SessionInv, AppendEvent
  PROVE  GuardsPass(work, work')
<1>1. /\ TypeOK /\ Serving /\ Sound(db) /\ Sound(work) /\ Recording /\ work \in Ledger
  BY DEF SessionInv, AppendEvent, TypeOK
<1>2. /\ work' \in Ledger /\ FlagsKept(work, work')
      /\ HashedWhileOpen(work.subjects, work'.subjects, work)
      /\ HashedWhileOpen(work.recipients, work'.recipients, work)
  BY <1>1, AppendWrites
<1>3. Sound(work')
  BY <1>1, AppendKeeps
<1>4. PICK s \in Nat, r \in Nat :
         LET f == job.batch.findings[job.done + 1] IN
         /\ Extends(work, work', job.delivery, f, s, r)
         /\ \/ NothingNew(work, work', f, s, r)
            \/ Charges(work, work', f, s, r) /\ Open(work)
  BY <1>1, AppendWrites
<1> DEFINE f == job.batch.findings[job.done + 1]
           n == Len(work.disclosures)
<1>5. /\ Extends(work, work', job.delivery, f, s, r)
      /\ \/ NothingNew(work, work', f, s, r)
         \/ Charges(work, work', f, s, r) /\ Open(work)
  BY <1>4
<1> HIDE DEF f
<1>6. /\ Len(work.subjects) \in Nat /\ Len(work.recipients) \in Nat
      /\ Len(work'.subjects) \in Nat /\ Len(work'.recipients) \in Nat
      /\ Len(work.events) \in Nat /\ n \in Nat
  BY <1>1, <1>2, LedgerTyped
<1>7. /\ work.version = 2 /\ work'.version = 2 /\ work'.observations = work.observations
      /\ RowsKept(work.subjects, work'.subjects) /\ RowsKept(work.recipients, work'.recipients)
      /\ Table(work'.subjects, work'.ended) /\ Table(work'.recipients, work'.ended)
      /\ RowsKept(work.events, work'.events)
  BY <1>5 DEF Extends
<1>8. RowsKept(work.disclosures, work'.disclosures)
  BY <1>5, <1>6 DEF NothingNew, Charges, RowsKept
<1>9. Open(work) => Open(work')
  BY <1>2 DEF FlagsKept, Open
<1>10. SessionFrozen(work, work')
  <2>1. work'.score >= work.score /\ work'.score = work.score
    BY <1>1, <1>2 DEF FlagsKept, Ledger
  <2> QED
    BY <1>2, <2>1 DEF FlagsKept, SessionFrozen
<1>11. HistoryKept(work, work')
  <2>1. /\ work.events \in Seq(Event) /\ work'.events \in Seq(Event)
        /\ work.disclosures \in Seq(Disclosure) /\ work'.disclosures \in Seq(Disclosure)
    BY <1>1, <1>2 DEF Ledger
  <2>2. IsPrefix(work.events, work'.events) /\ IsPrefix(work.disclosures, work'.disclosures)
    BY <1>7, <1>8, <2>1, PrefixKept
  <2> QED
    BY <1>2, <2>2 DEF HistoryKept, FlagsKept
<1>12. ASSUME NEW i \in (n + 1)..Len(work'.disclosures)
       PROVE  LET x == work'.disclosures[i]
                  e == work'.events[x.event]
              IN /\ Open(work')
                 /\ e.confirmed /\ e.type = x.type
                 /\ e.subject = x.subject /\ e.recipient = x.recipient
                 /\ work'.subjects[x.subject].key # 0
                 /\ work'.recipients[x.recipient].key # 0
  <2> DEFINE x == work'.disclosures[i]
             e == work'.events[x.event]
  <2>1. ~NothingNew(work, work', f, s, r)
    <3>1. work'.disclosures # work.disclosures
      BY <1>6, NoneBeyond
    <3> QED
      BY <3>1 DEF NothingNew
  <2>2. Open(work') /\ ~work'.ended
    BY <1>5, <1>9, <2>1 DEF Open
  <2>3. i \in 1..Len(work'.disclosures)
    BY <1>6
  <2>4. Charging(work', x)
    BY <1>3, <2>3 DEF Sound, ChargedOnce
  <2>5. /\ e.confirmed /\ e.type = x.type
        /\ e.subject = x.subject /\ e.recipient = x.recipient
        /\ work'.subjects[x.subject].resolved /\ work'.recipients[x.recipient].resolved
    BY <2>4 DEF Charging
  <2>6. x.subject \in 1..Len(work'.subjects) /\ x.recipient \in 1..Len(work'.recipients)
    <3>1. Told(work', e)
      BY <1>3, <2>4 DEF Sound, EventsTold, Charging
    <3> QED
      BY <2>5, <3>1 DEF Told
  <2>7. work'.subjects[x.subject].key # 0 /\ work'.recipients[x.recipient].key # 0
    <3> DEFINE u == x.subject
               v == x.recipient
    <3>1. /\ u \in 1..Len(work'.subjects) /\ work'.subjects[u].resolved
          /\ v \in 1..Len(work'.recipients) /\ work'.recipients[v].resolved
      BY <2>5, <2>6
    <3> HIDE DEF u, v
    <3>2. work'.subjects[u].key # 0 /\ work'.recipients[v].key # 0
      BY <1>7, <2>2, <3>1, HashOfResolved
    <3> QED
      BY <3>2 DEF u, v
  <2> QED
    BY <2>2, <2>5, <2>7
<1>13. NewRowsAllowed(work, work')
  BY <1>7, <1>12 DEF NewRowsAllowed
<1>14. /\ IdentitiesKept(work.subjects, work'.subjects, work')
       /\ IdentitiesKept(work.recipients, work'.recipients, work')
  BY <1>2, <1>6, <1>7, <1>9, GrownIdentitiesKept
<1> QED
  BY <1>2, <1>3, <1>10, <1>11, <1>13, <1>14, SoundUnique DEF GuardsPass

\* And the score that the commit adds: none after the end.
LEMMA CommitPasses ==
  ASSUME SessionInv, CommitRecord
  PROVE  GuardsPass(work, work')
<1>1. /\ TypeOK /\ Serving /\ Answered /\ Sound(db) /\ Sound(work)
      /\ db.score = Paid(db) /\ Recording /\ work \in Ledger /\ db \in Ledger
      /\ job.delta \in Nat
  BY DEF SessionInv, CommitRecord, TypeOK
<1>2. /\ work' \in Ledger /\ work' = WithScore(work, db.score + job.delta)
      /\ db.score + job.delta \in Nat /\ Sound(work')
  BY <1>1, CommitKeeps
<1> DEFINE p == db.score + job.delta
<1>3. /\ work'.score = p
      /\ work'.subjects = work.subjects /\ work'.recipients = work.recipients
      /\ work'.events = work.events /\ work'.disclosures = work.disclosures
      /\ work'.version = work.version /\ work'.watch = work.watch
      /\ work'.observations = work.observations
      /\ work'.available <=> work.available
      /\ work'.ended <=> work.ended
  <2> HIDE DEF p
  <2>1. work' = WithScore(work, p) /\ p \in Nat
    BY <1>2 DEF p
  <2> QED
    BY ONLY <1>1, <2>1, Scored
<1>4. /\ Len(work.subjects) \in Nat /\ Len(work.recipients) \in Nat
      /\ Len(work.events) \in Nat /\ Len(work.disclosures) \in Nat
  BY <1>1, LedgerTyped
<1>5. work.ended => job.delta = 0
  <2> SUFFICES ASSUME work.ended PROVE job.delta = 0
    OBVIOUS
  <2>1. work.disclosures = db.disclosures /\ SumFunctionOnSet(Deltas(work), NewDisclosures) = job.delta
    BY <1>1 DEF Recording, Open
  <2>2. NewDisclosures = {}
    BY <1>4, <2>1, NoneBeyond DEF NewDisclosures
  <2> QED
    BY <2>1, <2>2, SumOfNothing
<1>6. SessionFrozen(work, work')
  <2>1. work.score = db.score /\ db.score \in Nat
    BY <1>1 DEF Recording, Ledger
  <2>2. work'.score >= work.score /\ (work.ended => work'.score = work.score)
    BY <1>1, <1>3, <1>5, <2>1
  <2> QED
    BY <1>3, <2>2 DEF SessionFrozen
<1>7. HistoryKept(work, work')
  <2>1. work.events \in Seq(Event) /\ work.disclosures \in Seq(Disclosure)
    BY <1>1 DEF Ledger
  <2>2. RowsKept(work.events, work'.events) /\ RowsKept(work.disclosures, work'.disclosures)
    BY <1>3, <1>4 DEF RowsKept
  <2>3. IsPrefix(work.events, work'.events) /\ IsPrefix(work.disclosures, work'.disclosures)
    BY <1>3, <2>1, <2>2, PrefixKept
  <2> QED
    BY <1>3, <2>3 DEF HistoryKept
<1>8. NewRowsAllowed(work, work')
  <2>1. (Len(work.disclosures) + 1)..Len(work'.disclosures) = {}
    BY <1>3, <1>4, NoneBeyond
  <2> QED
    BY <1>3, <2>1 DEF NewRowsAllowed
<1>9. /\ IdentitiesKept(work.subjects, work'.subjects, work')
      /\ IdentitiesKept(work.recipients, work'.recipients, work')
  BY <1>3, <1>4, SameIdentitiesKept
<1> QED
  BY <1>2, <1>6, <1>7, <1>8, <1>9, SoundUnique DEF GuardsPass

LEMMA QuietPasses ==
  ASSUME SessionInv, Quiet, Sound(db'), job.at # "recording"
  PROVE  GuardsPass(work, work')
<1>1. work = db /\ work' = db' /\ db \in Ledger /\ db' \in Ledger /\ Flagged(db, db')
  BY DEF SessionInv, TypeOK, Serving, Quiet
<1> QED
  BY <1>1, FlaggedPasses

LEMMA WritesPass ==
  ASSUME SessionInv, Next, work' # db \/ db' # db
  PROVE  GuardsPass(work, work')
<1>1. TypeOK /\ Serving /\ Sound(db) /\ db \in Ledger
  BY DEF SessionInv, TypeOK
<1>2. Sound(db')
  BY NextInv DEF SessionInv
<1>3. CASE StartArrives \/ (\E d \in Deliveries, b \in Batches : HookArrives(d, b))
           \/ SessionEndFails
  <2>1. UNCHANGED <<db, work>> /\ job.at # "recording"
    BY <1>3, IdleIsJob DEF StartArrives, HookArrives, SessionEndFails
  <2> QED
    BY <1>1, <2>1 DEF Serving
<1>4. CASE StartKnown \/ ObserveLegacy \/ ObserveAgain
  <2>1. UNCHANGED <<db, work>> /\ job.at # "recording"
    BY <1>4 DEF StartKnown, ObserveLegacy, ObserveAgain
  <2> QED
    BY <1>1, <2>1 DEF Serving
<1>5. CASE Raise \/ DaemonDies
  BY <1>5 DEF Raise, DaemonDies, Rollback
<1>6. CASE Install \/ InstallFails \/ StartDaemon
  <2>1. Quiet
    BY <1>1, <1>6, InstallQuiet, StartQuiet
  <2>2. job.at # "recording"
    BY <1>1, <1>6, IdleIsJob DEF Install, InstallFails, StartDaemon, Serving
  <2> QED
    BY <1>2, <2>1, <2>2, QuietPasses
<1>7. CASE Activate \/ MarkUnavailable \/ AttachKeyless
  <2>1. Quiet
    BY <1>1, <1>7, ActivateQuiet, MarkQuiet, AttachQuiet
  <2>2. job.at # "recording"
    BY <1>7 DEF Activate, MarkUnavailable, AttachKeyless
  <2> QED
    BY <1>2, <2>1, <2>2, QuietPasses
<1>8. CASE SessionEnd
  <2>1. work = db /\ work' = db' /\ db' \in Ledger /\ job.at # "recording"
    BY <1>1, <1>8, EndErases, IdleIsJob DEF SessionEnd, Serving
  <2>2. CASE Flagged(db, db')
    BY <1>1, <1>2, <2>1, <2>2, FlaggedPasses
  <2>3. CASE /\ db.version = 2 /\ db'.version = 2 /\ db'.ended
             /\ db'.score = db.score /\ db'.watch = db.watch
             /\ db'.events = db.events /\ db'.disclosures = db.disclosures
             /\ db.observations \subseteq db'.observations
             /\ db'.subjects = Nulled(db.subjects)
             /\ db'.recipients = Nulled(db.recipients)
             /\ db'.available <=> db.available
    BY <1>1, <1>2, <2>1, <2>3, ErasurePasses
  <2> QED
    BY <1>1, <1>8, <2>2, <2>3, EndErases
<1>9. CASE BeginRecord
  <2>1. Flagged(db, work') /\ Sound(work') /\ job.at = "observing"
    BY <1>1, <1>9, BeginKeeps
  <2>2. work = db /\ work' \in Ledger
    BY <1>1, <1>9, <2>1, BeginKeeps DEF Serving, TypeOK
  <2> QED
    BY <1>1, <2>1, <2>2, FlaggedPasses
<1>10. CASE AppendEvent
  BY <1>10, AppendPasses
<1>11. CASE CommitRecord
  BY <1>11, CommitPasses
<1> QED
  BY <1>3, <1>4, <1>5, <1>6, <1>7, <1>8, <1>9, <1>10, <1>11
  DEF Next, Starting, Attaching, Observing

\* No write of the handlers runs into a trigger or a unique index of the
\* database, whatever was committed, closed or erased before it: an observation
\* is never lost to an abort.
THEOREM WritesAreLegal == Spec => NoWriteAborts
<1>1. SessionInv /\ [Next]_vars
      => [(work' # db \/ db' # db) => GuardsPass(work, work')]_vars
  BY WritesPass
<1> QED
  BY <1>1, SessionCorrect, PTL DEF Spec, NoWriteAborts

-----------------------------------------------------------------------------
\* The abstract account

\* A recorded delivery charges all it owes, or leaves the account as it was.
LEMMA CommitCharges ==
  ASSUME SessionInv, CommitRecord
  PROVE  /\ Charged(db) \subseteq Charged(db') /\ Accounts(Charged(db'))
         /\ db.score = Account!Worth(Charged(db))
         /\ db'.score = Account!Worth(Charged(db'))
         /\ db.version = 2 /\ db'.version = 2
         /\ db'.available <=> db.available
         /\ db'.ended <=> db.ended
         /\ ~Open(db) => Charged(db') = Charged(db)
<1>1. /\ TypeOK /\ Serving /\ Answered /\ Sound(db) /\ Sound(work)
      /\ db.score = Paid(db) /\ Recording /\ work \in Ledger /\ db \in Ledger
      /\ job.at = "recording"
  BY DEF SessionInv, CommitRecord, TypeOK
<1>2. /\ db' \in Ledger /\ db' = WithScore(work, db.score + job.delta)
      /\ db.score + job.delta \in Nat /\ Sound(db') /\ db'.score = Paid(db')
  BY <1>1, CommitKeeps
<1>3. /\ db'.events = work.events /\ db'.disclosures = work.disclosures
      /\ db'.version = work.version
      /\ db'.available <=> work.available
      /\ db'.ended <=> work.ended
  BY <1>1, <1>2, Scored
<1>4. /\ db.version = 2 /\ db'.version = 2
      /\ db'.available <=> db.available
      /\ db'.ended <=> db.ended
  BY <1>1, <1>3 DEF Recording
<1>5. Accounts(Charged(db'))
  BY <1>2, ChargedAccounts DEF Sound, Tables
<1>6. /\ db.score = Account!Worth(Charged(db))
      /\ db'.score = Account!Worth(Charged(db'))
  BY <1>1, <1>2 DEF Sound, Priced
<1>7. \A i \in 1..Len(db.disclosures) :
         /\ i \in 1..Len(db'.disclosures) /\ db'.disclosures[i] = db.disclosures[i]
         /\ db'.events[db.disclosures[i].event] = db.events[db.disclosures[i].event]
  BY <1>1, <1>3, RowsOfDeliveries
<1>8. Charged(db) \subseteq Charged(db')
  BY <1>7 DEF Charged, EventOf
<1>9. ASSUME ~Open(db) PROVE Charged(db') = Charged(db)
  <2>1. db'.disclosures = db.disclosures
    BY <1>1, <1>3, <1>9 DEF Recording
  <2> QED
    BY <1>7, <2>1 DEF Charged, EventOf
<1> QED
  BY <1>4, <1>5, <1>6, <1>8, <1>9

AccountOpen(L) == L.version # 1 /\ L.available /\ ~L.ended

\* What moves flags only may close the account, never open it.
LEMMA FlaggedCloses ==
  ASSUME NEW L \in Ledger, NEW M \in Ledger, Flagged(L, M)
  PROVE  /\ Charged(M) = Charged(L) /\ M.score = L.score
         /\ AccountOpen(M) => AccountOpen(L)
<1>1. Charged(M) = Charged(L) /\ M.score = L.score
  BY DEF Flagged, Charged, EventOf
<1>2. AccountOpen(M) => AccountOpen(L)
  BY DEF Flagged, AccountOpen
<1> QED
  BY <1>1, <1>2

\* A step of the session leaves the account alone, closes it, or charges it.
LEMMA SessionSteps ==
  ASSUME SessionInv, Next
  PROVE  \/ db' = db
         \/ /\ Charged(db') = Charged(db) /\ db'.score = db.score
            /\ AccountOpen(db') => AccountOpen(db)
         \/ /\ AccountOpen(db) /\ AccountOpen(db')
            /\ Charged(db) \subseteq Charged(db') /\ Charged(db') # Charged(db)
            /\ Accounts(Charged(db')) /\ db'.score = Account!Worth(Charged(db'))
<1>1. TypeOK /\ Serving /\ Sound(db) /\ db \in Ledger
  BY DEF SessionInv, TypeOK
<1>2. CASE StartArrives \/ (\E d \in Deliveries, b \in Batches : HookArrives(d, b))
           \/ SessionEndFails \/ StartKnown \/ ObserveLegacy \/ ObserveAgain
           \/ Raise \/ DaemonDies \/ BeginRecord \/ AppendEvent
  BY <1>2 DEF StartArrives, HookArrives, SessionEndFails, StartKnown, ObserveLegacy,
     ObserveAgain, Raise, DaemonDies, Rollback, BeginRecord, AppendEvent
<1>3. CASE Install \/ InstallFails \/ StartDaemon \/ Activate \/ MarkUnavailable
           \/ AttachKeyless
  <2>1. Quiet
    BY <1>1, <1>3, InstallQuiet, StartQuiet, ActivateQuiet, MarkQuiet, AttachQuiet
  <2> QED
    BY <1>1, <2>1, FlaggedCloses DEF Quiet
<1>4. CASE SessionEnd
  <2>1. CASE Flagged(db, db')
    BY <1>1, <1>4, <2>1, EndErases, FlaggedCloses
  <2>2. CASE /\ db'.ended /\ db'.score = db.score
             /\ db'.events = db.events /\ db'.disclosures = db.disclosures
    BY <2>2 DEF Charged, EventOf, AccountOpen
  <2> QED
    BY <1>1, <1>4, <2>1, <2>2, EndErases
<1>5. CASE CommitRecord
  <2>1. /\ Charged(db) \subseteq Charged(db') /\ Accounts(Charged(db'))
        /\ db.score = Account!Worth(Charged(db))
        /\ db'.score = Account!Worth(Charged(db'))
        /\ ~Open(db) => Charged(db') = Charged(db)
    BY <1>5, CommitCharges
  <2>2. (AccountOpen(db) <=> Open(db)) /\ (AccountOpen(db') <=> AccountOpen(db))
    BY <1>5, CommitCharges DEF AccountOpen, Open
  <2> QED
    BY <2>1, <2>2
<1> QED
  BY <1>2, <1>3, <1>4, <1>5 DEF Next, Starting, Attaching, Observing

LEMMA AccountInit == Init => Account!Init
<1> SUFFICES ASSUME Init PROVE Account!Init
  OBVIOUS
<1>1. db = EmptyLedger
  BY DEF Init
<1>2. db.disclosures = <<>> /\ db.score = 0 /\ db.version = 0
  BY <1>1 DEF EmptyLedger
<1>3. db.available /\ ~db.ended
  BY <1>1 DEF EmptyLedger
<1>4. Charged(db) = {}
  <2>1. 1..Len(db.disclosures) = {}
    BY <1>2
  <2> QED
    BY <2>1 DEF Charged
<1>5. (db.version # 1 /\ db.available /\ ~db.ended) = TRUE
  BY <1>2, <1>3
<1> QED
  BY <1>2, <1>4, <1>5 DEF Account!Init

LEMMA AccountNext ==
  SessionInv /\ [Next]_vars
  => [Account!Next]_<<Charged(db), db.score, db.version # 1 /\ db.available /\ ~db.ended>>
<1> SUFFICES ASSUME SessionInv, [Next]_vars
             PROVE  \/ Account!Charge \/ Account!Close
                    \/ UNCHANGED <<Charged(db), db.score,
                                   db.version # 1 /\ db.available /\ ~db.ended>>
  BY DEF Account!Next
<1> DEFINE o == db.version # 1 /\ db.available /\ ~db.ended
           n == db'.version # 1 /\ db'.available /\ ~db'.ended
<1>1. o \in BOOLEAN /\ n \in BOOLEAN /\ (o <=> AccountOpen(db)) /\ (n <=> AccountOpen(db'))
  BY DEF AccountOpen
<1>2. CASE db' = db
  BY <1>2
<1>3. CASE /\ Charged(db') = Charged(db) /\ db'.score = db.score
           /\ AccountOpen(db') => AccountOpen(db)
  <2>1. CASE o <=> n
    <3>1. o = n
      BY <2>1, <1>1
    <3> QED
      BY <1>3, <3>1
  <2>2. CASE o /\ ~n
    <3>1. o /\ n = FALSE
      BY <2>2
    <3> QED
      BY <1>3, <3>1 DEF Account!Close
  <2> QED
    BY <1>1, <1>3, <2>1, <2>2
<1>4. CASE /\ AccountOpen(db) /\ AccountOpen(db')
           /\ Charged(db) \subseteq Charged(db') /\ Charged(db') # Charged(db)
           /\ Accounts(Charged(db')) /\ db'.score = Account!Worth(Charged(db'))
  <2>1. o /\ n = o
    BY <1>1, <1>4
  <2> QED
    BY <1>4, <2>1 DEF Account!Charge, Accounts
<1>5. CASE UNCHANGED vars
  BY <1>2, <1>5 DEF vars
<1> QED
  BY <1>2, <1>3, <1>4, <1>5, SessionSteps

\* Whatever interleaves, fails or restarts, the session's ledger is an account
\* that charges each confirmed crossing once and whole, is worth what it
\* charged, and never opens again once it closed.
THEOREM SessionIsAccount == Spec => Implements
<1>1. Init => Account!Init
  BY AccountInit
<1>2. SessionInv /\ [Next]_vars
      => [Account!Next]_<<Charged(db), db.score,
                          db.version # 1 /\ db.available /\ ~db.ended>>
  BY AccountNext
<1> QED
  BY <1>1, <1>2, SessionCorrect, PTL DEF Spec, Implements, Account!Spec
=============================================================================
