----------------------- MODULE ObservedSession_proofs -----------------------
(***************************************************************************)
(* Proofs about ObservedSession, for any calls, rules, daemons and engines:*)
(* consents, saved rules, the score and its rows, the marks of guard       *)
(* targets and the observers of a session, by one inductive invariant.     *)
(***************************************************************************)
EXTENDS ObservedSession, TLAPS, FiniteSetTheorems

-----------------------------------------------------------------------------
\* Finite sets.  Induction over the subsets of a finite set is the choice of a
\* least one.

\* A family of subsets of a finite set has a least member.
LEMMA LeastSubset ==
  ASSUME NEW S, IsFiniteSet(S), NEW T, \A X \in T : X \subseteq S, NEW Z \in T
  PROVE  \E X \in T : \A Y \in T : Y \subseteq X => Y = X
<1>1. T \subseteq FiniteSubsetsOf(S)
  BY FS_FiniteSubsetsOfFinite
<1>2. PICK X \in T : \A Y \in T : <<Y, X>> \notin StrictSubsetOrdering(S)
  BY <1>1, WFMin, FS_StrictSubsetOrderingWellFounded
<1> QED
  BY <1>2 DEF StrictSubsetOrdering

\* Some member of a finite set has the greatest value.
LEMMA HasGreatest ==
  ASSUME NEW S, IsFiniteSet(S), S # {}, NEW f, \A x \in S : f[x] \in Nat
  PROVE  \E x \in S : \A y \in S : f[x] >= f[y]
<1> DEFINE Top(X) == \E x \in X : \A y \in X : f[x] >= f[y]
           T == {X \in SUBSET S : X # {} /\ ~Top(X)}
<1> SUFFICES ASSUME S \in T PROVE FALSE
  OBVIOUS
<1>1. PICK X \in T : \A Y \in T : Y \subseteq X => Y = X
  <2>1. \A X \in T : X \subseteq S
    OBVIOUS
  <2> HIDE DEF T
  <2> QED
    BY <2>1, LeastSubset
<1>2. PICK x \in X : TRUE
  BY <1>1
<1>3. X \ {x} \notin T /\ X \ {x} \in SUBSET S
  BY <1>1, <1>2
<1>4. CASE X \ {x} = {}
  BY <1>1, <1>2, <1>4
<1>5. CASE X \ {x} # {}
  <2>1. Top(X \ {x})
    BY <1>3, <1>5
  <2>2. PICK y \in X \ {x} : \A z \in X \ {x} : f[y] >= f[z]
    BY <2>1
  <2>3. f[x] \in Nat /\ f[y] \in Nat /\ \A z \in X : f[z] \in Nat
    BY <1>1, <1>2, <2>2
  <2>4. CASE f[x] >= f[y]
    <3>1. \A z \in X : f[x] >= f[z]
      BY <2>2, <2>3, <2>4
    <3> QED
      BY <3>1, <1>1, <1>2
  <2>5. CASE f[y] >= f[x]
    <3>1. \A z \in X : f[y] >= f[z]
      BY <2>2, <2>3, <2>5
    <3> QED
      BY <3>1, <1>1, <2>2
  <2> QED
    BY <2>3, <2>4, <2>5
<1> QED
  BY <1>4, <1>5

\* q lists n members of X in increasing order.
Increasing(q, n, X) ==
    /\ q \in [1..n -> X]
    /\ \A i, j \in 1..n : i < j => q[i] < q[j]

Listable(X) == \E q : Increasing(q, Cardinality(X), X)

\* The greatest number goes last.
LEMMA ListedWithLast ==
  ASSUME NEW X \in SUBSET Nat, NEW m \in X, \A y \in X : m >= y,
         NEW n \in Nat, NEW q, Increasing(q, n, X \ {m})
  PROVE  \E p : Increasing(p, n + 1, X)
<1> DEFINE p == [i \in 1..(n + 1) |-> IF i = n + 1 THEN m ELSE q[i]]
<1>1. /\ p \in [1..(n + 1) -> X]
      /\ p[n + 1] = m /\ \A i \in 1..n : p[i] = q[i] /\ q[i] \in X /\ q[i] # m
  BY DEF Increasing
<1> HIDE DEF p
<1>2. ASSUME NEW i \in 1..(n + 1), NEW j \in 1..(n + 1), i < j PROVE p[i] < p[j]
  <2>1. i \in 1..n
    BY <1>2
  <2>2. CASE j = n + 1
    <3>1. m \in Nat /\ q[i] \in Nat /\ m >= q[i] /\ q[i] # m
      BY <2>1, <1>1
    <3> QED
      BY <3>1, <2>1, <2>2, <1>1
  <2>3. CASE j \in 1..n
    BY <2>1, <2>3, <1>1, <1>2 DEF Increasing
  <2> QED
    BY <2>2, <2>3
<1> QED
  BY <1>1, <1>2 DEF Increasing

\* A finite set of numbers can be listed in increasing order.
LEMMA FiniteIsListable ==
  ASSUME NEW S, S \subseteq Nat, IsFiniteSet(S)
  PROVE  Listable(S)
<1> DEFINE T == {X \in SUBSET S : ~Listable(X)}
<1> SUFFICES ASSUME S \in T PROVE FALSE
  OBVIOUS
<1>1. PICK X \in T : \A Y \in T : Y \subseteq X => Y = X
  <2>1. \A X \in T : X \subseteq S
    OBVIOUS
  <2> HIDE DEF T
  <2> QED
    BY ONLY <2>1, LeastSubset, IsFiniteSet(S), S \in T
<1>2. IsFiniteSet(X) /\ X \in SUBSET Nat /\ ~Listable(X)
  BY <1>1, FS_Subset
<1>3. X # {}
  <2> SUFFICES ASSUME X = {} PROVE FALSE
    OBVIOUS
  <2>1. Cardinality(X) = 0
    BY FS_EmptySet
  <2>2. Increasing(<<>>, 0, X)
    BY DEF Increasing
  <2> QED
    BY <2>1, <2>2, <1>2 DEF Listable
<1>4. PICK m \in X : \A y \in X : m >= y
  <2> DEFINE f == [x \in X |-> x]
  <2>1. \A x \in X : f[x] \in Nat /\ f[x] = x
    BY <1>2
  <2> HIDE DEF f
  <2>2. PICK m \in X : \A y \in X : f[m] >= f[y]
    BY <2>1, <1>2, <1>3, HasGreatest
  <2> QED
    BY <2>1, <2>2
<1>5. IsFiniteSet(X \ {m}) /\ Cardinality(X \ {m}) \in Nat
      /\ Cardinality(X) = Cardinality(X \ {m}) + 1
  <2>1. Cardinality(X) \in Nat
    BY <1>2, FS_CardinalityType
  <2>2. /\ IsFiniteSet(X \ {m})
        /\ Cardinality(X \ {m}) = Cardinality(X) - 1
    BY ONLY <1>2, m \in X, FS_RemoveElement
  <2>3. Cardinality(X \ {m}) \in Nat
    BY <2>2, FS_CardinalityType
  <2> QED
    BY <2>1, <2>2, <2>3
<1>6. Listable(X \ {m})
  BY <1>1, <1>4
<1> QED
  BY <1>2, <1>4, <1>5, <1>6, ListedWithLast DEF Listable

\* The findings of a list that are not paths are a list of findings.
LEMMA NoPathsType ==
  ASSUME NEW found \in Seq(Values)
  PROVE  NoPaths(found) \in Seq(Values)
<1> DEFINE kept == {i \in DOMAIN found : found[i] # "path"}
           n == Cardinality(kept)
           at == CHOOSE q \in [1..n -> kept] : \A i, j \in 1..n : i < j => q[i] < q[j]
<1>1. Len(found) \in Nat /\ DOMAIN found = 1..Len(found)
      /\ \A i \in DOMAIN found : found[i] \in Values
  OBVIOUS
<1>2. IsFiniteSet(kept) /\ kept \subseteq Nat
  <2>1. IsFiniteSet(1..Len(found)) /\ kept \subseteq 1..Len(found)
    BY <1>1, FS_Interval
  <2>2. 1..Len(found) \subseteq Nat
    BY <1>1
  <2> HIDE DEF kept
  <2> QED
    BY <2>1, <2>2, FS_Subset
<1>3. n \in Nat /\ at \in [1..n -> kept]
  <2> HIDE DEF kept
  <2> QED
    BY <1>2, FS_CardinalityType, FiniteIsListable DEF Listable, Increasing
<1>4. NoPaths(found) = [i \in 1..n |-> found[at[i]]]
  BY DEF NoPaths
<1>5. \A i \in 1..n : found[at[i]] \in Values
  <2>1. \A i \in 1..n : at[i] \in DOMAIN found
    BY <1>3
  <2> HIDE DEF at, n
  <2> QED
    BY <1>1, <2>1
<1> HIDE DEF at, n
<1> QED
  BY <1>3, <1>4, <1>5

-----------------------------------------------------------------------------
\* The score of a set of rows

DeltaSum(S) == FoldSet(LAMBDA r, sum : r.delta + sum, 0, S)

\* DeltaSum adds up the subsets of S by a function g that takes away one row
\* at a time.
Delta(r) == r.delta
AnyOf(s) == CHOOSE x \in s : TRUE
AddsUp(g, S) ==
    g = [s \in SUBSET S |-> IF s = {} THEN 0
                            ELSE Delta(AnyOf(s)) + g[s \ {AnyOf(s)}]]
Adder(S) == CHOOSE g : AddsUp(g, S)

\* The fold of the score is the value of that function.
LEMMA SumIsAdder ==
  ASSUME NEW S PROVE DeltaSum(S) = Adder(S)[S]
  BY DEF DeltaSum, FoldSet, MapThenFoldSet, Adder, AddsUp, AnyOf, Delta

\* What is taken away is a member.
LEMMA AnyOfIn == ASSUME NEW s, s # {} PROVE AnyOf(s) \in s
  BY DEF AnyOf

\* Such a function at one subset.
LEMMA AddsUpAt ==
  ASSUME NEW S, NEW g, AddsUp(g, S), NEW s, s \subseteq S
  PROVE  /\ s = {} => g[s] = 0
         /\ s # {} => g[s] = Delta(AnyOf(s)) + g[s \ {AnyOf(s)}]
<1>1. g = [t \in SUBSET S |-> IF t = {} THEN 0
                              ELSE Delta(AnyOf(t)) + g[t \ {AnyOf(t)}]]
  BY DEF AddsUp
<1>2. s \in SUBSET S
  OBVIOUS
<1> QED
  BY ONLY <1>1, <1>2

\* Two such functions agree where both are defined.
LEMMA AddersAgree ==
  ASSUME NEW S, IsFiniteSet(S), NEW U, NEW V, S \subseteq U, S \subseteq V,
         NEW g, AddsUp(g, U), NEW h, AddsUp(h, V)
  PROVE  g[S] = h[S]
<1> DEFINE T == {X \in SUBSET S : g[X] # h[X]}
<1> SUFFICES ASSUME S \in T PROVE FALSE
  OBVIOUS
<1>1. PICK X \in T : \A Y \in T : Y \subseteq X => Y = X
  <2>1. \A X \in T : X \subseteq S
    OBVIOUS
  <2> HIDE DEF T
  <2> QED
    BY ONLY <2>1, LeastSubset, IsFiniteSet(S), S \in T
<1>2. X \subseteq U /\ X \subseteq V /\ X \subseteq S /\ g[X] # h[X]
  BY <1>1
<1>3. X # {}
  BY <1>2, AddsUpAt
<1>4. g[X \ {AnyOf(X)}] = h[X \ {AnyOf(X)}]
  BY <1>1, <1>3, AnyOfIn
<1>5. g[X] = Delta(AnyOf(X)) + g[X \ {AnyOf(X)}]
  BY <1>2, <1>3, AddsUpAt
<1>6. h[X] = Delta(AnyOf(X)) + h[X \ {AnyOf(X)}]
  BY <1>2, <1>3, AddsUpAt
<1> QED
  BY <1>2, <1>4, <1>5, <1>6

\* Every finite set has one.
LEMMA AdderExists ==
  ASSUME NEW S, IsFiniteSet(S)
  PROVE  AddsUp(Adder(S), S)
<1> DEFINE Has(X) == \E g : AddsUp(g, X)
           T == {X \in SUBSET S : ~Has(X)}
<1>0. SUFFICES ASSUME S \in T PROVE FALSE
  <2>1. Has(S)
    BY <1>0
  <2> QED
    BY <2>1 DEF Adder
<1>1. PICK X \in T : \A Y \in T : Y \subseteq X => Y = X
  <2>1. \A X \in T : X \subseteq S
    OBVIOUS
  <2> HIDE DEF T
  <2> QED
    BY ONLY <2>1, LeastSubset, IsFiniteSet(S), S \in T
<1>2. X \subseteq S /\ ~Has(X) /\ IsFiniteSet(X)
  BY <1>1, FS_Subset
<1>3. \A Y : Y \subseteq X /\ Y # X => AddsUp(Adder(Y), Y) /\ IsFiniteSet(Y)
  <2> SUFFICES ASSUME NEW Y, Y \subseteq X, Y # X
               PROVE  AddsUp(Adder(Y), Y) /\ IsFiniteSet(Y)
    OBVIOUS
  <2>1. Has(Y)
    BY <1>1, <1>2
  <2>2. IsFiniteSet(Y)
    BY <1>2, FS_Subset
  <2> QED
    BY <2>1, <2>2 DEF Adder
<1> DEFINE V(s) == Adder(s)[s]
           g == [s \in SUBSET X |-> IF s = {} THEN 0
                                    ELSE Delta(AnyOf(s)) + V(s \ {AnyOf(s)})]
<1>4. ASSUME NEW s, s \subseteq X, s # X PROVE g[s] = V(s)
  <2>1. AddsUp(Adder(s), s)
    BY <1>3, <1>4
  <2>2. s \in SUBSET X
    BY <1>4
  <2>3. CASE s = {}
    <3>1. V(s) = 0
      BY <2>1, <2>3, AddsUpAt
    <3> QED
      BY <2>2, <2>3, <3>1
  <2>4. CASE s # {}
    <3> DEFINE t == s \ {AnyOf(s)}
    <3>1. t \subseteq s /\ t \subseteq X /\ t # X
      BY <1>4
    <3>2. AddsUp(Adder(t), t) /\ IsFiniteSet(t)
      BY <1>3, <3>1
    <3>3. Adder(s)[t] = Adder(t)[t]
      <4> HIDE DEF t
      <4> QED
        BY <2>1, <3>1, <3>2, AddersAgree
    <3>4. V(s) = Delta(AnyOf(s)) + Adder(s)[t]
      BY <2>1, <2>4, AddsUpAt
    <3> QED
      BY <2>2, <2>4, <3>3, <3>4
  <2> QED
    BY <2>3, <2>4
<1>5. AddsUp(g, X)
  <2>1. ASSUME NEW s \in SUBSET X, s # {}
        PROVE  V(s \ {AnyOf(s)}) = g[s \ {AnyOf(s)}]
    <3>1. AnyOf(s) \in s
      BY <2>1, AnyOfIn
    <3>2. s \ {AnyOf(s)} \subseteq X /\ s \ {AnyOf(s)} # X
      BY <3>1
    <3> HIDE DEF g, V
    <3> QED
      BY <1>4, <3>2
  <2>2. g = [s \in SUBSET X |-> IF s = {} THEN 0
                                ELSE Delta(AnyOf(s)) + g[s \ {AnyOf(s)}]]
    <3>1. \A s \in SUBSET X : g[s] = IF s = {} THEN 0 ELSE Delta(AnyOf(s)) + V(s \ {AnyOf(s)})
      OBVIOUS
    <3>2. g = [s \in SUBSET X |-> g[s]]
      OBVIOUS
    <3> HIDE DEF g, V
    <3> QED
      BY <2>1, <3>1, <3>2
  <2> QED
    BY <2>2 DEF AddsUp
<1> QED
  BY <1>2, <1>5

\* No rows sum up to nothing.
LEMMA SumOfNothing == DeltaSum({}) = 0
<1>1. IsFiniteSet({})
  BY FS_EmptySet
<1>2. AddsUp(Adder({}), {})
  BY <1>1, AdderExists
<1> QED
  BY <1>2, AddsUpAt, SumIsAdder

\* A sum takes the row that is taken away first, and the sum of the rest.
LEMMA SumTakesAny ==
  ASSUME NEW S, IsFiniteSet(S), S # {}
  PROVE  DeltaSum(S) = Delta(AnyOf(S)) + DeltaSum(S \ {AnyOf(S)})
<1> DEFINE t == S \ {AnyOf(S)}
<1>1. IsFiniteSet(t) /\ t \subseteq S
  BY FS_Subset
<1>2. AddsUp(Adder(S), S) /\ AddsUp(Adder(t), t)
  <2> HIDE DEF t
  <2> QED
    BY <1>1, AdderExists
<1>3. Adder(S)[t] = Adder(t)[t]
  <2> HIDE DEF t
  <2> QED
    BY <1>1, <1>2, AddersAgree
<1>4. Adder(S)[S] = Delta(AnyOf(S)) + Adder(S)[t]
  BY <1>2, AddsUpAt
<1> QED
  BY <1>3, <1>4, SumIsAdder

\* A sum of numbers is a number, whichever of them is taken away first.
LEMMA SumWithout ==
  ASSUME NEW S, IsFiniteSet(S), \A x \in S : Delta(x) \in Int
  PROVE  /\ DeltaSum(S) \in Int
         /\ \A y \in S : DeltaSum(S) = DeltaSum(S \ {y}) + Delta(y)
<1> DEFINE Sum(X) == DeltaSum(X)
           Good(X) == Sum(X) \in Int /\ \A y \in X : Sum(X) = Sum(X \ {y}) + Delta(y)
           T == {X \in SUBSET S : ~Good(X)}
<1>0. SUFFICES ASSUME S \in T PROVE FALSE
  BY <1>0
<1>1. PICK X \in T : \A Y \in T : Y \subseteq X => Y = X
  <2>1. \A X \in T : X \subseteq S
    OBVIOUS
  <2> HIDE DEF T
  <2> QED
    BY ONLY <2>1, LeastSubset, IsFiniteSet(S), S \in T
<1>2. X \subseteq S /\ ~Good(X) /\ IsFiniteSet(X)
  BY <1>1, FS_Subset
<1>3. ASSUME NEW x \in X PROVE Good(X \ {x})
  BY <1>1
<1>4. X # {}
  <2>1. Good({})
    BY SumOfNothing
  <2> HIDE DEF Good
  <2> QED
    BY <1>2, <2>1
<1> DEFINE a == AnyOf(X)
<1>5. a \in X
  BY <1>4, AnyOfIn
<1>6. Sum(X) = Delta(a) + Sum(X \ {a})
  BY <1>2, <1>4, SumTakesAny
<1>7. Delta(a) \in Int /\ Sum(X \ {a}) \in Int
  BY <1>2, <1>3, <1>5
<1>8. ASSUME NEW y \in X PROVE Sum(X) = Sum(X \ {y}) + Delta(y)
  <2> HIDE DEF Sum, a, T
  <2>1. CASE y = a
    BY <1>6, <1>7, <2>1
  <2>2. CASE y # a
    <3>1. Sum(X \ {a}) = Sum((X \ {a}) \ {y}) + Delta(y)
      BY <1>3, <1>5, <2>2
    <3>2. Sum(X \ {y}) = Sum((X \ {y}) \ {a}) + Delta(a) /\ Sum(X \ {y}) \in Int
      BY <1>3, <1>5, <2>2
    <3>3. (X \ {a}) \ {y} = (X \ {y}) \ {a}
      OBVIOUS
    <3>4. Delta(y) \in Int
      BY <1>2
    <3>5. Sum((X \ {a}) \ {y}) \in Int
      <4>1. y \in X \ {a} /\ X \ {a} \in SUBSET S
        BY <1>2, <2>2
      <4>2. (X \ {a}) \ {y} # X /\ (X \ {a}) \ {y} \subseteq X
        BY <1>5
      <4>3. (X \ {a}) \ {y} \notin T
        BY <1>1, <4>2
      <4> QED
        BY <4>3, <1>2 DEF T
    <3>6. Sum(X \ {a}) = Sum((X \ {a}) \ {y}) + Delta(y)
          /\ Sum(X \ {y}) = Sum((X \ {a}) \ {y}) + Delta(a)
      BY <3>1, <3>2, <3>3
    <3> QED
      BY ONLY <1>6, <1>7, <3>4, <3>5, <3>6
  <2> QED
    BY <2>1, <2>2
<1>9. Good(X)
  <2>1. Sum(X) \in Int
    BY <1>6, <1>7
  <2> QED
    BY <2>1, <1>8
<1> HIDE DEF Good
<1> QED
  BY <1>2, <1>9

\* A row more adds its delta.
LEMMA SumWith ==
  ASSUME NEW S, IsFiniteSet(S), \A x \in S : Delta(x) \in Int,
         NEW y, y \notin S, Delta(y) \in Int
  PROVE  /\ DeltaSum(S) \in Int
         /\ DeltaSum(S \cup {y}) = DeltaSum(S) + Delta(y)
<1>1. IsFiniteSet(S \cup {y})
  BY FS_AddElement
<1>2. (S \cup {y}) \ {y} = S
  OBVIOUS
<1>3. \A x \in S \cup {y} : Delta(x) \in Int
  OBVIOUS
<1> QED
  BY <1>1, <1>2, <1>3, SumWithout

\* A sum whose set loses one row for another of the same delta.
LEMMA SumSwapped ==
  ASSUME NEW S, IsFiniteSet(S), \A x \in S : Delta(x) \in Int,
         NEW y \in S, NEW z, z \notin S \ {y}, Delta(z) = Delta(y)
  PROVE  DeltaSum((S \ {y}) \cup {z}) = DeltaSum(S)
<1>1. IsFiniteSet(S \ {y}) /\ \A x \in S \ {y} : Delta(x) \in Int
  BY FS_RemoveElement
<1>2. DeltaSum(S) = DeltaSum(S \ {y}) + Delta(y)
  BY SumWithout
<1>3. DeltaSum((S \ {y}) \cup {z}) = DeltaSum(S \ {y}) + Delta(z)
  <2> DEFINE R == S \ {y}
  <2>1. z \notin R /\ Delta(z) \in Int
    OBVIOUS
  <2> HIDE DEF R
  <2> QED
    BY <1>1, <2>1, SumWith DEF R
<1> QED
  BY <1>2, <1>3

\* A finite set has finitely many images.
LEMMA ImageIsFinite ==
  ASSUME NEW S, IsFiniteSet(S), NEW f
  PROVE  IsFiniteSet({f[x] : x \in S})
<1> DEFINE T == {f[x] : x \in S}
           g == [x \in S |-> f[x]]
<1>1. g \in Surjection(S, T)
  BY DEF Surjection
<1> HIDE DEF g, T
<1>2. IsFiniteSet(T)
  BY <1>1, FS_Surjection
<1> QED
  BY <1>2 DEF T

\* A sum over rows that are rewritten one to one, deltas kept.
LEMMA SumRewritten ==
  ASSUME NEW S, IsFiniteSet(S), \A x \in S : Delta(x) \in Int, NEW f,
         \A x \in S : Delta(f[x]) = Delta(x),
         \A x, y \in S : f[x] = f[y] => x = y
  PROVE  DeltaSum({f[x] : x \in S}) = DeltaSum(S)
<1> DEFINE Image(X) == {f[x] : x \in X}
           T == {X \in SUBSET S : DeltaSum(Image(X)) # DeltaSum(X)}
<1> SUFFICES ASSUME S \in T PROVE FALSE
  OBVIOUS
<1>1. PICK X \in T : \A Y \in T : Y \subseteq X => Y = X
  <2>1. \A X \in T : X \subseteq S
    OBVIOUS
  <2> HIDE DEF T
  <2> QED
    BY ONLY <2>1, LeastSubset, IsFiniteSet(S), S \in T
<1>2. IsFiniteSet(X) /\ X \subseteq S /\ DeltaSum(Image(X)) # DeltaSum(X)
  BY <1>1, FS_Subset
<1>3. X # {}
  <2>1. Image({}) = {}
    OBVIOUS
  <2> HIDE DEF Image
  <2> QED
    BY <1>2, <2>1
<1>4. PICK a \in X : TRUE
  BY <1>3
<1> DEFINE Y == X \ {a}
<1>5. DeltaSum(Image(Y)) = DeltaSum(Y)
  BY <1>1, <1>2, <1>4
<1>6. Image(X) = Image(Y) \cup {f[a]} /\ f[a] \notin Image(Y)
  BY <1>2, <1>4
<1>7. IsFiniteSet(Y) /\ Y \subseteq S /\ a \in S
  BY <1>2, <1>4, FS_Subset
<1>8. IsFiniteSet(Image(Y))
  BY <1>7, ImageIsFinite
<1>9. /\ \A x \in Image(Y) : Delta(x) \in Int
      /\ Delta(f[a]) = Delta(a) /\ Delta(a) \in Int
  BY <1>7
<1>10. DeltaSum(X) = DeltaSum(Y) + Delta(a)
  BY <1>2, <1>4, SumWithout
<1>11. DeltaSum(Image(X)) = DeltaSum(Image(Y)) + Delta(f[a])
  <2> DEFINE I == Image(Y)
             z == f[a]
  <2>1. IsFiniteSet(I) /\ (\A x \in I : Delta(x) \in Int) /\ z \notin I /\ Delta(z) \in Int
        /\ Image(X) = I \cup {z}
    BY <1>6, <1>8, <1>9
  <2> HIDE DEF I, z, Image
  <2>2. DeltaSum(I \cup {z}) = DeltaSum(I) + Delta(z)
    BY <2>1, SumWith
  <2> QED
    BY <2>1, <2>2 DEF I, z
<1> HIDE DEF Image, Y
<1> QED
  BY <1>2, <1>5, <1>9, <1>10, <1>11

-----------------------------------------------------------------------------
(* The inductive invariant *)

OnLock(c) == call[c].pc \in {"noting", "ruling", "recording"}

\* The lock has one holder, and calls are in flight only while a daemon
\* serves; what each step of a call leaves for the next.
LockInv ==
    /\ \A c, d \in Calls : OnLock(c) /\ OnLock(d) => c = d
    /\ daemon = 0 => engine = NoEngine /\ \A c \in Calls : ~InFlight(c)
    /\ \A c \in Calls :
         /\ call[c].pc \in {"new", "scanning", "noting", "ruling"} => call[c].ruling = "none"
         /\ call[c].pc # "recording" => call[c].todo = <<>>
         /\ call[c].pc = "recording" => call[c].ruling # "none"
         /\ (call[c].pc = "recording" /\ session.version = 1) => call[c].todo \in Seq(Values)
         /\ (call[c].pc = "recording" /\ Guarded(c)) => call[c].ask.origin # "none"
         /\ (OnLock(c) /\ session.state = "open") => engine # NoEngine

\* The session's row, its engine and the daemon that created it.
EngineInv ==
    /\ session.state = "absent" =>
         session.version = 0 /\ session.score = 0 /\ engine = NoEngine /\ unseen = {}
         /\ (\A t \in Tables : rows[t] = {}) /\ \A c \in Calls : ~OnLock(c)
    /\ session.state = "ended" => engine = NoEngine
    /\ engine # NoEngine => engine.salt > 0

\* A row holds a hash only while its session is open, stands for one value
\* and destination, and was written by a call under the engine it names.
RowsInv ==
    /\ \A t \in Tables : t # LegacyTable => rows[t] = {}
    /\ IsFiniteSet(rows[LegacyTable])
    /\ \A r \in rows[LegacyTable] :
         /\ r.kind # "exposed" => r.delta = 0
         /\ session.state = "ended" => r.salt = 0
         /\ call[r.call].pc \in {"recording", "done"}
         /\ call[r.call].pc = "recording" => r.salt = engine.salt
    /\ \A r, s \in rows[LegacyTable] :
         /\ r.call = s.call => r.salt = s.salt
         /\ (r.salt # 0 /\ r.salt = s.salt /\ r.value = s.value /\ r.dest = s.dest) => r = s

\* A consent that was given is unspent or let one call pass.
Passed(a) ==
    {c \in Calls : /\ call[c].ask.event = "out"
                   /\ ArgumentsOf(call[c].ask) = a
                   /\ HardBlocked(call[c].ask)
                   /\ LetThrough(c) /\ ~Unchecked(c)}
ConsentInv ==
    \A a \in Arguments :
        Cardinality(Passed(a)) + (IF tokens[a] # "none" THEN 1 ELSE 0) <= consents[a]

\* What the index remembers is on record as the first of its path; a mark's
\* call has nothing left to record.
TargetsInv ==
    /\ \A s \in engine.seen :
         \E u \in targets : u.call = s.call /\ u.path = s.path /\ u.same = {}
    /\ \A u \in targets :
         call[u.call].pc \in {"recording", "done"} /\ call[u.call].todo = <<>>

\* Who observed an open session, and that a gap leaves two observers.
WatchInv ==
    /\ IsFiniteSet(watch)
    /\ \A w \in watch : w.by <= epochs
    /\ session.state = "open" => watch # {}
    /\ (session.state = "open" /\ engine # NoEngine) => \E w \in watch : w.by = daemon
    /\ (session.state = "open" /\ unseen # {}) => (daemon = 0 \/ \E w \in watch : w.by # daemon)

SessionInv ==
    /\ TypeOK /\ salts \in Nat /\ LockInv /\ EngineInv /\ RowsInv /\ ScoreIsItsRows
    /\ ConsentInv /\ SavedRulesHold /\ TargetsInv /\ TargetsNameRecordedOnes /\ WatchInv

-----------------------------------------------------------------------------
(* What a call may be, and how it is ruled on *)

AllAsks == (UNION {Asks[c] : c \in Calls}) \cup {NoAsk}

IsAsk(a) ==
    /\ a.event \in {"result", "out", "read"}
    /\ a.origin \in Origins \cup {"none"}
    /\ a.found \in Seq(Values)
    /\ (a.event = "out" /\ HardBlocked(a)) => ArgumentsOf(a) \in Arguments

\* What the calls may be is as assumed.
LEMMA AskIsOne ==
  ASSUME NEW a \in AllAsks
  PROVE  IsAsk(a)
<1>1. CASE a = NoAsk
  BY <1>1 DEF NoAsk, IsAsk, Found
<1>2. CASE a # NoAsk
  <2>1. PICK c \in Calls : a \in Asks[c]
    BY <1>2 DEF AllAsks
  <2>2. (a.event = "out" /\ HardBlocked(a)) => ArgumentsOf(a) \in Arguments
    BY <2>1 DEF Arguments, HardBlocked
  <2>3. /\ a.event \in {"result", "out", "read"}
        /\ a.origin \in Origins \cup {"none"}
        /\ a.found \in Seq(Values)
    BY <2>1, SessionAssumption
  <2> QED
    BY <2>2, <2>3 DEF IsAsk
<1> QED
  BY <1>1, <1>2

\* The facts about the calls that the proofs use.
LEMMA CallType ==
  ASSUME TypeOK, NEW c \in Calls
  PROVE  /\ call[c] \in Call
         /\ IsAsk(call[c].ask) /\ call[c].ask \in AllAsks
         /\ DOMAIN call = Calls
<1>1. call[c] \in Call /\ DOMAIN call = Calls
  BY DEF TypeOK
<1>2. call[c].ask \in AllAsks
  BY <1>1 DEF Call, AllAsks
<1> QED
  BY <1>1, <1>2, AskIsOne

\* Before a consent is asked for: what each rule settles.
LEMMA PolicyRules ==
  ASSUME NEW a, IsAsk(a), NEW guard \in BOOLEAN
  PROVE  /\ Policy(a, guard) \in {"allow", "deny", "rewrite", "consent"}
         /\ Policy(a, guard) = "consent" => a.event = "out" /\ HardBlocked(a)
         /\ (a.event = "out" /\ HardBlocked(a)) => Policy(a, guard) \in {"deny", "consent"}
         /\ (a.event = "out" /\ FromBlocked(a)) => Policy(a, guard) = "deny"
         /\ (a.event = "out" /\ Masked(a) /\ ~HardBlocked(a)) => Policy(a, guard) # "allow"
         /\ (a.event = "read" /\ Policy(a, guard) = "deny") => a.origin # "none"
<1>1. CASE a.event = "result"
  BY <1>1 DEF Policy
<1>2. CASE a.event = "read"
  BY <1>2 DEF Policy, ReadsSensitive
<1>3. CASE a.event = "out" /\ (a.upload \/ FromBlocked(a))
  BY <1>3 DEF Policy
<1>4. CASE a.event = "out" /\ ~(a.upload \/ FromBlocked(a))
  BY <1>4 DEF Policy
<1> QED
  BY <1>1, <1>2, <1>3, <1>4 DEF IsAsk

\* A consent that is not there turns nothing into an answer that passes.
LEMMA ConsentedType ==
  ASSUME NEW mode
  PROVE  /\ Consented(mode) \in {"allow", "rewrite", "deny"}
         /\ mode = "none" => Consented(mode) = "deny"
BY DEF Consented

\* What is recorded of a call is a list of findings.
LEMMA EvidenceType ==
  ASSUME NEW a, IsAsk(a) PROVE Evidence(a) \in Seq(Values)
<1>1. a.found \in Seq(Values) /\ NoPaths(a.found) \in Seq(Values)
  BY NoPathsType DEF IsAsk
<1>2. <<"rule">> \o NoPaths(a.found) \in Seq(Values)
  BY <1>1 DEF Values
<1> QED
  BY <1>1, <1>2 DEF Evidence

\* A row costs nothing unless it is an exposure in an open session.
LEMMA ChargeIsNat ==
  ASSUME NEW c, NEW v
  PROVE  /\ Charge(c, v) \in Nat
         /\ Kind(c) # "exposed" => Charge(c, v) = 0
         /\ session.state # "open" => Charge(c, v) = 0
<1>1. Contribution(v, Destination(call[c].ask)) \in {0, 1, 2}
  BY DEF Contribution
<1> QED
  BY <1>1 DEF Charge

-----------------------------------------------------------------------------
(* How the steps of a call move it *)

Pcs == {"new", "scanning", "noting", "ruling", "recording", "done"}
Rulings == {"none", "allow", "rewrite", "deny", "warn"}
Todos == Seq(Values \cup {"observation"})

Moved(c, pc, ask, ruling, todo) ==
    /\ call' \in [Calls -> Call]
    /\ \A d \in Calls \ {c} : call'[d] = call[d]
    /\ call'[c].pc = pc /\ call'[c].ask = ask
    /\ call'[c].ruling = ruling /\ call'[c].todo = todo

\* A call is a record of four fields.
LEMMA CallRecord == Call = [pc : Pcs, ask : AllAsks, ruling : Rulings, todo : Todos]
BY DEF Call, Pcs, AllAsks, Rulings, Todos

\* The fields of a call have their types.
LEMMA CallParts ==
  ASSUME TypeOK, NEW c \in Calls
  PROVE  /\ call \in [Calls -> [pc : Pcs, ask : AllAsks, ruling : Rulings, todo : Todos]]
         /\ call[c] = [pc |-> call[c].pc, ask |-> call[c].ask, ruling |-> call[c].ruling,
                       todo |-> call[c].todo]
         /\ call[c].pc \in Pcs /\ call[c].ask \in AllAsks /\ call[c].ruling \in Rulings
         /\ call[c].todo \in Todos
BY CallRecord DEF TypeOK

\* The lists of what is left to record.
LEMMA TodosAre ==
  /\ <<>> \in Todos /\ <<"observation">> \in Todos
  /\ \A s \in Seq(Values) : s \in Todos
  /\ \A s \in Todos : s # <<>> => Tail(s) \in Todos
BY DEF Todos

\* A call that arrives is scanned.
LEMMA ArriveMoves ==
  ASSUME TypeOK, NEW c \in Calls, Arrive(c)
  PROVE  \E a \in Asks[c] : Moved(c, "scanning", a, call[c].ruling, call[c].todo)
<1>1. PICK a \in Asks[c] : call' = [call EXCEPT ![c].pc = "scanning", ![c].ask = a]
  BY DEF Arrive
<1>2. a \in AllAsks /\ "scanning" \in Pcs
  BY DEF AllAsks, Pcs
<1>3. Moved(c, "scanning", a, call[c].ruling, call[c].todo)
  BY <1>1, <1>2, CallParts, CallRecord DEF Moved
<1> QED
  BY <1>3

\* A call that reaches no daemon has the answer of the client.
LEMMA UnservedMoves ==
  ASSUME TypeOK, NEW c \in Calls, Unserved(c)
  PROVE  \E a \in Asks[c] : Moved(c, "done", a, Fallback(a), call[c].todo)
<1>1. PICK a \in Asks[c] :
        call' = [call EXCEPT ![c] = [@ EXCEPT !.pc = "done", !.ask = a, !.ruling = Fallback(a)]]
  BY DEF Unserved
<1>2. a \in AllAsks /\ "done" \in Pcs /\ Fallback(a) \in Rulings
  BY DEF AllAsks, Pcs, Fallback, Rulings
<1> QED
  BY <1>1, <1>2, CallParts, CallRecord DEF Moved

\* A call that goes on and nothing else.
LEMMA GotoMoves ==
  ASSUME TypeOK, NEW c \in Calls, NEW pc \in Pcs, Goto(c, pc)
  PROVE  Moved(c, pc, call[c].ask, call[c].ruling, call[c].todo)
BY CallParts, CallRecord DEF Goto, Moved

\* The ruling, and what it leaves to record.
Ruled(a, guard) ==
    IF Policy(a, guard) = "consent" THEN Consented(tokens[ArgumentsOf(a)])
    ELSE Policy(a, guard)
ToRecord(a) == IF session.version = 1 THEN Evidence(a) ELSE <<"observation">>

\* A call that is ruled on has an answer and what it has to record.
LEMMA RuleMoves ==
  ASSUME TypeOK, NEW c \in Calls, Rule(c)
  PROVE  \E guard \in BOOLEAN :
           /\ Moved(c, "recording", call[c].ask, Ruled(call[c].ask, guard),
                    ToRecord(call[c].ask))
           /\ tokens' = Spent(call[c].ask, Policy(call[c].ask, guard))
           /\ Remembers(call[c].ask)
           /\ Ruled(call[c].ask, guard) \in {"allow", "rewrite", "deny"}
<1> DEFINE a == call[c].ask
<1>1. PICK guard \in BOOLEAN :
        /\ call' = [call EXCEPT ![c] = [@ EXCEPT !.pc = "recording",
                                                 !.ruling = Ruled(a, guard),
                                                 !.todo = ToRecord(a)]]
        /\ tokens' = Spent(a, Policy(a, guard))
        /\ Remembers(a)
  BY DEF Rule, DenyRead, Ruled, ToRecord
<1>2. IsAsk(a)
  BY CallType
<1>3. Ruled(a, guard) \in {"allow", "rewrite", "deny"}
  BY <1>2, PolicyRules, ConsentedType DEF Ruled
<1>4. ToRecord(a) \in Todos
  BY <1>2, EvidenceType, TodosAre DEF ToRecord
<1>5. "recording" \in Pcs /\ Ruled(a, guard) \in Rulings
  BY <1>3 DEF Pcs, Rulings
<1>6. Moved(c, "recording", a, Ruled(a, guard), ToRecord(a))
  <2> DEFINE ruling == Ruled(a, guard)
             todo == ToRecord(a)
  <2>1. ruling \in Rulings /\ todo \in Todos /\ "recording" \in Pcs
        /\ call' = [call EXCEPT ![c] = [@ EXCEPT !.pc = "recording", !.ruling = ruling,
                                                 !.todo = todo]]
    BY <1>1, <1>4, <1>5
  <2> HIDE DEF ruling, todo
  <2>2. Moved(c, "recording", a, ruling, todo)
    BY <2>1, CallParts, CallRecord DEF Moved
  <2> QED
    BY <2>2 DEF ruling, todo
<1> QED
  BY <1>1, <1>3, <1>6

\* A call that records one finding has the others left.
LEMMA RecordMoves ==
  ASSUME TypeOK, NEW c \in Calls, Record(c)
  PROVE  Moved(c, "recording", call[c].ask, call[c].ruling, Tail(call[c].todo))
<1>1. call' = [call EXCEPT ![c].todo = Tail(@)] /\ call[c].pc = "recording"
      /\ call[c].todo # <<>>
  BY DEF Record
<1>2. Tail(call[c].todo) \in Todos
  BY <1>1, CallParts, TodosAre
<1> QED
  BY <1>1, <1>2, CallParts, CallRecord DEF Moved

\* A call that is accounted at once has nothing left.
LEMMA AccountMoves ==
  ASSUME TypeOK, NEW c \in Calls, Account(c)
  PROVE  Moved(c, "recording", call[c].ask, call[c].ruling, <<>>)
<1>1. call' = [call EXCEPT ![c].todo = <<>>] /\ call[c].pc = "recording"
  BY DEF Account
<1> QED
  BY <1>1, CallParts, CallRecord, TodosAre DEF Moved

\* What GiveUp answers
LastWord(a) == IF a.event = "result" THEN "warn" ELSE "deny"

\* A call that fails is done, with the answer of the failure.
LEMMA GiveUpMoves ==
  ASSUME TypeOK, NEW c \in Calls, GiveUp(c)
  PROVE  Moved(c, "done", call[c].ask, LastWord(call[c].ask), <<>>)
<1>1. call' = [call EXCEPT ![c] = [@ EXCEPT !.pc = "done", !.todo = <<>>,
                                            !.ruling = LastWord(call[c].ask)]]
  BY DEF GiveUp, LastWord
<1>2. "done" \in Pcs /\ LastWord(call[c].ask) \in Rulings
  BY DEF Pcs, Rulings, LastWord
<1> QED
  BY <1>1, <1>2, CallParts, CallRecord, TodosAre DEF Moved

\* A daemon that dies leaves no call in flight: each has the client's answer.
LEMMA DaemonDiesMoves ==
  ASSUME TypeOK, DaemonDies
  PROVE  /\ call' \in [Calls -> Call]
         /\ \A c \in Calls : ~InFlight(c) => call'[c] = call[c]
         /\ \A c \in Calls : InFlight(c) =>
              /\ call'[c].pc = "done" /\ call'[c].ask = call[c].ask
              /\ call'[c].ruling = Fallback(call[c].ask) /\ call'[c].todo = <<>>
<1>1. ASSUME NEW c \in Calls, InFlight(c)
      PROVE  /\ call'[c] \in [pc : Pcs, ask : AllAsks, ruling : Rulings, todo : Todos]
             /\ call'[c].pc = "done" /\ call'[c].ask = call[c].ask
             /\ call'[c].ruling = Fallback(call[c].ask) /\ call'[c].todo = <<>>
  <2>1. "done" \in Pcs /\ Fallback(call[c].ask) \in Rulings
    BY DEF Pcs, Rulings, Fallback
  <2>2. call'[c] = [call[c] EXCEPT !.pc = "done", !.todo = <<>>, !.ruling = Fallback(call[c].ask)]
    BY <1>1 DEF DaemonDies
  <2> QED
    BY <2>1, <2>2, CallParts, TodosAre
<1>2. ASSUME NEW c \in Calls, ~InFlight(c) PROVE call'[c] = call[c]
  BY <1>2 DEF DaemonDies
<1>3. ASSUME NEW c \in Calls PROVE call'[c] \in Call
  BY <1>1, <1>2, CallParts, CallRecord
<1>4. call' = [c \in Calls |-> call'[c]]
  BY DEF DaemonDies
<1> QED
  BY <1>1, <1>2, <1>3, <1>4

-----------------------------------------------------------------------------
(* Types *)

\* Meeting the session creates an engine at most, and names its observer.
LEMMA RegistersType ==
  ASSUME TypeOK, NEW version \in 0..2, NEW reason \in {"session_start", "attached"},
         NEW keyed \in BOOLEAN, Registers(version, reason, keyed), salts \in Nat
  PROVE  /\ session' \in Session /\ watch' \subseteq Watch /\ engine' \in Engine
         /\ salts' \in Nat
<1>1. engine' = [salt |-> salts + 1, key |-> keyed, seen |-> {},
                 came |-> [v \in Values |-> "none"]]
  BY DEF Registers, NoEngine
<1>2. engine' \in Engine
  BY <1>1 DEF Engine
<1>3. daemon \in 0..MaxDaemons
  BY SessionAssumption DEF TypeOK
<1>4. watch' \subseteq Watch
  BY <1>3 DEF TypeOK, Registers, Watched, Watch
<1>5. session' \in Session
  BY DEF TypeOK, Registers, Session
<1> QED
  BY <1>2, <1>4, <1>5 DEF Registers

\* Resolving the session keeps the types of what it changes.
LEMMA ResolvesType ==
  ASSUME TypeOK, Resolves, salts \in Nat
  PROVE  /\ session' \in Session /\ watch' \subseteq Watch /\ engine' \in Engine
         /\ salts' \in Nat
<1>1. CASE UNCHANGED <<session, watch, salts, engine>>
  BY <1>1 DEF TypeOK
<1>2. CASE ~UNCHANGED <<session, watch, salts, engine>>
  <2> DEFINE version == IF session.state = "absent" THEN 1 ELSE session.version
  <2>1. Registers(version, "attached", FALSE)
    BY <1>2 DEF Resolves
  <2>2. version \in 0..2
    BY DEF TypeOK, Session
  <2> HIDE DEF version
  <2> QED
    BY <2>1, <2>2, RegistersType
<1> QED
  BY <1>1, <1>2

\* The first state has its types.
LEMMA TypeInit == Init => TypeOK /\ salts \in Nat
<1> SUFFICES ASSUME Init PROVE TypeOK /\ salts \in Nat
  OBVIOUS
<1>1. session \in Session /\ watch \subseteq Watch
  BY SessionAssumption DEF Init, Session, Watch
<1>2. engine \in Engine
  BY DEF Init, NoEngine, Engine
<1>3. call \in [Calls -> Call]
  BY DEF Init, Call
<1>4. /\ rows \in [Tables -> SUBSET Row]
      /\ tokens \in [Arguments -> Modes \cup {"none"}]
      /\ consents \in [Arguments -> Nat]
  BY DEF Init
<1>5. /\ {activated, newer} \subseteq BOOLEAN /\ targets \subseteq Mark
      /\ noted \subseteq {"before", "inside", "after"}
      /\ latch \in {"none", "before", "inside", "after"}
      /\ gaps \subseteq Calls /\ unseen \subseteq Calls /\ rules \subseteq Rules
  BY DEF Init
<1>6. daemon \in 0..epochs /\ epochs \in 0..MaxDaemons /\ salts \in Nat
  <2>1. MaxDaemons \in Nat /\ daemon = 0 /\ epochs = 0 /\ salts = 0
    BY SessionAssumption DEF Init
  <2> QED
    BY <2>1
<1> QED
  BY <1>1, <1>2, <1>3, <1>4, <1>5, <1>6 DEF TypeOK

-----------------------------------------------------------------------------
(* Recording a finding *)

Finding(c) == Head(call[c].todo)
Matching(c) ==
    {r \in rows[LegacyTable] :
       r.salt # 0 /\ r.salt = engine.salt /\ r.value = Finding(c)
       /\ r.dest = Destination(call[c].ask)}
NewRow(c) ==
    [call |-> c, value |-> Finding(c), dest |-> Destination(call[c].ask), kind |-> Kind(c),
     count |-> 1, salt |-> engine.salt, delta |-> Charge(c, Finding(c))]
Seen(r) == [r EXCEPT !.count = @ + 1]

\* The table a step of recording leaves: the row that matches, seen once more,
\* or a new one.
Rerecorded(c, r) == (rows[LegacyTable] \ {r}) \cup {Seen(r)}

\* The table the legacy rows are in is one of the two.
LEMMA TableIsOne ==
  ASSUME TypeOK
  PROVE  /\ LegacyTable \in Tables /\ DOMAIN rows = Tables
         /\ rows[LegacyTable] \subseteq Row
BY DEF LegacyTable, Tables, TypeOK

\* What is recorded of a finding is a row.
LEMMA NewRowType ==
  ASSUME TypeOK, LockInv, NEW c \in Calls, Record(c)
  PROVE  NewRow(c) \in Row /\ Finding(c) \in Values
<1>1. Finding(c) \in Values
  <2>1. call[c].todo \in Seq(Values) /\ call[c].todo # <<>>
    BY DEF Record, LockInv
  <2> QED
    BY <2>1 DEF Finding
<1>2. Destination(call[c].ask) \in {"external_net", "model_context", "local"}
      /\ Kind(c) \in {"prevented", "local_access", "exposed"}
  BY DEF Destination, Kind
<1>3. engine.salt \in Nat /\ Charge(c, Finding(c)) \in Nat
  BY ChargeIsNat DEF TypeOK, Engine
<1> QED
  BY <1>1, <1>2, <1>3 DEF Row, NewRow

\* At most one row matches a finding, so that a step counts one row up or adds one.
LEMMA RecordCases ==
  ASSUME TypeOK, RowsInv, NEW c \in Calls, Record(c)
  PROVE  \/ \E r \in Matching(c) :
              /\ rows' = [rows EXCEPT ![LegacyTable] = Rerecorded(c, r)]
              /\ UNCHANGED session
         \/ /\ Matching(c) = {}
            /\ rows' = [rows EXCEPT ![LegacyTable] = @ \cup {NewRow(c)}]
            /\ session' = [session EXCEPT !.score = @ + NewRow(c).delta]
<1>1. CASE Matching(c) = {}
  BY <1>1 DEF Record, Matching, NewRow, Finding
<1>2. CASE Matching(c) # {}
  <2>1. PICK r \in Matching(c) : TRUE
    BY <1>2
  <2>2. \A s \in Matching(c) : s = r
    BY <2>1 DEF Matching, RowsInv
  <2>3. Matching(c) = {r}
    BY <2>1, <2>2
  <2>4. /\ rows' = [rows EXCEPT ![LegacyTable] =
                      (@ \ Matching(c)) \cup {[s EXCEPT !.count = @ + 1] : s \in Matching(c)}]
        /\ UNCHANGED session
    BY <1>2 DEF Record, Matching, Finding
  <2>5. {[s EXCEPT !.count = @ + 1] : s \in Matching(c)} = {Seen(r)}
    BY <2>3 DEF Seen
  <2>6. rows' = [rows EXCEPT ![LegacyTable] = Rerecorded(c, r)]
    BY <2>3, <2>4, <2>5, TableIsOne DEF Rerecorded
  <2> QED
    BY <2>1, <2>4, <2>6
<1> QED
  BY <1>1, <1>2

\* The row that matches keeps all but its count, and is not there twice.
LEMMA SeenRow ==
  ASSUME NEW r \in Row
  PROVE  /\ Seen(r) \in Row
         /\ Seen(r).count = r.count + 1
         /\ Seen(r).call = r.call /\ Seen(r).value = r.value /\ Seen(r).dest = r.dest
         /\ Seen(r).kind = r.kind /\ Seen(r).salt = r.salt /\ Seen(r).delta = r.delta
BY DEF Seen, Row

\* Recording keeps the types of the session and its rows.
LEMMA RecordType ==
  ASSUME TypeOK, LockInv, RowsInv, NEW c \in Calls, Record(c)
  PROVE  session' \in Session /\ rows' \in [Tables -> SUBSET Row]
<1>1. session \in Session /\ rows \in [Tables -> SUBSET Row]
  BY DEF TypeOK
<1>2. CASE \E r \in Matching(c) :
              /\ rows' = [rows EXCEPT ![LegacyTable] = Rerecorded(c, r)]
              /\ UNCHANGED session
  <2>1. PICK r \in Matching(c) : rows' = [rows EXCEPT ![LegacyTable] = Rerecorded(c, r)]
    BY <1>2
  <2>2. r \in Row
    BY <2>1, TableIsOne DEF Matching
  <2>3. Rerecorded(c, r) \subseteq Row
    BY <2>2, SeenRow, TableIsOne DEF Rerecorded
  <2> QED
    BY <1>1, <1>2, <2>1, <2>3
<1>3. CASE /\ rows' = [rows EXCEPT ![LegacyTable] = @ \cup {NewRow(c)}]
           /\ session' = [session EXCEPT !.score = @ + NewRow(c).delta]
  <2>1. NewRow(c) \in Row
    BY NewRowType
  <2>2. NewRow(c).delta \in Nat
    BY <2>1 DEF Row
  <2>3. rows[LegacyTable] \cup {NewRow(c)} \subseteq Row
    BY <2>1, TableIsOne
  <2>4. session' \in Session
    BY <1>1, <1>3, <2>2 DEF Session
  <2> QED
    BY <1>1, <1>3, <2>3, <2>4
<1> QED
  BY <1>2, <1>3, RecordCases

\* The calls that pass can be counted.
LEMMA PassedType ==
  ASSUME NEW a
  PROVE  IsFiniteSet(Passed(a)) /\ Cardinality(Passed(a)) \in Nat
<1>1. IsFiniteSet(Passed(a))
  BY SessionAssumption, FS_Subset DEF Passed
<1> QED
  BY <1>1, FS_CardinalityType

\* A consent that can expire was counted.
LEMMA ConsentIsThere ==
  ASSUME TypeOK, ConsentInv, NEW a \in Arguments, tokens[a] # "none"
  PROVE  consents[a] # 0
<1>1. Cardinality(Passed(a)) \in Nat /\ consents[a] \in Nat
  BY PassedType DEF TypeOK
<1>2. Cardinality(Passed(a)) + 1 <= consents[a]
  BY DEF ConsentInv
<1> QED
  BY <1>1, <1>2

\* Every variable but the session's, the engine's and the call's has a type
\* that no action leaves.
LEMMA TypeStep ==
  ASSUME TypeOK, salts \in Nat, LockInv, EngineInv, RowsInv, ConsentInv, Next
  PROVE  TypeOK' /\ salts' \in Nat
<1> USE DEF TypeOK, ledgerVars, userVars, daemonVars
<1>0. /\ session \in Session /\ rows \in [Tables -> SUBSET Row] /\ watch \subseteq Watch
      /\ targets \subseteq Mark /\ gaps \subseteq Calls /\ unseen \subseteq Calls
      /\ engine \in Engine /\ call \in [Calls -> Call]
      /\ tokens \in [Arguments -> Modes \cup {"none"}] /\ consents \in [Arguments -> Nat]
      /\ MaxDaemons \in Nat /\ daemon \in 0..epochs /\ epochs \in 0..MaxDaemons
  BY SessionAssumption
<1> HIDE DEF TypeOK
<1>1. ASSUME NEW c \in Calls, Arrive(c) PROVE TypeOK' /\ salts' \in Nat
  <2>1. session' \in Session /\ watch' \subseteq Watch /\ engine' \in Engine /\ salts' \in Nat
    BY <1>1, ResolvesType DEF Arrive
  <2>2. call' \in [Calls -> Call]
    BY <1>1, ArriveMoves DEF Moved
  <2> QED
    BY <1>1, <2>1, <2>2 DEF Arrive, TypeOK
<1>2. ASSUME NEW c \in Calls, Unserved(c) PROVE TypeOK' /\ salts' \in Nat
  <2>1. call' \in [Calls -> Call]
    BY <1>2, UnservedMoves DEF Moved
  <2>2. unseen' \subseteq Calls /\ latch' \in {"none", "before", "inside", "after"}
    BY <1>2, <1>0 DEF Unserved, SpawnsDaemon, Now, TypeOK
  <2> QED
    BY <1>2, <2>1, <2>2 DEF Unserved, TypeOK
<1>3. ASSUME NEW c \in Calls, Lock(c) PROVE TypeOK' /\ salts' \in Nat
  <2>1. session' \in Session /\ watch' \subseteq Watch /\ engine' \in Engine /\ salts' \in Nat
    BY <1>3, ResolvesType DEF Lock
  <2>2. call' \in [Calls -> Call]
    BY <1>3, GotoMoves DEF Lock, Moved, Pcs
  <2> QED
    BY <1>3, <2>1, <2>2 DEF Lock, TypeOK
<1>4. ASSUME NEW c \in Calls, NoteGap(c) PROVE TypeOK' /\ salts' \in Nat
  <2>1. call' \in [Calls -> Call]
    BY <1>4, GotoMoves DEF NoteGap, Moved, Pcs
  <2>2. gaps' \subseteq Calls
    BY <1>0, <1>4 DEF NoteGap
  <2> QED
    BY <1>4, <2>1, <2>2 DEF NoteGap, TypeOK
<1>5. ASSUME NEW c \in Calls, Rule(c) PROVE TypeOK' /\ salts' \in Nat
  <2> DEFINE a == call[c].ask
  <2>1. PICK guard \in BOOLEAN :
          /\ Moved(c, "recording", a, Ruled(a, guard), ToRecord(a))
          /\ tokens' = Spent(a, Policy(a, guard))
          /\ Remembers(a)
    BY <1>5, RuleMoves
  <2>2. IsAsk(a)
    BY CallType
  <2>3. call' \in [Calls -> Call]
    BY <2>1 DEF Moved
  <2>4. tokens' \in [Arguments -> Modes \cup {"none"}]
    BY <1>0, <2>1 DEF Spent
  <2>5. engine' \in Engine
    BY <1>0, <2>1, <2>2 DEF Remembers, Engine, IsAsk
  <2> QED
    BY <1>5, <2>3, <2>4, <2>5 DEF Rule, TypeOK
<1>6. ASSUME NEW c \in Calls, Record(c) PROVE TypeOK' /\ salts' \in Nat
  <2>1. session' \in Session /\ rows' \in [Tables -> SUBSET Row]
    BY <1>6, RecordType
  <2>2. call' \in [Calls -> Call]
    BY <1>6, RecordMoves DEF Moved
  <2> QED
    BY <1>6, <2>1, <2>2 DEF Record, TypeOK
<1>7. ASSUME NEW c \in Calls, Account(c) PROVE TypeOK' /\ salts' \in Nat
  <2>1. call' \in [Calls -> Call]
    BY <1>7, AccountMoves DEF Moved
  <2>2. gaps' \subseteq Calls
    BY <1>0, <1>7 DEF Account
  <2>3. targets' \subseteq Mark /\ engine' \in Engine
    <3>1. CASE UNCHANGED <<targets, engine>>
      BY <1>0, <3>1
    <3>2. CASE Guarded(c) /\ engine.key
      <4>1. PICK written \in BOOLEAN :
              /\ targets' = IF written THEN targets \cup {Proposal(c)} ELSE targets
              /\ engine' = [engine EXCEPT !.seen = Remembered(c, written)]
        BY <1>7, <3>2 DEF Account
      <4>2. call[c].ask.origin \in Origins
        BY <1>7, <3>2, CallType DEF Account, LockInv, Guarded, IsAsk
      <4>3. engine.seen \subseteq [path : Origins, call : Calls]
        BY <1>0 DEF Engine
      <4>4. Proposal(c) \in Mark
        BY <4>2, <4>3 DEF Proposal, Mark
      <4>5. Remembered(c, written) \subseteq [path : Origins, call : Calls]
        BY <4>2, <4>3 DEF Remembered
      <4> QED
        BY <1>0, <4>1, <4>4, <4>5 DEF Engine
    <3> QED
      BY <1>7, <3>1, <3>2 DEF Account
  <2> QED
    BY <1>7, <2>1, <2>2, <2>3 DEF Account, TypeOK
<1>8. ASSUME NEW c \in Calls, Answer(c) PROVE TypeOK' /\ salts' \in Nat
  <2>1. call' \in [Calls -> Call]
    BY <1>8, GotoMoves DEF Answer, Moved, Pcs
  <2> QED
    BY <1>8, <2>1 DEF Answer, TypeOK
<1>9. ASSUME NEW c \in Calls, GiveUp(c) PROVE TypeOK' /\ salts' \in Nat
  <2>1. call' \in [Calls -> Call]
    BY <1>9, GiveUpMoves DEF Moved
  <2> QED
    BY <1>9, <2>1 DEF GiveUp, TypeOK
<1>10. ASSUME SessionStarts PROVE TypeOK' /\ salts' \in Nat
  <2>1. session' \in Session /\ watch' \subseteq Watch /\ engine' \in Engine /\ salts' \in Nat
    <3>1. Registers(2, "session_start", TRUE)
      BY <1>10 DEF SessionStarts
    <3>2. 2 \in 0..2
      OBVIOUS
    <3> QED
      BY <3>1, <3>2, RegistersType
  <2>2. rows' \in [Tables -> SUBSET Row] /\ activated' \in BOOLEAN
    BY <1>0, <1>10 DEF SessionStarts, Rebuilds, Tables
  <2> QED
    BY <1>10, <2>1, <2>2 DEF SessionStarts, TypeOK
<1>11. ASSUME SessionResumes PROVE TypeOK' /\ salts' \in Nat
  <2>1. session.version \in 0..2
    BY <1>0 DEF Session
  <2>2. session' \in Session /\ watch' \subseteq Watch /\ engine' \in Engine /\ salts' \in Nat
    BY <1>11, <2>1, RegistersType DEF SessionResumes
  <2> QED
    BY <1>11, <2>2 DEF SessionResumes, TypeOK
<1>12. ASSUME OtherStarts PROVE TypeOK' /\ salts' \in Nat
  <2>1. rows' \in [Tables -> SUBSET Row] /\ activated' \in BOOLEAN
    BY <1>0, <1>12 DEF OtherStarts, Rebuilds, Tables, TypeOK
  <2> QED
    BY <1>12, <2>1 DEF OtherStarts, TypeOK
<1>13. ASSUME SessionEnds PROVE TypeOK' /\ salts' \in Nat
  <2>1. session' \in Session
    BY <1>0, <1>13 DEF SessionEnds, Session
  <2>2. \A r \in Row : [r EXCEPT !.salt = 0] \in Row
    BY DEF Row
  <2>3. rows' \in [Tables -> SUBSET Row]
    BY <1>0, <1>13, <2>2, TableIsOne DEF SessionEnds
  <2>4. engine' \in Engine
    BY <1>13 DEF SessionEnds, NoEngine, Engine
  <2> QED
    BY <1>13, <2>1, <2>3, <2>4 DEF SessionEnds, TypeOK
<1>14. ASSUME EndFails PROVE TypeOK' /\ salts' \in Nat
  <2>1. engine' \in Engine
    BY <1>14 DEF EndFails, NoEngine, Engine
  <2> QED
    BY <1>14, <2>1 DEF EndFails, TypeOK
<1>15. ASSUME NEW r \in Rules, SavePolicy(r) PROVE TypeOK' /\ salts' \in Nat
  BY <1>15 DEF SavePolicy, AddPolicy, TypeOK
<1>16. ASSUME NEW a \in Arguments, NEW mode \in Modes, MintToken(a, mode)
       PROVE  TypeOK' /\ salts' \in Nat
  <2>1. tokens' \in [Arguments -> Modes \cup {"none"}] /\ consents' \in [Arguments -> Nat]
    BY <1>0, <1>16 DEF MintToken
  <2> QED
    BY <1>16, <2>1 DEF MintToken, TypeOK
<1>17. ASSUME NEW a \in Arguments, TokenExpires(a) PROVE TypeOK' /\ salts' \in Nat
  <2>0. consents[a] # 0
    <3>1. tokens[a] # "none"
      BY <1>17 DEF TokenExpires
    <3> QED
      BY <3>1, ConsentIsThere
  <2>1. tokens' \in [Arguments -> Modes \cup {"none"}] /\ consents' \in [Arguments -> Nat]
    BY <1>0, <1>17, <2>0 DEF TokenExpires
  <2> QED
    BY <1>17, <2>1 DEF TokenExpires, TypeOK
<1>18. ASSUME DaemonStarts PROVE TypeOK' /\ salts' \in Nat
  <2>1. daemon' \in 0..epochs' /\ epochs' \in 0..MaxDaemons
    BY <1>0, <1>18 DEF DaemonStarts
  <2>2. noted' \subseteq {"before", "inside", "after"}
    BY <1>18 DEF DaemonStarts, NoteUnobservedHooks, TypeOK
  <2> QED
    BY <1>18, <2>1, <2>2 DEF DaemonStarts, TypeOK
<1>19. ASSUME DaemonDies PROVE TypeOK' /\ salts' \in Nat
  <2>1. engine' \in Engine
    BY <1>19 DEF DaemonDies, NoEngine, Engine
  <2>2. call' \in [Calls -> Call]
    BY <1>19, DaemonDiesMoves
  <2>3. unseen' \subseteq Calls /\ daemon' = 0 /\ epochs' = epochs
    BY <1>0, <1>19 DEF DaemonDies
  <2>4. daemon' \in 0..epochs' /\ epochs' \in 0..MaxDaemons
    BY <1>0, <2>3
  <2> QED
    BY <1>19, <2>1, <2>2, <2>3, <2>4 DEF DaemonDies, TypeOK
<1> QED
  BY <1>1, <1>2, <1>3, <1>4, <1>5, <1>6, <1>7, <1>8, <1>9, <1>10, <1>11, <1>12, <1>13,
     <1>14, <1>15, <1>16, <1>17, <1>18, <1>19
     DEF Next, CallStep, SessionStep, UserStep, WriteFails, RewriteFails

-----------------------------------------------------------------------------
(* The lock, the session and its engine *)

\* What registering an engine does to the session and its observers.
LEMMA RegistersDoes ==
  ASSUME TypeOK, salts \in Nat, NEW version, NEW reason, NEW keyed,
         Registers(version, reason, keyed)
  PROVE  /\ session'.state = "open" /\ session'.version = version
         /\ session'.score = session.score
         /\ engine' # NoEngine /\ engine'.salt > 0 /\ engine'.seen = {}
         /\ watch \subseteq watch' /\ \E w \in watch' : w.by = daemon
         /\ \A w \in watch' \ watch : w.by = daemon
         /\ IsFiniteSet(watch) => IsFiniteSet(watch')
<1>1. session' = [session EXCEPT !.state = "open", !.version = version]
      /\ session \in [state : {"absent", "open", "ended"}, version : 0..2, score : Nat]
  BY DEF Registers, TypeOK, Session
<1>2. /\ session'.state = "open" /\ session'.version = version
      /\ session'.score = session.score
  BY <1>1
<1>3. engine' = [NoEngine EXCEPT !.salt = salts + 1, !.key = keyed]
  BY DEF Registers
<1>4. engine'.salt = salts + 1 /\ engine'.seen = {} /\ NoEngine.salt = 0
  BY <1>3 DEF NoEngine
<1>5. engine' # NoEngine /\ engine'.salt > 0
  BY <1>4
<1>6. watch' = Watched(reason)
  BY DEF Registers
<1>7. /\ watch \subseteq watch' /\ \E w \in watch' : w.by = daemon
      /\ \A w \in watch' \ watch : w.by = daemon
      /\ IsFiniteSet(watch) => IsFiniteSet(watch')
  <2>1. CASE \E w \in watch : w.by = daemon
    BY <1>6, <2>1 DEF Watched
  <2>2. CASE ~\E w \in watch : w.by = daemon
    <3> DEFINE new == [by |-> daemon, reason |-> reason]
    <3>1. watch' = watch \cup {new} /\ new.by = daemon
      BY <1>6, <2>2 DEF Watched
    <3> HIDE DEF new
    <3>2. IsFiniteSet(watch) => IsFiniteSet(watch')
      BY <3>1, FS_AddElement
    <3> QED
      BY <3>1, <3>2
  <2> QED
    BY <2>1, <2>2
<1> QED
  BY <1>2, <1>4, <1>5, <1>7

\* Resolving leaves the state of a session that was met, and finds or makes its engine.
LEMMA ResolvesDoes ==
  ASSUME TypeOK, salts \in Nat, EngineInv, Resolves
  PROVE  /\ session'.state # "absent" /\ session'.score = session.score
         /\ session.state # "absent" => /\ session'.state = session.state
                                        /\ session'.version = session.version
         /\ session.state = "absent" => session'.state = "open"
         /\ session'.state = "open" => engine' # NoEngine
         /\ session'.state = "ended" => engine' = NoEngine
         /\ engine' # NoEngine => engine'.salt > 0
         /\ engine # NoEngine => engine' = engine
         /\ engine' = engine \/ engine'.seen = {}
<1>1. session.state \in {"absent", "open", "ended"}
  BY DEF TypeOK, Session
<1>2. CASE session.state = "ended" \/ engine # NoEngine
  <2>1. UNCHANGED <<session, engine>>
    BY <1>2 DEF Resolves
  <2> QED
    BY <1>1, <1>2, <2>1 DEF EngineInv
<1>3. CASE ~(session.state = "ended" \/ engine # NoEngine)
  <2> DEFINE version == IF session.state = "absent" THEN 1 ELSE session.version
  <2>1. Registers(version, "attached", FALSE)
    BY <1>3 DEF Resolves
  <2>2. /\ session'.state = "open" /\ session'.version = version
        /\ session'.score = session.score
        /\ engine' # NoEngine /\ engine'.salt > 0 /\ engine'.seen = {}
    <3> HIDE DEF version
    <3> QED
      BY <2>1, RegistersDoes
  <2> QED
    BY <1>1, <1>3, <2>2
<1> QED
  BY <1>2, <1>3

\* Nobody holds the lock that is taken.
LEMMA LockIsFree ==
  ASSUME MayLock
  PROVE  daemon # 0 /\ \A c \in Calls : ~OnLock(c)
BY DEF MayLock, Locked, OnLock

\* Nobody holds the lock at first.
LEMMA LockInit == Init => LockInv /\ EngineInv
BY DEF Init, LockInv, EngineInv, OnLock, InFlight, NoEngine, NoAsk, Guarded

\* No step gives the lock to two calls, or leaves an engine without its session.
LEMMA LockStep ==
  ASSUME TypeOK, TypeOK', salts \in Nat, LockInv, EngineInv, Next
  PROVE  LockInv' /\ EngineInv'
<1> USE DEF LockInv, EngineInv, OnLock, InFlight
<1>1. ASSUME NEW c \in Calls, Arrive(c) PROVE LockInv' /\ EngineInv'
  <2>1. PICK a \in Asks[c] : Moved(c, "scanning", a, call[c].ruling, call[c].todo)
    BY <1>1, ArriveMoves
  <2>2. Resolves /\ MayLock /\ call[c].pc = "new" /\ UNCHANGED <<daemon, rows, unseen>>
    BY <1>1 DEF Arrive
  <2>3. LockInv'
    BY <2>1, <2>2, LockIsFree DEF Moved, Guarded
  <2>4. EngineInv'
    BY <2>2, ResolvesDoes
  <2> QED
    BY <2>3, <2>4
<1>2. ASSUME NEW c \in Calls, Unserved(c) PROVE LockInv' /\ EngineInv'
  <2>1. PICK a \in Asks[c] : Moved(c, "done", a, Fallback(a), call[c].todo)
    BY <1>2, UnservedMoves
  <2>2. daemon = 0 /\ call[c].pc = "new" /\ UNCHANGED <<daemon, rows, session, engine>>
        /\ (session.state # "open" => UNCHANGED unseen)
    BY <1>2 DEF Unserved, SpawnsDaemon, ledgerVars, daemonVars
  <2>3. LockInv'
    BY <2>1, <2>2 DEF Moved, Guarded
  <2>4. EngineInv'
    BY <2>1, <2>2 DEF Moved
  <2> QED
    BY <2>3, <2>4
<1>3. ASSUME NEW c \in Calls, Lock(c) PROVE LockInv' /\ EngineInv'
  <2>1. Moved(c, "noting", call[c].ask, call[c].ruling, call[c].todo)
    BY <1>3, GotoMoves DEF Lock, Pcs
  <2>2. Resolves /\ MayLock /\ call[c].pc = "scanning" /\ UNCHANGED <<daemon, rows, unseen>>
    BY <1>3 DEF Lock
  <2>3. LockInv'
    BY <2>1, <2>2, LockIsFree, ResolvesDoes DEF Moved, Guarded
  <2>4. EngineInv'
    BY <2>2, ResolvesDoes
  <2> QED
    BY <2>3, <2>4
<1>4. ASSUME NEW c \in Calls, NoteGap(c) PROVE LockInv' /\ EngineInv'
  <2>1. Moved(c, "ruling", call[c].ask, call[c].ruling, call[c].todo)
    BY <1>4, GotoMoves DEF NoteGap, Pcs
  <2>2. call[c].pc = "noting" /\ UNCHANGED <<daemon, rows, session, engine, unseen>>
    BY <1>4 DEF NoteGap, daemonVars
  <2>3. LockInv'
    BY <2>1, <2>2 DEF Moved, Guarded
  <2>4. EngineInv'
    BY <2>1, <2>2 DEF Moved
  <2> QED
    BY <2>3, <2>4
<1>5. ASSUME NEW c \in Calls, Rule(c) PROVE LockInv' /\ EngineInv'
  <2> DEFINE a == call[c].ask
  <2>1. PICK guard \in BOOLEAN :
          /\ Moved(c, "recording", a, Ruled(a, guard), ToRecord(a))
          /\ Remembers(a)
          /\ Ruled(a, guard) \in {"allow", "rewrite", "deny"}
    BY <1>5, RuleMoves
  <2>2. call[c].pc = "ruling" /\ UNCHANGED <<daemon, rows, session, unseen>>
    BY <1>5 DEF Rule, ledgerVars
  <2>3. /\ engine' = NoEngine <=> engine = NoEngine
        /\ engine'.salt = engine.salt
    <3>1. engine \in Engine
      BY DEF TypeOK
    <3>2. engine'.salt = engine.salt /\ NoEngine.salt = 0
      BY <2>1, <3>1 DEF Remembers, Engine, NoEngine
    <3>3. engine = NoEngine => engine' = NoEngine
      BY <2>1 DEF Remembers
    <3> QED
      BY <3>2, <3>3
  <2>4. IsAsk(a)
    BY CallType
  <2>5. session.version = 1 => ToRecord(a) \in Seq(Values)
    BY <2>4, EvidenceType DEF ToRecord
  <2>6. (a.event = "read" /\ Ruled(a, guard) = "deny") => a.origin # "none"
    BY <2>4, PolicyRules DEF Ruled
  <2>7. LockInv'
    BY <2>1, <2>2, <2>3, <2>5, <2>6 DEF Moved, Guarded
  <2>8. EngineInv'
    BY <2>1, <2>2, <2>3 DEF Moved
  <2> QED
    BY <2>7, <2>8
<1>6. ASSUME NEW c \in Calls, Record(c) PROVE LockInv' /\ EngineInv'
  <2>1. Moved(c, "recording", call[c].ask, call[c].ruling, Tail(call[c].todo))
    BY <1>6, RecordMoves
  <2>2. /\ call[c].pc = "recording" /\ UNCHANGED <<daemon, engine, unseen>>
        /\ call[c].todo # <<>> /\ session.version = 1
    BY <1>6 DEF Record, daemonVars
  <2>3. session'.state = session.state /\ session'.version = session.version
    BY <1>6 DEF Record, TypeOK, Session
  <2>4. Tail(call[c].todo) \in Seq(Values)
    <3>1. call[c].todo \in Seq(Values) /\ call[c].todo # <<>>
      BY <2>2
    <3> QED
      BY <3>1
  <2>5. LockInv'
    <3>1. \A d \in Calls : /\ call'[d].pc = call[d].pc /\ call'[d].ruling = call[d].ruling
                           /\ call'[d].ask = call[d].ask
      BY <2>1, <2>2 DEF Moved
    <3>2. \A d \in Calls : Guarded(d)' <=> Guarded(d)
      BY <3>1 DEF Guarded
    <3>3. \A d \in Calls : d # c => call'[d].todo = call[d].todo
      BY <2>1 DEF Moved
    <3>4. call'[c].todo \in Seq(Values)
      BY <2>1, <2>4 DEF Moved
    <3> QED
      BY <2>2, <2>3, <3>1, <3>2, <3>3, <3>4
  <2>6. session.state # "absent"
    BY <2>2
  <2>7. EngineInv'
    BY <2>2, <2>3, <2>6
  <2> QED
    BY <2>5, <2>7
<1>7. ASSUME NEW c \in Calls, Account(c) PROVE LockInv' /\ EngineInv'
  <2>1. Moved(c, "recording", call[c].ask, call[c].ruling, <<>>)
    BY <1>7, AccountMoves
  <2>2. call[c].pc = "recording" /\ UNCHANGED <<daemon, rows, session, unseen>>
    BY <1>7 DEF Account
  <2>3. /\ engine = NoEngine => engine' = engine
        /\ engine'.salt = engine.salt
        /\ engine # NoEngine => engine' # NoEngine
    <3>1. engine \in Engine /\ NoEngine.salt = 0 /\ ~NoEngine.key
      BY DEF TypeOK, NoEngine
    <3>2. engine'.salt = engine.salt
      BY <1>7, <3>1 DEF Account, Engine
    <3>3. engine = NoEngine => engine' = engine
      BY <1>7, <3>1 DEF Account
    <3> QED
      BY <3>1, <3>2, <3>3
  <2>4. LockInv'
    <3>1. \A d \in Calls : /\ call'[d].pc = call[d].pc /\ call'[d].ruling = call[d].ruling
                           /\ call'[d].ask = call[d].ask
      BY <2>1, <2>2 DEF Moved
    <3>2. \A d \in Calls : Guarded(d)' <=> Guarded(d)
      BY <3>1 DEF Guarded
    <3>3. \A d \in Calls : d # c => call'[d].todo = call[d].todo
      BY <2>1 DEF Moved
    <3>4. call'[c].todo = <<>> /\ <<>> \in Seq(Values)
      BY <2>1 DEF Moved
    <3>5. \A d \in Calls : (call'[d].pc = "recording" /\ session'.version = 1)
                             => call'[d].todo \in Seq(Values)
      BY <2>2, <3>1, <3>3, <3>4
    <3>6. \A d \in Calls : call'[d].pc # "recording" => call'[d].todo = <<>>
      BY <2>2, <3>1, <3>3
    <3>7. (engine' = NoEngine) <=> (engine = NoEngine)
      BY <2>3
    <3> QED
      BY <2>2, <3>1, <3>2, <3>5, <3>6, <3>7
  <2>5. EngineInv'
    BY <2>1, <2>2, <2>3 DEF Moved
  <2> QED
    BY <2>4, <2>5
<1>8. ASSUME NEW c \in Calls, Answer(c) PROVE LockInv' /\ EngineInv'
  <2>1. Moved(c, "done", call[c].ask, call[c].ruling, call[c].todo)
    BY <1>8, GotoMoves DEF Answer, Pcs
  <2>2. call[c].pc = "recording" /\ call[c].todo = <<>>
        /\ UNCHANGED <<daemon, rows, session, engine, unseen>>
    BY <1>8 DEF Answer, ledgerVars, daemonVars
  <2>3. LockInv'
    BY <2>1, <2>2 DEF Moved, Guarded
  <2>4. EngineInv'
    BY <2>1, <2>2 DEF Moved
  <2> QED
    BY <2>3, <2>4
<1>9. ASSUME NEW c \in Calls, GiveUp(c), OnLock(c) PROVE LockInv' /\ EngineInv'
  <2>1. Moved(c, "done", call[c].ask, LastWord(call[c].ask), <<>>)
    BY <1>9, GiveUpMoves
  <2>2. UNCHANGED <<daemon, rows, session, engine, unseen>>
    BY <1>9 DEF GiveUp, ledgerVars, daemonVars
  <2>3. LockInv'
    BY <1>9, <2>1, <2>2 DEF Moved, Guarded
  <2>4. EngineInv'
    BY <2>1, <2>2 DEF Moved
  <2> QED
    BY <2>3, <2>4
<1>10. ASSUME SessionStarts PROVE LockInv' /\ EngineInv'
  <2>1. Registers(2, "session_start", TRUE) /\ MayLock /\ UNCHANGED <<daemon, call, unseen>>
    BY <1>10 DEF SessionStarts
  <2>2. session'.state = "open" /\ engine' # NoEngine /\ engine'.salt > 0
    BY <2>1, RegistersDoes
  <2> QED
    BY <2>1, <2>2, LockIsFree DEF Guarded
<1>11. ASSUME SessionResumes PROVE LockInv' /\ EngineInv'
  <2>1. Registers(session.version, "session_start", FALSE) /\ MayLock
        /\ UNCHANGED <<daemon, call, unseen>>
    BY <1>11 DEF SessionResumes
  <2>2. session'.state = "open" /\ engine' # NoEngine /\ engine'.salt > 0
    BY <2>1, RegistersDoes
  <2> QED
    BY <2>1, <2>2, LockIsFree DEF Guarded
<1>12. ASSUME OtherStarts PROVE LockInv' /\ EngineInv'
  <2>1. session.state # "absent" /\ UNCHANGED <<session, daemon, engine, call, unseen>>
    BY <1>12 DEF OtherStarts, daemonVars
  <2> QED
    BY <2>1 DEF Guarded
<1>13. ASSUME SessionEnds PROVE LockInv' /\ EngineInv'
  <2>1. MayLock /\ engine' = NoEngine /\ UNCHANGED <<daemon, call, unseen>>
    BY <1>13 DEF SessionEnds
  <2>2. session'.state = "ended"
    BY <1>13 DEF SessionEnds, TypeOK, Session
  <2> QED
    BY <2>1, <2>2, LockIsFree DEF Guarded
<1>14. ASSUME EndFails PROVE LockInv' /\ EngineInv'
  <2>1. MayLock /\ engine' = NoEngine /\ session.state = "open"
        /\ UNCHANGED <<session, rows, daemon, call, unseen>>
    BY <1>14 DEF EndFails, ledgerVars
  <2> QED
    BY <2>1, LockIsFree DEF Guarded
<1>15. ASSUME UNCHANGED <<session, rows, daemon, engine, call, unseen>>
       PROVE  LockInv' /\ EngineInv'
  BY <1>15 DEF Guarded
<1>16. ASSUME DaemonStarts PROVE LockInv' /\ EngineInv'
  <2>1. UNCHANGED <<session, rows, engine, call, unseen>> /\ daemon = 0 /\ daemon' # 0
    BY <1>16, SessionAssumption DEF DaemonStarts, TypeOK
  <2> QED
    BY <2>1 DEF Guarded
<1>17. ASSUME DaemonDies PROVE LockInv' /\ EngineInv'
  <2>1. /\ daemon' = 0 /\ engine' = NoEngine /\ UNCHANGED <<session, rows>>
        /\ session.state = "absent" => UNCHANGED unseen
    BY <1>17 DEF DaemonDies, ledgerVars
  <2>2. \A c \in Calls : ~InFlight(c)' /\ (call'[c].pc = "new" => call'[c] = call[c])
    BY <1>17, DaemonDiesMoves
  <2>3. \A c \in Calls : call'[c].pc \in {"new", "done"} /\ call'[c].todo = <<>>
    BY <1>17, <2>2, DaemonDiesMoves
  <2>4. LockInv'
    BY <2>1, <2>2, <2>3
  <2>5. EngineInv'
    BY <2>1, <2>3
  <2> QED
    BY <2>4, <2>5
<1>18. ASSUME NEW c \in Calls, CallStep(c) PROVE LockInv' /\ EngineInv'
  BY <1>1, <1>2, <1>3, <1>4, <1>5, <1>6, <1>7, <1>8, <1>9, <1>18
     DEF CallStep, WriteFails, RewriteFails
<1>19. ASSUME UserStep PROVE LockInv' /\ EngineInv'
  BY <1>15, <1>19 DEF UserStep, SavePolicy, TokenExpires, MintToken, ledgerVars, daemonVars
<1> QED
  BY <1>10, <1>11, <1>12, <1>13, <1>14, <1>16, <1>17, <1>18, <1>19 DEF Next, SessionStep

-----------------------------------------------------------------------------
(* The rows and the score *)

\* The fields of a row that the sums use.
LEMMA RowParts ==
  ASSUME TypeOK, NEW r \in rows[LegacyTable]
  PROVE  /\ r \in Row /\ r.call \in Calls /\ Delta(r) = r.delta
         /\ r.salt \in Nat /\ r.delta \in Nat
<1>1. r \in Row
  BY TableIsOne
<1> QED
  BY <1>1 DEF Row, Delta

\* The score is its rows where it is the sum of the exposures.
LEMMA ScoreSum ==
  /\ ScoreIsItsRows <=> session.score = DeltaSum(Listed("exposed"))
  /\ ScoreIsItsRows' <=> session'.score = DeltaSum(Listed("exposed"))'
<1>1. Summary.legacy_score = session.score /\ Summary'.legacy_score = session'.score
  BY DEF Summary
<1> QED
  BY <1>1 DEF ScoreIsItsRows, DeltaSum

\* The exposures can be summed up.
LEMMA ListedIsFinite ==
  ASSUME TypeOK, RowsInv
  PROVE  /\ IsFiniteSet(Listed("exposed"))
         /\ \A r \in Listed("exposed") : Delta(r) \in Int
<1>1. Listed("exposed") \subseteq rows[LegacyTable]
  BY DEF Listed
<1>2. IsFiniteSet(Listed("exposed"))
  BY <1>1, FS_Subset DEF RowsInv
<1> QED
  BY <1>1, <1>2, RowParts

\* The table keeps its rows, by whatever name, and no call that has written
\* any goes on under another engine.
LEMMA RowsKept ==
  ASSUME TypeOK, RowsInv, ScoreIsItsRows,
         rows'[LegacyTable'] = rows[LegacyTable],
         \A t \in Tables : t # LegacyTable' => rows'[t] = {},
         session'.score = session.score,
         session'.state = "ended" => session.state = "ended",
         \A c \in Calls : call[c].pc \in {"recording", "done"} =>
           /\ call'[c].pc \in {"recording", "done"}
           /\ call'[c].pc = "recording" => call[c].pc = "recording" /\ engine'.salt = engine.salt
  PROVE  RowsInv' /\ ScoreIsItsRows'
<1>1. \A r \in rows[LegacyTable] : r.call \in Calls
  BY RowParts
<1>2. RowsInv'
  BY <1>1 DEF RowsInv
<1>3. Listed("exposed")' = Listed("exposed")
  BY DEF Listed
<1>4. ScoreIsItsRows'
  BY <1>3, ScoreSum
<1> QED
  BY <1>2, <1>4

\* The rebuild renames the table and keeps its rows.
LEMMA RebuildKeeps ==
  ASSUME TypeOK, RowsInv, Rebuilds
  PROVE  /\ rows'[LegacyTable'] = rows[LegacyTable]
         /\ \A t \in Tables : t # LegacyTable' => rows'[t] = {}
BY DEF Rebuilds, LegacyTable, RowsInv, Tables

\* What a call records: a row that was there is counted once more, and a new
\* one adds what it costs.
LEMMA RecordRows ==
  ASSUME TypeOK, LockInv, EngineInv, RowsInv, ScoreIsItsRows, NEW c \in Calls, Record(c)
  PROVE  RowsInv' /\ ScoreIsItsRows'
<1> DEFINE T == rows[LegacyTable]
           E == Listed("exposed")
<1>1. Moved(c, "recording", call[c].ask, call[c].ruling, Tail(call[c].todo))
  BY RecordMoves
<1>2. /\ call[c].pc = "recording" /\ LegacyTable' = LegacyTable /\ UNCHANGED engine
      /\ LegacyTable \in Tables /\ DOMAIN rows = Tables
  BY TableIsOne DEF Record, daemonVars, LegacyTable
<1>3. \A d \in Calls : call'[d].pc = call[d].pc
  BY <1>1, <1>2 DEF Moved
<1>4. \A r \in T : r \in Row /\ r.call \in Calls
  BY RowParts
<1>5. /\ session.score = DeltaSum(E)
      /\ session'.score = DeltaSum(E') => ScoreIsItsRows'
  BY ScoreSum
<1>6. IsFiniteSet(T) /\ IsFiniteSet(E) /\ \A r \in E : Delta(r) \in Int
  BY ListedIsFinite DEF RowsInv
<1>7. ASSUME NEW r \in Matching(c),
             rows' = [rows EXCEPT ![LegacyTable] = Rerecorded(c, r)], UNCHANGED session
      PROVE  RowsInv' /\ ScoreIsItsRows'
  <2> DEFINE z == Seen(r)
             T1 == (T \ {r}) \cup {z}
  <2>1. rows'[LegacyTable'] = T1 /\ \A t \in Tables : t # LegacyTable => rows'[t] = rows[t]
    BY <1>2, <1>7 DEF Rerecorded
  <2>2. /\ r \in T /\ r \in Row /\ r.salt # 0
        /\ z.call = r.call /\ z.value = r.value /\ z.dest = r.dest
        /\ z.kind = r.kind /\ z.salt = r.salt /\ z.delta = r.delta
    BY <1>4, SeenRow DEF Matching
  <2>3. IsFiniteSet(T1)
    BY <1>6, FS_RemoveElement, FS_AddElement
  <2> HIDE DEF z
  <2>4. \A s \in T \ {r} : ~(s.salt = z.salt /\ s.value = z.value /\ s.dest = z.dest)
    BY <2>2 DEF RowsInv
  <2>5. RowsInv'
    <3>1. \A t \in Tables : t # LegacyTable' => rows'[t] = {}
      BY <1>2, <2>1 DEF RowsInv
    <3>2. \A s \in T1 : /\ s.kind # "exposed" => s.delta = 0
                        /\ session.state = "ended" => s.salt = 0
                        /\ call[s.call].pc \in {"recording", "done"}
                        /\ call[s.call].pc = "recording" => s.salt = engine.salt
                        /\ s.call \in Calls
      BY <1>4, <2>2 DEF RowsInv
    <3>3. \A s, t \in T1 : s.call = t.call => s.salt = t.salt
      BY <2>2 DEF RowsInv
    <3>4. \A s, t \in T1 : (s.salt # 0 /\ s.salt = t.salt /\ s.value = t.value
                             /\ s.dest = t.dest) => s = t
      <4>1. \A s, t \in T \ {r} : (s.salt # 0 /\ s.salt = t.salt /\ s.value = t.value
                                   /\ s.dest = t.dest) => s = t
        BY DEF RowsInv
      <4> HIDE DEF T
      <4> QED
        BY <2>4, <4>1
    <3> HIDE DEF T1, T
    <3> QED
      BY <1>2, <1>3, <1>7, <2>1, <2>3, <3>1, <3>2, <3>3, <3>4 DEF RowsInv
  <2>6. ScoreIsItsRows'
    <3>1. E' = {s \in T1 : s.kind = "exposed"}
      BY <2>1 DEF Listed
    <3>2. E = {s \in T : s.kind = "exposed"}
      BY DEF Listed
    <3>3. CASE r.kind = "exposed"
      <4>1. E' = (E \ {r}) \cup {z} /\ r \in E /\ z \notin E \ {r}
        <5> HIDE DEF E, T
        <5> QED
          BY <2>2, <2>4, <3>1, <3>2, <3>3
      <4>2. Delta(z) = Delta(r)
        BY <2>2 DEF Delta
      <4>3. DeltaSum((E \ {r}) \cup {z}) = DeltaSum(E)
        <5> HIDE DEF E
        <5> QED
          BY <1>6, <4>1, <4>2, SumSwapped
      <4> QED
        BY <1>5, <1>7, <4>1, <4>3
    <3>4. CASE r.kind # "exposed"
      <4>1. E' = E
        <5> HIDE DEF E, T
        <5> QED
          BY <2>2, <3>1, <3>2, <3>4
      <4> QED
        BY <1>5, <1>7, <4>1
    <3> QED
      BY <3>3, <3>4
  <2> QED
    BY <2>5, <2>6
<1>8. ASSUME Matching(c) = {},
             rows' = [rows EXCEPT ![LegacyTable] = @ \cup {NewRow(c)}],
             session' = [session EXCEPT !.score = @ + NewRow(c).delta]
      PROVE  RowsInv' /\ ScoreIsItsRows'
  <2> DEFINE new == NewRow(c)
  <2>1. rows'[LegacyTable'] = T \cup {new} /\ \A t \in Tables : t # LegacyTable => rows'[t] = rows[t]
    BY <1>2, <1>8
  <2>2. /\ new.call = c /\ new.salt = engine.salt /\ new.value = Finding(c)
        /\ new.dest = Destination(call[c].ask) /\ new.kind = Kind(c)
        /\ new.delta = Charge(c, Finding(c))
    BY DEF NewRow
  <2>3. /\ new.delta \in Nat
        /\ new.kind # "exposed" => new.delta = 0
        /\ session.state # "open" => new.delta = 0
    BY <2>2, ChargeIsNat
  <2>4. session'.state = session.state /\ session'.score = session.score + new.delta
        /\ session.score \in Nat /\ engine.salt \in Nat
    BY <1>8 DEF TypeOK, Session, Engine
  <2> HIDE DEF new
  <2>5. \A r \in T : ~(/\ r.salt # 0 /\ r.salt = new.salt /\ r.value = new.value
                       /\ r.dest = new.dest)
    BY <1>8, <2>2 DEF Matching
  <2>6. session.state = "ended" => new.salt = 0
    BY <2>2 DEF EngineInv, NoEngine
  <2>7. session.state = "open" => new.salt # 0
    <3>1. session.state = "open" => engine # NoEngine
      BY <1>2 DEF LockInv, OnLock
    <3>2. engine # NoEngine => engine.salt > 0
      BY DEF EngineInv
    <3> QED
      BY <2>2, <2>4, <3>1, <3>2
  <2>8. RowsInv'
    <3>1. IsFiniteSet(T \cup {new})
      BY <1>6, FS_AddElement
    <3>2. \A t \in Tables : t # LegacyTable' => rows'[t] = {}
      BY <1>2, <2>1 DEF RowsInv
    <3>3. \A s \in T \cup {new} :
                        /\ s.kind # "exposed" => s.delta = 0
                        /\ session.state = "ended" => s.salt = 0
                        /\ call[s.call].pc \in {"recording", "done"}
                        /\ call[s.call].pc = "recording" => s.salt = engine.salt
                        /\ s.call \in Calls
      <4>1. \A s \in T : /\ s.kind # "exposed" => s.delta = 0
                         /\ session.state = "ended" => s.salt = 0
                         /\ call[s.call].pc \in {"recording", "done"}
                         /\ call[s.call].pc = "recording" => s.salt = engine.salt
                         /\ s.call \in Calls
        BY <1>4 DEF RowsInv
      <4> HIDE DEF T
      <4> QED
        BY <1>2, <2>2, <2>3, <2>6, <4>1
    <3>4. \A s, t \in T \cup {new} : s.call = t.call => s.salt = t.salt
      <4>1. \A s, t \in T : s.call = t.call => s.salt = t.salt
        BY DEF RowsInv
      <4>2. \A s \in T : s.call = c => s.salt = engine.salt
        BY <1>2 DEF RowsInv
      <4> HIDE DEF T
      <4> QED
        BY <2>2, <4>1, <4>2
    <3>5. \A s, t \in T \cup {new} : (s.salt # 0 /\ s.salt = t.salt /\ s.value = t.value
                                      /\ s.dest = t.dest) => s = t
      <4>1. \A s, t \in T : (s.salt # 0 /\ s.salt = t.salt /\ s.value = t.value
                             /\ s.dest = t.dest) => s = t
        BY DEF RowsInv
      <4> HIDE DEF T
      <4> QED
        BY <2>5, <4>1
    <3> HIDE DEF T
    <3> QED
      BY <1>2, <1>3, <2>1, <2>4, <3>1, <3>2, <3>3, <3>4, <3>5 DEF RowsInv
  <2>9. ScoreIsItsRows'
    <3>1. E' = {s \in T \cup {new} : s.kind = "exposed"} /\ E = {s \in T : s.kind = "exposed"}
      BY <2>1 DEF Listed
    <3>2. Delta(new) = new.delta
      BY DEF Delta
    <3>3. CASE new.kind = "exposed" /\ new \notin T
      <4> HIDE DEF E, T
      <4>1. E' = E \cup {new} /\ new \notin E
        BY <3>1, <3>3
      <4>2. DeltaSum(E \cup {new}) = DeltaSum(E) + Delta(new)
        <5>1. Delta(new) \in Int
          BY <2>3, <3>2
        <5> QED
          BY ONLY <1>6, <4>1, <5>1, SumWith
      <4> QED
        BY <1>5, <2>4, <3>2, <4>1, <4>2
    <3>4. CASE new.kind # "exposed" \/ new \in T
      <4>1. E' = E
        <5> HIDE DEF E, T
        <5> QED
          BY <3>1, <3>4
      <4>2. new.delta = 0
        <5>1. ASSUME new \in T PROVE session.state # "open"
          <6>1. ~(new.salt # 0)
            BY <2>5, <5>1
          <6> QED
            BY <2>7, <6>1
        <5>2. CASE new.kind # "exposed"
          BY <2>3, <5>2
        <5>3. CASE new \in T
          BY <2>3, <5>1, <5>3
        <5> QED
          BY <3>4, <5>2, <5>3
      <4> QED
        BY <1>5, <2>4, <4>1, <4>2
    <3> QED
      BY <3>3, <3>4
  <2> QED
    BY <2>8, <2>9
<1> QED
  BY <1>7, <1>8, RecordCases

\* A row whose hash is erased
Erased(r) == [r EXCEPT !.salt = 0]

\* A row without its hash is otherwise the same.
LEMMA ErasedRow ==
  ASSUME NEW r \in Row
  PROVE  /\ Erased(r).call = r.call /\ Erased(r).kind = r.kind /\ Erased(r).delta = r.delta
         /\ Erased(r).salt = 0
         /\ \A s \in Row : (Erased(r) = Erased(s) /\ r.salt = s.salt) => r = s
<1>1. /\ Erased(r).call = r.call /\ Erased(r).kind = r.kind /\ Erased(r).delta = r.delta
      /\ Erased(r).salt = 0
  BY DEF Erased, Row
<1>2. ASSUME NEW s \in Row, Erased(r) = Erased(s), r.salt = s.salt PROVE r = s
  <2>1. \A q \in Row : q = [Erased(q) EXCEPT !.salt = q.salt]
    BY DEF Erased, Row
  <2> QED
    BY <1>2, <2>1
<1> QED
  BY <1>1, <1>2

\* The end erases the hashes of rows that other calls than those of the row's
\* engine do not share, so that no two become one.
LEMMA EndRows ==
  ASSUME TypeOK, LockInv, EngineInv, RowsInv, ScoreIsItsRows, SessionEnds
  PROVE  RowsInv' /\ ScoreIsItsRows'
<1> DEFINE T == rows[LegacyTable]
           E == Listed("exposed")
           f == [r \in T |-> Erased(r)]
<1>1. /\ LegacyTable' = LegacyTable /\ UNCHANGED call /\ MayLock
      /\ rows' = [rows EXCEPT ![LegacyTable] = {Erased(r) : r \in T}]
      /\ session' = [session EXCEPT !.state = "ended"]
  BY DEF SessionEnds, LegacyTable, Erased
<1>2. /\ rows'[LegacyTable'] = {f[r] : r \in T}
      /\ \A t \in Tables : t # LegacyTable => rows'[t] = rows[t]
  BY <1>1, TableIsOne
<1>3. session'.score = session.score
  BY <1>1 DEF TypeOK, Session
<1>4. \A c \in Calls : call[c].pc # "recording"
  BY <1>1, LockIsFree DEF OnLock
<1>5. \A r \in T : r \in Row /\ r.call \in Calls /\ f[r] = Erased(r)
  BY RowParts
<1>6. \A r \in T : /\ f[r].call = r.call /\ f[r].kind = r.kind /\ f[r].delta = r.delta
                   /\ f[r].salt = 0 /\ r.call \in Calls
  BY <1>5, ErasedRow
<1>7. \A r, s \in T : f[r] = f[s] => r = s
  <2>1. \A r, s \in T : r.call = s.call => r.salt = s.salt
    BY DEF RowsInv
  <2> HIDE DEF T, f
  <2> QED
    BY <1>5, <1>6, <2>1, ErasedRow
<1>8. IsFiniteSet(T) /\ IsFiniteSet(E) /\ (\A r \in E : Delta(r) \in Int)
      /\ E = {r \in T : r.kind = "exposed"}
  BY ListedIsFinite DEF RowsInv, Listed
<1>9. \A r \in T : /\ r.kind # "exposed" => r.delta = 0
                   /\ call[r.call].pc \in {"recording", "done"}
  BY DEF RowsInv
<1>10. \A t \in Tables : t # LegacyTable => rows[t] = {}
  BY DEF RowsInv
<1> HIDE DEF f
<1>11. RowsInv'
  <2>1. IsFiniteSet({f[r] : r \in T})
    BY <1>8, ImageIsFinite
  <2> DEFINE T1 == {f[r] : r \in T}
  <2> HIDE DEF T
  <2>2. \A s \in T1 : /\ s.kind # "exposed" => s.delta = 0
                      /\ s.salt = 0 /\ s.call \in Calls
                      /\ call[s.call].pc \in {"recording", "done"}
    BY <1>6, <1>9
  <2> HIDE DEF T1
  <2> QED
    BY <1>1, <1>2, <1>4, <1>10, <2>1, <2>2 DEF RowsInv, T1
<1>12. ScoreIsItsRows'
  <2>1. /\ session.score = DeltaSum(E)
        /\ session'.score = DeltaSum(E') => ScoreIsItsRows'
    BY ScoreSum
  <2>2. E' = {s \in {f[r] : r \in T} : s.kind = "exposed"}
    BY <1>2 DEF Listed
  <2> HIDE DEF E, T
  <2>3. E' = {f[r] : r \in E}
    BY <1>6, <1>8, <2>2
  <2>4. \A r \in E : Delta(f[r]) = Delta(r)
    BY <1>6, <1>8 DEF Delta
  <2>5. DeltaSum({f[r] : r \in E}) = DeltaSum(E)
    BY <1>7, <1>8, <2>4, SumRewritten
  <2> QED
    BY <1>3, <2>1, <2>3, <2>5
<1> QED
  BY <1>11, <1>12

\* There are no rows and no score at first.
LEMMA RowsInit == Init => RowsInv /\ ScoreIsItsRows
<1> SUFFICES ASSUME Init PROVE RowsInv /\ ScoreIsItsRows
  OBVIOUS
<1>1. LegacyTable \in Tables /\ rows[LegacyTable] = {} /\ session.score = 0
  BY DEF Init, LegacyTable, Tables
<1>2. RowsInv
  BY <1>1, FS_EmptySet DEF Init, RowsInv
<1>3. Listed("exposed") = {}
  BY <1>1 DEF Listed
<1> QED
  BY <1>1, <1>2, <1>3, ScoreSum, SumOfNothing

\* Every step keeps the rows distinct and the score their sum.
LEMMA RowsStep ==
  ASSUME TypeOK, salts \in Nat, LockInv, EngineInv, RowsInv, ScoreIsItsRows, Next
  PROVE  RowsInv' /\ ScoreIsItsRows'
<1> DEFINE Wrote(c) == call[c].pc \in {"recording", "done"}
           GoesOn(c) ==
             /\ call'[c].pc \in {"recording", "done"}
             /\ call'[c].pc = "recording" => call[c].pc = "recording" /\ engine'.salt = engine.salt
\* The steps that leave the ledger's tables alone.
<1>1. ASSUME UNCHANGED <<rows, activated>>, session'.score = session.score,
             session'.state = "ended" => session.state = "ended",
             \A c \in Calls : Wrote(c) => GoesOn(c)
      PROVE  RowsInv' /\ ScoreIsItsRows'
  <2>1. rows'[LegacyTable'] = rows[LegacyTable]
        /\ \A t \in Tables : t # LegacyTable' => rows'[t] = {}
    BY <1>1 DEF LegacyTable, RowsInv
  <2> QED
    BY <1>1, <2>1, RowsKept
<1>2. ASSUME NEW c \in Calls, NEW pc, NEW ask, NEW ruling, NEW todo,
             Moved(c, pc, ask, ruling, todo), engine'.salt = engine.salt,
             Wrote(c) => call[c].pc = "recording" /\ pc \in {"recording", "done"}
      PROVE  \A d \in Calls : Wrote(d) => GoesOn(d)
  BY <1>2 DEF Moved
\* A step that begins or ends with the lock free
<1>3. ASSUME MayLock, UNCHANGED call
      PROVE  \A d \in Calls : Wrote(d) => GoesOn(d)
  BY <1>3, LockIsFree DEF OnLock
<1>4. ASSUME NEW c \in Calls, NEW pc \in {"scanning", "noting"}, NEW ask, NEW ruling, NEW todo,
             MayLock, ~Wrote(c), Moved(c, pc, ask, ruling, todo), Resolves,
             UNCHANGED <<rows, activated>>
      PROVE  RowsInv' /\ ScoreIsItsRows'
  <2>1. \A d \in Calls : Wrote(d) => GoesOn(d)
    BY <1>4, LockIsFree DEF OnLock, Moved
  <2>2. session'.score = session.score /\ (session'.state = "ended" => session.state = "ended")
    <3>1. session.state = "absent" => session'.state = "open"
      BY <1>4, ResolvesDoes
    <3>2. session'.score = session.score
          /\ (session.state # "absent" => session'.state = session.state)
      BY <1>4, ResolvesDoes
    <3> QED
      BY <3>1, <3>2
  <2> HIDE DEF Wrote, GoesOn
  <2> QED
    BY <1>1, <1>4, <2>1, <2>2
<1>5. ASSUME NEW c \in Calls, NEW pc, NEW ask, NEW ruling, NEW todo,
             Moved(c, pc, ask, ruling, todo), engine'.salt = engine.salt,
             Wrote(c) => call[c].pc = "recording" /\ pc \in {"recording", "done"},
             UNCHANGED <<rows, activated, session>>
      PROVE  RowsInv' /\ ScoreIsItsRows'
  <2>1. \A d \in Calls : Wrote(d) => GoesOn(d)
    <3> HIDE DEF GoesOn
    <3> QED
      BY ONLY <1>2, <1>5
  <2> HIDE DEF Wrote, GoesOn
  <2> QED
    BY <1>1, <1>5, <2>1
<1>6. ASSUME NEW c \in Calls, Arrive(c) PROVE RowsInv' /\ ScoreIsItsRows'
  <2>1. PICK a \in Asks[c] : Moved(c, "scanning", a, call[c].ruling, call[c].todo)
    BY <1>6, ArriveMoves
  <2> QED
    BY <1>4, <1>6, <2>1 DEF Arrive
<1>7. ASSUME NEW c \in Calls, Unserved(c) PROVE RowsInv' /\ ScoreIsItsRows'
  <2>1. PICK a \in Asks[c] : Moved(c, "done", a, Fallback(a), call[c].todo)
    BY <1>7, UnservedMoves
  <2> QED
    BY <1>5, <1>7, <2>1 DEF Unserved, ledgerVars, daemonVars
<1>8. ASSUME NEW c \in Calls, Lock(c) PROVE RowsInv' /\ ScoreIsItsRows'
  <2>1. Moved(c, "noting", call[c].ask, call[c].ruling, call[c].todo)
    BY <1>8, GotoMoves DEF Lock, Pcs
  <2> QED
    BY <1>4, <1>8, <2>1 DEF Lock
<1>9. ASSUME NEW c \in Calls, NoteGap(c) PROVE RowsInv' /\ ScoreIsItsRows'
  <2>1. Moved(c, "ruling", call[c].ask, call[c].ruling, call[c].todo)
    BY <1>9, GotoMoves DEF NoteGap, Pcs
  <2> QED
    BY <1>5, <1>9, <2>1 DEF NoteGap, daemonVars
<1>10. ASSUME NEW c \in Calls, Rule(c) PROVE RowsInv' /\ ScoreIsItsRows'
  <2> DEFINE a == call[c].ask
  <2>1. PICK guard \in BOOLEAN : /\ Moved(c, "recording", a, Ruled(a, guard), ToRecord(a))
                                 /\ Remembers(a)
    BY <1>10, RuleMoves
  <2>2. engine'.salt = engine.salt
    BY <2>1 DEF Remembers, TypeOK, Engine
  <2>3. call[c].pc = "ruling" /\ UNCHANGED <<rows, activated, session>>
    BY <1>10 DEF Rule, ledgerVars
  <2> QED
    BY <1>5, <2>1, <2>2, <2>3
<1>11. ASSUME NEW c \in Calls, Account(c) PROVE RowsInv' /\ ScoreIsItsRows'
  <2>1. Moved(c, "recording", call[c].ask, call[c].ruling, <<>>)
    BY <1>11, AccountMoves
  <2>2. engine'.salt = engine.salt
    BY <1>11 DEF Account, TypeOK, Engine
  <2>3. call[c].pc = "recording" /\ UNCHANGED <<rows, activated, session>>
    BY <1>11 DEF Account
  <2> QED
    BY <1>5, <2>1, <2>2, <2>3
<1>12. ASSUME NEW c \in Calls, Answer(c) PROVE RowsInv' /\ ScoreIsItsRows'
  <2>1. Moved(c, "done", call[c].ask, call[c].ruling, call[c].todo)
    BY <1>12, GotoMoves DEF Answer, Pcs
  <2> QED
    BY <1>5, <1>12, <2>1 DEF Answer, ledgerVars, daemonVars
<1>13. ASSUME NEW c \in Calls, GiveUp(c), OnLock(c) PROVE RowsInv' /\ ScoreIsItsRows'
  <2>1. Moved(c, "done", call[c].ask, LastWord(call[c].ask), <<>>)
    BY <1>13, GiveUpMoves
  <2> QED
    BY <1>5, <1>13, <2>1 DEF GiveUp, ledgerVars, daemonVars, OnLock
<1>14. ASSUME NEW c \in Calls, CallStep(c) PROVE RowsInv' /\ ScoreIsItsRows'
  <2>1. WriteFails(c) \/ RewriteFails(c) => GiveUp(c) /\ OnLock(c)
    BY DEF WriteFails, RewriteFails, OnLock
  <2> QED
    BY <1>6, <1>7, <1>8, <1>9, <1>10, <1>11, <1>12, <1>13, <1>14, <2>1, RecordRows DEF CallStep
<1>15. ASSUME SessionStarts PROVE RowsInv' /\ ScoreIsItsRows'
  <2>1. Registers(2, "session_start", TRUE) /\ MayLock /\ UNCHANGED call /\ Rebuilds
    BY <1>15 DEF SessionStarts
  <2>2. session'.state = "open" /\ session'.score = session.score
    BY <2>1, RegistersDoes
  <2>3. \A d \in Calls : Wrote(d) => GoesOn(d)
    BY <1>3, <2>1
  <2> QED
    BY <2>1, <2>2, <2>3, RebuildKeeps, RowsKept
<1>16. ASSUME SessionResumes PROVE RowsInv' /\ ScoreIsItsRows'
  <2>1. Registers(session.version, "session_start", FALSE) /\ MayLock
        /\ UNCHANGED <<call, rows, activated>>
    BY <1>16 DEF SessionResumes
  <2>2. session'.state = "open" /\ session'.score = session.score
    BY <2>1, RegistersDoes
  <2>3. \A d \in Calls : Wrote(d) => GoesOn(d)
    BY <1>3, <2>1
  <2> QED
    BY <1>1, <2>1, <2>2, <2>3
<1>17. ASSUME OtherStarts PROVE RowsInv' /\ ScoreIsItsRows'
  <2>1. MayLock /\ UNCHANGED <<call, session>> /\ (Rebuilds \/ UNCHANGED <<activated, rows>>)
    BY <1>17 DEF OtherStarts
  <2>2. \A d \in Calls : Wrote(d) => GoesOn(d)
    BY <1>3, <2>1
  <2> QED
    BY <1>1, <2>1, <2>2, RebuildKeeps, RowsKept
<1>18. ASSUME EndFails PROVE RowsInv' /\ ScoreIsItsRows'
  <2>1. MayLock /\ UNCHANGED <<call, session, rows, activated>>
    BY <1>18 DEF EndFails, ledgerVars
  <2>2. \A d \in Calls : Wrote(d) => GoesOn(d)
    BY <1>3, <2>1
  <2> QED
    BY <1>1, <2>1, <2>2
<1>19. ASSUME UNCHANGED <<session, rows, activated, engine, call>>
       PROVE  RowsInv' /\ ScoreIsItsRows'
  <2>1. \A d \in Calls : Wrote(d) => GoesOn(d)
    BY <1>19
  <2> QED
    BY <1>1, <1>19, <2>1
<1>20. ASSUME DaemonDies PROVE RowsInv' /\ ScoreIsItsRows'
  <2>1. UNCHANGED <<session, rows, activated>>
    BY <1>20 DEF DaemonDies, ledgerVars
  <2>2. \A d \in Calls : Wrote(d) => call'[d].pc = "done"
    BY <1>20, DaemonDiesMoves DEF InFlight
  <2>3. \A d \in Calls : Wrote(d) => GoesOn(d)
    BY <2>2
  <2> QED
    BY <1>1, <2>1, <2>3
<1>21. ASSUME UserStep \/ DaemonStarts PROVE RowsInv' /\ ScoreIsItsRows'
  BY <1>19, <1>21
     DEF UserStep, SavePolicy, TokenExpires, MintToken, DaemonStarts, ledgerVars, daemonVars
<1> QED
  BY <1>14, <1>15, <1>16, <1>17, <1>18, <1>20, <1>21, EndRows DEF Next, SessionStep

-----------------------------------------------------------------------------
(* Consents *)

\* A call like this passes with a credential.
Carries(ask, ruling) ==
    /\ ask.event = "out" /\ HardBlocked(ask)
    /\ ruling \in {"allow", "rewrite"} \/ (ruling = "warn" /\ ask.url)

\* No call has passed at first.
LEMMA ConsentInit == Init => ConsentInv
<1> SUFFICES ASSUME Init, NEW a \in Arguments
             PROVE  Cardinality(Passed(a)) + (IF tokens[a] # "none" THEN 1 ELSE 0) <= consents[a]
  BY DEF ConsentInv
<1>1. Passed(a) = {}
  BY DEF Init, Passed, LetThrough, Unchecked, ArgumentsOf
<1>2. tokens[a] = "none" /\ consents[a] = 0
  BY DEF Init
<1> QED
  BY <1>1, <1>2, FS_EmptySet

\* No call more passes, and no consent is taken back that was not unspent.
LEMMA ConsentKept ==
  ASSUME TypeOK, ConsentInv, NEW a \in Arguments,
         Passed(a)' \subseteq Passed(a), tokens'[a] \in {tokens[a], "none"},
         consents'[a] = consents[a]
  PROVE  Cardinality(Passed(a)') + (IF tokens'[a] # "none" THEN 1 ELSE 0) <= consents'[a]
<1>1. IsFiniteSet(Passed(a)) /\ Cardinality(Passed(a)) \in Nat
  BY PassedType
<1>2. IsFiniteSet(Passed(a)') /\ Cardinality(Passed(a)') <= Cardinality(Passed(a))
  BY <1>1, FS_Subset
<1>3. Cardinality(Passed(a)') \in Nat
  BY <1>2, FS_CardinalityType
<1>4. Cardinality(Passed(a)) + (IF tokens[a] # "none" THEN 1 ELSE 0) <= consents[a]
  BY DEF ConsentInv
<1>5. consents[a] \in Nat
  BY DEF TypeOK
<1> DEFINE n == Cardinality(Passed(a))
           m == Cardinality(Passed(a)')
<1> HIDE DEF n, m
<1>6. n \in Nat /\ m \in Nat /\ m <= n
      /\ n + (IF tokens[a] # "none" THEN 1 ELSE 0) <= consents[a]
  BY <1>1, <1>2, <1>3, <1>4 DEF n, m
<1>7. m + (IF tokens'[a] # "none" THEN 1 ELSE 0) <= consents'[a]
  BY <1>5, <1>6
<1> QED
  BY <1>7 DEF m

\* A call that moves passes as before, unless it is let through now.
LEMMA MovedPasses ==
  ASSUME NEW c \in Calls, NEW pc, NEW ask, NEW ruling, NEW todo,
         Moved(c, pc, ask, ruling, todo), NEW a,
         \/ ~Carries(ask, ruling)
         \/ ask = call[c].ask /\ ruling = call[c].ruling
  PROVE  Passed(a)' \subseteq Passed(a)
BY DEF Moved, Carries, Passed, LetThrough, Unchecked, ArgumentsOf, HardBlocked, Found

\* Every step that lets a credential pass takes a consent, and every step that takes
\* a consent back takes one that was unspent.
LEMMA ConsentStep ==
  ASSUME TypeOK, LockInv, ConsentInv, Next
  PROVE  ConsentInv'
<1> DEFINE Holds(a) ==
      Cardinality(Passed(a)') + (IF tokens'[a] # "none" THEN 1 ELSE 0) <= consents'[a]
<1>0. SUFFICES ASSUME NEW a \in Arguments PROVE Holds(a)
  BY DEF ConsentInv
<1>1. ASSUME NEW c \in Calls, NEW pc, NEW ask, NEW ruling, NEW todo,
             Moved(c, pc, ask, ruling, todo), UNCHANGED <<tokens, consents>>,
             \/ ~Carries(ask, ruling)
             \/ ask = call[c].ask /\ ruling = call[c].ruling
      PROVE  Holds(a)
  <2>1. Passed(a)' \subseteq Passed(a)
    BY ONLY <1>1, MovedPasses
  <2> QED
    BY <1>1, <2>1, ConsentKept
<1>2. ASSUME NEW c \in Calls, Arrive(c) PROVE Holds(a)
  <2>1. PICK b \in Asks[c] : Moved(c, "scanning", b, call[c].ruling, call[c].todo)
    BY <1>2, ArriveMoves
  <2>2. call[c].ruling = "none" /\ UNCHANGED <<tokens, consents>>
    BY <1>2 DEF Arrive, LockInv, userVars
  <2>3. ~Carries(b, call[c].ruling)
    BY <2>2 DEF Carries
  <2> HIDE DEF Holds
  <2> QED
    BY <1>1, <2>1, <2>2, <2>3
<1>3. ASSUME NEW c \in Calls, Unserved(c) PROVE Holds(a)
  <2>1. PICK b \in Asks[c] : Moved(c, "done", b, Fallback(b), call[c].todo)
    BY <1>3, UnservedMoves
  <2>2. ~Carries(b, Fallback(b)) /\ UNCHANGED <<tokens, consents>>
    BY <1>3 DEF Carries, Fallback, Unserved, userVars
  <2> HIDE DEF Holds
  <2> QED
    BY <1>1, <2>1, <2>2
<1>4. ASSUME NEW c \in Calls, Lock(c) \/ NoteGap(c) \/ Answer(c) PROVE Holds(a)
  <2>1. PICK pc \in Pcs : Goto(c, pc)
    BY <1>4 DEF Lock, NoteGap, Answer, Pcs
  <2>2. Moved(c, pc, call[c].ask, call[c].ruling, call[c].todo)
    BY <2>1, GotoMoves
  <2>3. UNCHANGED <<tokens, consents>>
    BY <1>4 DEF Lock, NoteGap, Answer, userVars
  <2> HIDE DEF Holds
  <2> QED
    BY <1>1, <2>2, <2>3
<1>5. ASSUME NEW c \in Calls, Rule(c) PROVE Holds(a)
  <2> DEFINE b == call[c].ask
  <2>1. PICK guard \in BOOLEAN :
          /\ Moved(c, "recording", b, Ruled(b, guard), ToRecord(b))
          /\ tokens' = Spent(b, Policy(b, guard))
    BY <1>5, RuleMoves
  <2>2. IsAsk(b)
    BY CallType
  <2>3. call[c].ruling = "none" /\ UNCHANGED consents
    BY <1>5 DEF Rule, LockInv
  <2>4. tokens'[a] \in {tokens[a], "none"}
    BY <2>1 DEF Spent, TypeOK
  <2>5. CASE ~Carries(b, Ruled(b, guard))
    <3>1. Passed(a)' \subseteq Passed(a)
      BY ONLY <2>1, <2>5, MovedPasses
    <3> QED
      BY <2>3, <2>4, <3>1, ConsentKept
  <2>6. CASE Carries(b, Ruled(b, guard))
    <3>1. Policy(b, guard) = "consent"
      BY <2>2, <2>6, PolicyRules DEF Carries, Ruled
    <3>2. tokens[ArgumentsOf(b)] # "none"
      BY <2>6, <3>1, ConsentedType DEF Carries, Ruled
    <3>3. CASE a = ArgumentsOf(b)
      <4>1. tokens'[a] = "none"
        BY <2>1, <3>1, <3>3 DEF Spent, TypeOK
      <4>2. Passed(a)' \subseteq Passed(a) \cup {c}
        BY <2>1 DEF Moved, Passed, LetThrough, Unchecked, ArgumentsOf, HardBlocked, Found
      <4>3. IsFiniteSet(Passed(a)) /\ Cardinality(Passed(a)) \in Nat
        BY PassedType
      <4>4. /\ IsFiniteSet(Passed(a) \cup {c})
            /\ Cardinality(Passed(a) \cup {c}) <= Cardinality(Passed(a)) + 1
        BY <4>3, FS_AddElement
      <4>5. /\ IsFiniteSet(Passed(a)')
            /\ Cardinality(Passed(a)') <= Cardinality(Passed(a) \cup {c})
        BY <4>2, <4>4, FS_Subset
      <4>6. /\ Cardinality(Passed(a)') \in Nat
            /\ Cardinality(Passed(a) \cup {c}) \in Nat
        BY <4>4, <4>5, FS_CardinalityType
      <4>7. Cardinality(Passed(a)) + 1 <= consents[a] /\ consents[a] \in Nat
        BY <3>2, <3>3 DEF ConsentInv, TypeOK
      <4>8. Cardinality(Passed(a)') <= consents[a]
        BY <4>3, <4>4, <4>5, <4>6, <4>7
      <4> QED
        BY <2>3, <4>1, <4>6, <4>8
    <3>4. CASE a # ArgumentsOf(b)
      <4>1. Passed(a)' \subseteq Passed(a)
        BY <2>1, <3>4 DEF Moved, Passed, LetThrough, Unchecked, ArgumentsOf, HardBlocked, Found
      <4> QED
        BY <2>3, <2>4, <4>1, ConsentKept
    <3> QED
      BY <3>3, <3>4
  <2> QED
    BY <2>5, <2>6
<1>6. ASSUME NEW c \in Calls, Record(c) PROVE Holds(a)
  <2>1. Moved(c, "recording", call[c].ask, call[c].ruling, Tail(call[c].todo))
        /\ UNCHANGED <<tokens, consents>>
    BY <1>6, RecordMoves DEF Record, userVars
  <2> HIDE DEF Holds
  <2> QED
    BY <1>1, <2>1
<1>7. ASSUME NEW c \in Calls, Account(c) PROVE Holds(a)
  <2>1. Moved(c, "recording", call[c].ask, call[c].ruling, <<>>)
        /\ UNCHANGED <<tokens, consents>>
    BY <1>7, AccountMoves DEF Account, userVars
  <2> HIDE DEF Holds
  <2> QED
    BY <1>1, <2>1
<1>8. ASSUME NEW c \in Calls, GiveUp(c) PROVE Holds(a)
  <2>1. Moved(c, "done", call[c].ask, LastWord(call[c].ask), <<>>)
        /\ UNCHANGED <<tokens, consents>>
    BY <1>8, GiveUpMoves DEF GiveUp, userVars
  <2>2. ~Carries(call[c].ask, LastWord(call[c].ask))
    BY DEF Carries, LastWord
  <2> HIDE DEF Holds
  <2> QED
    BY <1>1, <2>1, <2>2
<1>9. ASSUME UNCHANGED <<tokens, consents, call>> PROVE Holds(a)
  <2>1. Passed(a)' = Passed(a)
    BY <1>9 DEF Passed, LetThrough, Unchecked, ArgumentsOf, HardBlocked, Found
  <2> QED
    BY <1>9, <2>1, ConsentKept
<1>10. ASSUME NEW b \in Arguments, NEW mode \in Modes, MintToken(b, mode) PROVE Holds(a)
  <2>1. Passed(a)' = Passed(a) /\ Cardinality(Passed(a)) \in Nat
    BY <1>10, PassedType DEF MintToken, Passed, LetThrough, Unchecked, ArgumentsOf, HardBlocked, Found
  <2>2. Cardinality(Passed(a)) + (IF tokens[a] # "none" THEN 1 ELSE 0) <= consents[a]
    BY DEF ConsentInv
  <2>3. consents'[a] = IF a = b /\ tokens[a] = "none" THEN consents[a] + 1 ELSE consents[a]
    BY <1>10 DEF MintToken, TypeOK
  <2>4. a # b => tokens'[a] = tokens[a]
    BY <1>10 DEF MintToken, TypeOK
  <2>5. consents[a] \in Nat
    BY DEF TypeOK
  <2>6. a = b => consents'[a] >= Cardinality(Passed(a)) + 1
    BY <2>1, <2>2, <2>3, <2>5
  <2>7. a # b => consents'[a] = consents[a]
    BY <2>3
  <2> DEFINE n == Cardinality(Passed(a))
  <2>8. n \in Nat /\ consents'[a] \in Nat
        /\ (a = b => consents'[a] >= n + 1)
        /\ (a # b => n + (IF tokens'[a] # "none" THEN 1 ELSE 0) <= consents'[a])
    BY <2>1, <2>2, <2>3, <2>4, <2>5, <2>6, <2>7
  <2> HIDE DEF n
  <2>9. n + (IF tokens'[a] # "none" THEN 1 ELSE 0) <= consents'[a]
    BY <2>8
  <2> QED
    BY <2>1, <2>9 DEF n
<1>11. ASSUME NEW b \in Arguments, TokenExpires(b) PROVE Holds(a)
  <2>1. Passed(a)' = Passed(a) /\ Cardinality(Passed(a)) \in Nat
    BY <1>11, PassedType DEF TokenExpires, Passed, LetThrough, Unchecked, ArgumentsOf, HardBlocked, Found
  <2>2. Cardinality(Passed(a)) + (IF tokens[a] # "none" THEN 1 ELSE 0) <= consents[a]
    BY DEF ConsentInv
  <2>3. consents[a] \in Nat
    BY DEF TypeOK
  <2>4. CASE a = b
    <3>1. tokens[a] # "none" /\ tokens'[a] = "none" /\ consents'[a] = consents[a] - 1
      BY <1>11, <2>4 DEF TokenExpires, TypeOK
    <3>2. Cardinality(Passed(a)) + 1 <= consents[a]
      BY <2>2, <3>1
    <3>3. Cardinality(Passed(a)) <= consents[a] - 1
      BY <2>1, <2>3, <3>2
    <3> QED
      BY <2>1, <3>1, <3>3
  <2>5. CASE a # b
    <3>1. tokens'[a] = tokens[a] /\ consents'[a] = consents[a]
      BY <1>11, <2>5 DEF TokenExpires, TypeOK
    <3> QED
      BY <2>1, <3>1, ConsentKept
  <2> QED
    BY <2>4, <2>5
<1>12. ASSUME DaemonDies PROVE Holds(a)
  <2>1. UNCHANGED <<tokens, consents>>
    BY <1>12 DEF DaemonDies, userVars
  <2>2. ASSUME NEW c \in Passed(a)' PROVE c \in Passed(a)
    <3>1. CASE InFlight(c)
      BY <1>12, <2>2, <3>1, DaemonDiesMoves DEF Passed, LetThrough, Unchecked, ArgumentsOf, Fallback
    <3>2. CASE ~InFlight(c)
      BY <1>12, <2>2, <3>2, DaemonDiesMoves DEF Passed, LetThrough, Unchecked, ArgumentsOf, HardBlocked, Found
    <3> QED
      BY <3>1, <3>2
  <2>3. Passed(a)' \subseteq Passed(a)
    BY <2>2
  <2> QED
    BY <2>1, <2>3, ConsentKept
<1>13. ASSUME SessionStep \/ DaemonStarts \/ \E r \in Rules : SavePolicy(r) PROVE Holds(a)
  BY <1>9, <1>13
     DEF SessionStep, SessionStarts, SessionResumes, OtherStarts, SessionEnds, EndFails,
         DaemonStarts, SavePolicy, userVars
<1> HIDE DEF Holds
<1> QED
  BY <1>2, <1>3, <1>4, <1>5, <1>6, <1>7, <1>8, <1>10, <1>11, <1>12, <1>13
     DEF Next, CallStep, UserStep, WriteFails, RewriteFails

\* As many calls passed as were consented to, at most.
LEMMA ConsentSuffices ==
  ASSUME TypeOK, ConsentInv
  PROVE  CredentialsNeedConsent
<1> SUFFICES ASSUME NEW a \in Arguments PROVE Cardinality(Passed(a)) <= consents[a]
  BY DEF CredentialsNeedConsent, Passed
<1>1. Cardinality(Passed(a)) \in Nat /\ consents[a] \in Nat
  BY PassedType DEF TypeOK
<1>2. Cardinality(Passed(a)) + (IF tokens[a] # "none" THEN 1 ELSE 0) <= consents[a]
  BY DEF ConsentInv
<1> QED
  BY <1>1, <1>2

-----------------------------------------------------------------------------
(* Saved rules *)

\* What is ruled on stands under the rules it was ruled by.
LEMMA RulesKept ==
  ASSUME SavedRulesHold,
         \A c \in Calls : call'[c].pc = "recording" =>
           /\ call[c].pc = "recording"
           /\ call'[c].ask = call[c].ask /\ call'[c].ruling = call[c].ruling
           /\ rules' = rules /\ engine'.came = engine.came
  PROVE  SavedRulesHold'
<1> SUFFICES ASSUME NEW c \in Calls, call'[c].pc = "recording", call'[c].ask.event = "out"
             PROVE  /\ FromBlocked(call[c].ask)' => call'[c].ruling = "deny"
                    /\ (Masked(call[c].ask) /\ ~HardBlocked(call[c].ask))' =>
                         call'[c].ruling # "allow"
  BY DEF SavedRulesHold
<1>1. /\ FromBlocked(call[c].ask)' <=> FromBlocked(call[c].ask)
      /\ Masked(call[c].ask)' <=> Masked(call[c].ask)
      /\ HardBlocked(call[c].ask)' <=> HardBlocked(call[c].ask)
  <2> DEFINE a == call[c].ask
  <2>1. a' = a /\ rules' = rules /\ engine'.came = engine.came
    OBVIOUS
  <2> HIDE DEF a
  <2>2. FromBlocked(a)' <=> FromBlocked(a)
    BY <2>1 DEF FromBlocked, Saved, Found
  <2>3. (Masked(a)' <=> Masked(a)) /\ (HardBlocked(a)' <=> HardBlocked(a))
    BY <2>1 DEF Masked, HardBlocked, Saved, Found
  <2> QED
    BY <2>2, <2>3 DEF a
<1> QED
  BY <1>1 DEF SavedRulesHold

\* Every step keeps the rulings that are being recorded true to the saved rules.
LEMMA RulesStep ==
  ASSUME TypeOK, LockInv, SavedRulesHold, Next
  PROVE  SavedRulesHold'
\* While a call records, nobody takes the lock.
<1>1. ASSUME MayLock, NEW c \in Calls, NEW pc \in Pcs \ {"recording"}, NEW ask, NEW ruling,
             NEW todo, Moved(c, pc, ask, ruling, todo)
      PROVE  SavedRulesHold'
  BY <1>1, LockIsFree, RulesKept DEF OnLock, Moved
<1>2. ASSUME MayLock, UNCHANGED call PROVE SavedRulesHold'
  BY <1>2, LockIsFree, RulesKept DEF OnLock
<1>3. ASSUME NEW c \in Calls, NEW pc, NEW todo,
             Moved(c, pc, call[c].ask, call[c].ruling, todo),
             pc = "recording" => call[c].pc = "recording",
             UNCHANGED rules, engine'.came = engine.came
      PROVE  SavedRulesHold'
  BY <1>3, RulesKept DEF Moved
<1>4. ASSUME NEW c \in Calls, Arrive(c) PROVE SavedRulesHold'
  <2>1. PICK a \in Asks[c] : Moved(c, "scanning", a, call[c].ruling, call[c].todo)
    BY <1>4, ArriveMoves
  <2> QED
    BY <1>1, <1>4, <2>1 DEF Arrive, Pcs
<1>5. ASSUME NEW c \in Calls, Unserved(c) PROVE SavedRulesHold'
  <2>1. PICK a \in Asks[c] : Moved(c, "done", a, Fallback(a), call[c].todo)
    BY <1>5, UnservedMoves
  <2>2. UNCHANGED <<rules, engine>>
    BY <1>5 DEF Unserved, userVars, daemonVars
  <2> QED
    BY <2>1, <2>2, RulesKept DEF Moved
<1>6. ASSUME NEW c \in Calls, Lock(c) PROVE SavedRulesHold'
  <2>1. Moved(c, "noting", call[c].ask, call[c].ruling, call[c].todo) /\ MayLock
    BY <1>6, GotoMoves DEF Lock, Pcs
  <2> QED
    BY <1>1, <2>1 DEF Pcs
<1>7. ASSUME NEW c \in Calls, NoteGap(c) PROVE SavedRulesHold'
  <2>1. Moved(c, "ruling", call[c].ask, call[c].ruling, call[c].todo)
    BY <1>7, GotoMoves DEF NoteGap, Pcs
  <2>2. UNCHANGED <<rules, engine>>
    BY <1>7 DEF NoteGap, userVars, daemonVars
  <2> QED
    BY <1>3, <2>1, <2>2
<1>8. ASSUME NEW c \in Calls, Rule(c) PROVE SavedRulesHold'
  <2> DEFINE a == call[c].ask
  <2>1. PICK guard \in BOOLEAN : /\ Moved(c, "recording", a, Ruled(a, guard), ToRecord(a))
                                 /\ Remembers(a)
    BY <1>8, RuleMoves
  <2>2. IsAsk(a)
    BY CallType
  <2>3. call[c].pc = "ruling" /\ UNCHANGED rules
    BY <1>8 DEF Rule
  <2>4. \A d \in Calls : call'[d].pc = "recording" => d = c
    BY <2>1, <2>3 DEF Moved, LockInv, OnLock
  <2>5. SUFFICES ASSUME a.event = "out"
                 PROVE  /\ FromBlocked(call[c].ask)' => call'[c].ruling = "deny"
                        /\ (Masked(call[c].ask) /\ ~HardBlocked(call[c].ask))' =>
                             call'[c].ruling # "allow"
    BY <2>1, <2>4 DEF SavedRulesHold, Moved
  <2>6. engine' = engine /\ call'[c].ask = a /\ call'[c].ruling = Ruled(a, guard)
    BY <2>1, <2>5 DEF Remembers, Moved
  <2>7. /\ FromBlocked(call[c].ask)' <=> FromBlocked(a)
        /\ Masked(call[c].ask)' <=> Masked(a)
        /\ HardBlocked(call[c].ask)' <=> HardBlocked(a)
    BY <2>3, <2>6 DEF FromBlocked, Masked, HardBlocked, Saved, Found
  <2>8. FromBlocked(a) => Ruled(a, guard) = "deny"
    BY <2>2, <2>5, PolicyRules DEF Ruled
  <2>9. (Masked(a) /\ ~HardBlocked(a)) => Ruled(a, guard) # "allow"
    BY <2>2, <2>5, PolicyRules DEF Ruled
  <2> QED
    BY <2>6, <2>7, <2>8, <2>9
<1>9. ASSUME NEW c \in Calls, Record(c) PROVE SavedRulesHold'
  <2>1. Moved(c, "recording", call[c].ask, call[c].ruling, Tail(call[c].todo))
    BY <1>9, RecordMoves
  <2>2. call[c].pc = "recording" /\ UNCHANGED <<rules, engine>>
    BY <1>9 DEF Record, userVars, daemonVars
  <2> QED
    BY <1>3, <2>1, <2>2
<1>10. ASSUME NEW c \in Calls, Account(c) PROVE SavedRulesHold'
  <2>1. Moved(c, "recording", call[c].ask, call[c].ruling, <<>>)
    BY <1>10, AccountMoves
  <2>2. call[c].pc = "recording" /\ UNCHANGED rules
    BY <1>10 DEF Account, userVars
  <2>3. engine'.came = engine.came
    BY <1>10 DEF Account, TypeOK, Engine
  <2> QED
    BY <1>3, <2>1, <2>2, <2>3
<1>11. ASSUME NEW c \in Calls, Answer(c) PROVE SavedRulesHold'
  <2>1. Moved(c, "done", call[c].ask, call[c].ruling, call[c].todo)
    BY <1>11, GotoMoves DEF Answer, Pcs
  <2>2. UNCHANGED <<rules, engine>>
    BY <1>11 DEF Answer, userVars, daemonVars
  <2> QED
    BY <1>3, <2>1, <2>2
<1>12. ASSUME NEW c \in Calls, GiveUp(c) PROVE SavedRulesHold'
  <2>1. Moved(c, "done", call[c].ask, LastWord(call[c].ask), <<>>)
    BY <1>12, GiveUpMoves
  <2>2. UNCHANGED <<rules, engine>>
    BY <1>12 DEF GiveUp, userVars, daemonVars
  <2> QED
    BY <2>1, <2>2, RulesKept DEF Moved
<1>13. ASSUME DaemonDies PROVE SavedRulesHold'
  <2>1. \A c \in Calls : call'[c].pc # "recording"
    BY <1>13, DaemonDiesMoves DEF InFlight
  <2> QED
    BY <2>1 DEF SavedRulesHold
<1>14. ASSUME UNCHANGED <<call, rules, engine>> PROVE SavedRulesHold'
  BY <1>14, RulesKept
<1>15. ASSUME UserStep \/ SessionStep PROVE SavedRulesHold'
  BY <1>2, <1>14, <1>15
     DEF UserStep, SavePolicy, MintToken, TokenExpires, SessionStep, SessionStarts,
         SessionResumes, OtherStarts, SessionEnds, EndFails, userVars, daemonVars
<1>16. ASSUME DaemonStarts PROVE SavedRulesHold'
  BY <1>14, <1>16 DEF DaemonStarts, userVars
<1> QED
  BY <1>4, <1>5, <1>6, <1>7, <1>8, <1>9, <1>10, <1>11, <1>12, <1>13, <1>15, <1>16
     DEF Next, CallStep, WriteFails, RewriteFails

-----------------------------------------------------------------------------
(* Marks *)

\* The index and the marks stay, or the index is emptied, and no call that is
\* marked has anything more to record.
LEMMA TargetsKept ==
  ASSUME TypeOK, TargetsInv, TargetsNameRecordedOnes, UNCHANGED targets,
         engine'.seen = engine.seen \/ engine'.seen = {},
         \A c \in Calls :
           (call[c].pc \in {"recording", "done"} /\ call[c].todo = <<>>) =>
             call'[c].pc \in {"recording", "done"} /\ call'[c].todo = <<>>
  PROVE  TargetsInv' /\ TargetsNameRecordedOnes'
<1>1. \A u \in targets : u.call \in Calls
  BY DEF TypeOK, Mark
<1>2. TargetsInv'
  BY <1>1 DEF TargetsInv
<1>3. TargetsNameRecordedOnes'
  BY DEF TargetsNameRecordedOnes
<1> QED
  BY <1>2, <1>3

\* A mark is written of a call that is on record nowhere yet, and names what
\* the index has, which is on record.
LEMMA AccountTargets ==
  ASSUME TypeOK, LockInv, TargetsInv, TargetsNameRecordedOnes, NEW c \in Calls, Account(c)
  PROVE  TargetsInv' /\ TargetsNameRecordedOnes'
<1>1. Moved(c, "recording", call[c].ask, call[c].ruling, <<>>)
  BY AccountMoves
<1>2. call[c].pc = "recording" /\ call[c].todo # <<>>
  BY DEF Account
<1>3. \A u \in targets : u.call \in Calls /\ u.call # c
  BY <1>2 DEF TypeOK, Mark, TargetsInv
<1>4. \A u \in targets : call'[u.call].pc \in {"recording", "done"} /\ call'[u.call].todo = <<>>
  BY <1>1, <1>3 DEF Moved, TargetsInv
<1>5. CASE UNCHANGED <<targets, engine>>
  <2>1. TargetsInv'
    BY <1>4, <1>5 DEF TargetsInv
  <2>2. TargetsNameRecordedOnes'
    BY <1>5 DEF TargetsNameRecordedOnes
  <2> QED
    BY <2>1, <2>2
<1>6. CASE Guarded(c) /\ engine.key
  <2> DEFINE mark == Proposal(c)
             path == call[c].ask.origin
  <2>1. PICK written \in BOOLEAN :
          /\ targets' = IF written THEN targets \cup {Proposal(c)} ELSE targets
          /\ engine' = [engine EXCEPT !.seen = Remembered(c, written)]
    BY <1>6 DEF Account
  <2>2. engine'.seen = Remembered(c, written)
    BY <2>1 DEF TypeOK, Engine
  <2>3. mark.call = c /\ mark.path = path
        /\ mark.same = {s.call : s \in {s \in engine.seen : s.path = path}}
    BY DEF Proposal
  <2>4. CASE ~written
    <3>1. UNCHANGED targets /\ engine'.seen = engine.seen
      BY <2>1, <2>2, <2>4 DEF Remembered
    <3>2. TargetsInv'
      BY <1>4, <3>1 DEF TargetsInv
    <3>3. TargetsNameRecordedOnes'
      BY <3>1 DEF TargetsNameRecordedOnes
    <3> QED
      BY <3>2, <3>3
  <2>5. CASE written
    <3> DEFINE new == [path |-> path, call |-> c]
    <3>1. targets' = targets \cup {mark}
      BY <2>1, <2>5
    <3>2. engine'.seen = IF mark.same # {} THEN engine.seen ELSE engine.seen \cup {new}
      BY <2>2, <2>5 DEF Remembered
    <3>3. new.path = path /\ new.call = c
      OBVIOUS
    <3> HIDE DEF mark, new
    <3>4. \A s \in engine'.seen : \E u \in targets' : u.call = s.call /\ u.path = s.path
                                                      /\ u.same = {}
      <4>1. \A s \in engine.seen : \E u \in targets : u.call = s.call /\ u.path = s.path
                                                     /\ u.same = {}
        BY DEF TargetsInv
      <4> QED
        BY <2>3, <3>1, <3>2, <3>3, <4>1
    <3>5. call'[c].pc = "recording" /\ call'[c].todo = <<>>
      BY <1>1 DEF Moved
    <3>6. TargetsInv'
      BY <1>4, <2>3, <3>1, <3>4, <3>5 DEF TargetsInv
    <3>7. \A d \in mark.same : \E u \in targets : u.call = d /\ u.path = path /\ u.same = {}
                                                 /\ u.call # c
      BY <1>3, <2>3 DEF TargetsInv
    <3>8. TargetsNameRecordedOnes'
      BY <2>3, <3>1, <3>7 DEF TargetsNameRecordedOnes
    <3> QED
      BY <3>6, <3>8
  <2> QED
    BY <2>4, <2>5
<1> QED
  BY <1>5, <1>6 DEF Account

\* Every step keeps the index and the marks on record.
LEMMA TargetsStep ==
  ASSUME TypeOK, salts \in Nat, LockInv, EngineInv, TargetsInv, TargetsNameRecordedOnes, Next
  PROVE  TargetsInv' /\ TargetsNameRecordedOnes'
<1> DEFINE OnRecord(c) == call[c].pc \in {"recording", "done"} /\ call[c].todo = <<>>
           Stays(c) == call'[c].pc \in {"recording", "done"} /\ call'[c].todo = <<>>
           SameIndex == engine'.seen = engine.seen \/ engine'.seen = {}
\* A call that has recorded all, at most, moves on.
<1>1. ASSUME NEW c \in Calls, NEW pc, NEW ask, NEW ruling, NEW todo,
             Moved(c, pc, ask, ruling, todo), UNCHANGED targets, SameIndex,
             OnRecord(c) => pc \in {"recording", "done"} /\ todo = <<>>
      PROVE  TargetsInv' /\ TargetsNameRecordedOnes'
  <2>1. \A d \in Calls : OnRecord(d) => Stays(d)
    BY <1>1 DEF Moved
  <2> QED
    BY <1>1, <2>1, TargetsKept
<1>2. ASSUME UNCHANGED <<targets, call>>, SameIndex
      PROVE  TargetsInv' /\ TargetsNameRecordedOnes'
  BY <1>2, TargetsKept
<1>3. Resolves => SameIndex
  BY ResolvesDoes
<1>4. NoEngine.seen = {}
  BY DEF NoEngine
<1>5. ASSUME NEW c \in Calls, Arrive(c) PROVE TargetsInv' /\ TargetsNameRecordedOnes'
  <2>1. PICK a \in Asks[c] : Moved(c, "scanning", a, call[c].ruling, call[c].todo)
    BY <1>5, ArriveMoves
  <2>2. SameIndex /\ ~OnRecord(c) /\ UNCHANGED targets
    BY <1>3, <1>5 DEF Arrive
  <2> HIDE DEF SameIndex, OnRecord
  <2> QED
    BY <1>1, <2>1, <2>2
<1>6. ASSUME NEW c \in Calls, Unserved(c) PROVE TargetsInv' /\ TargetsNameRecordedOnes'
  <2>1. PICK a \in Asks[c] : Moved(c, "done", a, Fallback(a), call[c].todo)
    BY <1>6, UnservedMoves
  <2>2. SameIndex /\ ~OnRecord(c) /\ UNCHANGED targets
    BY <1>6 DEF Unserved, daemonVars, ledgerVars
  <2> HIDE DEF SameIndex, OnRecord
  <2> QED
    BY <1>1, <2>1, <2>2
<1>7. ASSUME NEW c \in Calls, Lock(c) PROVE TargetsInv' /\ TargetsNameRecordedOnes'
  <2>1. Moved(c, "noting", call[c].ask, call[c].ruling, call[c].todo)
    BY <1>7, GotoMoves DEF Lock, Pcs
  <2>2. SameIndex /\ ~OnRecord(c) /\ UNCHANGED targets
    BY <1>3, <1>7 DEF Lock
  <2> HIDE DEF SameIndex, OnRecord
  <2> QED
    BY <1>1, <2>1, <2>2
<1>8. ASSUME NEW c \in Calls, NoteGap(c) PROVE TargetsInv' /\ TargetsNameRecordedOnes'
  <2>1. Moved(c, "ruling", call[c].ask, call[c].ruling, call[c].todo)
    BY <1>8, GotoMoves DEF NoteGap, Pcs
  <2>2. SameIndex /\ ~OnRecord(c) /\ UNCHANGED targets
    BY <1>8 DEF NoteGap, daemonVars
  <2> HIDE DEF SameIndex, OnRecord
  <2> QED
    BY <1>1, <2>1, <2>2
<1>9. ASSUME NEW c \in Calls, Rule(c) PROVE TargetsInv' /\ TargetsNameRecordedOnes'
  <2> DEFINE a == call[c].ask
  <2>1. PICK guard \in BOOLEAN : /\ Moved(c, "recording", a, Ruled(a, guard), ToRecord(a))
                                 /\ Remembers(a)
    BY <1>9, RuleMoves
  <2>2. engine'.seen = engine.seen
    BY <2>1 DEF Remembers, TypeOK, Engine
  <2>3. SameIndex /\ ~OnRecord(c) /\ UNCHANGED targets
    BY <1>9, <2>2 DEF Rule, ledgerVars
  <2> HIDE DEF SameIndex, OnRecord
  <2> QED
    BY <1>1, <2>1, <2>3
<1>10. ASSUME NEW c \in Calls, Record(c) PROVE TargetsInv' /\ TargetsNameRecordedOnes'
  <2>1. Moved(c, "recording", call[c].ask, call[c].ruling, Tail(call[c].todo))
    BY <1>10, RecordMoves
  <2>2. SameIndex /\ ~OnRecord(c) /\ UNCHANGED targets
    BY <1>10 DEF Record, daemonVars
  <2> HIDE DEF SameIndex, OnRecord
  <2> QED
    BY <1>1, <2>1, <2>2
<1>11. ASSUME NEW c \in Calls, Answer(c) PROVE TargetsInv' /\ TargetsNameRecordedOnes'
  <2>1. Moved(c, "done", call[c].ask, call[c].ruling, call[c].todo) /\ call[c].todo = <<>>
    BY <1>11, GotoMoves DEF Answer, Pcs
  <2>2. SameIndex /\ UNCHANGED targets
    BY <1>11 DEF Answer, daemonVars, ledgerVars
  <2> HIDE DEF SameIndex, OnRecord
  <2> QED
    BY <1>1, <2>1, <2>2
<1>12. ASSUME NEW c \in Calls, GiveUp(c) PROVE TargetsInv' /\ TargetsNameRecordedOnes'
  <2>1. Moved(c, "done", call[c].ask, LastWord(call[c].ask), <<>>)
    BY <1>12, GiveUpMoves
  <2>2. SameIndex /\ UNCHANGED targets
    BY <1>12 DEF GiveUp, daemonVars, ledgerVars
  <2> HIDE DEF SameIndex, OnRecord
  <2> QED
    BY <1>1, <2>1, <2>2
<1>13. ASSUME SessionStarts PROVE TargetsInv' /\ TargetsNameRecordedOnes'
  <2>1. Registers(2, "session_start", TRUE) /\ UNCHANGED <<targets, call>>
    BY <1>13 DEF SessionStarts
  <2>2. SameIndex
    BY <2>1, RegistersDoes
  <2> QED
    BY <1>2, <2>1, <2>2
<1>14. ASSUME SessionResumes PROVE TargetsInv' /\ TargetsNameRecordedOnes'
  <2>1. Registers(session.version, "session_start", FALSE) /\ UNCHANGED <<targets, call>>
    BY <1>14 DEF SessionResumes
  <2>2. SameIndex
    BY <2>1, RegistersDoes
  <2> QED
    BY <1>2, <2>1, <2>2
<1>15. ASSUME OtherStarts \/ SessionEnds \/ EndFails \/ UserStep \/ DaemonStarts
       PROVE  TargetsInv' /\ TargetsNameRecordedOnes'
  <2>1. SameIndex /\ UNCHANGED <<targets, call>>
    BY <1>4, <1>15
       DEF OtherStarts, SessionEnds, EndFails, UserStep, SavePolicy, MintToken, TokenExpires,
           DaemonStarts, ledgerVars, daemonVars
  <2> QED
    BY <1>2, <2>1
<1>16. ASSUME DaemonDies PROVE TargetsInv' /\ TargetsNameRecordedOnes'
  <2>1. SameIndex /\ UNCHANGED targets
    BY <1>4, <1>16 DEF DaemonDies, ledgerVars
  <2>2. ASSUME NEW d \in Calls, OnRecord(d) PROVE Stays(d)
    <3>1. CASE InFlight(d)
      BY <1>16, <3>1, DaemonDiesMoves
    <3>2. CASE ~InFlight(d)
      BY <1>16, <2>2, <3>2, DaemonDiesMoves
    <3> QED
      BY <3>1, <3>2
  <2> QED
    BY <2>1, <2>2, TargetsKept
<1> QED
  BY <1>5, <1>6, <1>7, <1>8, <1>9, <1>10, <1>11, <1>12, <1>13, <1>14, <1>15, <1>16,
     AccountTargets
     DEF Next, CallStep, SessionStep, WriteFails, RewriteFails

-----------------------------------------------------------------------------
(* Who watched *)

\* A step that gives the session at most one observer more, the daemon that
\* serves, and changes nothing else of what coverage reads.
LEMMA WatchGrows ==
  ASSUME TypeOK, EngineInv, WatchInv, watch \subseteq watch', IsFiniteSet(watch'),
         UNCHANGED <<daemon, epochs, unseen>>,
         \A w \in watch' \ watch : w.by = daemon,
         session'.state = "open" => session.state # "ended",
         session'.state = "open" => watch' # {},
         (session'.state = "open" /\ engine' # NoEngine) => \E w \in watch' : w.by = daemon
  PROVE  WatchInv'
<1>1. daemon \in Nat /\ epochs \in Nat /\ daemon <= epochs
  BY SessionAssumption DEF TypeOK
<1>2. \A w \in watch' : w.by <= epochs
  BY <1>1 DEF WatchInv
<1>3. (session'.state = "open" /\ unseen # {}) => (daemon = 0 \/ \E w \in watch' : w.by # daemon)
  BY DEF WatchInv, EngineInv, TypeOK, Session
<1> QED
  BY <1>2, <1>3 DEF WatchInv

\* Whoever observed the session at first was daemon 0.
LEMMA WatchInit == Init => WatchInv
<1> SUFFICES ASSUME Init PROVE WatchInv
  OBVIOUS
<1> DEFINE first == [by |-> 0, reason |-> "session_start"]
<1>1. (session.state = "absent" /\ watch = {}) \/ watch = {first}
  BY DEF Init
<1>2. first.by = 0
  OBVIOUS
<1> HIDE DEF first
<1>3. IsFiniteSet(watch)
  BY <1>1, FS_EmptySet, FS_Singleton
<1>4. \A w \in watch : w.by = 0
  BY <1>1, <1>2
<1>5. session.state = "open" => watch # {}
  BY <1>1
<1> QED
  BY <1>3, <1>4, <1>5 DEF Init, WatchInv

\* Every step keeps the observers: a call that no daemon saw leaves one that is gone.
LEMMA WatchStep ==
  ASSUME TypeOK, TypeOK', salts \in Nat, LockInv, EngineInv, WatchInv, Next
  PROVE  WatchInv'
<1>1. ASSUME Resolves, UNCHANGED <<daemon, epochs, unseen>> PROVE WatchInv'
  <2>1. CASE UNCHANGED <<session, watch, salts, engine>>
    BY <1>1, <2>1 DEF WatchInv
  <2>2. CASE ~UNCHANGED <<session, watch, salts, engine>>
    <3>1. PICK version, reason : Registers(version, reason, FALSE) /\ session.state # "ended"
      BY <1>1, <2>2 DEF Resolves
    <3>2. /\ watch \subseteq watch' /\ \E w \in watch' : w.by = daemon
          /\ \A w \in watch' \ watch : w.by = daemon
          /\ IsFiniteSet(watch) => IsFiniteSet(watch')
      BY <3>1, RegistersDoes
    <3>3. IsFiniteSet(watch)
      BY DEF WatchInv
    <3> QED
      BY <1>1, <3>1, <3>2, <3>3, WatchGrows
  <2> QED
    BY <2>1, <2>2
<1>2. ASSUME NEW version, NEW keyed \in BOOLEAN, Registers(version, "session_start", keyed),
             UNCHANGED <<daemon, epochs, unseen>>, session.state # "ended"
      PROVE  WatchInv'
  <2>1. /\ watch \subseteq watch' /\ \E w \in watch' : w.by = daemon
        /\ \A w \in watch' \ watch : w.by = daemon
        /\ IsFiniteSet(watch) => IsFiniteSet(watch')
    BY <1>2, RegistersDoes
  <2>2. IsFiniteSet(watch)
    BY DEF WatchInv
  <2> QED
    BY <1>2, <2>1, <2>2, WatchGrows
<1>3. ASSUME UNCHANGED <<watch, daemon, epochs, unseen>>,
             session'.state = "open" => session.state = "open",
             engine' = engine \/ engine' = NoEngine \/ (engine # NoEngine /\ engine' # NoEngine)
      PROVE  WatchInv'
  BY <1>3 DEF WatchInv
<1>4. ASSUME NEW c \in Calls, Unserved(c) PROVE WatchInv'
  <2>1. daemon = 0 /\ UNCHANGED <<session, watch, engine, daemon, epochs>>
    BY <1>4 DEF Unserved, ledgerVars, daemonVars
  <2> QED
    BY <2>1 DEF WatchInv
<1>5. ASSUME NEW c \in Calls, Rule(c) PROVE WatchInv'
  <2>1. engine = NoEngine => engine' = NoEngine
    BY <1>5 DEF Rule, Remembers
  <2>2. UNCHANGED <<watch, daemon, epochs, unseen, session>>
    BY <1>5 DEF Rule, ledgerVars
  <2> QED
    BY <1>3, <2>1, <2>2
<1>6. ASSUME NEW c \in Calls, Record(c) PROVE WatchInv'
  <2>1. session'.state = session.state
    BY <1>6 DEF Record, TypeOK, Session
  <2> QED
    BY <1>3, <1>6, <2>1 DEF Record, daemonVars
<1>7. ASSUME NEW c \in Calls, Account(c) PROVE WatchInv'
  <2>1. engine = NoEngine => engine' = NoEngine
    BY <1>7 DEF Account, NoEngine
  <2>2. UNCHANGED <<watch, daemon, epochs, unseen, session>>
    BY <1>7 DEF Account
  <2> QED
    BY <1>3, <2>1, <2>2
<1>8. ASSUME NEW c \in Calls, NoteGap(c) \/ Answer(c) \/ GiveUp(c) PROVE WatchInv'
  BY <1>3, <1>8 DEF NoteGap, Answer, GiveUp, ledgerVars, daemonVars
<1>9. ASSUME NEW c \in Calls, Arrive(c) \/ Lock(c) PROVE WatchInv'
  BY <1>1, <1>9 DEF Arrive, Lock
<1>10. ASSUME SessionStarts \/ SessionResumes PROVE WatchInv'
  <2>1. session.state # "ended" /\ UNCHANGED <<daemon, epochs, unseen>>
    BY <1>10 DEF SessionStarts, SessionResumes
  <2>2. CASE SessionStarts
    <3>1. Registers(2, "session_start", TRUE) /\ TRUE \in BOOLEAN
      BY <2>2 DEF SessionStarts
    <3> QED
      BY <1>2, <2>1, <3>1
  <2>3. CASE SessionResumes
    <3>1. Registers(session.version, "session_start", FALSE) /\ FALSE \in BOOLEAN
      BY <2>3 DEF SessionResumes
    <3> QED
      BY <1>2, <2>1, <3>1
  <2> QED
    BY <1>10, <2>2, <2>3
<1>11. ASSUME OtherStarts \/ EndFails \/ UserStep PROVE WatchInv'
  <2>1. UNCHANGED <<watch, daemon, epochs, unseen, session>>
        /\ (engine' = engine \/ engine' = NoEngine)
    BY <1>11 DEF OtherStarts, EndFails, UserStep, SavePolicy, MintToken, TokenExpires,
                 ledgerVars, daemonVars
  <2> QED
    BY <1>3, <2>1
<1>12. ASSUME SessionEnds PROVE WatchInv'
  <2>1. session'.state = "ended"
    BY <1>12 DEF SessionEnds, TypeOK, Session
  <2> QED
    BY <1>3, <1>12, <2>1 DEF SessionEnds
\* A daemon that starts has observed nothing, and whoever did is another.
<1>13. ASSUME DaemonStarts PROVE WatchInv'
  <2>1. daemon' = epochs + 1 /\ epochs' = epochs + 1 /\ epochs \in Nat /\ engine = NoEngine
        /\ UNCHANGED <<session, watch, unseen, engine>>
    BY <1>13, SessionAssumption DEF DaemonStarts, LockInv, TypeOK
  <2>2. \A w \in watch : w.by \in Nat /\ w.by <= epochs
    BY SessionAssumption DEF WatchInv, TypeOK, Watch
  <2>3. \A w \in watch : w.by <= epochs + 1 /\ w.by # epochs + 1
    BY <2>1, <2>2
  <2> QED
    BY <2>1, <2>3 DEF WatchInv
<1>14. ASSUME DaemonDies PROVE WatchInv'
  <2>1. daemon' = 0 /\ engine' = NoEngine /\ UNCHANGED <<session, watch, epochs>>
    BY <1>14 DEF DaemonDies, ledgerVars
  <2> QED
    BY <2>1 DEF WatchInv
<1> QED
  BY <1>4, <1>5, <1>6, <1>7, <1>8, <1>9, <1>10, <1>11, <1>12, <1>13, <1>14
     DEF Next, CallStep, SessionStep, WriteFails, RewriteFails

\* One observer that serves now is the only one there was.
LEMMA OnlyObserver ==
  ASSUME LockInv, WatchInv
  PROVE  VerifiedIsWatched
<1> SUFFICES ASSUME session.state = "open", engine # NoEngine, Verified, unseen # {}
             PROVE  FALSE
  BY DEF VerifiedIsWatched
<1>1. daemon # 0
  BY DEF LockInv
<1>2. PICK v \in watch : v.by = daemon
  BY DEF WatchInv
<1>3. PICK w \in watch : w.by # daemon
  BY <1>1 DEF WatchInv
<1>4. Cardinality(watch) = 1
  <2>1. Coverage.observers = 1
    BY DEF Verified
  <2>2. Coverage.observers = Cardinality(watch)
    BY DEF Coverage
  <2> QED
    BY <2>1, <2>2
<1>5. PICK x : watch = {x}
  BY <1>4, FS_Singleton DEF WatchInv
<1> QED
  BY <1>2, <1>3, <1>5

-----------------------------------------------------------------------------
(* After the end *)

\* An ended session stays ended, and its score is not changed.
LEMMA EndedStep ==
  ASSUME TypeOK, salts \in Nat, LockInv, EngineInv, RowsInv, Next, session.state = "ended"
  PROVE  session'.state = "ended" /\ session'.score = session.score
<1>1. ASSUME Resolves PROVE session'.state = "ended" /\ session'.score = session.score
  <2>1. UNCHANGED session
    BY <1>1 DEF Resolves
  <2> QED
    BY <2>1
<1>2. ASSUME NEW c \in Calls, Record(c)
      PROVE  session'.state = "ended" /\ session'.score = session.score
  <2>1. CASE UNCHANGED session
    BY <2>1
  <2>2. CASE session' = [session EXCEPT !.score = @ + NewRow(c).delta]
    <3>1. NewRow(c).delta = 0
      BY ChargeIsNat DEF NewRow
    <3> QED
      BY <2>2, <3>1 DEF TypeOK, Session
  <2> QED
    BY <1>2, <2>1, <2>2, RecordCases
<1>3. ASSUME NEW c \in Calls, CallStep(c), ~Record(c)
      PROVE  session'.state = "ended" /\ session'.score = session.score
  <2>1. Resolves \/ UNCHANGED session
    BY <1>3 DEF CallStep, Arrive, Unserved, Lock, NoteGap, Rule, Account, Answer, WriteFails,
                RewriteFails, GiveUp, ledgerVars
  <2> QED
    BY <1>1, <2>1
<1>4. ASSUME SessionStep \/ UserStep \/ DaemonStarts \/ DaemonDies
      PROVE  session'.state = "ended" /\ session'.score = session.score
  <2>1. UNCHANGED session
    BY <1>4 DEF SessionStep, SessionStarts, SessionResumes, OtherStarts, SessionEnds, EndFails,
                UserStep, SavePolicy, MintToken, TokenExpires, DaemonStarts, DaemonDies,
                ledgerVars
  <2> QED
    BY <2>1
<1> QED
  BY <1>2, <1>3, <1>4 DEF Next

-----------------------------------------------------------------------------
(* The theorems *)

\* The inductive invariant holds at first.
LEMMA SessionInit == Init => SessionInv
<1>1. Init => SavedRulesHold /\ TargetsInv /\ TargetsNameRecordedOnes
  BY DEF Init, SavedRulesHold, TargetsInv, TargetsNameRecordedOnes, NoEngine
<1> QED
  BY <1>1, TypeInit, LockInit, RowsInit, ConsentInit, WatchInit DEF SessionInv

\* A step that changes nothing keeps it.
LEMMA SessionStutters ==
  ASSUME SessionInv, UNCHANGED vars
  PROVE  SessionInv'
<1> USE DEF SessionInv, vars, ledgerVars, userVars, daemonVars
<1>1. TypeOK' /\ salts' \in Nat
  BY DEF TypeOK
<1>2. LockInv' /\ EngineInv'
  BY DEF LockInv, EngineInv, OnLock, InFlight, Guarded
<1>3. RowsInv' /\ ScoreIsItsRows'
  <2>1. UNCHANGED LegacyTable
    BY DEF LegacyTable
  <2>2. RowsInv'
    BY <2>1 DEF RowsInv
  <2>3. Listed("exposed")' = Listed("exposed")
    BY <2>1 DEF Listed
  <2>4. ScoreIsItsRows'
    BY <2>3, ScoreSum
  <2> QED
    BY <2>2, <2>4
<1>4. ConsentInv'
  BY DEF ConsentInv, Passed, LetThrough, Unchecked, ArgumentsOf
<1>5. SavedRulesHold'
  BY RulesKept
<1>6. TargetsInv' /\ TargetsNameRecordedOnes'
  BY TargetsKept
<1>7. WatchInv'
  BY DEF WatchInv
<1> QED
  BY <1>1, <1>2, <1>3, <1>4, <1>5, <1>6, <1>7

\* Every step of the system keeps it.
LEMMA SessionSteps ==
  ASSUME SessionInv, Next
  PROVE  SessionInv'
<1> USE DEF SessionInv
<1>1. TypeOK' /\ salts' \in Nat
  BY TypeStep
<1>2. LockInv' /\ EngineInv'
  BY <1>1, LockStep
<1>3. RowsInv' /\ ScoreIsItsRows'
  BY RowsStep
<1>4. ConsentInv' /\ SavedRulesHold'
  BY ConsentStep, RulesStep
<1>5. TargetsInv' /\ TargetsNameRecordedOnes'
  BY TargetsStep
<1>6. WatchInv'
  BY <1>1, WatchStep
<1> QED
  BY <1>1, <1>2, <1>3, <1>4, <1>5, <1>6

\* The inductive invariant holds of every behaviour.
LEMMA SessionCorrect == Spec => []SessionInv
<1>1. SessionInv /\ [Next]_vars => SessionInv'
  BY SessionSteps, SessionStutters
<1> QED
  BY <1>1, SessionInit, PTL DEF Spec

\* The daemon's state and the ledger's rows keep their types, for any calls,
\* rules and daemons.
THEOREM SessionTypes == Spec => []TypeOK
<1>1. SessionInv => TypeOK
  BY DEF SessionInv
<1> QED
  BY <1>1, SessionCorrect, PTL

\* However many calls ask for the same arguments, and whatever is retried,
\* replaced, expired or lost with its daemon in between: of those a daemon
\* ruled on, and those the client recognises as outbound itself, no more pass
\* with a credential than the user consented to.  Of the others, the shell
\* commands without a URL that no daemon ruled on, nothing is said.
THEOREM ConsentsAreSpentOnce == Spec => []CredentialsNeedConsent
<1>1. SessionInv => CredentialsNeedConsent
  BY ConsentSuffices DEF SessionInv
<1> QED
  BY <1>1, SessionCorrect, PTL

\* A rule that is saved at any time before a call's ruling binds the ruling,
\* and what the ruling was made from cannot change until its answer goes out.
THEOREM RulesBindRulings == Spec => []SavedRulesHold
<1>1. SessionInv => SavedRulesHold
  BY DEF SessionInv
<1> QED
  BY <1>1, SessionCorrect, PTL

\* Over repeated findings, calls that fail half recorded, the erasure at the
\* session's end and the rebuild that renames the table, the stored score is
\* the sum of the rows it is shown with.
THEOREM ScoreStandsOnRows == Spec => []ScoreIsItsRows
<1>1. SessionInv => ScoreIsItsRows
  BY DEF SessionInv
<1> QED
  BY <1>1, SessionCorrect, PTL

\* A mark never names an event that is not on record as the first of its path,
\* although daemons come and go with their index and marks fail on their own.
THEOREM MarksAreOnRecord == Spec => []TargetsNameRecordedOnes
<1>1. SessionInv => TargetsNameRecordedOnes
  BY DEF SessionInv
<1> QED
  BY <1>1, SessionCorrect, PTL

\* A record that a serving daemon finds verified has one observer, which is
\* that daemon, and it was there for every call of the session.
THEOREM VerifiedMeansWatched == Spec => []VerifiedIsWatched
<1>1. SessionInv => VerifiedIsWatched
  BY OnlyObserver DEF SessionInv
<1> QED
  BY <1>1, SessionCorrect, PTL

\* Evidence that arrives after the end costs nothing and names nobody: the
\* ended session has no engine whose salt a row could take.
THEOREM EndedStaysSettled == Spec => LateEvidenceIsFree
<1> DEFINE Settled == session.state = "ended" =>
             /\ session'.score = session.score
             /\ \A t \in Tables : \A r \in rows'[t] : r.salt = 0
<1>1. ASSUME SessionInv, SessionInv', Next PROVE Settled
  <2> SUFFICES ASSUME session.state = "ended" PROVE Settled
    OBVIOUS
  <2>1. session'.state = "ended" /\ session'.score = session.score
    BY <1>1, EndedStep DEF SessionInv
  <2>2. \A t \in Tables : \A r \in rows'[t] : r.salt = 0
    BY <1>1, <2>1 DEF SessionInv, RowsInv
  <2> QED
    BY <2>1, <2>2
<1>2. SessionInv /\ SessionInv' /\ [Next]_vars => [Settled]_vars
  BY <1>1
<1> QED
  BY <1>2, SessionCorrect, PTL DEF Spec, LateEvidenceIsFree

=============================================================================
