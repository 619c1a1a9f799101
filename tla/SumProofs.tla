------------------------------ MODULE SumProofs ------------------------------
(***************************************************************************)
(* What SumFunction adds up to.  The sum of a function to the naturals is  *)
(* the number of its units, the pairs <<x, k>> with k < f[x]: this function *)
(* of the sets to be summed satisfies the recursion SumFunction is defined *)
(* by, and no other does, since the subsets of a finite set are well       *)
(* founded.  What is known about cardinalities then holds of sums.         *)
(***************************************************************************)
EXTENDS Integers, Sequences, Functions, FiniteSets, FiniteSetTheorems, WellFoundedInduction, TLAPS

-----------------------------------------------------------------------------
(* Induction over the subsets of a finite set: one that is a counterexample has a *)
(* smallest one below it, from which no element can be taken.                     *)

LEMMA SmallestBad ==
  ASSUME NEW S, IsFiniteSet(S), NEW Bad \in SUBSET (SUBSET S), Bad # {}
  PROVE  \E T \in Bad : \A x \in T : T \ {x} \notin Bad
<1>1. IsWellFoundedOn(StrictSubsetOrdering(S), SUBSET S)
  BY FS_StrictSubsetOrderingWellFounded, FS_FiniteSubsetsOfFinite
<1>2. PICK T \in Bad : \A U \in Bad : ~ (<<U, T>> \in StrictSubsetOrdering(S))
  BY <1>1, WFMin
<1>3. ASSUME NEW x \in T PROVE T \ {x} \notin Bad
  <2>1. T \in SUBSET S /\ T \ {x} \in SUBSET S /\ T \ {x} # T
    OBVIOUS
  <2>2. <<T \ {x}, T>> \in StrictSubsetOrdering(S)
    BY <2>1 DEF StrictSubsetOrdering
  <2> QED BY <1>2, <2>2
<1> QED
  BY <1>3

-----------------------------------------------------------------------------
(* Units *)

Units(f, T) == {u \in T \X Nat : u[2] < f[u[1]]}

LEMMA UnitsOfOne ==
  ASSUME NEW S, NEW f \in [S -> Nat], NEW x \in S
  PROVE  IsFiniteSet(Units(f, {x})) /\ Cardinality(Units(f, {x})) = f[x]
<1> DEFINE n == f[x]
<1>1. n \in Nat
  OBVIOUS
<1>2. IsFiniteSet(0 .. n - 1) /\ Cardinality(0 .. n - 1) = n
  BY <1>1, FS_Interval
<1>3. IsFiniteSet({x}) /\ Cardinality({x}) = 1
  BY FS_Singleton
<1>4. IsFiniteSet({x} \X (0 .. n - 1)) /\ Cardinality({x} \X (0 .. n - 1)) = 1 * n
  BY <1>2, <1>3, FS_Product
<1>5. Units(f, {x}) = {x} \X (0 .. n - 1)
  BY <1>1 DEF Units
<1>6. IsFiniteSet(Units(f, {x})) /\ Cardinality(Units(f, {x})) = 1 * n
  BY <1>4, <1>5, Zenon
<1>7. 1 * n = n
  BY <1>1
<1> QED
  BY <1>6, <1>7, Zenon

LEMMA UnitsOfMore ==
  ASSUME NEW S, NEW f \in [S -> Nat], NEW T \in SUBSET S, NEW x \in S \ T,
         IsFiniteSet(Units(f, T))
  PROVE  /\ IsFiniteSet(Units(f, T \cup {x}))
         /\ Cardinality(Units(f, T \cup {x})) = Cardinality(Units(f, T)) + f[x]
<1>1. Units(f, T \cup {x}) = Units(f, T) \cup Units(f, {x})
  BY DEF Units
<1>2. Units(f, T) \cap Units(f, {x}) = {}
  BY DEF Units
<1>3. IsFiniteSet(Units(f, {x})) /\ Cardinality(Units(f, {x})) = f[x]
  BY UnitsOfOne
<1>4. Cardinality({}) = 0
  BY FS_EmptySet
<1>5. Cardinality(Units(f, T)) \in Nat /\ f[x] \in Nat
  BY FS_CardinalityType
<1>6. /\ IsFiniteSet(Units(f, T) \cup Units(f, {x}))
      /\ Cardinality(Units(f, T) \cup Units(f, {x}))
           = Cardinality(Units(f, T)) + Cardinality(Units(f, {x}))
               - Cardinality(Units(f, T) \cap Units(f, {x}))
  BY <1>3, FS_Union
<1>7. IsFiniteSet(Units(f, T \cup {x}))
  BY <1>1, <1>6, Zenon
<1>8. Cardinality(Units(f, T \cup {x})) = Cardinality(Units(f, T)) + f[x] - 0
  BY <1>1, <1>2, <1>3, <1>4, <1>6, Zenon
<1> QED
  BY <1>5, <1>7, <1>8

LEMMA UnitsAreFinite ==
  ASSUME NEW S, IsFiniteSet(S), NEW f \in [S -> Nat], NEW T \in SUBSET S
  PROVE  IsFiniteSet(Units(f, T)) /\ Cardinality(Units(f, T)) \in Nat
<1> DEFINE Bad == {U \in SUBSET S : ~ IsFiniteSet(Units(f, U))}
<1>1. Bad = {}
  <2> SUFFICES ASSUME Bad # {} PROVE FALSE
    OBVIOUS
  <2>1. PICK U \in Bad : \A x \in U : U \ {x} \notin Bad
    BY SmallestBad
  <2>2. CASE U = {}
    <3>1. Units(f, U) = {}
      BY <2>2 DEF Units
    <3> QED BY <3>1, FS_EmptySet
  <2>3. CASE U # {}
    <3>1. PICK x \in U : TRUE
      BY <2>3
    <3>2. /\ U \ {x} \in SUBSET S /\ x \in S \ (U \ {x}) /\ (U \ {x}) \cup {x} = U
          /\ IsFiniteSet(Units(f, U \ {x}))
      BY <2>1, <3>1
    <3> QED BY <3>2, UnitsOfMore
  <2> QED BY <2>2, <2>3
<1> QED
  BY <1>1, FS_CardinalityType

-----------------------------------------------------------------------------
(* The recursion of SumFunction *)

Recursion(f, S, g) ==
  [T \in SUBSET S |-> IF T = {} THEN 0
                      ELSE f[CHOOSE x \in T : TRUE] + g[T \ {CHOOSE x \in T : TRUE}]]

LEMMA SumRecursion ==
  ASSUME NEW S, NEW f, DOMAIN f = S
  PROVE  SumFunction(f) = (CHOOSE g : g = Recursion(f, S, g))[S]
BY DEF SumFunction, SumFunctionOnSet, FoldFunctionOnSet, MapThenFoldSet, Recursion

\* The sum of a function is the number of its units.
THEOREM SumCountsUnits ==
  ASSUME NEW S, IsFiniteSet(S), NEW f \in [S -> Nat]
  PROVE  SumFunction(f) = Cardinality(Units(f, S))
<1> DEFINE h == [T \in SUBSET S |-> Cardinality(Units(f, T))]
<1>1. Units(f, {}) = {} /\ Cardinality({}) = 0
  BY FS_EmptySet DEF Units
<1>2. ASSUME NEW T \in SUBSET S, T # {}, NEW x \in T
      PROVE  h[T] = f[x] + h[T \ {x}]
  <2>1. T \ {x} \in SUBSET S /\ x \in S \ (T \ {x}) /\ (T \ {x}) \cup {x} = T
    BY <1>2
  <2>2. IsFiniteSet(Units(f, T \ {x})) /\ Cardinality(Units(f, T \ {x})) \in Nat
    BY <2>1, UnitsAreFinite
  <2>3. Cardinality(Units(f, T)) = Cardinality(Units(f, T \ {x})) + f[x]
    BY <2>1, <2>2, UnitsOfMore
  <2>4. f[x] \in Nat
    BY <2>1
  <2> QED
    BY <2>1, <2>2, <2>3, <2>4
<1>3. h = Recursion(f, S, h)
  <2>1. ASSUME NEW T \in SUBSET S PROVE h[T] = Recursion(f, S, h)[T]
    <3>1. CASE T = {}
      BY <1>1, <3>1 DEF Recursion
    <3>2. CASE T # {}
      <4>1. (CHOOSE x \in T : TRUE) \in T
        BY <3>2
      <4> QED
        BY <1>2, <3>2, <4>1 DEF Recursion
    <3> QED BY <3>1, <3>2
  <2> HIDE DEF h
  <2>2. h = [T \in SUBSET S |-> h[T]]
    BY DEF h
  <2> QED
    BY <2>1, <2>2 DEF Recursion
<1> DEFINE g == CHOOSE k : k = Recursion(f, S, k)
<1>4. g = Recursion(f, S, g)
  BY <1>3
<1>5. SumFunction(f) = g[S]
  BY SumRecursion
<1> HIDE DEF g
<1>6. h[S] = Cardinality(Units(f, S))
  OBVIOUS
<1> HIDE DEF h
<1> DEFINE Bad == {T \in SUBSET S : g[T] # h[T]}
<1>7. Bad = {}
  <2> SUFFICES ASSUME Bad # {} PROVE FALSE
    OBVIOUS
  <2>1. PICK T \in Bad : \A x \in T : T \ {x} \notin Bad
    BY SmallestBad
  <2>2. CASE T = {}
    BY <1>3, <1>4, <2>2 DEF Recursion
  <2>3. CASE T # {}
    <3> DEFINE x == CHOOSE y \in T : TRUE
    <3>1. x \in T
      BY <2>3
    <3>2. g[T] = f[x] + g[T \ {x}]
      BY <1>4, <2>3 DEF Recursion
    <3>3. h[T] = f[x] + h[T \ {x}]
      BY <1>2, <2>3, <3>1
    <3> HIDE DEF x
    <3>4. g[T \ {x}] = h[T \ {x}]
      BY <2>1, <3>1
    <3> QED BY <3>2, <3>3, <3>4
  <2> QED BY <2>2, <2>3
<1> QED
  BY <1>5, <1>6, <1>7

-----------------------------------------------------------------------------
(* Sums *)

LEMMA SumType ==
  ASSUME NEW S, IsFiniteSet(S), NEW f \in [S -> Nat]
  PROVE  SumFunction(f) \in Nat
BY SumCountsUnits, UnitsAreFinite

\* Zero everywhere.
LEMMA SumOfNothing ==
  ASSUME NEW S, IsFiniteSet(S), NEW f \in [S -> Nat], \A x \in S : f[x] = 0
  PROVE  SumFunction(f) = 0
<1>1. Units(f, S) = {}
  BY DEF Units
<1> QED
  BY <1>1, SumCountsUnits, FS_EmptySet

\* One summand set apart.
LEMMA SumSplits ==
  ASSUME NEW S, IsFiniteSet(S), NEW f \in [S -> Nat], NEW x \in S
  PROVE  /\ SumFunction(f) = Cardinality(Units(f, S \ {x})) + f[x]
         /\ Cardinality(Units(f, S \ {x})) \in Nat
<1> DEFINE U == S \ {x}
<1>1. U \in SUBSET S /\ x \in S \ U /\ U \cup {x} = S
  OBVIOUS
<1> HIDE DEF U
<1>2. IsFiniteSet(Units(f, U)) /\ Cardinality(Units(f, U)) \in Nat
  BY <1>1, UnitsAreFinite
<1>3. Cardinality(Units(f, U \cup {x})) = Cardinality(Units(f, U)) + f[x]
  BY <1>1, <1>2, UnitsOfMore
<1>4. SumFunction(f) = Cardinality(Units(f, U)) + f[x]
  BY <1>1, <1>3, SumCountsUnits, Zenon
<1> QED
  BY <1>2, <1>4 DEF U

LEMMA SummandBounded ==
  ASSUME NEW S, IsFiniteSet(S), NEW f \in [S -> Nat], NEW x \in S
  PROVE  f[x] <= SumFunction(f)
<1> DEFINE n == f[x]
           rest == Cardinality(Units(f, S \ {x}))
           sum == SumFunction(f)
<1>1. n \in Nat /\ rest \in Nat /\ sum = rest + n
  BY SumSplits
<1> HIDE DEF n, rest, sum
<1>2. n <= sum
  BY <1>1
<1> QED
  BY <1>2 DEF n, sum

\* Two functions that agree but for one argument.
LEMMA SumChangesOne ==
  ASSUME NEW S, IsFiniteSet(S), NEW f \in [S -> Nat], NEW g \in [S -> Nat], NEW x \in S,
         \A y \in S \ {x} : g[y] = f[y]
  PROVE  SumFunction(g) + f[x] = SumFunction(f) + g[x]
<1>1. Units(g, S \ {x}) = Units(f, S \ {x})
  BY DEF Units
<1>2. /\ SumFunction(g) = Cardinality(Units(g, S \ {x})) + g[x]
      /\ SumFunction(f) = Cardinality(Units(f, S \ {x})) + f[x]
      /\ Cardinality(Units(f, S \ {x})) \in Nat
  BY SumSplits
<1>3. f[x] \in Nat /\ g[x] \in Nat
  OBVIOUS
<1>4. SumFunction(g) = Cardinality(Units(f, S \ {x})) + g[x]
  BY <1>1, <1>2, Zenon
<1> QED
  BY <1>2, <1>3, <1>4

LEMMA SumExcept ==
  ASSUME NEW S, IsFiniteSet(S), NEW f \in [S -> Nat], NEW x \in S, NEW v \in Nat
  PROVE  SumFunction([f EXCEPT ![x] = v]) + f[x] = SumFunction(f) + v
<1> DEFINE g == [f EXCEPT ![x] = v]
<1>1. g \in [S -> Nat] /\ g[x] = v /\ \A y \in S \ {x} : g[y] = f[y]
  OBVIOUS
<1> HIDE DEF g
<1>2. SumFunction(g) + f[x] = SumFunction(f) + g[x]
  BY <1>1, SumChangesOne
<1> QED
  BY <1>1, <1>2 DEF g

\* Two functions that agree but for two arguments.
LEMMA SumChangesTwo ==
  ASSUME NEW S, IsFiniteSet(S), NEW f \in [S -> Nat], NEW g \in [S -> Nat],
         NEW x \in S, NEW z \in S \ {x}, \A y \in S \ {x, z} : g[y] = f[y]
  PROVE  SumFunction(g) + f[x] + f[z] = SumFunction(f) + g[x] + g[z]
<1> DEFINE h == [f EXCEPT ![x] = g[x]]
<1>1. h \in [S -> Nat] /\ h[x] = g[x] /\ h[z] = f[z]
  OBVIOUS
<1>2. \A y \in S \ {x} : h[y] = f[y]
  OBVIOUS
<1>3. \A y \in S \ {z} : g[y] = h[y]
  OBVIOUS
<1> HIDE DEF h
<1>4. SumFunction(h) + f[x] = SumFunction(f) + h[x]
  BY <1>1, <1>2, SumChangesOne
<1>5. SumFunction(g) + h[z] = SumFunction(h) + g[z]
  BY <1>1, <1>3, SumChangesOne
<1>6. /\ SumFunction(f) \in Nat /\ SumFunction(g) \in Nat /\ SumFunction(h) \in Nat
      /\ f[x] \in Nat /\ g[x] \in Nat /\ f[z] \in Nat /\ g[z] \in Nat
  BY <1>1, SumType
<1> QED
  BY <1>1, <1>4, <1>5, <1>6

\* A sum of sums.
LEMMA SumAdds ==
  ASSUME NEW S, IsFiniteSet(S), NEW f \in [S -> Nat], NEW g \in [S -> Nat],
         NEW h \in [S -> Nat], \A x \in S : h[x] = f[x] + g[x]
  PROVE  SumFunction(h) = SumFunction(f) + SumFunction(g)
<1> DEFINE N(k, T) == Cardinality(Units(k, T))
           Bad == {T \in SUBSET S : N(h, T) # N(f, T) + N(g, T)}
<1>1. Bad = {}
  <2> SUFFICES ASSUME Bad # {} PROVE FALSE
    OBVIOUS
  <2>1. PICK T \in Bad : \A x \in T : T \ {x} \notin Bad
    BY SmallestBad
  <2>2. CASE T = {}
    <3>1. Units(f, T) = {} /\ Units(g, T) = {} /\ Units(h, T) = {}
      BY <2>2 DEF Units
    <3>2. N(f, T) = 0 /\ N(g, T) = 0 /\ N(h, T) = 0
      BY <3>1, FS_EmptySet
    <3> QED BY <2>1, <3>2
  <2>3. CASE T # {}
    <3>1. PICK x \in T : TRUE
      BY <2>3
    <3> DEFINE U == T \ {x}
    <3>2. U \in SUBSET S /\ x \in S \ U /\ U \cup {x} = T /\ N(h, U) = N(f, U) + N(g, U)
      BY <2>1, <3>1
    <3>3. ASSUME NEW k \in [S -> Nat]
          PROVE  N(k, T) = N(k, U) + k[x] /\ N(k, U) \in Nat /\ k[x] \in Nat
      <4> HIDE DEF U
      <4>1. IsFiniteSet(Units(k, U)) /\ N(k, U) \in Nat
        BY <3>2, UnitsAreFinite
      <4>2. Cardinality(Units(k, U \cup {x})) = N(k, U) + k[x]
        BY <3>2, <4>1, UnitsOfMore
      <4>3. N(k, T) = N(k, U) + k[x]
        BY <3>2, <4>2, Zenon
      <4>4. k[x] \in Nat
        BY <3>2
      <4> QED BY <4>1, <4>3, <4>4
    <3>4. h[x] = f[x] + g[x]
      BY <3>2
    <3> HIDE DEF U, N
    <3>5. N(h, T) = N(f, T) + N(g, T)
      BY <3>2, <3>3, <3>4
    <3> QED BY <2>1, <3>5
  <2> QED BY <2>2, <2>3
<1>2. N(h, S) = N(f, S) + N(g, S)
  BY <1>1
<1> QED
  BY <1>2, SumCountsUnits

\* The same value on a part, and nothing elsewhere.
LEMMA SumOfEqual ==
  ASSUME NEW S, IsFiniteSet(S), NEW B \in SUBSET S, NEW c \in Nat, NEW f \in [S -> Nat],
         \A x \in S : f[x] = IF x \in B THEN c ELSE 0
  PROVE  SumFunction(f) = Cardinality(B) * c
<1>1. Units(f, S) = B \X (0 .. c - 1)
  BY DEF Units
<1>2. IsFiniteSet(0 .. c - 1) /\ Cardinality(0 .. c - 1) = c
  BY FS_Interval
<1>3. IsFiniteSet(B)
  BY FS_Subset
<1>4. Cardinality(B \X (0 .. c - 1)) = Cardinality(B) * c
  BY <1>2, <1>3, FS_Product
<1> QED
  BY <1>1, <1>4, SumCountsUnits

\* Some get as much more each, the others nothing.
LEMMA SumOfGains ==
  ASSUME NEW S, IsFiniteSet(S), NEW B \in SUBSET S, NEW c \in Nat, NEW f \in [S -> Nat],
         NEW h \in [S -> Nat], \A x \in S : h[x] = f[x] + IF x \in B THEN c ELSE 0
  PROVE  SumFunction(h) = SumFunction(f) + Cardinality(B) * c
<1> DEFINE more == [x \in S |-> IF x \in B THEN c ELSE 0]
<1>1. more \in [S -> Nat] /\ \A x \in S : more[x] = IF x \in B THEN c ELSE 0
  OBVIOUS
<1> HIDE DEF more
<1>2. SumFunction(more) = Cardinality(B) * c
  BY <1>1, SumOfEqual
<1>3. \A x \in S : h[x] = f[x] + more[x]
  BY <1>1
<1>4. SumFunction(h) = SumFunction(f) + SumFunction(more)
  BY <1>1, <1>3, SumAdds
<1> QED BY <1>2, <1>4
\* A part of a function has the same sum as the function that is nothing elsewhere: the
\* units are the same.
LEMMA SumOfPart ==
  ASSUME NEW S, IsFiniteSet(S), NEW f \in [S -> Nat], NEW B \in SUBSET S, NEW g \in [B -> Nat],
         \A x \in B : g[x] = f[x]
  PROVE  SumFunction(g) = Cardinality(Units(f, B)) /\ SumFunction(g) \in Nat
<1>1. IsFiniteSet(B)
  BY FS_Subset
<1>2. Units(g, B) = Units(f, B)
  BY DEF Units
<1> QED BY <1>1, <1>2, SumCountsUnits, SumType

\* Whoever has no more units has no greater sum.
LEMMA SumAtMost ==
  ASSUME NEW S, IsFiniteSet(S), NEW f \in [S -> Nat], NEW g \in [S -> Nat],
         \A x \in S : f[x] <= g[x]
  PROVE  SumFunction(f) <= SumFunction(g)
<1>1. Units(f, S) \subseteq Units(g, S)
  <2>1. ASSUME NEW x \in S, NEW n \in Nat, n < f[x] PROVE n < g[x]
    <3>1. f[x] \in Nat /\ g[x] \in Nat /\ f[x] <= g[x]
      OBVIOUS
    <3> QED BY <2>1, <3>1
  <2> QED BY <2>1 DEF Units
<1>2. IsFiniteSet(Units(g, S))
  BY UnitsAreFinite
<1>3. Cardinality(Units(f, S)) <= Cardinality(Units(g, S))
  BY <1>1, <1>2, FS_Subset
<1> QED BY <1>3, SumCountsUnits

\* Every summand so many times.
LEMMA SumScales ==
  ASSUME NEW S, IsFiniteSet(S), NEW c \in Nat, NEW f \in [S -> Nat], NEW g \in [S -> Nat],
         \A x \in S : g[x] = c * f[x]
  PROVE  SumFunction(g) = c * SumFunction(f)
<1> DEFINE N(k, T) == Cardinality(Units(k, T))
           Bad == {T \in SUBSET S : N(g, T) # c * N(f, T)}
<1>1. Bad = {}
  <2> SUFFICES ASSUME Bad # {} PROVE FALSE
    OBVIOUS
  <2>1. PICK T \in Bad : \A x \in T : T \ {x} \notin Bad
    BY SmallestBad
  <2>2. CASE T = {}
    <3>1. Units(f, T) = {} /\ Units(g, T) = {}
      BY <2>2 DEF Units
    <3>2. N(f, T) = 0 /\ N(g, T) = 0
      BY <3>1, FS_EmptySet
    <3>3. c * 0 = 0
      OBVIOUS
    <3> QED BY <2>1, <3>2, <3>3
  <2>3. CASE T # {}
    <3>1. PICK x \in T : TRUE
      BY <2>3
    <3> DEFINE U == T \ {x}
    <3>2. U \in SUBSET S /\ x \in S \ U /\ U \cup {x} = T /\ N(g, U) = c * N(f, U)
      BY <2>1, <3>1
    <3>3. ASSUME NEW k \in [S -> Nat]
          PROVE  N(k, T) = N(k, U) + k[x] /\ N(k, U) \in Nat /\ k[x] \in Nat
      <4> HIDE DEF U
      <4>1. IsFiniteSet(Units(k, U)) /\ N(k, U) \in Nat
        BY <3>2, UnitsAreFinite
      <4>2. Cardinality(Units(k, U \cup {x})) = N(k, U) + k[x]
        BY <3>2, <4>1, UnitsOfMore
      <4>3. N(k, T) = N(k, U) + k[x]
        BY <3>2, <4>2, Zenon
      <4>4. k[x] \in Nat
        BY <3>2
      <4> QED BY <4>1, <4>3, <4>4
    <3>4. g[x] = c * f[x]
      BY <3>2
    <3>5. \A a, b \in Nat : c * (a + b) = c * a + c * b
      OBVIOUS
    <3> HIDE DEF U, N
    <3>6. N(g, T) = c * N(f, T)
      <4>1. N(f, U) \in Nat /\ f[x] \in Nat /\ N(f, T) = N(f, U) + f[x]
        BY <3>3
      <4>2. N(g, T) = N(g, U) + g[x]
        BY <3>3
      <4>3. c * N(f, T) = c * N(f, U) + c * f[x]
        BY <3>5, <4>1
      <4> QED BY <3>2, <3>4, <4>2, <4>3
    <3> QED BY <2>1, <3>6
  <2> QED BY <2>2, <2>3
<1>2. N(g, S) = c * N(f, S)
  BY <1>1
<1> QED
  BY <1>2, SumCountsUnits

\* The sum over all is the sum over those who have a part of it.
LEMMA SumBySlices ==
  ASSUME NEW S, IsFiniteSet(S), NEW f \in [S -> Nat], NEW V, IsFiniteSet(V), NEW of,
         NEW h \in [V -> Nat],
         \A v \in V : h[v] = Cardinality(Units(f, {x \in S : of[x] = v})),
         \A x \in S : of[x] \in V
  PROVE  SumFunction(h) = SumFunction(f)
<1> DEFINE Part(T) == {x \in S : of[x] \in T}
           N(k, T) == Cardinality(Units(k, T))
           Bad == {T \in SUBSET V : N(h, T) # N(f, Part(T))}
<1>1. Bad = {}
  <2> SUFFICES ASSUME Bad # {} PROVE FALSE
    OBVIOUS
  <2>1. PICK T \in Bad : \A x \in T : T \ {x} \notin Bad
    BY SmallestBad
  <2>2. CASE T = {}
    <3>1. Units(h, T) = {} /\ Units(f, Part(T)) = {}
      BY <2>2 DEF Units
    <3> QED BY <2>1, <3>1
  <2>3. CASE T # {}
    <3>1. PICK v \in T : TRUE
      BY <2>3
    <3> DEFINE U == T \ {v}
               one == {x \in S : of[x] = v}
    <3>2. U \in SUBSET V /\ v \in V \ U /\ U \cup {v} = T /\ N(h, U) = N(f, Part(U))
      BY <2>1, <3>1
    <3>3. /\ Units(f, Part(T)) = Units(f, Part(U)) \cup Units(f, one)
          /\ Units(f, Part(U)) \cap Units(f, one) = {}
      BY <3>2 DEF Units
    <3>4. /\ IsFiniteSet(Units(f, Part(U))) /\ IsFiniteSet(Units(f, one))
          /\ N(f, Part(U)) \in Nat /\ N(f, one) \in Nat
      <4>1. Part(U) \in SUBSET S /\ one \in SUBSET S
        OBVIOUS
      <4> HIDE DEF Part, one
      <4> QED BY <4>1, UnitsAreFinite
    <3>5. N(f, Part(T)) = N(f, Part(U)) + N(f, one)
      <4> DEFINE P == Units(f, Part(U))
                 Q == Units(f, one)
      <4>1. IsFiniteSet(P) /\ IsFiniteSet(Q) /\ P \cap Q = {} /\ Cardinality(P) \in Nat /\ Cardinality(Q) \in Nat
        BY <3>3, <3>4
      <4>2. Cardinality(P \cup Q) = Cardinality(P) + Cardinality(Q)
        <5> HIDE DEF P, Q
        <5>1. Cardinality(P \cup Q) = Cardinality(P) + Cardinality(Q) - Cardinality(P \cap Q)
          BY <4>1, FS_Union
        <5>2. Cardinality(P \cap Q) = 0
          BY <4>1, FS_EmptySet
        <5> QED BY <4>1, <5>1, <5>2
      <4> QED BY <3>3, <4>2
    <3>6. N(h, T) = N(h, U) + h[v]
      <4> HIDE DEF U
      <4>1. IsFiniteSet(Units(h, U))
        BY <3>2, UnitsAreFinite
      <4>2. Cardinality(Units(h, U \cup {v})) = N(h, U) + h[v]
        BY <3>2, <4>1, UnitsOfMore
      <4> QED BY <3>2, <4>2, Zenon
    <3>7. h[v] = N(f, one)
      BY <3>2
    <3> HIDE DEF U, N, Part, one
    <3>8. N(h, T) = N(f, Part(T))
      BY <3>2, <3>5, <3>6, <3>7
    <3> QED BY <2>1, <3>8
  <2> QED BY <2>2, <2>3
<1>2. N(h, V) = N(f, Part(V)) /\ Part(V) = S
  BY <1>1
<1> QED
  BY <1>2, SumCountsUnits

\* Sets that do not meet have as many elements together as they have one by one.
LEMMA SumOfSets ==
  ASSUME NEW S, IsFiniteSet(S), NEW V, IsFiniteSet(V), NEW part \in [V -> SUBSET S],
         \A v, w \in V : v # w => part[v] \cap part[w] = {}, \A x \in S : \E v \in V : x \in part[v],
         NEW h, h = [v \in V |-> Cardinality(part[v])]
  PROVE  SumFunction(h) = Cardinality(S)
<1> DEFINE f  == [x \in S |-> 1]
           of == [x \in S |-> CHOOSE v \in V : x \in part[v]]
<1>1. f \in [S -> Nat] /\ \A x \in S : f[x] = 1
  OBVIOUS
<1>2. \A x \in S : of[x] \in V /\ x \in part[of[x]]
  OBVIOUS
<1> HIDE DEF f, of
<1>3. ASSUME NEW v \in V
      PROVE  /\ part[v] = {x \in S : of[x] = v} /\ Cardinality(part[v]) \in Nat
             /\ Cardinality(Units(f, part[v])) = Cardinality(part[v])
  <2> DEFINE p == part[v]
             k == [x \in p |-> 1]
  <2>1. p \in SUBSET S
    OBVIOUS
  <2>2. p = {x \in S : of[x] = v}
    BY <1>2, <2>1
  <2>3. IsFiniteSet(p)
    BY <2>1, FS_Subset
  <2>4. Cardinality(p) \in Nat
    BY <2>3, FS_CardinalityType
  <2>5. k \in [p -> Nat] /\ \A x \in p : k[x] = 1
    OBVIOUS
  <2> HIDE DEF p, k
  <2>6. \A x \in p : k[x] = f[x]
    BY <1>1, <2>1, <2>5
  <2>7. SumFunction(k) = Cardinality(Units(f, p))
    BY ONLY IsFiniteSet(S), <1>1, <2>1, <2>5, <2>6, SumOfPart
  <2>8. \A x \in p : k[x] = IF x \in p THEN 1 ELSE 0
    BY <2>5
  <2>9. SumFunction(k) = Cardinality(p) * 1
    <3> DEFINE one == 1
               all == p
    <3>1. one \in Nat /\ all \in SUBSET p /\ \A x \in p : k[x] = IF x \in all THEN one ELSE 0
      BY <2>8
    <3> HIDE DEF one, all
    <3>2. SumFunction(k) = Cardinality(all) * one
      BY ONLY <2>3, <2>5, <3>1, SumOfEqual
    <3> QED BY <3>2 DEF one, all
  <2>10. Cardinality(p) * 1 = Cardinality(p)
    BY <2>4
  <2> QED BY <2>2, <2>4, <2>7, <2>9, <2>10 DEF p
<1>4. h \in [V -> Nat] /\ \A v \in V : h[v] = Cardinality(part[v])
  BY <1>3
<1>5. \A v \in V : h[v] = Cardinality(Units(f, {x \in S : of[x] = v}))
  BY <1>3, <1>4
<1>6. SumFunction(h) = SumFunction(f)
  <2>1. \A x \in S : of[x] \in V
    BY <1>2
  <2> QED BY ONLY IsFiniteSet(S), IsFiniteSet(V), <1>1, <1>4, <1>5, <2>1, SumBySlices
<1>7. SumFunction(f) = Cardinality(S) * 1
  <2> DEFINE one == 1
             all == S
  <2>1. one \in Nat /\ all \in SUBSET S /\ \A x \in S : f[x] = IF x \in all THEN one ELSE 0
    BY <1>1
  <2> HIDE DEF one, all
  <2>2. SumFunction(f) = Cardinality(all) * one
    BY ONLY IsFiniteSet(S), <1>1, <2>1, SumOfEqual
  <2> QED BY <2>2 DEF one, all
<1>8. Cardinality(S) * 1 = Cardinality(S)
  <2>1. Cardinality(S) \in Nat
    BY FS_CardinalityType
  <2> QED BY <2>1
<1> QED BY <1>6, <1>7, <1>8

\* The summands of h are those of f under other names, but for ones that are zero.
Renamed(h, V, f, S, e) ==
  /\ IsFiniteSet(S) /\ IsFiniteSet(V) /\ f \in [S -> Nat] /\ h \in [V -> Nat] /\ e \in [V -> S]
  /\ \A v, w \in V : e[v] = e[w] => v = w
  /\ \A v \in V : h[v] = f[e[v]]
  /\ \A x \in S : f[x] = 0 \/ \E v \in V : e[v] = x

LEMMA SumRenamed ==
  ASSUME NEW S, NEW f, NEW V, NEW h, NEW e, Renamed(h, V, f, S, e)
  PROVE  SumFunction(h) = SumFunction(f)
<1> DEFINE A == Units(h, V)
           B == Units(f, S)
           to == [u \in A |-> <<e[u[1]], u[2]>>]
<1>0. /\ IsFiniteSet(S) /\ IsFiniteSet(V) /\ f \in [S -> Nat] /\ h \in [V -> Nat] /\ e \in [V -> S]
      /\ \A v, w \in V : e[v] = e[w] => v = w
      /\ \A v \in V : h[v] = f[e[v]]
      /\ \A x \in S : f[x] = 0 \/ \E v \in V : e[v] = x
  BY DEF Renamed
<1>1. IsFiniteSet(A) /\ SumFunction(h) = Cardinality(A) /\ SumFunction(f) = Cardinality(B)
  BY <1>0, UnitsAreFinite, SumCountsUnits
<1>2. \A u \in A : u = <<u[1], u[2]>> /\ u[1] \in V /\ u[2] \in Nat /\ u[2] < h[u[1]]
  BY DEF Units
<1>3. \A u \in B : u = <<u[1], u[2]>> /\ u[1] \in S /\ u[2] \in Nat /\ u[2] < f[u[1]]
  BY DEF Units
<1>4. \A v \in V, k \in Nat : k < h[v] => <<v, k>> \in A
  BY DEF Units
<1>5. \A x \in S, k \in Nat : k < f[x] => <<x, k>> \in B
  BY DEF Units
<1> HIDE DEF A, B
<1>6. to \in [A -> B]
  <2>1. ASSUME NEW u \in A PROVE <<e[u[1]], u[2]>> \in B
    BY <1>0, <1>2, <1>5
  <2> QED BY <2>1
<1>7. \A a, b \in A : to[a] = to[b] => a = b
  <2> SUFFICES ASSUME NEW a \in A, NEW b \in A, to[a] = to[b] PROVE a = b
    OBVIOUS
  <2>1. e[a[1]] = e[b[1]] /\ a[2] = b[2]
    OBVIOUS
  <2>2. a[1] = b[1]
    BY <1>0, <1>2, <2>1
  <2> QED BY <1>2, <2>1, <2>2
<1>8. \A b \in B : \E a \in A : to[a] = b
  <2> SUFFICES ASSUME NEW b \in B PROVE \E a \in A : to[a] = b
    OBVIOUS
  <2>1. b = <<b[1], b[2]>> /\ b[1] \in S /\ b[2] \in Nat /\ b[2] < f[b[1]]
    BY <1>3
  <2>2. f[b[1]] # 0
    BY <1>0, <2>1
  <2>3. PICK v \in V : e[v] = b[1]
    BY <1>0, <2>1, <2>2
  <2>4. <<v, b[2]>> \in A
    BY <1>0, <1>4, <2>1, <2>3
  <2>5. to[<<v, b[2]>>] = b
    BY <2>1, <2>3, <2>4
  <2> QED BY <2>4, <2>5
<1>9. ExistsBijection(A, B)
  <2> HIDE DEF to
  <2> QED BY <1>6, <1>7, <1>8 DEF ExistsBijection, Bijection, Injection, Surjection, IsInjective
<1> QED BY <1>1, <1>9, FS_Bijection

-----------------------------------------------------------------------------
(* The sum of a row *)

RowSum(w, r)    == SumFunction([i \in 1 .. Len(r) |-> w[r[i]]])
SumFrom(w, t, i) == SumFunction([j \in 1 .. Len(t) |-> IF j >= i THEN w[t[j]] ELSE 0])

LEMMA RowTypes == \A r \in Seq(Nat) : Len(r) \in Nat /\ \A i \in 1 .. Len(r) : r[i] \in Nat
OBVIOUS

LEMMA PlacesFinite == \A n \in Nat : IsFiniteSet(1 .. n)
<1> SUFFICES ASSUME NEW n \in Nat PROVE IsFiniteSet(1 .. n)
  OBVIOUS
<1> DEFINE one == 1
<1>1. one \in Int /\ n \in Int
  OBVIOUS
<1> HIDE DEF one
<1>2. IsFiniteSet(one .. n)
  BY ONLY <1>1, FS_Interval
<1> QED BY ONLY <1>2 DEF one

LEMMA InFront ==
  ASSUME NEW v \in Nat, NEW r \in Seq(Nat)
  PROVE  LET s == <<v>> \o r
         IN  /\ s \in Seq(Nat) /\ Len(s) = Len(r) + 1 /\ s[1] = v
             /\ \A k \in 2 .. Len(s) : s[k] = r[k - 1]
OBVIOUS

LEMMA RowSumInFront ==
  ASSUME NEW w \in [Nat -> Nat], NEW v \in Nat, NEW r \in Seq(Nat)
  PROVE  /\ RowSum(w, r) \in Nat
         /\ RowSum(w, <<v>> \o r) = w[v] + RowSum(w, r)
         /\ RowSum(w, <<>>) = 0
<1> DEFINE s == <<v>> \o r
           n == Len(r)
           f == [i \in 1 .. n + 1 |-> w[s[i]]]
           g == [i \in 1 .. n |-> w[r[i]]]
           R == 2 .. n + 1
           h == [i \in R |-> w[s[i]]]
           e == [i \in 1 .. n |-> i + 1]
           A == 1 .. n
           B == 1 .. n + 1
<1>1. n \in Nat /\ s \in Seq(Nat) /\ Len(s) = n + 1 /\ s[1] = v /\ \A k \in 2 .. n + 1 : s[k] = r[k - 1]
  BY InFront
<1>2. (\A i \in 1 .. n + 1 : s[i] \in Nat) /\ (\A i \in 1 .. n : r[i] \in Nat)
  <2> HIDE DEF s
  <2>1. s \in Seq(Nat) /\ Len(s) = n + 1
    BY <1>1
  <2>2. \A i \in 1 .. Len(s) : s[i] \in Nat
    BY ONLY <2>1, RowTypes
  <2>3. \A i \in 1 .. n : r[i] \in Nat
    BY RowTypes
  <2> HIDE DEF n
  <2> QED BY <2>1, <2>2, <2>3
<1> HIDE DEF s
<1>3. RowSum(w, s) = SumFunction(f) /\ RowSum(w, r) = SumFunction(g)
  BY <1>1 DEF RowSum
<1> HIDE DEF n
<1>4. f \in [1 .. n + 1 -> Nat] /\ g \in [1 .. n -> Nat] /\ h \in [R -> Nat]
  <2>1. \A i \in R : i \in 1 .. n + 1
    BY <1>1
  <2> QED BY <1>2, <2>1
<1>5. e \in [1 .. n -> R] /\ \A i, j \in 1 .. n : e[i] = e[j] => i = j
  BY <1>1
<1>6. \A i \in 1 .. n : g[i] = h[e[i]]
  <2>1. ASSUME NEW i \in 1 .. n PROVE w[r[i]] = w[s[i + 1]] /\ i + 1 \in R
    <3>1. i + 1 \in 2 .. n + 1 /\ (i + 1) - 1 = i
      BY <1>1
    <3>2. s[i + 1] = r[(i + 1) - 1]
      BY <1>1, <3>1
    <3> QED BY <3>1, <3>2
  <2> QED BY <2>1
<1>7. \A x \in R : \E i \in 1 .. n : e[i] = x
  <2>1. \A x \in R : x - 1 \in 1 .. n /\ (x - 1) + 1 = x
    BY <1>1
  <2> QED BY <2>1
<1>8. IsFiniteSet(1 .. n) /\ IsFiniteSet(1 .. n + 1)
  BY <1>1, PlacesFinite
<1>9. R \in SUBSET (1 .. n + 1) /\ R = (1 .. n + 1) \ {1} /\ 1 \in 1 .. n + 1
  <2>1. n \in Nat
    BY <1>1
  <2> DEFINE one == 1
             two == 2
             top == n + 1
  <2>4. one \in Int /\ two \in Int /\ two = one + 1 /\ top \in Int
    BY <2>1
  <2> HIDE DEF one, two, top
  <2>5. two .. top \subseteq one .. top /\ one \notin two .. top
    BY ONLY <2>4
  <2>6. \A x \in one .. top : x # one => x \in two .. top
    BY ONLY <2>4
  <2>2. \A x : x \in 2 .. n + 1 <=> x \in 1 .. n + 1 /\ x # 1
    BY ONLY <2>5, <2>6 DEF one, two, top
  <2>3. 1 \in 1 .. n + 1
    BY ONLY <2>1
  <2> QED BY <2>2, <2>3
<1>10. IsFiniteSet(R)
  <2> HIDE DEF R
  <2> QED BY <1>8, <1>9, FS_Subset
<1>11. f[1] = w[v] /\ \A x \in R : h[x] = f[x]
  BY <1>1, <1>9
<1> HIDE DEF f, g, h, e, R
<1>12. SumFunction(g) = SumFunction(h)
  <2>1. Renamed(g, A, h, R, e)
    BY <1>4, <1>5, <1>6, <1>7, <1>8, <1>10 DEF Renamed
  <2> HIDE DEF A
  <2> QED BY <2>1, SumRenamed
<1>13. SumFunction(h) = Cardinality(Units(f, R)) /\ SumFunction(h) \in Nat
  <2>1. /\ IsFiniteSet(B) /\ f \in [B -> Nat] /\ R \in SUBSET B /\ h \in [R -> Nat]
        /\ \A x \in R : h[x] = f[x]
    BY <1>4, <1>8, <1>9, <1>11
  <2> HIDE DEF B
  <2> QED BY ONLY <2>1, SumOfPart
<1>14. SumFunction(f) = Cardinality(Units(f, R)) + f[1]
  <2> DEFINE one == 1
             S == 1 .. n + 1
  <2>1. one \in S /\ R = S \ {one} /\ f \in [S -> Nat] /\ IsFiniteSet(S)
    BY <1>4, <1>8, <1>9
  <2> HIDE DEF one, S
  <2>2. SumFunction(f) = Cardinality(Units(f, S \ {one})) + f[one]
    BY <2>1, SumSplits
  <2> QED BY <2>1, <2>2 DEF one
<1>15. RowSum(w, <<>>) = 0
  <2> DEFINE z == [i \in 1 .. 0 |-> w[<<>>[i]]]
             E == 1 .. 0
  <2>1. Len(<<>>) = 0
    OBVIOUS
  <2>2. RowSum(w, <<>>) = SumFunction(z)
    BY <2>1 DEF RowSum
  <2>3. E = {} /\ z \in [E -> Nat] /\ \A x \in E : z[x] = 0
    OBVIOUS
  <2>4. IsFiniteSet(E)
    BY <2>3, FS_EmptySet
  <2> HIDE DEF z, E
  <2> QED BY <2>2, <2>3, <2>4, SumOfNothing
<1>16. w[v] \in Nat
  OBVIOUS
<1>17. SumFunction(f) = w[v] + SumFunction(g)
  <2> DEFINE a == SumFunction(f)
             b == SumFunction(g)
             c == Cardinality(Units(f, R))
             d == w[v]
  <2>1. a = c + d /\ b = c /\ b \in Nat /\ d \in Nat
    BY <1>11, <1>12, <1>13, <1>14, <1>16
  <2> HIDE DEF a, b, c, d
  <2>2. a = d + b
    BY <2>1
  <2> QED BY <2>2 DEF a, b, d
<1>18. SumFunction(g) \in Nat
  BY <1>12, <1>13
<1> QED BY <1>3, <1>15, <1>17, <1>18 DEF s

\* The sum of the tiles of a row from i on.
LEMMA SumsFrom ==
  ASSUME NEW w \in [Nat -> Nat], NEW t \in Seq(Nat)
  PROVE  /\ \A i \in 1 .. Len(t) + 1 : SumFrom(w, t, i) \in Nat
         /\ \A i \in 1 .. Len(t) : SumFrom(w, t, i) = w[t[i]] + SumFrom(w, t, i + 1)
         /\ SumFrom(w, t, Len(t) + 1) = 0
         /\ SumFrom(w, t, 1) = RowSum(w, t)
<1> DEFINE n == Len(t)
           A == 1 .. n
           F(i) == [j \in 1 .. n |-> IF j >= i THEN w[t[j]] ELSE 0]
<1>1. n \in Nat /\ IsFiniteSet(1 .. n) /\ \A j \in 1 .. n : t[j] \in Nat
  <2>1. n \in Nat /\ \A j \in 1 .. n : t[j] \in Nat
    BY RowTypes
  <2> HIDE DEF n
  <2> QED BY <2>1, PlacesFinite
<1>2. \A i : F(i) \in [1 .. n -> Nat]
  BY <1>1
<1>3. \A i : SumFrom(w, t, i) = SumFunction(F(i))
  BY DEF SumFrom
<1>4. \A i : SumFunction(F(i)) \in Nat
  <2> HIDE DEF F, n
  <2> QED BY <1>1, <1>2, SumType
<1>5. ASSUME NEW i \in 1 .. n PROVE SumFunction(F(i)) = w[t[i]] + SumFunction(F(i + 1))
  <2>1. /\ F(i)[i] = w[t[i]] /\ F(i + 1)[i] = 0
        /\ \A j \in (1 .. n) \ {i} : F(i)[j] = F(i + 1)[j]
    <3>0. n \in Nat /\ i \in 1 .. n
      BY <1>1
    <3> HIDE DEF n
    <3>1. \A j \in 1 .. n : j # i => (j >= i <=> j >= i + 1)
      BY ONLY <3>0
    <3>2. i >= i /\ ~ (i >= i + 1)
      BY ONLY <3>0
    <3> QED BY <3>1, <3>2
  <2> DEFINE f == F(i)
             g == F(i + 1)
             x == w[t[i]]
             a == SumFunction(f)
             b == SumFunction(g)
  <2>2. f \in [1 .. n -> Nat] /\ g \in [1 .. n -> Nat] /\ f[i] = x /\ g[i] = 0
        /\ (\A j \in (1 .. n) \ {i} : f[j] = g[j]) /\ x \in Nat /\ a \in Nat /\ b \in Nat
    <3>1. t[i] \in Nat
      BY <1>1
    <3>2. x \in Nat
      BY <3>1
    <3> HIDE DEF F, n, x
    <3> QED BY <1>2, <1>4, <2>1, <3>2 DEF x
  <2> HIDE DEF f, g, x, F, n
  <2>3. a + g[i] = b + f[i]
    <3>1. /\ IsFiniteSet(A) /\ g \in [A -> Nat] /\ f \in [A -> Nat] /\ i \in A
          /\ \A j \in A \ {i} : f[j] = g[j]
      BY <1>1, <2>2
    <3> HIDE DEF A
    <3> QED BY ONLY <3>1, SumChangesOne DEF a, b
  <2> HIDE DEF a, b
  <2>4. a = x + b
    BY <2>2, <2>3
  <2> QED BY <2>4 DEF a, b, f, g, x
<1>6. SumFunction(F(n + 1)) = 0
  <2>1. \A j \in 1 .. n : F(n + 1)[j] = 0
    BY <1>1
  <2> HIDE DEF F, n
  <2> QED BY <1>1, <1>2, <2>1, SumOfNothing
<1>7. RowSum(w, t) = SumFunction(F(1))
  <2>1. F(1) = [j \in 1 .. n |-> w[t[j]]]
    BY <1>1
  <2> QED BY <2>1 DEF RowSum
<1> HIDE DEF F
<1> QED BY <1>1, <1>3, <1>4, <1>5, <1>6, <1>7
=============================================================================
