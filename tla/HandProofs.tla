------------------------------ MODULE HandProofs ------------------------------
(***************************************************************************)
(* That comparing all fives of seven cards finds what the rules make of    *)
(* the seven: PokerHands, for every seven cards of the deck.               *)
(***************************************************************************)
EXTENDS PokerHands, SumProofs

-----------------------------------------------------------------------------
(* Cards and their ranks *)

LEMMA DeckFinite == IsFiniteSet(Deck)
<1> DEFINE ranks == 2 .. 14
           card(p) == [rank |-> p[1], suit |-> p[2]]
           least   == 2
           most    == 14
<1>1. IsFiniteSet(ranks)
  <2>1. least \in Int /\ most \in Int
    OBVIOUS
  <2> HIDE DEF least, most
  <2>2. IsFiniteSet(least .. most)
    BY ONLY <2>1, FS_Interval
  <2> QED BY <2>2 DEF least, most
<1>2. IsFiniteSet(Suits)
  <2>1. IsFiniteSet({"hearts"}) /\ IsFiniteSet({"hearts", "diamonds"})
        /\ IsFiniteSet({"hearts", "diamonds", "clubs"})
    BY FS_Singleton, FS_AddElement
  <2> QED BY <2>1, FS_AddElement DEF Suits
<1>3. IsFiniteSet(ranks \X Suits)
  BY <1>1, <1>2, FS_Product
<1> DEFINE all == {card(p) : p \in ranks \X Suits}
<1>4. IsFiniteSet(all)
  <2> DEFINE f == [p \in ranks \X Suits |-> card(p)]
  <2>1. f \in Surjection(ranks \X Suits, all)
    BY DEF Surjection
  <2> QED BY <1>3, <2>1, FS_Surjection
<1>5. ASSUME NEW c \in Deck PROVE c \in all
  <2>1. c = card(<<c.rank, c.suit>>) /\ <<c.rank, c.suit>> \in ranks \X Suits
    BY DEF Deck
  <2> QED BY <2>1
<1> QED BY <1>4, <1>5, FS_Subset

LEMMA SuitsFour == IsFiniteSet(Suits) /\ Cardinality(Suits) = 4
<1>1. IsFiniteSet({"hearts"}) /\ Cardinality({"hearts"}) = 1
  BY FS_Singleton
<1>2. IsFiniteSet({"hearts", "diamonds"}) /\ Cardinality({"hearts", "diamonds"}) = 2
  BY <1>1, FS_AddElement
<1>3. IsFiniteSet({"hearts", "diamonds", "clubs"}) /\ Cardinality({"hearts", "diamonds", "clubs"}) = 3
  BY <1>2, FS_AddElement
<1> QED BY <1>3, FS_AddElement DEF Suits

\* Cards of a rank.
With(S, r) == {c \in S : c.rank = r}

LEMMA CardsFinite ==
  ASSUME NEW S \in SUBSET Deck
  PROVE  /\ IsFiniteSet(S) /\ Cardinality(S) \in Nat
         /\ IsFiniteSet(Ranks(S)) /\ Cardinality(Ranks(S)) \in Nat
         /\ Ranks(S) \subseteq 2 .. 14
<1>1. IsFiniteSet(S)
  BY DeckFinite, FS_Subset
<1>2. IsFiniteSet(Ranks(S))
  <2> DEFINE f == [c \in S |-> c.rank]
  <2>1. f \in Surjection(S, Ranks(S))
    BY DEF Surjection, Ranks
  <2> QED BY <1>1, <2>1, FS_Surjection
<1>3. Ranks(S) \subseteq 2 .. 14
  BY DEF Ranks, Deck
<1> QED BY <1>1, <1>2, <1>3, FS_CardinalityType

LEMMA CountTypes ==
  ASSUME NEW S \in SUBSET Deck, NEW r
  PROVE  /\ With(S, r) \subseteq S /\ IsFiniteSet(With(S, r)) /\ Count(S, r) = Cardinality(With(S, r))
         /\ Count(S, r) \in 0 .. 4
         /\ r \in Ranks(S) <=> Count(S, r) > 0
<1> DEFINE W == With(S, r)
<1>1. W \in SUBSET S /\ IsFiniteSet(W) /\ Count(S, r) = Cardinality(W)
  BY CardsFinite, FS_Subset DEF With, Count
<1>2. Cardinality(W) \in Nat
  BY <1>1, FS_CardinalityType
<1>3. Cardinality(W) <= 4
  <2> DEFINE f == [c \in W |-> c.suit]
  <2>1. f \in Injection(W, Suits)
    <3>1. f \in [W -> Suits]
      BY DEF With, Deck
    <3>2. ASSUME NEW c \in W, NEW d \in W, f[c] = f[d] PROVE c = d
      <4>1. c.rank = d.rank /\ c.suit = d.suit /\ c \in Deck /\ d \in Deck
        BY <3>2 DEF With
      <4> QED BY <4>1 DEF Deck
    <3> QED BY <3>1, <3>2 DEF Injection, IsInjective
  <2> QED BY <1>1, <1>2, <2>1, SuitsFour, FS_Injection
<1>4. r \in Ranks(S) <=> W # {}
  BY DEF Ranks, With
<1>5. W = {} <=> Cardinality(W) = 0
  BY <1>1, FS_EmptySet
<1> QED BY <1>1, <1>2, <1>3, <1>4, <1>5

LEMMA CountGrows ==
  ASSUME NEW C \in SUBSET Deck, NEW S \in SUBSET C, NEW r
  PROVE  Count(S, r) <= Count(C, r)
<1>1. With(S, r) \in SUBSET With(C, r)
  BY DEF With
<1>2. S \in SUBSET Deck
  OBVIOUS
<1> QED BY <1>1, <1>2, CountTypes, FS_Subset

\* Ranks that have n cards each, with these.
LEMMA CardsOfRanks ==
  ASSUME NEW S \in SUBSET Deck, NEW n \in Nat, NEW R \in SUBSET Ranks(S),
         \A r \in R : Count(S, r) = n
  PROVE  Cardinality({c \in S : c.rank \in R}) = n * Cardinality(R)
<1> DEFINE Of(Q) == {c \in S : c.rank \in Q}
           Bad == {Q \in SUBSET R : Cardinality(Of(Q)) # n * Cardinality(Q)}
<1>0. IsFiniteSet(R) /\ IsFiniteSet(S)
  BY CardsFinite, FS_Subset
<1>1. Bad = {}
  <2> SUFFICES ASSUME Bad # {} PROVE FALSE
    OBVIOUS
  <2>1. Bad \in SUBSET (SUBSET R)
    OBVIOUS
  <2>2. PICK Q \in Bad : \A x \in Q : Q \ {x} \notin Bad
    BY <1>0, <2>1, SmallestBad
  <2>3. Q \in SUBSET R /\ IsFiniteSet(Q)
    BY <1>0, FS_Subset
  <2>4. CASE Q = {}
    <3>1. Of(Q) = {} /\ Cardinality({}) = 0
      BY <2>4, FS_EmptySet
    <3>2. n * 0 = 0
      OBVIOUS
    <3> QED BY <2>4, <3>1, <3>2
  <2>5. ASSUME NEW x \in Q PROVE FALSE
    <3> DEFINE P == Q \ {x}
               k == Cardinality(P)
    <3>1. Cardinality(Of(P)) = n * k
      BY <2>2, <2>3
    <3>2. IsFiniteSet(P) /\ k \in Nat /\ Cardinality(Q) = k + 1
      <4>1. IsFiniteSet(P) /\ k \in Nat
        BY <2>3, FS_RemoveElement, FS_CardinalityType
      <4>2. Q = P \cup {x} /\ x \notin P
        OBVIOUS
      <4> QED BY <4>1, <4>2, FS_AddElement
    <3>3. Of(Q) = Of(P) \cup With(S, x) /\ Of(P) \cap With(S, x) = {}
      BY DEF With
    <3>4. IsFiniteSet(Of(P)) /\ Of(P) \in SUBSET S
      BY <1>0, FS_Subset
    <3>5. IsFiniteSet(With(S, x)) /\ Cardinality(With(S, x)) = n
      BY <2>3, CountTypes
    <3>6. Cardinality(Of(Q)) = n * k + n
      <4> HIDE DEF P, Of, k
      <4>1. Cardinality(Of(P)) + n - 0 = n * k + n
        BY <3>1, <3>2
      <4> QED BY <3>3, <3>4, <3>5, <4>1, FS_Union, FS_EmptySet
    <3>7. n * (k + 1) = n * k + n
      BY <3>2
    <3> QED BY <2>2, <3>2, <3>6, <3>7
  <2> QED BY <2>4, <2>5
<1> QED BY <1>1

-----------------------------------------------------------------------------
(* Ranks from above *)

Above(R, r)  == {q \in R : q > r}
RankSets     == {R \in SUBSET Nat : IsFiniteSet(R)}

LEMMA PlacesApart ==
  ASSUME NEW R \in RankSets
  PROVE  /\ Cardinality(R) \in Nat
         /\ \A r \in R : Cardinality(Above(R, r)) \in 0 .. Cardinality(R) - 1
         /\ \A r, s \in R : r < s => Cardinality(Above(R, s)) < Cardinality(Above(R, r))
<1>1. R \subseteq Nat /\ IsFiniteSet(R)
  BY DEF RankSets
<1>2. \A r \in R : IsFiniteSet(Above(R, r)) /\ Cardinality(Above(R, r)) \in Nat
  <2> TAKE r \in R
  <2>1. Above(R, r) \in SUBSET R
    BY DEF Above
  <2> QED BY <1>1, <2>1, FS_Subset, FS_CardinalityType
<1>3. ASSUME NEW A \in SUBSET R, NEW B \in SUBSET A, NEW s \in A, s \notin B
      PROVE  Cardinality(B) < Cardinality(A)
  <2>1. IsFiniteSet(A)
    BY <1>1, FS_Subset
  <2>2. B # A /\ IsFiniteSet(B) /\ Cardinality(B) <= Cardinality(A) /\ Cardinality(B) # Cardinality(A)
    BY <1>3, <2>1, FS_Subset
  <2>3. Cardinality(A) \in Nat /\ Cardinality(B) \in Nat
    BY <2>1, <2>2, FS_CardinalityType
  <2> QED BY <2>2, <2>3
<1>4. Cardinality(R) \in Nat
  BY <1>1, FS_CardinalityType
<1>5. ASSUME NEW r \in R PROVE Cardinality(Above(R, r)) < Cardinality(R)
  <2>1. Above(R, r) \in SUBSET R /\ r \notin Above(R, r)
    BY <1>1 DEF Above
  <2> QED BY <1>3, <2>1
<1>6. ASSUME NEW r \in R, NEW s \in R, r < s
      PROVE  Cardinality(Above(R, s)) < Cardinality(Above(R, r))
  <2> DEFINE A == Above(R, r)
             B == Above(R, s)
  <2>1. r \in Nat /\ s \in Nat
    BY <1>1
  <2>2. A \in SUBSET R /\ s \in A /\ s \notin B
    BY <1>6, <2>1 DEF Above
  <2>3. B \in SUBSET A
    <3>1. ASSUME NEW q \in R, q > s PROVE q > r
      <4>1. q \in Nat
        BY <1>1
      <4> QED BY <1>6, <2>1, <3>1, <4>1
    <3> QED BY <3>1 DEF Above
  <2> HIDE DEF A, B
  <2>4. Cardinality(B) < Cardinality(A)
    BY <1>3, <2>2, <2>3
  <2> QED BY <2>4 DEF A, B
<1> QED BY <1>2, <1>4, <1>5, <1>6

\* Every place is taken by one rank.
LEMMA PlacesTaken ==
  ASSUME NEW R \in RankSets
  PROVE  \A i \in 1 .. Cardinality(R) : \E r \in R : Cardinality(Above(R, r)) = i - 1
<1> DEFINE n == Cardinality(R)
           f == [r \in R |-> Cardinality(Above(R, r)) + 1]
<1>1. n \in Nat /\ IsFiniteSet(R) /\ R \subseteq Nat
  BY PlacesApart DEF RankSets
<1>2. IsFiniteSet(1 .. n) /\ Cardinality(1 .. n) = n
  <2> DEFINE one == 1
  <2>1. one \in Int /\ n \in Int
    BY <1>1
  <2> HIDE DEF one, n
  <2>2. IsFiniteSet(one .. n) /\ Cardinality(one .. n) = IF one > n THEN 0 ELSE n - one + 1
    BY ONLY <2>1, FS_Interval
  <2> QED BY <1>1, <2>2 DEF one
<1>3. f \in Injection(R, 1 .. n)
  <2>1. f \in [R -> 1 .. n]
    BY <1>1, PlacesApart
  <2>2. ASSUME NEW r \in R, NEW s \in R, f[r] = f[s] PROVE r = s
    <3>1. Cardinality(Above(R, r)) \in Nat /\ Cardinality(Above(R, s)) \in Nat
      BY <1>1, PlacesApart
    <3>2. Cardinality(Above(R, r)) = Cardinality(Above(R, s))
      BY <2>2, <3>1
    <3>3. ~ (r < s) /\ ~ (s < r)
      BY <3>1, <3>2, PlacesApart
    <3> QED BY <1>1, <3>3
  <2> QED BY <2>1, <2>2 DEF Injection, IsInjective
<1>4. f \in Surjection(R, 1 .. n)
  BY <1>2, <1>3, FS_Injection
<1>5. ASSUME NEW i \in 1 .. n PROVE \E r \in R : Cardinality(Above(R, r)) = i - 1
  <2>1. PICK r \in R : f[r] = i
    BY <1>4 DEF Surjection
  <2>2. Cardinality(Above(R, r)) \in Nat
    BY <1>1, PlacesApart
  <2> QED BY <1>1, <2>1, <2>2
<1> QED BY <1>5

LEMMA FallingIs ==
  ASSUME NEW R \in RankSets
  PROVE  /\ Falling(R) \in [1 .. Cardinality(R) -> R] /\ Falling(R) \in Seq(Nat)
         /\ Len(Falling(R)) = Cardinality(R) /\ Cardinality(R) \in Nat
         /\ \A i \in 1 .. Cardinality(R) : Cardinality(Above(R, Falling(R)[i])) = i - 1
         /\ \A i, j \in 1 .. Cardinality(R) : i < j => Falling(R)[i] > Falling(R)[j]
         /\ \A r \in R : \E i \in 1 .. Cardinality(R) : Falling(R)[i] = r
<1> DEFINE n == Cardinality(R)
           F == Falling(R)
<1>1. n \in Nat /\ IsFiniteSet(R) /\ R \subseteq Nat
  BY PlacesApart DEF RankSets
<1>2. F = [i \in 1 .. n |-> CHOOSE r \in R : Cardinality(Above(R, r)) = i - 1]
  BY DEF Falling, Above
<1> HIDE DEF F
<1>3. ASSUME NEW i \in 1 .. n PROVE F[i] \in R /\ Cardinality(Above(R, F[i])) = i - 1
  BY <1>2, PlacesTaken
<1>4. F \in [1 .. n -> R]
  BY <1>2, <1>3
<1>5. F \in Seq(Nat) /\ Len(F) = n
  <2>1. F \in [1 .. n -> Nat]
    BY <1>1, <1>4
  <2> HIDE DEF n
  <2> QED BY <1>1, <2>1
<1>6. ASSUME NEW i \in 1 .. n, NEW j \in 1 .. n, i < j PROVE F[i] > F[j]
  <2>1. F[i] \in R /\ F[j] \in R /\ F[i] \in Nat /\ F[j] \in Nat
    BY <1>1, <1>3
  <2>2. Cardinality(Above(R, F[i])) = i - 1 /\ Cardinality(Above(R, F[j])) = j - 1
    BY <1>3
  <2>3. F[i] # F[j]
    BY <1>1, <1>6, <2>2
  <2>4. ~ (F[i] < F[j])
    <3> SUFFICES ASSUME F[i] < F[j] PROVE FALSE
      OBVIOUS
    <3>1. Cardinality(Above(R, F[j])) < Cardinality(Above(R, F[i]))
      BY <2>1, PlacesApart
    <3> QED BY <1>1, <1>6, <2>2, <3>1
  <2> QED BY <2>1, <2>3, <2>4
<1>7. ASSUME NEW r \in R PROVE \E i \in 1 .. n : F[i] = r
  <2> DEFINE i == Cardinality(Above(R, r)) + 1
  <2>1. i \in 1 .. n
    BY <1>1, PlacesApart
  <2>2. Cardinality(Above(R, F[i])) = Cardinality(Above(R, r))
    <3>1. Cardinality(Above(R, r)) \in Nat
      BY <1>1, PlacesApart
    <3> QED BY <1>3, <2>1, <3>1
  <2>3. F[i] \in R /\ F[i] \in Nat /\ r \in Nat /\ Cardinality(Above(R, r)) \in Nat
    <3>1. Cardinality(Above(R, r)) \in Nat
      BY <1>1, PlacesApart
    <3>2. F[i] \in R
      BY <1>3, <2>1
    <3> QED BY <1>1, <3>1, <3>2
  <2>4. ~ (F[i] < r) /\ ~ (r < F[i])
    BY <2>2, <2>3, PlacesApart
  <2>5. F[i] = r
    BY <2>3, <2>4
  <2> QED BY <2>1, <2>5
<1> QED BY <1>1, <1>3, <1>4, <1>5, <1>6, <1>7 DEF F

LEMMA RankSubsets ==
  ASSUME NEW R \in RankSets, NEW Q \in SUBSET R
  PROVE  Q \in RankSets /\ Cardinality(Q) \in Nat /\ Cardinality(Q) <= Cardinality(R)
BY FS_Subset, FS_CardinalityType DEF RankSets

LEMMA MaxIsFirst ==
  ASSUME NEW R \in RankSets, R # {}
  PROVE  /\ Max(R) \in R /\ Max(R) = Falling(R)[1] /\ \A r \in R : r <= Max(R)
         /\ 1 \in 1 .. Cardinality(R)
<1> DEFINE n == Cardinality(R)
           F == Falling(R)
<1>1. n \in Nat /\ F \in [1 .. n -> R] /\ R \subseteq Nat
  BY FallingIs DEF RankSets
<1>2. \A r \in R : \E i \in 1 .. n : F[i] = r
  BY FallingIs
<1>3. \A i, j \in 1 .. n : i < j => F[i] > F[j]
  BY FallingIs
<1> HIDE DEF n, F
<1>4. 1 \in 1 .. n
  <2>1. PICK r \in R : TRUE
    OBVIOUS
  <2>2. PICK i \in 1 .. n : F[i] = r
    BY <1>2
  <2> QED BY <1>1, <2>2
<1>5. F[1] \in R
  BY <1>1, <1>4
<1>6. ASSUME NEW r \in R PROVE r <= F[1]
  <2>1. PICK i \in 1 .. n : F[i] = r
    BY <1>2
  <2>2. i = 1 \/ 1 < i
    BY <1>1
  <2>3. F[1] \in Nat /\ r \in Nat
    BY <1>1, <1>5
  <2> QED BY <1>3, <1>4, <2>1, <2>2, <2>3
<1> DEFINE top(x) == x \in R /\ \A y \in R : x >= y
<1>7. top(F[1])
  <2>1. \A r \in R : r \in Nat /\ F[1] \in Nat
    BY <1>1, <1>5
  <2> QED BY <1>5, <1>6, <2>1
<1>8. top(Max(R))
  BY <1>7 DEF Max
<1>9. Max(R) = F[1]
  <2>1. Max(R) >= F[1] /\ F[1] >= Max(R) /\ Max(R) \in Nat /\ F[1] \in Nat
    BY <1>1, <1>5, <1>7, <1>8
  <2> QED BY <2>1
<1> QED BY <1>4, <1>5, <1>6, <1>9 DEF F, n

\* What is left of some ranks is, place by place, at most as high.
LEMMA FallingBelow ==
  ASSUME NEW R \in RankSets, NEW Q \in SUBSET R
  PROVE  \A i \in 1 .. Cardinality(Q) : Falling(Q)[i] <= Falling(R)[i]
<1> SUFFICES ASSUME NEW i \in 1 .. Cardinality(Q), ~ (Falling(Q)[i] <= Falling(R)[i])
             PROVE  FALSE
  OBVIOUS
<1> DEFINE q == Falling(Q)[i]
           r == Falling(R)[i]
<1>1. /\ Q \in RankSets /\ Cardinality(Q) \in Nat /\ Cardinality(Q) <= Cardinality(R)
      /\ Cardinality(R) \in Nat
  BY RankSubsets, FallingIs
<1>2. i \in 1 .. Cardinality(R)
  BY <1>1
<1>3. q \in Q /\ Cardinality(Above(Q, q)) = i - 1
  BY <1>1, FallingIs
<1>4. r \in R /\ Cardinality(Above(R, r)) = i - 1
  BY <1>2, FallingIs
<1>5. q > r
  <2>1. q \in Nat /\ r \in Nat
    BY <1>3, <1>4 DEF RankSets
  <2> HIDE DEF q, r
  <2>2. ~ (q <= r)
    BY DEF q, r
  <2> QED BY <2>1, <2>2
<1>6. Above(Q, q) \cup {q} \in SUBSET Above(R, r)
  <2>1. \A p \in Q : p > q => p > r
    <3>1. \A p \in Q : p \in Nat /\ q \in Nat /\ r \in Nat
      BY <1>3, <1>4 DEF RankSets
    <3> HIDE DEF q, r
    <3> QED BY <1>5, <3>1
  <2> QED BY <1>3, <1>5, <2>1 DEF Above
<1>7. q \notin Above(Q, q) /\ IsFiniteSet(Above(Q, q)) /\ IsFiniteSet(Above(R, r))
  <2>1. q \in Nat /\ IsFiniteSet(R) /\ IsFiniteSet(Q)
    BY <1>1, <1>3 DEF RankSets
  <2>2. Above(Q, q) \in SUBSET Q /\ Above(R, r) \in SUBSET R
    BY DEF Above
  <2> QED BY <2>1, <2>2, FS_Subset DEF Above
<1>8. Cardinality(Above(Q, q) \cup {q}) = (i - 1) + 1
  BY <1>3, <1>7, FS_AddElement
<1>9. Cardinality(Above(Q, q) \cup {q}) <= i - 1
  BY <1>4, <1>6, <1>7, FS_Subset
<1> QED BY <1>1, <1>8, <1>9

\* The first n of some ranks are those of a part of them.
LEMMA FirstRanks ==
  ASSUME NEW R \in RankSets, NEW n \in Nat, n <= Cardinality(R)
  PROVE  \E T \in SUBSET R : /\ T \in RankSets /\ Cardinality(T) = n
                             /\ SubSeq(Falling(R), 1, n) = Falling(T)
<1> DEFINE F == Falling(R)
           m == Cardinality(R)
           T == {F[i] : i \in 1 .. n}
           f == [i \in 1 .. n |-> F[i]]
<1>1. m \in Nat /\ F \in [1 .. m -> R] /\ F \in Seq(Nat) /\ Len(F) = m /\ R \subseteq Nat
  BY FallingIs DEF RankSets
<1>2. \A i, j \in 1 .. m : i < j => F[i] > F[j]
  BY FallingIs
<1>3. T \in SUBSET R
  BY <1>1
<1>4. T \in RankSets
  BY <1>3, RankSubsets
<1>5. Cardinality(T) = n
  <2>1. f \in Surjection(1 .. n, T)
    BY DEF Surjection
  <2>2. f \in Injection(1 .. n, T)
    <3>1. ASSUME NEW i \in 1 .. n, NEW j \in 1 .. n, f[i] = f[j] PROVE i = j
      <4>1. i \in 1 .. m /\ j \in 1 .. m /\ F[i] = F[j]
        BY <1>1, <3>1
      <4>2. F[i] \in Nat /\ F[j] \in Nat
        BY <1>1, <4>1
      <4>3. ~ (i < j) /\ ~ (j < i)
        BY <1>2, <4>1, <4>2
      <4> QED BY <4>3
    <3>2. f \in [1 .. n -> T]
      OBVIOUS
    <3> QED BY <3>1, <3>2 DEF Injection, IsInjective
  <2>3. ExistsBijection(1 .. n, T)
    BY <2>1, <2>2 DEF ExistsBijection, Bijection
  <2> HIDE DEF T
  <2> QED BY <2>3, FS_CountingElements
<1>6. ASSUME NEW i \in 1 .. n PROVE Above(T, F[i]) = Above(R, F[i])
  <2>1. ASSUME NEW q \in R, q > F[i] PROVE q \in T
    <3>1. PICK j \in 1 .. m : F[j] = q
      BY FallingIs
    <3>2. i \in 1 .. m /\ F[i] \in Nat /\ F[j] \in Nat
      BY <1>1
    <3>3. ~ (i < j) /\ i # j
      BY <1>2, <2>1, <3>1, <3>2
    <3>4. j \in 1 .. n
      BY <3>3
    <3> QED BY <3>1, <3>4
  <2> QED BY <1>3, <2>1 DEF Above
<1>7. ASSUME NEW i \in 1 .. n PROVE Falling(T)[i] = F[i]
  <2>1. i \in 1 .. m
    BY <1>1
  <2>2. F[i] \in T /\ Cardinality(Above(T, F[i])) = i - 1
    BY <1>6, <2>1, FallingIs
  <2> HIDE DEF T, F
  <2>3. Falling(T)[i] \in T /\ Cardinality(Above(T, Falling(T)[i])) = i - 1
    BY <1>4, <1>5, FallingIs
  <2> DEFINE a == F[i]
             b == Falling(T)[i]
  <2>4. a \in T /\ b \in T /\ a \in Nat /\ b \in Nat
    BY <1>4, <2>2, <2>3 DEF RankSets
  <2>5. Cardinality(Above(T, a)) = Cardinality(Above(T, b)) /\ Cardinality(Above(T, a)) \in Nat
    BY <1>4, <2>2, <2>3, <2>4, PlacesApart
  <2> HIDE DEF a, b
  <2>6. ~ (a < b) /\ ~ (b < a)
    BY <1>4, <2>4, <2>5, PlacesApart
  <2>7. a = b
    BY <2>4, <2>6
  <2> QED BY <2>7 DEF a, b
<1>8. SubSeq(F, 1, n) = Falling(T)
  <2>1. SubSeq(F, 1, n) = [i \in 1 .. n |-> F[i]]
    BY <1>1
  <2>2. Falling(T) = [i \in 1 .. n |-> Falling(T)[i]]
    <3> HIDE DEF T, F
    <3> QED BY <1>4, <1>5, FallingIs
  <2> HIDE DEF T, F
  <2> QED BY <1>7, <2>1, <2>2
<1> QED BY <1>3, <1>4, <1>5, <1>8

LEMMA FallingFew ==
  /\ Falling({}) = <<>>
  /\ \A a \in Nat : {a} \in RankSets /\ Falling({a}) = <<a>>
  /\ \A a, b \in Nat : a > b => {a, b} \in RankSets /\ Falling({a, b}) = <<a, b>>
<1>1. Falling({}) = <<>>
  <2>1. Cardinality({}) = 0
    BY FS_EmptySet
  <2>2. \A f : f = [i \in 1 .. 0 |-> f[i]] => f = <<>>
    OBVIOUS
  <2> QED BY <2>1, <2>2 DEF Falling
<1>2. ASSUME NEW a \in Nat PROVE {a} \in RankSets /\ Falling({a}) = <<a>>
  <2> DEFINE R == {a}
  <2>1. R \in RankSets /\ Cardinality(R) = 1
    BY FS_Singleton DEF RankSets
  <2> DEFINE F == Falling(R)
  <2>2. F \in [1 .. 1 -> R]
    <3> HIDE DEF R
    <3>1. F \in [1 .. Cardinality(R) -> R]
      BY <2>1, FallingIs
    <3> QED BY <2>1, <3>1
  <2> HIDE DEF F
  <2>3. F = <<a>>
    BY <2>2
  <2> QED BY <2>1, <2>3 DEF F
<1>3. ASSUME NEW a \in Nat, NEW b \in Nat, a > b
      PROVE  {a, b} \in RankSets /\ Falling({a, b}) = <<a, b>>
  <2> DEFINE R == {a, b}
  <2>1. R \in RankSets /\ Cardinality(R) = 2
    <3>1. IsFiniteSet({a}) /\ Cardinality({a}) = 1 /\ b \notin {a} /\ R = {a} \cup {b}
      <4>1. a # b
        BY <1>3
      <4> QED BY <4>1, FS_Singleton
    <3>2. IsFiniteSet({a} \cup {b}) /\ Cardinality({a} \cup {b}) = 1 + 1
      BY <3>1, FS_AddElement
    <3> QED BY <3>1, <3>2 DEF RankSets
  <2> DEFINE F == Falling(R)
  <2>2. F \in [1 .. 2 -> R] /\ F[1] > F[2]
    <3> HIDE DEF R
    <3>1. F \in [1 .. Cardinality(R) -> R]
      BY <2>1, FallingIs
    <3>2. \A i, j \in 1 .. Cardinality(R) : i < j => F[i] > F[j]
      BY <2>1, FallingIs
    <3> HIDE DEF F
    <3>3. 1 \in 1 .. Cardinality(R) /\ 2 \in 1 .. Cardinality(R)
      BY <2>1
    <3> QED BY <2>1, <3>1, <3>2, <3>3
  <2> HIDE DEF F
  <2>3. F[1] = a /\ F[2] = b
    BY <1>3, <2>2
  <2>4. F = <<a, b>>
    BY <2>2, <2>3
  <2> QED BY <2>1, <2>4 DEF F
<1> QED BY <1>1, <1>2, <1>3

-----------------------------------------------------------------------------
(* Which of two sequences is above the other *)

LEMMA LeastExists ==
  ASSUME NEW D \in SUBSET Nat, D # {}
  PROVE  \E i \in D : \A j \in D : i <= j
<1>1. PICK i \in D : \A j \in D : ~ (<<j, i>> \in OpToRel(<, Nat))
  BY NatLessThanWellFounded, WFMin
<1>2. ASSUME NEW j \in D PROVE i <= j
  <2>1. ~ (j < i)
    BY <1>1 DEF OpToRel
  <2> QED BY <2>1
<1> QED BY <1>2

\* s is t, or above it where they first differ.
Higher(s, t) == \E i \in DOMAIN s : s[i] > t[i] /\ \A j \in 1 .. i - 1 : s[j] = t[j]
AtLeast(s, t) == s = t \/ Higher(s, t)

LEMMA PlaceByPlace ==
  ASSUME NEW s \in Seq(Nat), NEW t \in Seq(Nat), Len(s) = Len(t),
         \A i \in 1 .. Len(s) : t[i] <= s[i]
  PROVE  AtLeast(s, t)
<1> DEFINE n == Len(s)
           D == {i \in 1 .. n : s[i] # t[i]}
<1>1. n \in Nat /\ DOMAIN s = 1 .. n /\ DOMAIN t = 1 .. n
  OBVIOUS
<1>2. CASE D = {}
  <2>1. \A i \in 1 .. n : s[i] = t[i]
    BY <1>2
  <2>2. s = t
    <3>1. s \in [1 .. n -> Nat] /\ t \in [1 .. n -> Nat]
      OBVIOUS
    <3> HIDE DEF n
    <3>2. s = [i \in 1 .. n |-> s[i]] /\ t = [i \in 1 .. n |-> t[i]]
      BY ONLY <3>1
    <3>3. [i \in 1 .. n |-> s[i]] = [i \in 1 .. n |-> t[i]]
      BY ONLY <2>1
    <3> QED BY <3>2, <3>3
  <2> QED BY <2>2 DEF AtLeast
<1>3. CASE D # {}
  <2>1. D \in SUBSET Nat
    BY <1>1
  <2>2. PICK i \in D : \A j \in D : i <= j
    BY <1>3, <2>1, LeastExists
  <2>3. i \in 1 .. n /\ s[i] # t[i] /\ s[i] \in Nat /\ t[i] \in Nat /\ t[i] <= s[i]
    BY <1>1, <2>2
  <2>4. ASSUME NEW j \in 1 .. i - 1 PROVE s[j] = t[j]
    <3>1. j \in 1 .. n /\ ~ (i <= j)
      BY <1>1, <2>3
    <3>2. j \notin D
      BY <2>2, <3>1
    <3> QED BY <3>1, <3>2
  <2>5. s[i] > t[i]
    BY <2>3
  <2> QED BY <1>1, <2>3, <2>4, <2>5 DEF AtLeast, Higher
<1> QED BY <1>2, <1>3

LEMMA FirstDecides ==
  ASSUME NEW a \in Nat, NEW b \in Nat, NEW s \in Seq(Nat), NEW t \in Seq(Nat),
         Len(s) = Len(t), a > b \/ (a = b /\ AtLeast(s, t))
  PROVE  AtLeast(<<a>> \o s, <<b>> \o t)
<1> DEFINE x == <<a>> \o s
           y == <<b>> \o t
<1>1. /\ x \in Seq(Nat) /\ Len(x) = Len(s) + 1 /\ x[1] = a /\ \A k \in 2 .. Len(x) : x[k] = s[k - 1]
      /\ y \in Seq(Nat) /\ Len(y) = Len(t) + 1 /\ y[1] = b /\ \A k \in 2 .. Len(y) : y[k] = t[k - 1]
      /\ Len(s) \in Nat /\ Len(t) \in Nat
  BY InFront
<1>2. CASE a > b
  <2>1. 1 \in DOMAIN x /\ x[1] > y[1] /\ \A j \in 1 .. 1 - 1 : x[j] = y[j]
    <3> HIDE DEF x, y
    <3> QED BY <1>1, <1>2
  <2> QED BY <2>1 DEF AtLeast, Higher
<1>3. CASE a = b /\ s = t
  BY <1>3 DEF AtLeast
<1>4. CASE a = b /\ Higher(s, t)
  <2>1. PICK i \in DOMAIN s : s[i] > t[i] /\ \A j \in 1 .. i - 1 : s[j] = t[j]
    BY <1>4 DEF Higher
  <2>2. i \in 1 .. Len(s) /\ i + 1 \in DOMAIN x /\ i + 1 \in 2 .. Len(x)
    <3> DEFINE m == Len(s)
    <3>1. i \in 1 .. m /\ m \in Nat /\ Len(x) = m + 1 /\ DOMAIN x = 1 .. Len(x)
      <4>1. DOMAIN x = 1 .. Len(x) /\ i \in 1 .. m
        <5> HIDE DEF x
        <5> QED BY <1>1
      <4> HIDE DEF x
      <4> QED BY <1>1, <4>1
    <3> HIDE DEF m, x
    <3>2. i + 1 \in 1 .. m + 1 /\ i + 1 \in 2 .. m + 1
      BY ONLY <3>1
    <3> QED BY ONLY <3>1, <3>2 DEF m
  <2>3. x[i + 1] = s[i]
    <3> HIDE DEF x, y
    <3> QED BY <1>1, <2>2
  <2>4. i + 1 \in 2 .. Len(y) /\ Len(y) = Len(x)
    <3> HIDE DEF x, y
    <3> QED BY <1>1, <2>2
  <2>5. Higher(x, y)
    <3>1. y[i + 1] = t[i]
      <4> HIDE DEF x, y
      <4> QED BY <1>1, <2>2, <2>4
    <3>2. ASSUME NEW j \in 1 .. (i + 1) - 1 PROVE x[j] = y[j]
      <4>1. CASE j = 1
        <5> HIDE DEF x, y
        <5> QED BY <1>1, <1>4, <4>1
      <4>2. CASE j # 1
        <5>1. j \in 2 .. Len(x) /\ j \in 2 .. Len(y) /\ j - 1 \in 1 .. i - 1
          <6> DEFINE m == Len(x)
          <6>1. m \in Nat /\ i \in Nat /\ i + 1 <= m /\ j \in Nat /\ j <= i /\ j >= 2
            <7> HIDE DEF x, y
            <7> QED BY <1>1, <2>2, <2>4, <4>2
          <6>2. Len(y) = m
            BY <2>4
          <6> HIDE DEF m
          <6>3. j \in 2 .. m /\ j - 1 \in 1 .. i - 1
            BY <6>1
          <6> QED BY <6>2, <6>3 DEF m
        <5>2. x[j] = s[j - 1] /\ y[j] = t[j - 1]
          <6> HIDE DEF x, y
          <6> QED BY <1>1, <5>1
        <5>3. s[j - 1] = t[j - 1]
          BY <2>1, <5>1
        <5> HIDE DEF x, y
        <5> QED BY <5>2, <5>3
      <4> QED BY <4>1, <4>2
    <3> HIDE DEF x, y
    <3>3. x[i + 1] > y[i + 1]
      BY <2>1, <2>3, <3>1
    <3> QED BY <2>2, <3>2, <3>3 DEF Higher
  <2> QED BY <2>5 DEF AtLeast
<1> QED BY <1>2, <1>3, <1>4 DEF AtLeast

-----------------------------------------------------------------------------
(* Five cards: groups of equal ranks *)

\* The ranks of which there are n cards.
Of(S, n) == {r \in Ranks(S) : Count(S, r) = n}

LEMMA OfTypes ==
  ASSUME NEW S \in SUBSET Deck
  PROVE  /\ Ranks(S) \in RankSets
         /\ \A n : /\ Of(S, n) \in RankSets /\ Of(S, n) \subseteq Ranks(S)
                   /\ IsFiniteSet(Of(S, n)) /\ Cardinality(Of(S, n)) \in Nat
<1>1. Ranks(S) \in RankSets
  BY CardsFinite DEF RankSets
<1>2. \A n : Of(S, n) \in SUBSET Ranks(S)
  BY DEF Of
<1> QED BY <1>1, <1>2, RankSubsets DEF RankSets

LEMMA FourParts ==
  ASSUME NEW A, NEW B, NEW C, NEW D,
         IsFiniteSet(A), IsFiniteSet(B), IsFiniteSet(C), IsFiniteSet(D),
         A \cap B = {}, A \cap C = {}, A \cap D = {}, B \cap C = {}, B \cap D = {}, C \cap D = {}
  PROVE  Cardinality(A \cup B \cup C \cup D)
           = Cardinality(A) + Cardinality(B) + Cardinality(C) + Cardinality(D)
<1>1. ASSUME NEW X, NEW Y, IsFiniteSet(X), IsFiniteSet(Y), X \cap Y = {}
      PROVE  IsFiniteSet(X \cup Y) /\ Cardinality(X \cup Y) = Cardinality(X) + Cardinality(Y)
  <2>1. Cardinality({}) = 0
    BY FS_EmptySet
  <2>2. Cardinality(X) \in Nat /\ Cardinality(Y) \in Nat
    BY <1>1, FS_CardinalityType
  <2>3. /\ IsFiniteSet(X \cup Y)
        /\ Cardinality(X \cup Y) = Cardinality(X) + Cardinality(Y) - Cardinality(X \cap Y)
    BY <1>1, FS_Union
  <2>4. Cardinality(X \cap Y) = 0
    BY <1>1, <2>1
  <2> DEFINE x == Cardinality(X)
             y == Cardinality(Y)
             z == Cardinality(X \cap Y)
  <2>5. x + y - z = x + y
    <3>1. x \in Nat /\ y \in Nat /\ z = 0
      BY <2>2, <2>4
    <3> HIDE DEF x, y, z
    <3> QED BY <3>1
  <2> QED BY <2>3, <2>5
<1> DEFINE E == A \cup B
           F == E \cup C
<1>2. IsFiniteSet(E) /\ Cardinality(E) = Cardinality(A) + Cardinality(B)
  BY <1>1
<1>3. E \cap C = {} /\ F \cap D = {}
  OBVIOUS
<1>4. IsFiniteSet(F) /\ Cardinality(F) = Cardinality(E) + Cardinality(C)
  <2> HIDE DEF E
  <2> QED BY <1>1, <1>2, <1>3
<1>5. Cardinality(F \cup D) = Cardinality(F) + Cardinality(D)
  <2> HIDE DEF F
  <2> QED BY <1>1, <1>3, <1>4
<1> HIDE DEF E
<1>6. Cardinality(F \cup D) = Cardinality(A) + Cardinality(B) + Cardinality(C) + Cardinality(D)
  <2> HIDE DEF F
  <2> QED BY <1>2, <1>4, <1>5
<1> QED BY <1>6 DEF E

LEMMA GroupsAddUp ==
  ASSUME NEW S \in SUBSET Deck
  PROVE  LET n(i) == Cardinality(Of(S, i))
         IN  /\ Cardinality(S) = n(1) + 2 * n(2) + 3 * n(3) + 4 * n(4)
             /\ Cardinality(Ranks(S)) = n(1) + n(2) + n(3) + n(4)
             /\ Ranks(S) = Of(S, 1) \cup Of(S, 2) \cup Of(S, 3) \cup Of(S, 4)
<1> DEFINE n(i) == Cardinality(Of(S, i))
           In(i) == {c \in S : c.rank \in Of(S, i)}
<1>1. \A r \in Ranks(S) : Count(S, r) \in 1 .. 4
  BY CountTypes
<1>2. Ranks(S) = Of(S, 1) \cup Of(S, 2) \cup Of(S, 3) \cup Of(S, 4)
  BY <1>1 DEF Of
<1>3. S = In(1) \cup In(2) \cup In(3) \cup In(4)
  <2>1. \A c \in S : c.rank \in Ranks(S)
    BY DEF Ranks
  <2> QED BY <1>2, <2>1
<1>4. \A i, j \in Nat : i # j => Of(S, i) \cap Of(S, j) = {} /\ In(i) \cap In(j) = {}
  BY DEF Of
<1>5. ASSUME NEW i \in Nat PROVE Cardinality(In(i)) = i * n(i) /\ IsFiniteSet(In(i)) /\ n(i) \in Nat
  <2>1. Of(S, i) \in SUBSET Ranks(S) /\ \A r \in Of(S, i) : Count(S, r) = i
    BY DEF Of
  <2>2. In(i) \in SUBSET S /\ IsFiniteSet(S)
    BY CardsFinite
  <2> QED BY <2>1, <2>2, CardsOfRanks, OfTypes, FS_Subset
<1>6. Cardinality(Ranks(S)) = n(1) + n(2) + n(3) + n(4)
  <2>1. \A i : IsFiniteSet(Of(S, i))
    BY OfTypes
  <2>2. /\ Of(S, 1) \cap Of(S, 2) = {} /\ Of(S, 1) \cap Of(S, 3) = {} /\ Of(S, 1) \cap Of(S, 4) = {}
        /\ Of(S, 2) \cap Of(S, 3) = {} /\ Of(S, 2) \cap Of(S, 4) = {} /\ Of(S, 3) \cap Of(S, 4) = {}
    BY <1>4
  <2> QED BY <1>2, <2>1, <2>2, FourParts
<1>7. Cardinality(S) = Cardinality(In(1)) + Cardinality(In(2)) + Cardinality(In(3)) + Cardinality(In(4))
  <2>1. /\ IsFiniteSet(In(1)) /\ IsFiniteSet(In(2)) /\ IsFiniteSet(In(3)) /\ IsFiniteSet(In(4))
    BY <1>5
  <2>2. /\ In(1) \cap In(2) = {} /\ In(1) \cap In(3) = {} /\ In(1) \cap In(4) = {}
        /\ In(2) \cap In(3) = {} /\ In(2) \cap In(4) = {} /\ In(3) \cap In(4) = {}
    BY <1>4
  <2> HIDE DEF In
  <2> QED BY <1>3, <2>1, <2>2, FourParts
<1>8. /\ Cardinality(In(1)) = 1 * n(1) /\ Cardinality(In(2)) = 2 * n(2)
      /\ Cardinality(In(3)) = 3 * n(3) /\ Cardinality(In(4)) = 4 * n(4)
      /\ n(1) \in Nat /\ n(2) \in Nat /\ n(3) \in Nat /\ n(4) \in Nat
  BY <1>5
<1>9. Cardinality(S) = n(1) + 2 * n(2) + 3 * n(3) + 4 * n(4)
  <2> HIDE DEF n, In
  <2> QED BY <1>7, <1>8
<1> QED BY <1>2, <1>6, <1>9

\* How many ranks there are of four, three, two cards and one.
Sized(S, four, three, two, one) ==
  /\ Cardinality(Of(S, 4)) = four /\ Cardinality(Of(S, 3)) = three
  /\ Cardinality(Of(S, 2)) = two  /\ Cardinality(Of(S, 1)) = one

LEMMA FiveAreSized ==
  ASSUME NEW S \in SUBSET Deck, Cardinality(S) = 5
  PROVE  \/ Sized(S, 1, 0, 0, 1) \/ Sized(S, 0, 1, 1, 0) \/ Sized(S, 0, 1, 0, 2)
         \/ Sized(S, 0, 0, 2, 1) \/ Sized(S, 0, 0, 1, 3) \/ Sized(S, 0, 0, 0, 5)
<1> DEFINE a == Cardinality(Of(S, 1))
           b == Cardinality(Of(S, 2))
           c == Cardinality(Of(S, 3))
           d == Cardinality(Of(S, 4))
<1>1. a \in Nat /\ b \in Nat /\ c \in Nat /\ d \in Nat
  BY OfTypes
<1>2. a + 2 * b + 3 * c + 4 * d = 5
  BY GroupsAddUp
<1>3. \/ d = 1 /\ c = 0 /\ b = 0 /\ a = 1
      \/ d = 0 /\ c = 1 /\ b = 1 /\ a = 0
      \/ d = 0 /\ c = 1 /\ b = 0 /\ a = 2
      \/ d = 0 /\ c = 0 /\ b = 2 /\ a = 1
      \/ d = 0 /\ c = 0 /\ b = 1 /\ a = 3
      \/ d = 0 /\ c = 0 /\ b = 0 /\ a = 5
  <2> HIDE DEF a, b, c, d
  <2> QED BY <1>1, <1>2
<1> QED BY <1>3 DEF Sized

-----------------------------------------------------------------------------
(* What the rules look at, each hand by its number *)

At(C, n)     == {r \in Ranks(C) : Count(C, r) >= n}
Suited(C)    == {S \in {{c \in C : c.suit = s} : s \in {c.suit : c \in C}} : Cardinality(S) >= 5}
Flushes(C)   == UNION {StraightsTo(S) : S \in Suited(C)}
First(C)     == IF At(C, 2) = {} THEN 0
                ELSE IF At(C, 3) # {} THEN Max(At(C, 3)) ELSE Max(At(C, 2))
Second(C)    == Falling(At(C, 2) \ {First(C)})

Name(n) == <<"high_card", "one_pair", "two_pair", "three_of_a_kind", "straight", "flush",
             "full_house", "four_of_a_kind", "straight_flush">>[n]

\* Whether some cards are good for a hand.
Fits(C, n) ==
  /\ n = 9 => Flushes(C) # {}
  /\ n = 8 => At(C, 4) # {}
  /\ n = 7 => At(C, 3) # {} /\ Second(C) # <<>>
  /\ n = 6 => Suited(C) # {}
  /\ n = 5 => StraightsTo(C) # {}
  /\ n = 4 => At(C, 3) # {}
  /\ n = 3 => Second(C) # <<>>
  /\ n = 2 => First(C) # 0

Best(C, n) == n \in 1 .. 9 /\ Fits(C, n) /\ \A m \in 1 .. 9 : m > n => ~ Fits(C, m)

Tie(C, n) ==
  IF n = 9 THEN <<Max(Flushes(C))>>
  ELSE IF n = 8 THEN <<Max(At(C, 4))>> \o Kickers(C, {Max(At(C, 4))}, 1)
  ELSE IF n = 7 THEN <<First(C), Second(C)[1]>>
  ELSE IF n = 6 THEN Kickers(UNION Suited(C), {}, 5)
  ELSE IF n = 5 THEN <<Max(StraightsTo(C))>>
  ELSE IF n = 4 THEN <<First(C)>> \o Kickers(C, {First(C)}, 2)
  ELSE IF n = 3 THEN <<First(C), Second(C)[1]>> \o Kickers(C, {First(C), Second(C)[1]}, 1)
  ELSE IF n = 2 THEN <<First(C)>> \o Kickers(C, {First(C)}, 3)
  ELSE Kickers(C, {}, 5)

Worth(C, n) == [name |-> Name(n), tiebreaker |-> Tie(C, n)]

LEMMA RuleIs ==
  ASSUME NEW C
  PROVE  RuleHand(C) = IF Fits(C, 9) THEN Worth(C, 9) ELSE IF Fits(C, 8) THEN Worth(C, 8)
                       ELSE IF Fits(C, 7) THEN Worth(C, 7) ELSE IF Fits(C, 6) THEN Worth(C, 6)
                       ELSE IF Fits(C, 5) THEN Worth(C, 5) ELSE IF Fits(C, 4) THEN Worth(C, 4)
                       ELSE IF Fits(C, 3) THEN Worth(C, 3) ELSE IF Fits(C, 2) THEN Worth(C, 2)
                       ELSE Worth(C, 1)
<1>1. /\ Fits(C, 9) <=> Flushes(C) # {}
      /\ Fits(C, 8) <=> At(C, 4) # {}
      /\ Fits(C, 7) <=> At(C, 3) # {} /\ Second(C) # <<>>
      /\ Fits(C, 6) <=> Suited(C) # {}
      /\ Fits(C, 5) <=> StraightsTo(C) # {}
      /\ Fits(C, 4) <=> At(C, 3) # {}
      /\ Fits(C, 3) <=> Second(C) # <<>>
      /\ Fits(C, 2) <=> First(C) # 0
  BY DEF Fits
<1> DEFINE hand(name, tiebreaker) == [name |-> name, tiebreaker |-> tiebreaker]
<1>2. RuleHand(C) =
        IF Flushes(C) # {} THEN hand("straight_flush", <<Max(Flushes(C))>>)
        ELSE IF At(C, 4) # {}
        THEN hand("four_of_a_kind", <<Max(At(C, 4))>> \o Kickers(C, {Max(At(C, 4))}, 1))
        ELSE IF At(C, 3) # {} /\ Second(C) # <<>>
        THEN hand("full_house", <<First(C), Second(C)[1]>>)
        ELSE IF Suited(C) # {} THEN hand("flush", Kickers(UNION Suited(C), {}, 5))
        ELSE IF StraightsTo(C) # {} THEN hand("straight", <<Max(StraightsTo(C))>>)
        ELSE IF At(C, 3) # {}
        THEN hand("three_of_a_kind", <<First(C)>> \o Kickers(C, {First(C)}, 2))
        ELSE IF Second(C) # <<>>
        THEN hand("two_pair", <<First(C), Second(C)[1]>> \o Kickers(C, {First(C), Second(C)[1]}, 1))
        ELSE IF First(C) # 0 THEN hand("one_pair", <<First(C)>> \o Kickers(C, {First(C)}, 3))
        ELSE hand("high_card", Kickers(C, {}, 5))
  BY DEF RuleHand, Flushes, Suited, At, First, Second
<1>3. /\ Worth(C, 9) = hand("straight_flush", <<Max(Flushes(C))>>)
      /\ Worth(C, 8) = hand("four_of_a_kind", <<Max(At(C, 4))>> \o Kickers(C, {Max(At(C, 4))}, 1))
      /\ Worth(C, 7) = hand("full_house", <<First(C), Second(C)[1]>>)
      /\ Worth(C, 6) = hand("flush", Kickers(UNION Suited(C), {}, 5))
      /\ Worth(C, 5) = hand("straight", <<Max(StraightsTo(C))>>)
      /\ Worth(C, 4) = hand("three_of_a_kind", <<First(C)>> \o Kickers(C, {First(C)}, 2))
      /\ Worth(C, 3) = hand("two_pair", <<First(C), Second(C)[1]>>
                                          \o Kickers(C, {First(C), Second(C)[1]}, 1))
      /\ Worth(C, 2) = hand("one_pair", <<First(C)>> \o Kickers(C, {First(C)}, 3))
      /\ Worth(C, 1) = hand("high_card", Kickers(C, {}, 5))
  BY DEF Worth, Tie, Name
<1> QED BY <1>1, <1>2, <1>3

LEMMA BestIs ==
  ASSUME NEW C
  PROVE  /\ \E n \in 1 .. 9 : Best(C, n)
         /\ \A n : Best(C, n) => RuleHand(C) = Worth(C, n)
<1> DEFINE F(n) == Fits(C, n)
           W(n) == Worth(C, n)
<1>1. RuleHand(C) = IF F(9) THEN W(9) ELSE IF F(8) THEN W(8) ELSE IF F(7) THEN W(7)
                    ELSE IF F(6) THEN W(6) ELSE IF F(5) THEN W(5) ELSE IF F(4) THEN W(4)
                    ELSE IF F(3) THEN W(3) ELSE IF F(2) THEN W(2) ELSE W(1)
  BY RuleIs
<1>2. F(1)
  BY DEF Fits
<1>3. \A n : Best(C, n) <=> n \in 1 .. 9 /\ F(n) /\ \A m \in 1 .. 9 : m > n => ~ F(m)
  BY DEF Best
<1> HIDE DEF F, W
<1>4. \E n \in 1 .. 9 : Best(C, n)
  BY <1>2, <1>3
<1>5. ASSUME NEW n, Best(C, n) PROVE RuleHand(C) = W(n)
  <2>1. n \in 1 .. 9 /\ F(n) /\ \A m \in 1 .. 9 : m > n => ~ F(m)
    BY <1>3, <1>5
  <2> QED BY <1>1, <2>1
<1> QED BY <1>4, <1>5 DEF W

LEMMA AtTypes ==
  ASSUME NEW C \in SUBSET Deck
  PROVE  /\ \A n : At(C, n) \in RankSets /\ At(C, n) \subseteq Ranks(C)
         /\ At(C, 4) \subseteq At(C, 3) /\ At(C, 3) \subseteq At(C, 2)
         /\ \A r \in Ranks(C) : r \in 2 .. 14
<1>1. \A n : At(C, n) \in SUBSET Ranks(C)
  BY DEF At
<1>2. At(C, 4) \subseteq At(C, 3) /\ At(C, 3) \subseteq At(C, 2)
  <2>1. \A r : Count(C, r) \in 0 .. 4
    BY CountTypes
  <2> QED BY <2>1 DEF At
<1> QED BY <1>1, <1>2, OfTypes, RankSubsets, CardsFinite

LEMMA FirstSecond ==
  ASSUME NEW C \in SUBSET Deck
  PROVE  /\ First(C) \in Nat
         /\ First(C) # 0 <=> At(C, 2) # {}
         /\ At(C, 2) # {} => First(C) \in At(C, 2)
         /\ At(C, 3) # {} => First(C) = Max(At(C, 3)) /\ First(C) \in At(C, 3)
         /\ At(C, 2) # {} /\ At(C, 3) = {} => First(C) = Max(At(C, 2))
         /\ Second(C) # <<>> <=> \E r \in At(C, 2) : r # First(C)
         /\ Second(C) # <<>> => /\ Second(C)[1] = Max(At(C, 2) \ {First(C)})
                                /\ Second(C)[1] \in At(C, 2) \ {First(C)}
                                /\ First(C) \in At(C, 2)
<1> DEFINE A == At(C, 2)
           B == At(C, 3)
           R == A \ {First(C)}
<1>1. A \in RankSets /\ B \in RankSets /\ B \subseteq A /\ \A r \in A : r \in 2 .. 14
  BY AtTypes
<1>2. A # {} => Max(A) \in A
  BY <1>1, MaxIsFirst
<1>3. B # {} => Max(B) \in B
  BY <1>1, MaxIsFirst
<1>4. First(C) = IF A = {} THEN 0 ELSE IF B # {} THEN Max(B) ELSE Max(A)
  BY DEF First
<1>5. R \in RankSets /\ R \in SUBSET A
  <2> HIDE DEF A
  <2> QED BY <1>1, RankSubsets
<1>6. Second(C) = Falling(R)
  BY DEF Second
<1>7. CASE R = {}
  <2>1. Second(C) = <<>>
    BY <1>6, <1>7, FallingFew
  <2> HIDE DEF A, B
  <2> QED BY <1>1, <1>2, <1>3, <1>4, <1>7, <2>1 DEF A, B
<1>8. CASE R # {}
  <2>1. Max(R) \in R /\ Max(R) = Falling(R)[1] /\ 1 \in 1 .. Cardinality(R)
    BY <1>5, <1>8, MaxIsFirst
  <2>2. Len(Falling(R)) = Cardinality(R) /\ Len(<<>>) = 0
    BY <1>5, FallingIs
  <2>3. Second(C) # <<>>
    <3> HIDE DEF R
    <3> QED BY <1>6, <2>1, <2>2
  <2>4. First(C) \in A
    <3> HIDE DEF A, B
    <3> QED BY <1>1, <1>2, <1>3, <1>4, <1>8
  <2>5. Second(C)[1] = Max(R) /\ Second(C)[1] \in R
    BY <1>6, <2>1
  <2> HIDE DEF A, B
  <2> QED BY <1>1, <1>2, <1>3, <1>4, <1>8, <2>3, <2>4, <2>5 DEF A, B
<1> QED BY <1>7, <1>8

LEMMA PartsGrow ==
  ASSUME NEW C \in SUBSET Deck, NEW S \in SUBSET C
  PROVE  /\ S \in SUBSET Deck /\ Ranks(S) \subseteq Ranks(C)
         /\ \A n \in Nat : At(S, n) \subseteq At(C, n)
         /\ StraightsTo(S) \subseteq StraightsTo(C)
         /\ \A X \in Suited(S) : \E Y \in Suited(C) : X \subseteq Y
         /\ UNION Suited(S) \subseteq UNION Suited(C)
         /\ Flushes(S) \subseteq Flushes(C)
<1>1. S \in SUBSET Deck /\ Ranks(S) \subseteq Ranks(C)
  BY DEF Ranks
<1>2. ASSUME NEW n \in Nat PROVE At(S, n) \subseteq At(C, n)
  <2>1. ASSUME NEW r \in At(S, n) PROVE r \in At(C, n)
    <3> DEFINE x == Count(S, r)
               y == Count(C, r)
    <3>1. r \in Ranks(S) /\ x >= n
      BY DEF At
    <3>2. x \in Nat /\ y \in Nat /\ x <= y
      BY <1>1, CountTypes, CountGrows
    <3>3. y >= n
      <4> HIDE DEF x, y
      <4> QED BY <3>1, <3>2
    <3> QED BY <1>1, <3>1, <3>3 DEF At
  <2> QED BY <2>1
<1>3. \A X \in SUBSET Deck : \A Y \in SUBSET X : StraightsTo(Y) \subseteq StraightsTo(X)
  <2> SUFFICES ASSUME NEW X \in SUBSET Deck, NEW Y \in SUBSET X, NEW h \in StraightsTo(Y)
               PROVE  h \in StraightsTo(X)
    OBVIOUS
  <2>1. Ranks(Y) \subseteq Ranks(X)
    BY DEF Ranks
  <2> QED BY <2>1 DEF StraightsTo
<1>4. ASSUME NEW X \in Suited(S) PROVE \E Y \in Suited(C) : X \in SUBSET Y
  <2>1. PICK s \in {c.suit : c \in S} : X = {c \in S : c.suit = s}
    BY DEF Suited
  <2> DEFINE Y == {c \in C : c.suit = s}
             x == Cardinality(X)
             y == Cardinality(Y)
  <2>2. X \in SUBSET Y /\ Y \in SUBSET C
    BY <2>1
  <2>3. x \in Nat /\ y \in Nat /\ x <= y
    <3>1. IsFiniteSet(C) /\ IsFiniteSet(Y) /\ IsFiniteSet(X)
      BY <2>2, CardsFinite, FS_Subset
    <3> HIDE DEF Y
    <3> QED BY <2>2, <3>1, FS_Subset, FS_CardinalityType
  <2>4. x >= 5
    BY DEF Suited
  <2>5. y >= 5
    <3> HIDE DEF x, y
    <3> QED BY <2>3, <2>4
  <2>6. Y \in Suited(C)
    BY <2>1, <2>5 DEF Suited
  <2> QED BY <2>2, <2>6
<1>5. UNION Suited(S) \subseteq UNION Suited(C)
  BY <1>4
<1>6. Flushes(S) \subseteq Flushes(C)
  <2> SUFFICES ASSUME NEW h \in Flushes(S) PROVE h \in Flushes(C)
    OBVIOUS
  <2>1. PICK X \in Suited(S) : h \in StraightsTo(X)
    BY DEF Flushes
  <2>2. PICK Y \in Suited(C) : X \in SUBSET Y
    BY <1>4
  <2>3. Y \in SUBSET Deck
    BY DEF Suited
  <2>4. h \in StraightsTo(Y)
    BY <1>3, <2>1, <2>2, <2>3
  <2> QED BY <2>4 DEF Flushes
<1> QED BY <1>1, <1>2, <1>3, <1>4, <1>5, <1>6

LEMMA FitsGrows ==
  ASSUME NEW C \in SUBSET Deck, NEW S \in SUBSET C, NEW n \in 1 .. 9, Fits(S, n)
  PROVE  Fits(C, n)
<1>1. /\ S \in SUBSET Deck /\ At(S, 2) \subseteq At(C, 2) /\ At(S, 3) \subseteq At(C, 3)
      /\ At(S, 4) \subseteq At(C, 4)
      /\ StraightsTo(S) \subseteq StraightsTo(C) /\ Flushes(S) \subseteq Flushes(C)
      /\ Suited(S) # {} => Suited(C) # {}
  BY PartsGrow
<1>2. Second(S) # <<>> => Second(C) # <<>>
  <2> HAVE Second(S) # <<>>
  <2>1. PICK r \in At(S, 2) : r # First(S)
    BY <1>1, FirstSecond
  <2>2. First(S) \in At(S, 2)
    BY <1>1, <2>1, FirstSecond
  <2>3. \E q \in At(C, 2) : q # First(C)
    BY <1>1, <2>1, <2>2
  <2> QED BY <2>3, FirstSecond
<1>3. First(S) # 0 => First(C) # 0
  <2>1. First(S) # 0 <=> At(S, 2) # {}
    BY <1>1, FirstSecond
  <2>2. First(C) # 0 <=> At(C, 2) # {}
    BY FirstSecond
  <2> QED BY <1>1, <2>1, <2>2
<1> QED BY <1>1, <1>2, <1>3 DEF Fits

-----------------------------------------------------------------------------
(* Straights, suits and kickers *)

\* The ranks of the straight that ends at h.
Run(h) == {IF r = 1 THEN 14 ELSE r : r \in h - 4 .. h}

LEMMA RunTypes ==
  ASSUME NEW h \in 5 .. 14
  PROVE  Run(h) \in RankSets /\ Cardinality(Run(h)) = 5 /\ Run(h) \subseteq 2 .. 14
<1> DEFINE a == h - 4
           I == a .. h
           R == Run(h)
           f == [r \in I |-> IF r = 1 THEN 14 ELSE r]
<1>1. a \in 1 .. 10 /\ h = a + 4
  OBVIOUS
<1>2. IsFiniteSet(I) /\ Cardinality(I) = 5
  <2>1. a \in Int /\ h \in Int /\ ~ (a > h) /\ h - a + 1 = 5
    OBVIOUS
  <2> HIDE DEF a
  <2>2. IsFiniteSet(a .. h) /\ Cardinality(a .. h) = IF a > h THEN 0 ELSE h - a + 1
    BY ONLY <2>1, FS_Interval
  <2> QED BY <2>1, <2>2
<1>3. f \in Surjection(I, R)
  BY DEF Run, Surjection
<1>4. f \in Injection(I, R)
  <2>1. f \in [I -> R]
    BY <1>3 DEF Surjection
  <2>2. ASSUME NEW r \in I, NEW s \in I, f[r] = f[s] PROVE r = s
    <3>1. r \in Int /\ s \in Int /\ a <= r /\ a <= s /\ r <= a + 4 /\ s <= a + 4
      BY <1>1
    <3>2. (IF r = 1 THEN 14 ELSE r) = (IF s = 1 THEN 14 ELSE s)
      BY <2>2
    <3> HIDE DEF a
    <3>3. r = 1 => s # 14
      BY <1>1, <3>1
    <3>4. s = 1 => r # 14
      BY <1>1, <3>1
    <3> QED BY <3>2, <3>3, <3>4
  <2> QED BY <2>1, <2>2 DEF Injection, IsInjective
<1>5. IsFiniteSet(R) /\ Cardinality(R) = 5
  <2> HIDE DEF f, I, R
  <2> QED BY <1>2, <1>3, <1>4, FS_Surjection
<1>6. R \subseteq 2 .. 14
  BY <1>1 DEF Run
<1> QED BY <1>5, <1>6 DEF RankSets

LEMMA StraightTypes ==
  ASSUME NEW C \in SUBSET Deck
  PROVE  /\ StraightsTo(C) \in RankSets /\ Flushes(C) \in RankSets
         /\ StraightsTo(C) \subseteq 5 .. 14 /\ Flushes(C) \subseteq 5 .. 14
         /\ \A h : h \in StraightsTo(C) <=> h \in 5 .. 14 /\ Run(h) \subseteq Ranks(C)
         /\ StraightsTo(C) # {} => Cardinality(Ranks(C)) >= 5
<1>1. \A X : StraightsTo(X) \subseteq 5 .. 14
  BY DEF StraightsTo
<1>2. Flushes(C) \subseteq 5 .. 14
  BY <1>1 DEF Flushes
<1>3. ASSUME NEW R \in SUBSET (5 .. 14) PROVE R \in RankSets
  <2> DEFINE most == 14
  <2>1. R \in SUBSET Nat /\ most \in Nat /\ \A r \in R : r <= most
    OBVIOUS
  <2> HIDE DEF most
  <2> QED BY <2>1, FS_BoundedSetOfNaturals DEF RankSets
<1>4. \A h : h \in StraightsTo(C) <=> h \in 5 .. 14 /\ Run(h) \subseteq Ranks(C)
  BY DEF StraightsTo, Run
<1>5. ASSUME StraightsTo(C) # {} PROVE Cardinality(Ranks(C)) >= 5
  <2>1. PICK h \in 5 .. 14 : Run(h) \in SUBSET Ranks(C)
    BY <1>1, <1>4, <1>5
  <2>2. Cardinality(Run(h)) = 5
    BY RunTypes
  <2>3. Cardinality(Run(h)) <= Cardinality(Ranks(C)) /\ Cardinality(Ranks(C)) \in Nat
    BY <2>1, CardsFinite, FS_Subset
  <2> QED BY <2>2, <2>3
<1> QED BY <1>1, <1>2, <1>3, <1>4, <1>5

\* Cards of one suit are of different ranks.
LEMMA SuitRanks ==
  ASSUME NEW S \in SUBSET Deck, \A c, d \in S : c.suit = d.suit
  PROVE  Cardinality(Ranks(S)) = Cardinality(S)
<1> DEFINE f == [c \in S |-> c.rank]
<1>1. IsFiniteSet(S)
  BY CardsFinite
<1>2. f \in Surjection(S, Ranks(S))
  BY DEF Surjection, Ranks
<1>3. f \in Injection(S, Ranks(S))
  <2>1. f \in [S -> Ranks(S)]
    BY DEF Ranks
  <2>2. ASSUME NEW c \in S, NEW d \in S, f[c] = f[d] PROVE c = d
    <3>1. c.rank = d.rank /\ c.suit = d.suit /\ c \in Deck /\ d \in Deck
      BY <2>2
    <3> QED BY <3>1 DEF Deck
  <2> QED BY <2>1, <2>2 DEF Injection, IsInjective
<1> HIDE DEF f
<1> QED BY <1>1, <1>2, <1>3, FS_Surjection

LEMMA SuitedTypes ==
  ASSUME NEW C \in SUBSET Deck
  PROVE  /\ \A X \in Suited(C) : /\ X \in SUBSET C /\ Cardinality(X) >= 5
                                 /\ Cardinality(Ranks(X)) >= 5
                                 /\ \A c, d \in X : c.suit = d.suit
         /\ UNION Suited(C) \in SUBSET C
         /\ Suited(C) # {} => /\ Cardinality(Ranks(UNION Suited(C))) >= 5
                              /\ Cardinality(Ranks(C)) >= 5
<1>1. ASSUME NEW X \in Suited(C)
      PROVE  /\ X \in SUBSET C /\ Cardinality(X) >= 5
             /\ Cardinality(Ranks(X)) >= 5 /\ \A c, d \in X : c.suit = d.suit
  <2>1. PICK s \in {c.suit : c \in C} : X = {c \in C : c.suit = s}
    BY DEF Suited
  <2>2. X \in SUBSET C /\ X \in SUBSET Deck /\ \A c, d \in X : c.suit = d.suit
    BY <2>1
  <2>3. Cardinality(X) >= 5
    BY DEF Suited
  <2>4. Cardinality(Ranks(X)) = Cardinality(X)
    BY <2>2, SuitRanks
  <2> QED BY <2>2, <2>3, <2>4
<1>2. UNION Suited(C) \in SUBSET C
  BY <1>1
<1>3. ASSUME NEW X \in Suited(C), NEW Y \in SUBSET C, X \in SUBSET Y
      PROVE  Cardinality(Ranks(Y)) >= 5
  <2> DEFINE x == Cardinality(Ranks(X))
             y == Cardinality(Ranks(Y))
  <2>1. Ranks(X) \in SUBSET Ranks(Y) /\ Y \in SUBSET Deck /\ X \in SUBSET Deck
    BY <1>3 DEF Ranks
  <2>2. x <= y /\ y \in Nat /\ x \in Nat
    BY <2>1, CardsFinite, FS_Subset
  <2>3. x >= 5
    BY <1>1
  <2> HIDE DEF x, y
  <2>4. y >= 5
    BY <2>2, <2>3
  <2> QED BY <2>4 DEF y
<1>4. ASSUME Suited(C) # {} PROVE /\ Cardinality(Ranks(UNION Suited(C))) >= 5
                                  /\ Cardinality(Ranks(C)) >= 5
  <2>1. PICK X \in Suited(C) : TRUE
    BY <1>4
  <2>2. X \in SUBSET UNION Suited(C) /\ X \in SUBSET C
    BY <1>1, <2>1
  <2> QED BY <1>2, <1>3, <2>1, <2>2
<1> QED BY <1>1, <1>2, <1>4

LEMMA MaxGrows ==
  ASSUME NEW R \in RankSets, NEW Q \in SUBSET R, Q # {}
  PROVE  Max(Q) \in Nat /\ Max(R) \in Nat /\ Max(R) >= Max(Q)
<1>1. Q \in RankSets /\ R # {}
  BY RankSubsets
<1>2. Max(Q) \in Q /\ Max(R) \in R /\ \A r \in R : r <= Max(R)
  BY <1>1, MaxIsFirst
<1>3. Max(Q) \in Nat /\ Max(R) \in Nat /\ Max(Q) <= Max(R)
  BY <1>2 DEF RankSets
<1> QED BY <1>3

LEMMA FrontTypes ==
  ASSUME NEW R \in RankSets, NEW n \in Nat, n <= Cardinality(R)
  PROVE  LET K == SubSeq(Falling(R), 1, n)
         IN  K \in Seq(Nat) /\ Len(K) = n /\ \A i \in 1 .. n : K[i] = Falling(R)[i]
<1> DEFINE F == Falling(R)
<1>1. F \in Seq(Nat) /\ Len(F) = Cardinality(R) /\ Cardinality(R) \in Nat
  BY FallingIs
<1> HIDE DEF F
<1> QED BY <1>1 DEF F

LEMMA FrontGrows ==
  ASSUME NEW R \in RankSets, NEW Q \in SUBSET R, NEW n \in Nat, n <= Cardinality(Q)
  PROVE  /\ SubSeq(Falling(R), 1, n) \in Seq(Nat) /\ SubSeq(Falling(Q), 1, n) \in Seq(Nat)
         /\ Len(SubSeq(Falling(R), 1, n)) = n /\ Len(SubSeq(Falling(Q), 1, n)) = n
         /\ AtLeast(SubSeq(Falling(R), 1, n), SubSeq(Falling(Q), 1, n))
<1> DEFINE s == SubSeq(Falling(R), 1, n)
           t == SubSeq(Falling(Q), 1, n)
<1>1. Q \in RankSets /\ Cardinality(Q) \in Nat /\ Cardinality(Q) <= Cardinality(R)
  BY RankSubsets
<1>2. n <= Cardinality(R)
  <2>1. Cardinality(R) \in Nat
    BY FallingIs
  <2> QED BY <1>1, <2>1
<1>3. s \in Seq(Nat) /\ Len(s) = n /\ \A i \in 1 .. n : s[i] = Falling(R)[i]
  BY <1>2, FrontTypes
<1>4. t \in Seq(Nat) /\ Len(t) = n /\ \A i \in 1 .. n : t[i] = Falling(Q)[i]
  BY <1>1, FrontTypes
<1>5. ASSUME NEW i \in 1 .. n PROVE t[i] <= s[i]
  <2>1. i \in 1 .. Cardinality(Q)
    BY <1>1
  <2>2. Falling(Q)[i] <= Falling(R)[i]
    BY <2>1, FallingBelow
  <2> QED BY <1>3, <1>4, <2>2
<1> HIDE DEF s, t
<1>6. AtLeast(s, t)
  BY <1>3, <1>4, <1>5, PlaceByPlace
<1> QED BY <1>3, <1>4, <1>6 DEF s, t

-----------------------------------------------------------------------------
(* How many ranks five cards have *)

LEMMA AtOf ==
  ASSUME NEW S \in SUBSET Deck
  PROVE  /\ At(S, 4) = Of(S, 4) /\ At(S, 3) = Of(S, 3) \cup Of(S, 4)
         /\ At(S, 2) = Of(S, 2) \cup Of(S, 3) \cup Of(S, 4)
<1>1. \A r \in Ranks(S) : Count(S, r) \in 1 .. 4
  BY CountTypes
<1> QED BY <1>1 DEF At, Of

LEMMA NoneOneMore ==
  ASSUME NEW R \in RankSets
  PROVE  /\ Cardinality(R) \in Nat
         /\ Cardinality(R) = 0 <=> R = {}
         /\ Cardinality(R) = 1 <=> \E x : R = {x}
         /\ Cardinality(R) >= 2 <=> \E x, y \in R : x # y
<1> DEFINE n == Cardinality(R)
<1>1. IsFiniteSet(R) /\ n \in Nat
  BY FS_CardinalityType DEF RankSets
<1>2. n = 0 <=> R = {}
  BY <1>1, FS_EmptySet
<1>3. n = 1 <=> \E x : R = {x}
  BY <1>1, FS_Singleton
<1>4. n >= 2 <=> n # 0 /\ n # 1
  <2> HIDE DEF n
  <2> QED BY <1>1
<1>5. (R # {} /\ ~ \E x : R = {x}) <=> \E x, y \in R : x # y
  <2>1. ASSUME R # {}, ~ \E x : R = {x} PROVE \E x, y \in R : x # y
    <3>1. PICK x \in R : TRUE
      BY <2>1
    <3>2. R # {x}
      BY <2>1
    <3>3. \E y \in R : y # x
      BY <3>1, <3>2
    <3> QED BY <3>1, <3>3
  <2>2. ASSUME NEW x \in R, NEW y \in R, x # y PROVE R # {} /\ ~ \E z : R = {z}
    BY <2>2
  <2> QED BY <2>1, <2>2
<1> HIDE DEF n
<1>6. n >= 2 <=> \E x, y \in R : x # y
  BY <1>2, <1>3, <1>4, <1>5
<1> QED BY <1>1, <1>2, <1>3, <1>6 DEF n

LEMMA RanksOfFive ==
  ASSUME NEW S \in SUBSET Deck, Cardinality(S) = 5
  PROVE  /\ At(S, 4) # {} => Cardinality(Ranks(S)) = 2
         /\ At(S, 3) # {} /\ At(S, 4) = {} /\ Second(S) = <<>> => Cardinality(Ranks(S)) = 3
         /\ At(S, 3) = {} /\ Second(S) # <<>> => Cardinality(Ranks(S)) = 3
         /\ At(S, 3) = {} /\ Second(S) = <<>> /\ First(S) # 0 => Cardinality(Ranks(S)) = 4
         /\ First(S) = 0 => Cardinality(Ranks(S)) = 5
<1> DEFINE a == Cardinality(Of(S, 1))
           b == Cardinality(Of(S, 2))
           c == Cardinality(Of(S, 3))
           d == Cardinality(Of(S, 4))
           n == Cardinality(Ranks(S))
<1>1. a \in Nat /\ b \in Nat /\ c \in Nat /\ d \in Nat
  BY OfTypes
<1>2. a + 2 * b + 3 * c + 4 * d = 5 /\ n = a + b + c + d
  BY GroupsAddUp
<1>3. /\ b = 0 <=> Of(S, 2) = {}
      /\ c = 0 <=> Of(S, 3) = {}
      /\ d = 0 <=> Of(S, 4) = {}
      /\ b >= 2 <=> \E x, y \in Of(S, 2) : x # y
  BY OfTypes, NoneOneMore
<1>4. /\ At(S, 4) = Of(S, 4) /\ At(S, 3) = Of(S, 3) \cup Of(S, 4)
      /\ At(S, 2) = Of(S, 2) \cup Of(S, 3) \cup Of(S, 4)
  BY AtOf
<1>5. \A i, j \in Nat : i # j => Of(S, i) \cap Of(S, j) = {}
  BY DEF Of
<1>6. /\ First(S) # 0 <=> At(S, 2) # {}
      /\ At(S, 2) # {} => First(S) \in At(S, 2)
      /\ At(S, 3) # {} => First(S) \in At(S, 3)
      /\ Second(S) # <<>> <=> \E r \in At(S, 2) : r # First(S)
  BY FirstSecond
<1> HIDE DEF a, b, c, d, n
<1>7. At(S, 4) # {} => n = 2
  <2>1. At(S, 4) # {} => d # 0
    BY <1>3, <1>4
  <2> QED BY <1>1, <1>2, <2>1
<1>8. At(S, 3) # {} /\ At(S, 4) = {} /\ Second(S) = <<>> => n = 3
  <2> HAVE At(S, 3) # {} /\ At(S, 4) = {} /\ Second(S) = <<>>
  <2>1. First(S) \in Of(S, 3) /\ d = 0 /\ c # 0
    BY <1>3, <1>4, <1>6
  <2>2. \A r \in Of(S, 2) : r = First(S)
    BY <1>4, <1>6
  <2>3. Of(S, 2) = {}
    BY <1>5, <2>1, <2>2
  <2>4. b = 0
    BY <1>3, <2>3
  <2> QED BY <1>1, <1>2, <2>1, <2>4
<1>9. At(S, 3) = {} => c = 0 /\ d = 0 /\ At(S, 2) = Of(S, 2)
  BY <1>3, <1>4
<1>10. At(S, 3) = {} /\ Second(S) # <<>> => n = 3
  <2> HAVE At(S, 3) = {} /\ Second(S) # <<>>
  <2>1. b >= 2
    BY <1>3, <1>6, <1>9
  <2> QED BY <1>1, <1>2, <1>9, <2>1
<1>11. At(S, 3) = {} /\ Second(S) = <<>> /\ First(S) # 0 => n = 4
  <2> HAVE At(S, 3) = {} /\ Second(S) = <<>> /\ First(S) # 0
  <2>1. ~ (b >= 2)
    BY <1>3, <1>6, <1>9
  <2>2. b # 0
    BY <1>3, <1>6, <1>9
  <2> QED BY <1>1, <1>2, <1>9, <2>1, <2>2
<1>12. First(S) = 0 => n = 5
  <2> HAVE First(S) = 0
  <2>1. b = 0 /\ c = 0 /\ d = 0
    BY <1>3, <1>4, <1>6
  <2> QED BY <1>1, <1>2, <2>1
<1> QED BY <1>7, <1>8, <1>10, <1>11, <1>12 DEF n

LEMMA RanksLeft ==
  ASSUME NEW R \in RankSets
  PROVE  /\ \A x : /\ R \ {x} \in RankSets /\ Cardinality(R \ {x}) \in Nat
                   /\ Cardinality(R \ {x}) >= Cardinality(R) - 1
                   /\ x \in R => Cardinality(R \ {x}) = Cardinality(R) - 1
         /\ \A x, y : /\ R \ {x, y} \in RankSets /\ Cardinality(R \ {x, y}) \in Nat
                      /\ Cardinality(R \ {x, y}) >= Cardinality(R) - 2
         /\ R \ {} = R /\ Cardinality(R) \in Nat
<1>1. ASSUME NEW Q \in RankSets, NEW x
      PROVE  /\ Q \ {x} \in RankSets /\ Cardinality(Q) \in Nat
             /\ Cardinality(Q \ {x}) \in Nat
             /\ Cardinality(Q \ {x}) >= Cardinality(Q) - 1
             /\ x \in Q => Cardinality(Q \ {x}) = Cardinality(Q) - 1
  <2>1. IsFiniteSet(Q) /\ Cardinality(Q) \in Nat
    BY FS_CardinalityType DEF RankSets
  <2>2. Cardinality(Q \ {x}) = IF x \in Q THEN Cardinality(Q) - 1 ELSE Cardinality(Q)
    BY <2>1, FS_RemoveElement
  <2>3. Q \ {x} \in SUBSET Q
    OBVIOUS
  <2>4. Q \ {x} \in RankSets /\ Cardinality(Q \ {x}) \in Nat
    BY <2>3, RankSubsets
  <2> QED BY <2>1, <2>2, <2>4
<1>2. ASSUME NEW x, NEW y
      PROVE  /\ R \ {x, y} \in RankSets /\ Cardinality(R \ {x, y}) \in Nat
             /\ Cardinality(R \ {x, y}) >= Cardinality(R) - 2
  <2> DEFINE P == R \ {x}
             Q == P \ {y}
  <2>1. R \ {x, y} = Q
    OBVIOUS
  <2>2. P \in RankSets /\ Cardinality(P) \in Nat /\ Cardinality(P) >= Cardinality(R) - 1
        /\ Cardinality(R) \in Nat
    BY <1>1
  <2> HIDE DEF P
  <2>3. Q \in RankSets /\ Cardinality(Q) \in Nat /\ Cardinality(Q) >= Cardinality(P) - 1
    BY <1>1, <2>2
  <2> HIDE DEF Q
  <2> QED BY <2>1, <2>2, <2>3
<1> QED BY <1>1, <1>2

-----------------------------------------------------------------------------
(* What decides among hands of a name grows with the cards *)

LEMMA OneDecides ==
  ASSUME NEW a \in Nat, NEW b \in Nat, a >= b
  PROVE  <<a>> \in Seq(Nat) /\ <<b>> \in Seq(Nat) /\ Len(<<a>>) = 1 /\ Len(<<b>>) = 1
         /\ AtLeast(<<a>>, <<b>>)
<1> DEFINE s == <<a>>
           t == <<b>>
<1>1. s \in Seq(Nat) /\ t \in Seq(Nat) /\ Len(s) = 1 /\ Len(t) = 1 /\ s[1] = a /\ t[1] = b
  OBVIOUS
<1> HIDE DEF s, t
<1>2. \A i \in 1 .. Len(s) : t[i] <= s[i]
  <2>1. \A i \in 1 .. Len(s) : i = 1
    BY <1>1
  <2> QED BY <1>1, <2>1
<1>3. AtLeast(s, t)
  BY <1>1, <1>2, PlaceByPlace
<1> QED BY <1>1, <1>3 DEF s, t

LEMMA TwoDecide ==
  ASSUME NEW a \in Nat, NEW b \in Nat, NEW c \in Nat, NEW d \in Nat,
         a > b \/ (a = b /\ c >= d)
  PROVE  /\ <<a, c>> \in Seq(Nat) /\ <<b, d>> \in Seq(Nat)
         /\ Len(<<a, c>>) = 2 /\ Len(<<b, d>>) = 2
         /\ AtLeast(<<a, c>>, <<b, d>>)
<1> DEFINE s == <<c>>
           t == <<d>>
<1>1. s \in Seq(Nat) /\ t \in Seq(Nat) /\ Len(s) = Len(t)
  OBVIOUS
<1>2. c >= d => AtLeast(s, t)
  BY OneDecides
<1>3. <<a, c>> = <<a>> \o s /\ <<b, d>> = <<b>> \o t
  OBVIOUS
<1>4. AtLeast(<<a>> \o s, <<b>> \o t)
  <2> HIDE DEF s, t
  <2> QED BY <1>1, <1>2, FirstDecides
<1>5. /\ <<a, c>> \in Seq(Nat) /\ <<b, d>> \in Seq(Nat)
      /\ Len(<<a, c>>) = 2 /\ Len(<<b, d>>) = 2
  OBVIOUS
<1> DEFINE x == <<a, c>>
           y == <<b, d>>
<1>6. AtLeast(x, y)
  <2>1. x = <<a>> \o s /\ y = <<b>> \o t
    BY <1>3
  <2> HIDE DEF x, y, s, t
  <2> QED BY <1>4, <2>1
<1> QED BY <1>5, <1>6

LEMMA TwoInFront ==
  ASSUME NEW a \in Nat, NEW c \in Nat, NEW s \in Seq(Nat)
  PROVE  /\ <<a, c>> \o s = <<a>> \o (<<c>> \o s)
         /\ <<c>> \o s \in Seq(Nat) /\ Len(<<c>> \o s) = Len(s) + 1
         /\ <<a, c>> \o s \in Seq(Nat) /\ Len(<<a, c>> \o s) = Len(s) + 2
<1> DEFINE n == Len(s)
           x == <<a, c>> \o s
           z == <<c>> \o s
           y == <<a>> \o z
<1>0. n \in Nat
  OBVIOUS
<1>1. /\ x \in Seq(Nat) /\ Len(x) = n + 2 /\ x[1] = a /\ x[2] = c
      /\ \A i \in 3 .. n + 2 : x[i] = s[i - 2]
  OBVIOUS
<1>2. /\ z \in Seq(Nat) /\ Len(z) = n + 1 /\ z[1] = c
      /\ \A i \in 2 .. Len(z) : z[i] = s[i - 1]
  BY InFront
<1>3. /\ y \in Seq(Nat) /\ Len(y) = Len(z) + 1 /\ y[1] = a
      /\ \A i \in 2 .. Len(y) : y[i] = z[i - 1]
  <2> HIDE DEF z
  <2> QED BY <1>2, InFront
<1> HIDE DEF x, y, z, n
<1>4. ASSUME NEW i \in 1 .. n + 2 PROVE x[i] = y[i]
  <2>1. CASE i = 1
    BY <1>1, <1>3, <2>1
  <2>2. CASE i = 2
    BY <1>0, <1>1, <1>2, <1>3, <2>2
  <2>3. CASE i \notin {1, 2}
    <3>1. i \in 3 .. n + 2 /\ i \in 2 .. n + 2 /\ i - 1 \in 2 .. n + 1 /\ (i - 1) - 1 = i - 2
      BY <1>0, <2>3
    <3>2. Len(y) = n + 2 /\ Len(z) = n + 1
      BY <1>0, <1>2, <1>3
    <3>3. x[i] = s[i - 2] /\ y[i] = z[i - 1] /\ z[i - 1] = s[(i - 1) - 1]
      BY <1>1, <1>2, <1>3, <3>1, <3>2
    <3> QED BY <3>1, <3>3
  <2> QED BY <2>1, <2>2, <2>3
<1>5. x = y
  <2> DEFINE m == n + 2
  <2>1. x \in [1 .. m -> Nat] /\ y \in [1 .. m -> Nat]
    <3>1. Len(x) = m /\ Len(y) = m /\ x \in Seq(Nat) /\ y \in Seq(Nat)
      BY <1>0, <1>1, <1>2, <1>3
    <3> HIDE DEF m
    <3> QED BY <3>1
  <2>2. \A i \in 1 .. m : x[i] = y[i]
    BY <1>4
  <2> HIDE DEF m
  <2>3. x = [i \in 1 .. m |-> x[i]] /\ y = [i \in 1 .. m |-> y[i]]
    BY ONLY <2>1
  <2>4. [i \in 1 .. m |-> x[i]] = [i \in 1 .. m |-> y[i]]
    BY ONLY <2>2
  <2> QED BY <2>3, <2>4
<1> QED BY <1>1, <1>2, <1>5 DEF x, y, z, n

\* One rank and kickers.
LEMMA RankAndKickers ==
  ASSUME NEW C \in SUBSET Deck, NEW S \in SUBSET C, NEW a \in Nat, NEW b \in Nat, a >= b,
         NEW k \in Nat, k + 1 <= Cardinality(Ranks(S))
  PROVE  LET s == <<a>> \o Kickers(C, {a}, k)
             t == <<b>> \o Kickers(S, {b}, k)
         IN  s \in Seq(Nat) /\ t \in Seq(Nat) /\ Len(s) = Len(t) /\ AtLeast(s, t)
<1> DEFINE P == Ranks(C)
           Q == Ranks(S)
           s == Kickers(C, {a}, k)
           t == Kickers(S, {b}, k)
<1>1. S \in SUBSET Deck /\ Q \in SUBSET P /\ P \in RankSets /\ Q \in RankSets
  BY OfTypes, PartsGrow
<1> HIDE DEF P, Q
<1>2. Cardinality(Q) \in Nat /\ Cardinality(P) \in Nat /\ Cardinality(Q) <= Cardinality(P)
  BY <1>1, RankSubsets, RanksLeft
<1>3. \A x : /\ Q \ {x} \in RankSets /\ k <= Cardinality(Q \ {x})
             /\ P \ {x} \in RankSets /\ k <= Cardinality(P \ {x})
  <2> TAKE x
  <2>1. Q \ {x} \in RankSets /\ Cardinality(Q \ {x}) \in Nat /\ Cardinality(Q \ {x}) >= Cardinality(Q) - 1
    BY <1>1, RanksLeft
  <2>2. P \ {x} \in RankSets /\ Cardinality(P \ {x}) \in Nat /\ Cardinality(P \ {x}) >= Cardinality(P) - 1
    BY <1>1, RanksLeft
  <2>3. k + 1 <= Cardinality(Q)
    BY DEF Q
  <2> QED BY <1>2, <2>1, <2>2, <2>3
<1>4. s = SubSeq(Falling(P \ {a}), 1, k) /\ t = SubSeq(Falling(Q \ {b}), 1, k)
  BY DEF Kickers, P, Q
<1>5. s \in Seq(Nat) /\ t \in Seq(Nat) /\ Len(s) = k /\ Len(t) = k
  BY <1>3, <1>4, FrontTypes
<1>6. a = b => AtLeast(s, t)
  <2> HAVE a = b
  <2>1. Q \ {a} \in SUBSET (P \ {a})
    BY <1>1
  <2>2. k <= Cardinality(Q \ {a}) /\ P \ {a} \in RankSets
    BY <1>3
  <2>3. AtLeast(SubSeq(Falling(P \ {a}), 1, k), SubSeq(Falling(Q \ {a}), 1, k))
    BY <2>1, <2>2, FrontGrows
  <2> QED BY <1>4, <2>3
<1> HIDE DEF s, t
<1>7. AtLeast(<<a>> \o s, <<b>> \o t)
  BY <1>5, <1>6, FirstDecides
<1>8. /\ <<a>> \o s \in Seq(Nat) /\ <<b>> \o t \in Seq(Nat)
      /\ Len(<<a>> \o s) = k + 1 /\ Len(<<b>> \o t) = k + 1
  BY <1>5, InFront
<1> QED BY <1>7, <1>8 DEF s, t

LEMMA TieIs ==
  ASSUME NEW C
  PROVE  /\ Tie(C, 9) = <<Max(Flushes(C))>>
         /\ Tie(C, 8) = <<Max(At(C, 4))>> \o Kickers(C, {Max(At(C, 4))}, 1)
         /\ Tie(C, 7) = <<First(C), Second(C)[1]>>
         /\ Tie(C, 6) = Kickers(UNION Suited(C), {}, 5)
         /\ Tie(C, 5) = <<Max(StraightsTo(C))>>
         /\ Tie(C, 4) = <<First(C)>> \o Kickers(C, {First(C)}, 2)
         /\ Tie(C, 3) = <<First(C), Second(C)[1]>> \o Kickers(C, {First(C), Second(C)[1]}, 1)
         /\ Tie(C, 2) = <<First(C)>> \o Kickers(C, {First(C)}, 3)
         /\ Tie(C, 1) = Kickers(C, {}, 5)
BY DEF Tie

LEMMA FitsIs ==
  ASSUME NEW C
  PROVE  /\ Fits(C, 9) <=> Flushes(C) # {}
         /\ Fits(C, 8) <=> At(C, 4) # {}
         /\ Fits(C, 7) <=> At(C, 3) # {} /\ Second(C) # <<>>
         /\ Fits(C, 6) <=> Suited(C) # {}
         /\ Fits(C, 5) <=> StraightsTo(C) # {}
         /\ Fits(C, 4) <=> At(C, 3) # {}
         /\ Fits(C, 3) <=> Second(C) # <<>>
         /\ Fits(C, 2) <=> First(C) # 0
         /\ Fits(C, 1)
BY DEF Fits

\* What is known of cards of which a hand is the best.
LEMMA BestFacts ==
  ASSUME NEW C
  PROVE  /\ Best(C, 9) => Flushes(C) # {}
         /\ Best(C, 8) => At(C, 4) # {}
         /\ Best(C, 7) => At(C, 4) = {} /\ At(C, 3) # {} /\ Second(C) # <<>>
         /\ Best(C, 6) => Flushes(C) = {} /\ Suited(C) # {}
         /\ Best(C, 5) => StraightsTo(C) # {} /\ Suited(C) = {}
         /\ Best(C, 4) => At(C, 4) = {} /\ At(C, 3) # {} /\ Second(C) = <<>>
         /\ Best(C, 3) => At(C, 3) = {} /\ Second(C) # <<>>
         /\ Best(C, 2) => At(C, 3) = {} /\ Second(C) = <<>> /\ First(C) # 0
         /\ Best(C, 1) => First(C) = 0 /\ StraightsTo(C) = {} /\ Suited(C) = {}
<1> DEFINE F(n) == Fits(C, n)
<1>1. \A n : Best(C, n) => F(n) /\ \A m \in 1 .. 9 : m > n => ~ F(m)
  BY DEF Best
<1> HIDE DEF F
<1>2. /\ Best(C, 9) => F(9)
      /\ Best(C, 8) => F(8)
      /\ Best(C, 7) => F(7) /\ ~ F(8)
      /\ Best(C, 6) => F(6) /\ ~ F(9)
      /\ Best(C, 5) => F(5) /\ ~ F(6)
      /\ Best(C, 4) => F(4) /\ ~ F(7) /\ ~ F(8)
      /\ Best(C, 3) => F(3) /\ ~ F(4)
      /\ Best(C, 2) => F(2) /\ ~ F(3) /\ ~ F(4)
      /\ Best(C, 1) => ~ F(2) /\ ~ F(5) /\ ~ F(6)
  BY <1>1
<1> QED BY <1>2, FitsIs DEF F

\* What some cards are worth is at least what five of them are.
LEMMA TieGrows ==
  ASSUME NEW C \in SUBSET Deck, NEW S \in SUBSET C, Cardinality(S) = 5,
         NEW n \in 1 .. 9, Best(C, n), Best(S, n)
  PROVE  /\ Tie(C, n) \in Seq(Nat) /\ Tie(S, n) \in Seq(Nat)
         /\ Len(Tie(C, n)) = Len(Tie(S, n)) /\ AtLeast(Tie(C, n), Tie(S, n))
<1> DEFINE Goal(s, t) == s \in Seq(Nat) /\ t \in Seq(Nat) /\ Len(s) = Len(t) /\ AtLeast(s, t)
<1>1. /\ S \in SUBSET Deck /\ Ranks(S) \subseteq Ranks(C) /\ At(S, 2) \subseteq At(C, 2)
      /\ At(S, 3) \subseteq At(C, 3) /\ At(S, 4) \subseteq At(C, 4)
      /\ StraightsTo(S) \subseteq StraightsTo(C) /\ Flushes(S) \subseteq Flushes(C)
      /\ UNION Suited(S) \subseteq UNION Suited(C)
  BY PartsGrow
<1>2. /\ \A X \in SUBSET Deck : /\ Ranks(X) \in RankSets /\ Flushes(X) \in RankSets
                                /\ StraightsTo(X) \in RankSets
      /\ \A X \in SUBSET Deck : \A k : At(X, k) \in RankSets
  BY OfTypes, StraightTypes, AtTypes
<1>3. First(C) \in Nat /\ First(S) \in Nat
  BY <1>1, FirstSecond
<1>4. ASSUME NEW P \in SUBSET C, NEW Q \in SUBSET P, 5 <= Cardinality(Ranks(Q))
      PROVE  Goal(Kickers(P, {}, 5), Kickers(Q, {}, 5))
  <2> DEFINE A == Ranks(P)
             B == Ranks(Q)
             five == 5
  <2>1. A \in RankSets /\ B \in SUBSET A
    BY <1>2 DEF Ranks
  <2>2. Kickers(P, {}, 5) = SubSeq(Falling(A), 1, five) /\ Kickers(Q, {}, 5) = SubSeq(Falling(B), 1, five)
    <3>1. A \ {} = A /\ B \ {} = B
      OBVIOUS
    <3> QED BY <3>1 DEF Kickers
  <2>3. five \in Nat /\ five <= Cardinality(B)
    BY <1>4
  <2> HIDE DEF A, B, five
  <2>4. Goal(SubSeq(Falling(A), 1, five), SubSeq(Falling(B), 1, five))
    BY <2>1, <2>3, FrontGrows
  <2> QED BY <2>2, <2>4
<1>5. ASSUME NEW k \in Nat, k + 1 <= Cardinality(Ranks(S)), NEW a \in Nat, NEW b \in Nat, a >= b
      PROVE  Goal(<<a>> \o Kickers(C, {a}, k), <<b>> \o Kickers(S, {b}, k))
  BY <1>5, RankAndKickers
<1>6. ASSUME NEW P \in RankSets, NEW Q \in SUBSET P, Q # {}
      PROVE  Goal(<<Max(P)>>, <<Max(Q)>>)
  <2>1. Max(P) \in Nat /\ Max(Q) \in Nat /\ Max(P) >= Max(Q)
    BY <1>6, MaxGrows
  <2> DEFINE p == Max(P)
             q == Max(Q)
  <2> HIDE DEF p, q
  <2>2. Goal(<<p>>, <<q>>)
    <3>1. p \in Nat /\ q \in Nat /\ p >= q
      BY <2>1 DEF p, q
    <3>2. <<p>> \in Seq(Nat) /\ <<q>> \in Seq(Nat) /\ Len(<<p>>) = 1 /\ Len(<<q>>) = 1
          /\ AtLeast(<<p>>, <<q>>)
      BY <3>1, OneDecides
    <3> QED BY <3>2
  <2> QED BY <2>2 DEF p, q
<1> HIDE DEF Goal
<1>7. Goal(Tie(C, 9), Tie(S, 9)) \/ n # 9
  <2> SUFFICES ASSUME n = 9 PROVE Goal(Tie(C, 9), Tie(S, 9))
    OBVIOUS
  <2>1. Flushes(S) # {}
    BY BestFacts
  <2>8. Tie(C, 9) = <<Max(Flushes(C))>>
        /\ Tie(S, 9) = <<Max(Flushes(S))>>
    BY TieIs
  <2>9. Goal(<<Max(Flushes(C))>>,
             <<Max(Flushes(S))>>)
    BY <1>1, <1>2, <1>6, <2>1
  <2> QED BY <2>8, <2>9
<1>8. Goal(Tie(C, 5), Tie(S, 5)) \/ n # 5
  <2> SUFFICES ASSUME n = 5 PROVE Goal(Tie(C, 5), Tie(S, 5))
    OBVIOUS
  <2>1. StraightsTo(S) # {}
    BY BestFacts
  <2>8. Tie(C, 5) = <<Max(StraightsTo(C))>>
        /\ Tie(S, 5) = <<Max(StraightsTo(S))>>
    BY TieIs
  <2>9. Goal(<<Max(StraightsTo(C))>>,
             <<Max(StraightsTo(S))>>)
    BY <1>1, <1>2, <1>6, <2>1
  <2> QED BY <2>8, <2>9
<1>9. Goal(Tie(C, 6), Tie(S, 6)) \/ n # 6
  <2> SUFFICES ASSUME n = 6 PROVE Goal(Tie(C, 6), Tie(S, 6))
    OBVIOUS
  <2>1. Suited(S) # {}
    BY BestFacts
  <2>2. UNION Suited(C) \in SUBSET C /\ 5 <= Cardinality(Ranks(UNION Suited(S)))
    <3>1. Cardinality(Ranks(UNION Suited(S))) >= 5 /\ UNION Suited(S) \in SUBSET S
      BY <1>1, <2>1, SuitedTypes
    <3>2. Cardinality(Ranks(UNION Suited(S))) \in Nat
      BY <3>1, <1>1, CardsFinite
    <3> QED BY <3>1, <3>2, SuitedTypes
  <2>8. Tie(C, 6) = Kickers(UNION Suited(C), {}, 5)
        /\ Tie(S, 6) = Kickers(UNION Suited(S), {}, 5)
    BY TieIs
  <2>9. Goal(Kickers(UNION Suited(C), {}, 5),
             Kickers(UNION Suited(S), {}, 5))
    BY <1>1, <1>4, <2>2
  <2> QED BY <2>8, <2>9
<1>10. Goal(Tie(C, 1), Tie(S, 1)) \/ n # 1
  <2> SUFFICES ASSUME n = 1 PROVE Goal(Tie(C, 1), Tie(S, 1))
    OBVIOUS
  <2>1. First(S) = 0
    BY BestFacts
  <2>2. 5 <= Cardinality(Ranks(S))
    BY <1>1, <2>1, RanksOfFive
  <2>8. Tie(C, 1) = Kickers(C, {}, 5)
        /\ Tie(S, 1) = Kickers(S, {}, 5)
    BY TieIs
  <2>9. Goal(Kickers(C, {}, 5),
             Kickers(S, {}, 5))
    BY <1>4, <2>2
  <2> QED BY <2>8, <2>9
<1>11. Goal(Tie(C, 8), Tie(S, 8)) \/ n # 8
  <2> SUFFICES ASSUME n = 8 PROVE Goal(Tie(C, 8), Tie(S, 8))
    OBVIOUS
  <2>1. At(S, 4) # {}
    BY BestFacts
  <2>2. 1 + 1 <= Cardinality(Ranks(S))
    BY <1>1, <2>1, RanksOfFive
  <2>3. Max(At(C, 4)) \in Nat /\ Max(At(S, 4)) \in Nat /\ Max(At(C, 4)) >= Max(At(S, 4))
    BY <1>1, <1>2, <2>1, MaxGrows
  <2>8. Tie(C, 8) = <<Max(At(C, 4))>> \o Kickers(C, {Max(At(C, 4))}, 1)
        /\ Tie(S, 8) = <<Max(At(S, 4))>> \o Kickers(S, {Max(At(S, 4))}, 1)
    BY TieIs
  <2>9. Goal(<<Max(At(C, 4))>> \o Kickers(C, {Max(At(C, 4))}, 1),
             <<Max(At(S, 4))>> \o Kickers(S, {Max(At(S, 4))}, 1))
    BY <1>5, <2>2, <2>3
  <2> QED BY <2>8, <2>9
<1>12. Goal(Tie(C, 4), Tie(S, 4)) \/ n # 4
  <2> SUFFICES ASSUME n = 4 PROVE Goal(Tie(C, 4), Tie(S, 4))
    OBVIOUS
  <2>1. At(S, 4) = {} /\ At(S, 3) # {} /\ Second(S) = <<>>
    BY BestFacts
  <2>2. 2 + 1 <= Cardinality(Ranks(S))
    BY <1>1, <2>1, RanksOfFive
  <2>3. Max(At(C, 3)) \in Nat /\ Max(At(S, 3)) \in Nat /\ Max(At(C, 3)) >= Max(At(S, 3))
    BY <1>1, <1>2, <2>1, MaxGrows
  <2>4. First(S) = Max(At(S, 3)) /\ First(C) = Max(At(C, 3))
    BY <1>1, <2>1, FirstSecond
  <2>8. Tie(C, 4) = <<First(C)>> \o Kickers(C, {First(C)}, 2)
        /\ Tie(S, 4) = <<First(S)>> \o Kickers(S, {First(S)}, 2)
    BY TieIs
  <2>9. Goal(<<First(C)>> \o Kickers(C, {First(C)}, 2),
             <<First(S)>> \o Kickers(S, {First(S)}, 2))
    BY <1>5, <2>2, <2>3, <2>4
  <2> QED BY <2>8, <2>9
<1>13. Goal(Tie(C, 2), Tie(S, 2)) \/ n # 2
  <2> SUFFICES ASSUME n = 2 PROVE Goal(Tie(C, 2), Tie(S, 2))
    OBVIOUS
  <2>1. At(S, 3) = {} /\ Second(S) = <<>> /\ First(S) # 0 /\ At(C, 3) = {}
    BY BestFacts
  <2>2. 3 + 1 <= Cardinality(Ranks(S))
    BY <1>1, <2>1, RanksOfFive
  <2>3. At(S, 2) # {} /\ At(C, 2) # {}
    BY <1>1, <2>1, FirstSecond
  <2>4. Max(At(C, 2)) \in Nat /\ Max(At(S, 2)) \in Nat /\ Max(At(C, 2)) >= Max(At(S, 2))
    BY <1>1, <1>2, <2>3, MaxGrows
  <2>5. First(S) = Max(At(S, 2)) /\ First(C) = Max(At(C, 2))
    BY <1>1, <2>1, <2>3, FirstSecond
  <2>8. Tie(C, 2) = <<First(C)>> \o Kickers(C, {First(C)}, 3)
        /\ Tie(S, 2) = <<First(S)>> \o Kickers(S, {First(S)}, 3)
    BY TieIs
  <2>9. Goal(<<First(C)>> \o Kickers(C, {First(C)}, 3),
             <<First(S)>> \o Kickers(S, {First(S)}, 3))
    BY <1>5, <2>2, <2>4, <2>5
  <2> QED BY <2>8, <2>9
<1> DEFINE a == First(C)
           b == First(S)
           c == Second(C)[1]
           d == Second(S)[1]
<1>14. ASSUME n = 7 \/ n = 3
       PROVE  /\ a \in Nat /\ b \in Nat /\ c \in Nat /\ d \in Nat
              /\ a > b \/ (a = b /\ c >= d)
              /\ b \in Ranks(S) /\ d \in Ranks(S) /\ a \in Ranks(C) /\ c \in Ranks(C)
  <2>1. Second(S) # <<>> /\ Second(C) # <<>> /\ (At(S, 3) = {} <=> At(C, 3) = {})
    BY <1>14, BestFacts
  <2>2. /\ c = Max(At(C, 2) \ {a}) /\ c \in At(C, 2) \ {a} /\ a \in At(C, 2)
        /\ d = Max(At(S, 2) \ {b}) /\ d \in At(S, 2) \ {b} /\ b \in At(S, 2)
    BY <1>1, <2>1, FirstSecond
  <2>3. /\ \A x \in At(C, 2) : x \in Nat /\ x \in Ranks(C)
        /\ \A x \in At(S, 2) : x \in Nat /\ x \in Ranks(S)
    BY <1>1, AtTypes
  <2>4. a >= b
    <3>1. CASE At(S, 3) = {}
      <4>1. a = Max(At(C, 2)) /\ b = Max(At(S, 2))
        BY <1>1, <2>1, <2>2, <3>1, FirstSecond
      <4> QED BY <1>1, <1>2, <2>2, <4>1, MaxGrows
    <3>2. CASE At(S, 3) # {}
      <4>1. a = Max(At(C, 3)) /\ b = Max(At(S, 3))
        BY <1>1, <2>1, <3>2, FirstSecond
      <4> QED BY <1>1, <1>2, <3>2, <4>1, MaxGrows
    <3> QED BY <3>1, <3>2
  <2>5. a = b => c >= d
    <3> HAVE a = b
    <3> DEFINE P == At(C, 2) \ {a}
               Q == At(S, 2) \ {b}
    <3>1. P \in RankSets /\ Q \in SUBSET P /\ Q # {}
      <4>1. P \in SUBSET At(C, 2)
        OBVIOUS
      <4>2. P \in RankSets
        BY <1>2, <4>1, RankSubsets
      <4> QED BY <1>1, <2>2, <4>2
    <3>2. Max(P) >= Max(Q)
      <4> HIDE DEF P, Q
      <4> QED BY <3>1, MaxGrows
    <3> QED BY <2>2, <3>2
  <2>6. a \in Nat /\ b \in Nat /\ c \in Nat /\ d \in Nat
    BY <2>2, <2>3
  <2>7. a > b \/ (a = b /\ c >= d)
    <3> HIDE DEF a, b, c, d
    <3> QED BY <2>4, <2>5, <2>6
  <2> QED BY <2>2, <2>3, <2>6, <2>7
<1>15. Goal(Tie(C, 7), Tie(S, 7)) \/ n # 7
  <2> SUFFICES ASSUME n = 7 PROVE Goal(Tie(C, 7), Tie(S, 7))
    OBVIOUS
  <2>1. a \in Nat /\ b \in Nat /\ c \in Nat /\ d \in Nat /\ (a > b \/ (a = b /\ c >= d))
    BY <1>14
  <2>2. Tie(C, 7) = <<a, c>> /\ Tie(S, 7) = <<b, d>>
    BY TieIs
  <2> HIDE DEF a, b, c, d
  <2>3. /\ <<a, c>> \in Seq(Nat) /\ <<b, d>> \in Seq(Nat)
        /\ Len(<<a, c>>) = 2 /\ Len(<<b, d>>) = 2
        /\ AtLeast(<<a, c>>, <<b, d>>)
    BY <2>1, TwoDecide
  <2>4. Goal(<<a, c>>, <<b, d>>)
    BY <2>3 DEF Goal
  <2> QED BY <2>2, <2>4
<1>16. Goal(Tie(C, 3), Tie(S, 3)) \/ n # 3
  <2> SUFFICES ASSUME n = 3 PROVE Goal(Tie(C, 3), Tie(S, 3))
    OBVIOUS
  <2>1. a \in Nat /\ b \in Nat /\ c \in Nat /\ d \in Nat /\ (a > b \/ (a = b /\ c >= d))
    BY <1>14
  <2> DEFINE P == Ranks(C) \ {a, c}
             Q == Ranks(S) \ {b, d}
             one == 1
             s == SubSeq(Falling(P), 1, one)
             t == SubSeq(Falling(Q), 1, one)
  <2>2. Tie(C, 3) = <<a, c>> \o s /\ Tie(S, 3) = <<b, d>> \o t
    BY TieIs DEF Kickers
  <2>3. Cardinality(Ranks(S)) = 3
    <3>1. At(S, 3) = {} /\ Second(S) # <<>>
      BY BestFacts
    <3> QED BY <1>1, <3>1, RanksOfFive
  <2>4. /\ Cardinality(Ranks(C)) \in Nat /\ Cardinality(Ranks(C)) >= 3
    BY <1>1, <1>2, <2>3, RankSubsets, RanksLeft
  <2>5. /\ P \in RankSets /\ Q \in RankSets /\ one \in Nat
        /\ one <= Cardinality(P) /\ one <= Cardinality(Q)
    <3>1. /\ P \in RankSets /\ Cardinality(P) \in Nat /\ Cardinality(P) >= Cardinality(Ranks(C)) - 2
      BY <1>2, RanksLeft
    <3>2. /\ Q \in RankSets /\ Cardinality(Q) \in Nat /\ Cardinality(Q) >= Cardinality(Ranks(S)) - 2
      BY <1>1, <1>2, RanksLeft
    <3> HIDE DEF P, Q
    <3> QED BY <2>3, <2>4, <3>1, <3>2
  <2>6. a = b /\ c = d => Q \in SUBSET P
    BY <1>1
  <2> HIDE DEF P, Q, one, a, b, c, d
  <2>7. s \in Seq(Nat) /\ t \in Seq(Nat) /\ Len(s) = one /\ Len(t) = one
    BY <2>5, FrontTypes
  <2>8. a = b /\ c = d => AtLeast(s, t)
    BY <2>5, <2>6, FrontGrows
  <2> HIDE DEF s, t
  <2>9. /\ <<a, c>> \o s = <<a>> \o (<<c>> \o s) /\ <<b, d>> \o t = <<b>> \o (<<d>> \o t)
        /\ <<c>> \o s \in Seq(Nat) /\ Len(<<c>> \o s) = Len(s) + 1
        /\ <<d>> \o t \in Seq(Nat) /\ Len(<<d>> \o t) = Len(t) + 1
        /\ <<a, c>> \o s \in Seq(Nat) /\ Len(<<a, c>> \o s) = Len(s) + 2
        /\ <<b, d>> \o t \in Seq(Nat) /\ Len(<<b, d>> \o t) = Len(t) + 2
    BY <2>1, <2>7, TwoInFront
  <2>10. a = b => AtLeast(<<c>> \o s, <<d>> \o t)
    BY <2>1, <2>7, <2>8, FirstDecides
  <2>11. AtLeast(<<a>> \o (<<c>> \o s), <<b>> \o (<<d>> \o t))
    BY <2>1, <2>7, <2>9, <2>10, FirstDecides
  <2> QED BY <2>2, <2>7, <2>9, <2>11 DEF Goal
<1>17. Goal(Tie(C, n), Tie(S, n))
  BY <1>7, <1>8, <1>9, <1>10, <1>11, <1>12, <1>13, <1>15, <1>16
<1> QED BY <1>17 DEF Goal

-----------------------------------------------------------------------------
(* evaluateFiveCards follows the rules *)

OneSuit(S) == Cardinality({c.suit : c \in S}) = 1

LEMMA FlushOf ==
  ASSUME NEW S \in SUBSET Deck, Cardinality(S) = 5
  PROVE  /\ OneSuit(S) <=> Suited(S) # {}
         /\ Suited(S) # {} => Suited(S) = {S} /\ Cardinality(Ranks(S)) = 5
<1> DEFINE T == {c.suit : c \in S}
<1>1. IsFiniteSet(S) /\ IsFiniteSet(T) /\ S # {}
  <2> DEFINE f == [c \in S |-> c.suit]
  <2>1. f \in Surjection(S, T)
    BY DEF Surjection
  <2>2. IsFiniteSet(S)
    BY CardsFinite
  <2>3. S # {}
    BY FS_EmptySet
  <2> HIDE DEF T, f
  <2> QED BY <2>1, <2>2, <2>3, FS_Surjection
<1>2. Cardinality(T) = 1 <=> \E s : T = {s}
  BY <1>1, FS_Singleton
<1>3. ASSUME NEW X \in Suited(S) PROVE X = S
  <2>1. X \in SUBSET S /\ Cardinality(X) >= 5
    BY SuitedTypes
  <2>2. Cardinality(X) <= Cardinality(S) /\ (Cardinality(S) = Cardinality(X) => S = X)
    BY <1>1, <2>1, FS_Subset
  <2>3. Cardinality(X) \in Nat
    BY <1>1, <2>1, FS_Subset, FS_CardinalityType
  <2> QED BY <2>1, <2>2, <2>3
<1>4. ASSUME NEW s, T = {s} PROVE S \in Suited(S)
  <2>1. S = {c \in S : c.suit = s} /\ s \in T
    BY <1>4
  <2>2. Cardinality(S) >= 5
    OBVIOUS
  <2>3. S \in {{c \in S : c.suit = t} : t \in {c.suit : c \in S}}
    BY <2>1
  <2> QED BY <2>2, <2>3 DEF Suited
<1>5. ASSUME Suited(S) # {}
      PROVE  Suited(S) = {S} /\ (\E s : T = {s}) /\ Cardinality(Ranks(S)) = 5
  <2>1. Suited(S) = {S} /\ S \in Suited(S)
    BY <1>3, <1>5
  <2>2. \A c, d \in S : c.suit = d.suit
    BY <2>1, SuitedTypes
  <2>3. PICK c \in S : TRUE
    BY <1>1
  <2>4. T = {c.suit}
    BY <2>2
  <2> QED BY <2>1, <2>2, <2>4, SuitRanks
<1>6. OneSuit(S) <=> Cardinality(T) = 1
  BY DEF OneSuit
<1> QED BY <1>2, <1>4, <1>5, <1>6

LEMMA TwoOf ==
  ASSUME NEW R \in RankSets, Cardinality(R) = 2
  PROVE  \E x, y \in Nat : x > y /\ R = {x, y} /\ Falling(R) = <<x, y>>
<1> DEFINE F == Falling(R)
           x == F[1]
           y == F[2]
<1>1. /\ \A i \in 1 .. 2 : F[i] \in R
      /\ \A i, j \in 1 .. 2 : i < j => F[i] > F[j]
      /\ \A r \in R : \E i \in 1 .. 2 : F[i] = r
  <2> DEFINE n == Cardinality(R)
  <2>1. /\ \A i \in 1 .. n : F[i] \in R
        /\ \A i, j \in 1 .. n : i < j => F[i] > F[j]
        /\ \A r \in R : \E i \in 1 .. n : F[i] = r
    BY FallingIs
  <2> QED BY <2>1
<1>2. x \in R /\ y \in R /\ x > y
  <2> HIDE DEF F
  <2> QED BY <1>1
<1>3. R = {x, y}
  <2> HIDE DEF F
  <2>1. \A r \in R : r = x \/ r = y
    BY <1>1
  <2> QED BY <1>2, <2>1
<1>4. x \in Nat /\ y \in Nat
  BY <1>2 DEF RankSets
<1> HIDE DEF x, y, F
<1>5. Falling({x, y}) = <<x, y>>
  BY <1>2, <1>4, FallingFew
<1> QED BY <1>2, <1>3, <1>4, <1>5

LEMMA FrontWhole ==
  ASSUME NEW R \in RankSets
  PROVE  SubSeq(Falling(R), 1, Cardinality(R)) = Falling(R)
<1> DEFINE F == Falling(R)
<1>1. F \in Seq(Nat) /\ Len(F) = Cardinality(R)
  BY FallingIs
<1> HIDE DEF F
<1>2. SubSeq(F, 1, Len(F)) = F
  <2> DEFINE n == Len(F)
  <2>1. SubSeq(F, 1, n) = [i \in 1 .. n |-> F[i]]
    BY <1>1
  <2>2. F \in [1 .. n -> Nat]
    BY <1>1
  <2> HIDE DEF n
  <2>3. F = [i \in 1 .. n |-> F[i]]
    BY ONLY <2>2
  <2> QED BY <2>1, <2>3 DEF n
<1> QED BY <1>1, <1>2 DEF F

\* The hand of the code, from what it looks at.
FiveName(high, flush, p, q) ==
  CASE flush /\ high # 0     -> "straight_flush"
    [] p = 4                 -> "four_of_a_kind"
    [] p = 3 /\ q = 2        -> "full_house"
    [] flush /\ high = 0     -> "flush"
    [] high # 0 /\ ~ flush   -> "straight"
    [] p = 3 /\ q = 1        -> "three_of_a_kind"
    [] p = 2 /\ q = 2        -> "two_pair"
    [] p = 2 /\ q = 1        -> "one_pair"
    [] OTHER                 -> "high_card"

LEMMA FiveNameIs ==
  /\ FiveName(0, FALSE, 4, 1) = Name(8)
  /\ FiveName(0, FALSE, 3, 2) = Name(7)
  /\ FiveName(0, FALSE, 3, 1) = Name(4)
  /\ FiveName(0, FALSE, 2, 2) = Name(3)
  /\ FiveName(0, FALSE, 2, 1) = Name(2)
  /\ FiveName(0, FALSE, 1, 1) = Name(1)
  /\ FiveName(0, TRUE, 1, 1) = Name(6)
  /\ \A high \in Nat : high # 0 => /\ FiveName(high, FALSE, 1, 1) = Name(5)
                                   /\ FiveName(high, TRUE, 1, 1) = Name(9)
BY DEF FiveName, Name

LEMMA FiveIs ==
  ASSUME NEW S, NEW high, StraightHigh(S) = high,
         NEW flush \in BOOLEAN, OneSuit(S) <=> flush,
         NEW groups, Groups(S) = groups,
         NEW p, Count(S, groups[1]) = p, NEW q, Count(S, groups[2]) = q
  PROVE  EvaluateFiveCards(S) = [name |-> FiveName(high, flush, p, q),
                                 tiebreaker |-> IF high # 0 THEN <<high>> ELSE groups]
BY DEF EvaluateFiveCards, FiveName, OneSuit

LEMMA SuitedFive ==
  ASSUME NEW S, NEW high, StraightHigh(S) = high, OneSuit(S),
         NEW groups, Groups(S) = groups,
         NEW p, Count(S, groups[1]) = p, NEW q, Count(S, groups[2]) = q
  PROVE  EvaluateFiveCards(S) = [name |-> FiveName(high, TRUE, p, q),
                                 tiebreaker |-> IF high # 0 THEN <<high>> ELSE groups]
BY FiveIs

LEMMA UnsuitedFive ==
  ASSUME NEW S, NEW high, StraightHigh(S) = high, ~ OneSuit(S),
         NEW groups, Groups(S) = groups,
         NEW p, Count(S, groups[1]) = p, NEW q, Count(S, groups[2]) = q
  PROVE  EvaluateFiveCards(S) = [name |-> FiveName(high, FALSE, p, q),
                                 tiebreaker |-> IF high # 0 THEN <<high>> ELSE groups]
BY FiveIs

LEMMA GroupsAre ==
  ASSUME NEW S
  PROVE  Groups(S) = Falling(Of(S, 4)) \o Falling(Of(S, 3)) \o Falling(Of(S, 2)) \o Falling(Of(S, 1))
BY DEF Groups, Of

LEMMA RunIs ==
  /\ Run(5) = {14, 5, 4, 3, 2}
  /\ \A h \in 6 .. 14 : Run(h) = h - 4 .. h
<1>1. Run(5) = {14, 5, 4, 3, 2}
  <2>1. \A r : r \in 5 - 4 .. 5 <=> r \in {1, 2, 3, 4, 5}
    OBVIOUS
  <2>2. ASSUME NEW x PROVE x \in Run(5) <=> x \in {14, 5, 4, 3, 2}
    <3>1. x \in Run(5) <=> \E r \in {1, 2, 3, 4, 5} : x = IF r = 1 THEN 14 ELSE r
      BY <2>1 DEF Run
    <3> QED BY <3>1
  <2> QED BY <2>2
<1>2. ASSUME NEW h \in 6 .. 14 PROVE Run(h) = h - 4 .. h
  <2>1. \A r \in h - 4 .. h : r # 1
    OBVIOUS
  <2> QED BY <2>1 DEF Run
<1> QED BY <1>1, <1>2

LEMMA MinIs ==
  ASSUME NEW R \in RankSets, R # {}
  PROVE  Min(R) \in R /\ \A r \in R : Min(R) <= r
<1>1. R \in SUBSET Nat
  BY DEF RankSets
<1>2. PICK i \in R : \A j \in R : i <= j
  BY <1>1, LeastExists
<1> QED BY <1>2 DEF Min

\* Five ranks are a straight if they are those up to some rank.
LEMMA FiveInARow ==
  ASSUME NEW R \in RankSets, R \subseteq 2 .. 14, Cardinality(R) = 5
  PROVE  /\ Max(R) - Min(R) = 4 => Max(R) \in 6 .. 14 /\ R = Max(R) - 4 .. Max(R)
         /\ \A h \in 6 .. 14 : R = h - 4 .. h => Max(R) = h /\ Max(R) - Min(R) = 4
<1> DEFINE m == Max(R)
           l == Min(R)
<1>0. R # {}
  <2>1. Cardinality({}) = 0
    BY FS_EmptySet
  <2> QED BY <2>1
<1>1. m \in R /\ l \in R /\ \A r \in R : r <= m /\ l <= r /\ r \in 2 .. 14
  BY <1>0, MaxIsFirst, MinIs
<1> HIDE DEF m, l
<1>2. ASSUME m - l = 4 PROVE m \in 6 .. 14 /\ R = m - 4 .. m
  <2>1. m \in 6 .. 14 /\ l = m - 4
    BY <1>1, <1>2
  <2>2. R \in SUBSET (l .. m)
    BY <1>1
  <2>3. IsFiniteSet(l .. m) /\ Cardinality(l .. m) = 5
    <3>1. l \in Int /\ m \in Int /\ ~ (l > m) /\ m - l + 1 = 5
      BY <2>1
    <3>2. IsFiniteSet(l .. m) /\ Cardinality(l .. m) = IF l > m THEN 0 ELSE m - l + 1
      BY ONLY <3>1, FS_Interval
    <3> QED BY <3>1, <3>2
  <2>4. R = l .. m
    BY <2>2, <2>3, FS_Subset
  <2> QED BY <2>1, <2>4
<1>3. ASSUME NEW h \in 6 .. 14, R = h - 4 .. h PROVE m = h /\ m - l = 4
  <2>1. h \in R /\ h - 4 \in R /\ \A r \in R : r \in Int /\ h - 4 <= r /\ r <= h
    BY <1>3
  <2>2. m >= h /\ m <= h /\ l <= h - 4 /\ l >= h - 4 /\ m \in Int /\ l \in Int
    BY <1>1, <2>1
  <2> QED BY <2>2
<1> QED BY <1>2, <1>3 DEF m, l

LEMMA MaxOfOne == \A a \in Nat : Max({a}) = a
<1> SUFFICES ASSUME NEW a \in Nat PROVE Max({a}) = a
  OBVIOUS
<1>1. {a} \in RankSets /\ {a} # {}
  BY FallingFew
<1> QED BY <1>1, MaxIsFirst

LEMMA HighOf ==
  ASSUME NEW S \in SUBSET Deck, Cardinality(S) = 5
  PROVE  /\ StraightHigh(S) = IF StraightsTo(S) = {} THEN 0 ELSE Max(StraightsTo(S))
         /\ StraightsTo(S) # {} => Max(StraightsTo(S)) \in 5 .. 14 /\ Cardinality(Ranks(S)) = 5
<1> DEFINE R == Ranks(S)
           m == Max(R)
           l == Min(R)
           T == StraightsTo(S)
<1>1. R \in RankSets /\ R \subseteq 2 .. 14 /\ Cardinality(R) \in Nat /\ Cardinality(R) <= 5
  <2> DEFINE f == [c \in S |-> c.rank]
  <2>1. f \in Surjection(S, R)
    BY DEF Surjection, Ranks
  <2>2. IsFiniteSet(S) /\ R \in RankSets /\ R \subseteq 2 .. 14 /\ Cardinality(R) \in Nat
    BY CardsFinite, OfTypes
  <2> HIDE DEF f, R
  <2>3. Cardinality(R) <= Cardinality(S)
    BY <2>1, <2>2, FS_Surjection
  <2> QED BY <2>2, <2>3
<1>2. /\ T \in RankSets /\ T \subseteq 5 .. 14 /\ (T # {} => Cardinality(R) >= 5)
      /\ \A h : h \in T <=> h \in 5 .. 14 /\ Run(h) \subseteq R
  BY StraightTypes
<1>3. StraightHigh(S) = IF Cardinality(R) < 5 THEN 0
                        ELSE IF m - l = 4 THEN m
                        ELSE IF R = {14, 5, 4, 3, 2} THEN 5 ELSE 0
  BY DEF StraightHigh
<1>4. T # {} => Max(T) \in 5 .. 14 /\ Cardinality(R) = 5
  <2> HAVE T # {}
  <2>1. Max(T) \in T
    BY <1>2, MaxIsFirst
  <2> HIDE DEF R
  <2> QED BY <1>1, <1>2, <2>1
<1>5. CASE Cardinality(R) < 5
  <2>1. T = {}
    <3> HIDE DEF R
    <3> QED BY <1>1, <1>2, <1>5
  <2> QED BY <1>3, <1>4, <1>5, <2>1
<1>6. CASE ~ (Cardinality(R) < 5)
  <2>1. Cardinality(R) = 5
    <3> HIDE DEF R
    <3> QED BY <1>1, <1>6
  <2>2. ASSUME NEW h \in T PROVE Run(h) = R /\ h \in 5 .. 14
    <3>1. Run(h) \in SUBSET R /\ Cardinality(Run(h)) = 5 /\ h \in 5 .. 14
      BY <1>2, RunTypes
    <3>2. IsFiniteSet(R)
      BY <1>1 DEF RankSets
    <3> HIDE DEF R
    <3> QED BY <2>1, <3>1, <3>2, FS_Subset
  <2>3. /\ m - l = 4 => m \in 6 .. 14 /\ R = m - 4 .. m
        /\ \A h \in 6 .. 14 : R = h - 4 .. h => m = h /\ m - l = 4
    BY <1>1, <2>1, FiveInARow
  <2> HIDE DEF R, T, m, l
  <2>4. CASE m - l = 4
    <3>1. m \in 6 .. 14 /\ R = m - 4 .. m
      BY <2>3, <2>4
    <3>2. m \in T
      BY <1>2, <3>1, RunIs
    <3>3. ASSUME NEW h \in T PROVE h = m
      <4>1. Run(h) = R /\ h \in 5 .. 14
        BY <2>2
      <4>2. CASE h = 5
        <5>1. R = {14, 5, 4, 3, 2}
          BY <4>1, <4>2, RunIs
        <5>2. 14 \in m - 4 .. m /\ 2 \in m - 4 .. m
          BY <3>1, <5>1
        <5>3. FALSE
          BY <3>1, <5>2
        <5> QED BY <5>3
      <4>3. CASE h # 5
        <5>1. h \in 6 .. 14
          BY <4>1, <4>3
        <5>2. R = h - 4 .. h
          BY <4>1, <5>1, RunIs
        <5> QED BY <2>3, <5>1, <5>2
      <4> QED BY <4>2, <4>3
    <3>4. T = {m}
      BY <3>2, <3>3
    <3>5. Max(T) = m
      <4>1. m \in Nat
        BY <3>1
      <4> QED BY <3>4, <4>1, MaxOfOne
    <3>6. StraightHigh(S) = m
      BY <1>3, <1>6, <2>4
    <3> QED BY <1>4, <3>4, <3>5, <3>6 DEF T, R
  <2>5. CASE m - l # 4 /\ R = {14, 5, 4, 3, 2}
    <3>1. 5 \in T
      <4>1. Run(5) = R /\ 5 \in 5 .. 14
        BY <2>5, RunIs
      <4> QED BY <1>2, <4>1
    <3>2. ASSUME NEW h \in T PROVE h = 5
      <4>1. h \in 6 .. 14 => FALSE
        <5> HAVE h \in 6 .. 14
        <5>1. R = h - 4 .. h
          BY <2>2, RunIs
        <5> QED BY <2>3, <2>5, <5>1
      <4>2. h \in 5 .. 14
        BY <2>2
      <4> QED BY <4>1, <4>2
    <3>3. T = {5}
      BY <3>1, <3>2
    <3>4. Max(T) = 5
      BY <3>3, MaxOfOne
    <3>5. StraightHigh(S) = 5
      BY <1>3, <1>6, <2>5
    <3> QED BY <1>4, <3>3, <3>4, <3>5 DEF T, R
  <2>6. CASE m - l # 4 /\ R # {14, 5, 4, 3, 2}
    <3>1. ASSUME NEW h \in T PROVE FALSE
      <4>1. Run(h) = R /\ h \in 5 .. 14
        BY <2>2
      <4>2. h # 5
        BY <2>6, <4>1, RunIs
      <4>3. h \in 6 .. 14
        BY <4>1, <4>2
      <4>4. R = h - 4 .. h
        BY <4>1, <4>3, RunIs
      <4> QED BY <2>3, <2>6, <4>3, <4>4
    <3>2. T = {}
      BY <3>1
    <3>3. StraightHigh(S) = 0
      BY <1>3, <1>6, <2>6
    <3> QED BY <3>2, <3>3 DEF T, R
  <2> QED BY <2>4, <2>5, <2>6 DEF T, R
<1> QED BY <1>5, <1>6

LEMMA FewRanks ==
  ASSUME NEW S \in SUBSET Deck, Cardinality(S) = 5, Cardinality(Ranks(S)) # 5
  PROVE  /\ Suited(S) = {} /\ StraightsTo(S) = {} /\ Flushes(S) = {} /\ StraightHigh(S) = 0
         /\ ~ OneSuit(S)
         /\ ~ Fits(S, 9) /\ ~ Fits(S, 6) /\ ~ Fits(S, 5)
<1>1. Suited(S) = {} /\ StraightsTo(S) = {}
  BY FlushOf, HighOf
<1>2. Flushes(S) = {}
  BY <1>1 DEF Flushes
<1>3. StraightHigh(S) = 0 /\ ~ OneSuit(S)
  BY <1>1, FlushOf, HighOf
<1> QED BY <1>1, <1>2, <1>3, FitsIs

LEMMA SameRow ==
  ASSUME NEW s \in Seq(Nat), NEW t \in Seq(Nat), Len(s) = Len(t),
         \A i \in 1 .. Len(s) : s[i] = t[i]
  PROVE  s = t
<1> DEFINE n == Len(s)
<1>1. s \in [1 .. n -> Nat] /\ t \in [1 .. n -> Nat]
  OBVIOUS
<1>2. \A i \in 1 .. n : s[i] = t[i]
  OBVIOUS
<1> HIDE DEF n
<1>3. s = [i \in 1 .. n |-> s[i]] /\ t = [i \in 1 .. n |-> t[i]]
  BY ONLY <1>1
<1>4. [i \in 1 .. n |-> s[i]] = [i \in 1 .. n |-> t[i]]
  BY ONLY <1>2
<1> QED BY <1>3, <1>4

LEMMA NothingAround ==
  ASSUME NEW s \in Seq(Nat)
  PROVE  <<>> \o s = s /\ s \o <<>> = s
<1> DEFINE none == <<>>
           x == none \o s
           y == s \o none
<1>0. none \in Seq(Nat) /\ Len(none) = 0
  OBVIOUS
<1> HIDE DEF none
<1>1. x \in Seq(Nat) /\ Len(x) = Len(s) /\ \A i \in 1 .. Len(x) : x[i] = s[i]
  BY <1>0
<1>2. y \in Seq(Nat) /\ Len(y) = Len(s) /\ \A i \in 1 .. Len(y) : y[i] = s[i]
  BY <1>0
<1> HIDE DEF x, y
<1>3. x = s /\ y = s
  BY <1>1, <1>2, SameRow
<1> QED BY <1>3 DEF x, y, none

LEMMA GroupsJoined ==
  ASSUME NEW s \in Seq(Nat), NEW t \in Seq(Nat)
  PROVE  /\ s \o <<>> \o <<>> \o t = s \o t
         /\ <<>> \o s \o t \o <<>> = s \o t
         /\ <<>> \o s \o <<>> \o t = s \o t
         /\ <<>> \o <<>> \o s \o t = s \o t
         /\ <<>> \o <<>> \o <<>> \o s = s
<1> DEFINE none == <<>>
<1>1. \A x \in Seq(Nat) : none \o x = x /\ x \o none = x
  BY NothingAround
<1>2. s \o t \in Seq(Nat) /\ none \in Seq(Nat)
  OBVIOUS
<1> HIDE DEF none
<1> DEFINE st == s \o t
<1>3. s \o none \o none \o t = st
  BY <1>1
<1>4. none \o s \o t = st /\ st \o none = st /\ none \o s \o none \o t = st
  BY <1>1, <1>2
<1>5. none \o none \o s \o t = st /\ none \o none \o none \o s = s
  BY <1>1, <1>2
<1> QED BY <1>3, <1>4, <1>5 DEF none

LEMMA FewJoined ==
  ASSUME NEW a \in Nat, NEW x \in Nat, NEW y \in Nat
  PROVE  /\ <<a>> \o <<x>> = <<a, x>> /\ <<a>> \o <<x, y>> = <<a, x, y>>
         /\ <<a, x>> \o <<y>> = <<a, x, y>>
<1>1. ASSUME NEW b \in Nat, NEW c \in Nat PROVE <<b>> \o <<c>> = <<b, c>>
  <2> DEFINE r == <<c>>
             z == <<b>> \o r
             w == <<b, c>>
  <2>1. r \in Seq(Nat) /\ Len(r) = 1 /\ r[1] = c
    OBVIOUS
  <2>2. w \in Seq(Nat) /\ Len(w) = 2 /\ w[1] = b /\ w[2] = c
    OBVIOUS
  <2> HIDE DEF r, w
  <2>3. /\ z \in Seq(Nat) /\ Len(z) = Len(r) + 1 /\ z[1] = b
        /\ \A k \in 2 .. Len(z) : z[k] = r[k - 1]
    BY <2>1, InFront
  <2> HIDE DEF z
  <2>4. ASSUME NEW k \in 1 .. Len(z) PROVE z[k] = w[k]
    <3>1. k = 1 \/ (k = 2 /\ k \in 2 .. Len(z) /\ k - 1 = 1)
      BY <2>1, <2>3
    <3> QED BY <2>1, <2>2, <2>3, <3>1
  <2>5. Len(z) = Len(w)
    BY <2>1, <2>2, <2>3
  <2>6. z = w
    BY <2>2, <2>3, <2>4, <2>5, SameRow
  <2> QED BY <2>6 DEF z, w, r
<1>2. <<a>> \o <<x, y>> = <<a, x, y>>
  <2> DEFINE r == <<x, y>>
             z == <<a>> \o r
             w == <<a, x, y>>
  <2>1. r \in Seq(Nat) /\ Len(r) = 2 /\ r[1] = x /\ r[2] = y
    OBVIOUS
  <2>2. w \in Seq(Nat) /\ Len(w) = 3 /\ w[1] = a /\ w[2] = x /\ w[3] = y
    OBVIOUS
  <2> HIDE DEF r, w
  <2>3. /\ z \in Seq(Nat) /\ Len(z) = Len(r) + 1 /\ z[1] = a
        /\ \A k \in 2 .. Len(z) : z[k] = r[k - 1]
    BY <2>1, InFront
  <2> HIDE DEF z
  <2>4. ASSUME NEW k \in 1 .. Len(z) PROVE z[k] = w[k]
    <3>1. \/ k = 1
          \/ k = 2 /\ k \in 2 .. Len(z) /\ k - 1 = 1
          \/ k = 3 /\ k \in 2 .. Len(z) /\ k - 1 = 2
      BY <2>1, <2>3
    <3> QED BY <2>1, <2>2, <2>3, <3>1
  <2>5. Len(z) = Len(w)
    BY <2>1, <2>2, <2>3
  <2>6. z = w
    BY <2>2, <2>3, <2>4, <2>5, SameRow
  <2> QED BY <2>6 DEF z, w, r
<1>3. <<a, x>> \o <<y>> = <<a, x, y>>
  <2> DEFINE v == <<y>>
  <2>1. v \in Seq(Nat)
    OBVIOUS
  <2>2. <<x>> \o v = <<x, y>>
    BY <1>1
  <2> HIDE DEF v
  <2>3. <<a, x>> \o v = <<a>> \o (<<x>> \o v)
    BY <2>1, TwoInFront
  <2> QED BY <1>2, <2>2, <2>3 DEF v
<1> QED BY <1>1, <1>2, <1>3

\* The groups of five cards, the largest first.
LEMMA OfGroups ==
  ASSUME NEW S \in SUBSET Deck
  PROVE  /\ \A n : Cardinality(Of(S, n)) = 0 => Of(S, n) = {}
         /\ \A n : Cardinality(Of(S, n)) = 1 => \E a \in Nat : Of(S, n) = {a}
         /\ \A n : \A r \in Of(S, n) : Count(S, r) = n /\ r \in Nat
         /\ \A i, j : i # j => Of(S, i) \cap Of(S, j) = {}
         /\ Ranks(S) = Of(S, 1) \cup Of(S, 2) \cup Of(S, 3) \cup Of(S, 4)
<1>1. \A n : \A r \in Of(S, n) : Count(S, r) = n /\ r \in Nat
  <2>1. \A r \in Ranks(S) : r \in Nat
    BY OfTypes DEF RankSets
  <2> QED BY <2>1 DEF Of
<1>2. \A i, j : i # j => Of(S, i) \cap Of(S, j) = {}
  BY DEF Of
<1>3. ASSUME NEW n, Cardinality(Of(S, n)) = 1 PROVE \E a \in Nat : Of(S, n) = {a}
  <2>1. PICK a : Of(S, n) = {a}
    BY <1>3, OfTypes, NoneOneMore
  <2>2. a \in Nat
    BY <1>1, <2>1
  <2> QED BY <2>1, <2>2
<1>4. \A n : Cardinality(Of(S, n)) = 0 => Of(S, n) = {}
  BY OfTypes, NoneOneMore
<1> QED BY <1>1, <1>2, <1>3, <1>4, GroupsAddUp

LEMMA RowsOfRanks ==
  \A x, y \in Nat : <<x>> \in Seq(Nat) /\ <<x, y>> \in Seq(Nat)
OBVIOUS

LEMMA FewGroups ==
  ASSUME NEW a \in Nat, NEW x \in Nat, NEW y \in Nat
  PROVE  /\ <<a>> \o <<>> \o <<>> \o <<x>> = <<a, x>>
         /\ <<>> \o <<a>> \o <<x>> \o <<>> = <<a, x>>
         /\ <<>> \o <<a>> \o <<>> \o <<x, y>> = <<a, x, y>>
         /\ <<>> \o <<>> \o <<a, x>> \o <<y>> = <<a, x, y>>
<1> DEFINE p == <<a>>
           q == <<x>>
           u == <<a, x>>
           v == <<y>>
           w == <<x, y>>
<1>1. /\ p \in Seq(Nat) /\ q \in Seq(Nat) /\ u \in Seq(Nat) /\ v \in Seq(Nat) /\ w \in Seq(Nat)
  BY RowsOfRanks
<1>2. p \o q = <<a, x>> /\ p \o w = <<a, x, y>> /\ u \o v = <<a, x, y>>
  BY FewJoined
<1> HIDE DEF p, q, u, v, w
<1>3. p \o <<>> \o <<>> \o q = p \o q
  BY <1>1, GroupsJoined
<1>4. <<>> \o p \o q \o <<>> = p \o q
  BY <1>1, GroupsJoined
<1>5. <<>> \o p \o <<>> \o w = p \o w
  BY <1>1, GroupsJoined
<1>6. <<>> \o <<>> \o u \o v = u \o v
  BY <1>1, GroupsJoined
<1> QED BY <1>2, <1>3, <1>4, <1>5, <1>6 DEF p, q, u, v, w

LEMMA KickersWhole ==
  ASSUME NEW S \in SUBSET Deck, NEW others, NEW R \in RankSets, Ranks(S) \ others = R,
         NEW n, Cardinality(R) = n
  PROVE  Kickers(S, others, n) = Falling(R)
BY FrontWhole DEF Kickers

LEMMA FourRule ==
  ASSUME NEW S \in SUBSET Deck, Cardinality(S) = 5, Sized(S, 1, 0, 0, 1)
  PROVE  EvaluateFiveCards(S) = RuleHand(S)
<1>1. Of(S, 3) = {} /\ Of(S, 2) = {} /\ Cardinality(Of(S, 4)) = 1 /\ Cardinality(Of(S, 1)) = 1
  BY OfGroups DEF Sized
<1>2. PICK a \in Nat : Of(S, 4) = {a}
  BY <1>1, OfGroups
<1>3. PICK k \in Nat : Of(S, 1) = {k}
  BY <1>1, OfGroups
<1>4. Count(S, a) = 4 /\ Count(S, k) = 1
  BY <1>2, <1>3, OfGroups
<1>5. a # k
  BY <1>4
<1>6. Ranks(S) = {a, k} /\ Ranks(S) \ {a} = {k}
  BY <1>1, <1>2, <1>3, <1>5, OfGroups
<1>7. At(S, 4) = {a}
  BY <1>2, AtOf
<1>8. Cardinality(Ranks(S)) = 2
  BY <1>7, RanksOfFive
<1>9. /\ StraightHigh(S) = 0 /\ ~ OneSuit(S) /\ ~ Fits(S, 9)
  BY <1>8, FewRanks
<1> DEFINE g == <<a, k>>
<1>10. Groups(S) = g
  <2>1. Groups(S) = <<a>> \o <<>> \o <<>> \o <<k>>
    BY <1>1, <1>2, <1>3, GroupsAre, FallingFew
  <2>2. <<a>> \o <<>> \o <<>> \o <<k>> = g
    BY FewGroups
  <2> QED BY <2>1, <2>2
<1>11. g[1] = a /\ g[2] = k
  OBVIOUS
<1> HIDE DEF g
<1>12. EvaluateFiveCards(S) = [name |-> FiveName(0, FALSE, 4, 1), tiebreaker |-> g]
  BY <1>4, <1>9, <1>10, <1>11, UnsuitedFive
<1>13. Tie(S, 8) = g
  <2>1. Tie(S, 8) = <<Max(At(S, 4))>> \o Kickers(S, {Max(At(S, 4))}, 1)
    BY TieIs
  <2>2. Max(At(S, 4)) = a
    BY <1>7, MaxOfOne
  <2>3. Kickers(S, {a}, 1) = <<k>>
    <3>1. {k} \in RankSets /\ Cardinality({k}) = 1 /\ Falling({k}) = <<k>>
      BY FallingFew, FS_Singleton
    <3> QED BY <1>6, <3>1, KickersWhole
  <2>4. <<a>> \o <<k>> = <<a, k>>
    BY FewJoined
  <2> QED BY <2>1, <2>2, <2>3, <2>4 DEF g
<1>14. RuleHand(S) = Worth(S, 8)
  <2>1. Fits(S, 8)
    BY <1>7, FitsIs
  <2> QED BY <1>9, <2>1, RuleIs
<1> QED BY <1>12, <1>13, <1>14, FiveNameIs DEF Worth

LEMMA FullRule ==
  ASSUME NEW S \in SUBSET Deck, Cardinality(S) = 5, Sized(S, 0, 1, 1, 0)
  PROVE  EvaluateFiveCards(S) = RuleHand(S)
<1>1. Of(S, 4) = {} /\ Of(S, 1) = {} /\ Cardinality(Of(S, 3)) = 1 /\ Cardinality(Of(S, 2)) = 1
  BY OfGroups DEF Sized
<1>2. PICK a \in Nat : Of(S, 3) = {a}
  BY <1>1, OfGroups
<1>3. PICK b \in Nat : Of(S, 2) = {b}
  BY <1>1, OfGroups
<1>4. Count(S, a) = 3 /\ Count(S, b) = 2
  BY <1>2, <1>3, OfGroups
<1>5. a # b
  BY <1>4
<1>6. At(S, 4) = {} /\ At(S, 3) = {a} /\ At(S, 2) = {a, b}
  BY <1>1, <1>2, <1>3, AtOf
<1>7. Cardinality(Ranks(S)) = 2
  <2>1. Cardinality(Ranks(S)) = 0 + 1 + 1 + 0
    BY GroupsAddUp DEF Sized
  <2> QED BY <2>1
<1>8. /\ StraightHigh(S) = 0 /\ ~ OneSuit(S) /\ ~ Fits(S, 9)
  <2>1. Cardinality(Ranks(S)) # 5
    BY <1>7
  <2> QED BY <2>1, FewRanks
<1> DEFINE g == <<a, b>>
<1>9. Groups(S) = g
  <2>1. Groups(S) = <<>> \o <<a>> \o <<b>> \o <<>>
    BY <1>1, <1>2, <1>3, GroupsAre, FallingFew
  <2>2. <<>> \o <<a>> \o <<b>> \o <<>> = g
    BY FewGroups
  <2> QED BY <2>1, <2>2
<1>10. g[1] = a /\ g[2] = b
  OBVIOUS
<1> HIDE DEF g
<1>11. EvaluateFiveCards(S) = [name |-> FiveName(0, FALSE, 3, 2), tiebreaker |-> g]
  BY <1>4, <1>8, <1>9, <1>10, UnsuitedFive
<1>12. First(S) = a /\ Second(S) = <<b>>
  <2>1. First(S) = a
    BY <1>6, FirstSecond, MaxOfOne
  <2>2. At(S, 2) \ {a} = {b}
    BY <1>5, <1>6
  <2> QED BY <2>1, <2>2, FallingFew DEF Second
<1>13. Tie(S, 7) = g
  <2>1. <<b>>[1] = b
    OBVIOUS
  <2>2. Tie(S, 7) = <<First(S), Second(S)[1]>>
    BY TieIs
  <2> QED BY <1>12, <2>1, <2>2 DEF g
<1>14. RuleHand(S) = Worth(S, 7)
  <2>1. <<b>> # <<>>
    OBVIOUS
  <2>2. ~ Fits(S, 8) /\ Fits(S, 7)
    BY <1>6, <1>12, <2>1, FitsIs
  <2> QED BY <1>8, <2>2, RuleIs
<1> QED BY <1>11, <1>13, <1>14, FiveNameIs DEF Worth

LEMMA ThreeRule ==
  ASSUME NEW S \in SUBSET Deck, Cardinality(S) = 5, Sized(S, 0, 1, 0, 2)
  PROVE  EvaluateFiveCards(S) = RuleHand(S)
<1>1. Of(S, 4) = {} /\ Of(S, 2) = {} /\ Cardinality(Of(S, 3)) = 1 /\ Cardinality(Of(S, 1)) = 2
  BY OfGroups DEF Sized
<1>2. PICK a \in Nat : Of(S, 3) = {a}
  BY <1>1, OfGroups
<1>3. PICK x \in Nat, y \in Nat : x > y /\ Of(S, 1) = {x, y} /\ Falling(Of(S, 1)) = <<x, y>>
  BY <1>1, OfTypes, TwoOf
<1>4. Count(S, a) = 3 /\ Count(S, x) = 1 /\ Count(S, y) = 1
  BY <1>2, <1>3, OfGroups
<1>5. a # x /\ a # y
  BY <1>4
<1>6. At(S, 4) = {} /\ At(S, 3) = {a} /\ At(S, 2) = {a}
  BY <1>1, <1>2, AtOf
<1>7. Cardinality(Ranks(S)) = 3
  <2>1. Cardinality(Ranks(S)) = 2 + 0 + 1 + 0
    BY GroupsAddUp DEF Sized
  <2> QED BY <2>1
<1>8. /\ StraightHigh(S) = 0 /\ ~ OneSuit(S)
      /\ ~ Fits(S, 9) /\ ~ Fits(S, 6) /\ ~ Fits(S, 5)
  BY <1>7, FewRanks
<1> DEFINE g == <<a, x, y>>
<1>9. Groups(S) = g
  <2>1. Groups(S) = <<>> \o <<a>> \o <<>> \o <<x, y>>
    BY <1>1, <1>2, <1>3, GroupsAre, FallingFew
  <2>2. <<>> \o <<a>> \o <<>> \o <<x, y>> = g
    BY FewGroups
  <2> QED BY <2>1, <2>2
<1>10. g[1] = a /\ g[2] = x
  OBVIOUS
<1> HIDE DEF g
<1>11. EvaluateFiveCards(S) = [name |-> FiveName(0, FALSE, 3, 1), tiebreaker |-> g]
  BY <1>4, <1>8, <1>9, <1>10, UnsuitedFive
<1>12. First(S) = a /\ Second(S) = <<>>
  <2>1. First(S) = a
    BY <1>6, FirstSecond, MaxOfOne
  <2>2. At(S, 2) \ {a} = {}
    BY <1>6
  <2> QED BY <2>1, <2>2, FallingFew DEF Second
<1>13. Tie(S, 4) = g
  <2>1. Ranks(S) \ {a} = Of(S, 1)
    BY <1>1, <1>2, <1>3, <1>5, OfGroups
  <2>2. Kickers(S, {a}, 2) = <<x, y>>
    <3> DEFINE R == Of(S, 1)
    <3>1. R \in RankSets /\ Cardinality(R) = 2 /\ Ranks(S) \ {a} = R /\ Falling(R) = <<x, y>>
      BY <1>1, <1>3, <2>1, OfTypes
    <3> HIDE DEF R
    <3> QED BY <3>1, KickersWhole
  <2>3. <<a>> \o <<x, y>> = <<a, x, y>>
    BY FewJoined
  <2>4. Tie(S, 4) = <<a>> \o Kickers(S, {a}, 2)
    BY <1>12, TieIs
  <2> QED BY <2>2, <2>3, <2>4 DEF g
<1>14. RuleHand(S) = Worth(S, 4)
  <2>1. ~ Fits(S, 8) /\ ~ Fits(S, 7) /\ Fits(S, 4)
    BY <1>6, <1>12, FitsIs
  <2> QED BY <1>8, <2>1, RuleIs
<1> QED BY <1>11, <1>13, <1>14, FiveNameIs DEF Worth

LEMMA PairsRule ==
  ASSUME NEW S \in SUBSET Deck, Cardinality(S) = 5, Sized(S, 0, 0, 2, 1)
  PROVE  EvaluateFiveCards(S) = RuleHand(S)
<1>1. Of(S, 4) = {} /\ Of(S, 3) = {} /\ Cardinality(Of(S, 2)) = 2 /\ Cardinality(Of(S, 1)) = 1
  BY OfGroups DEF Sized
<1>2. PICK k \in Nat : Of(S, 1) = {k}
  BY <1>1, OfGroups
<1>3. PICK x \in Nat, y \in Nat : x > y /\ Of(S, 2) = {x, y} /\ Falling(Of(S, 2)) = <<x, y>>
  BY <1>1, OfTypes, TwoOf
<1>4. Count(S, k) = 1 /\ Count(S, x) = 2 /\ Count(S, y) = 2
  BY <1>2, <1>3, OfGroups
<1>5. k # x /\ k # y /\ x # y
  BY <1>3, <1>4
<1>6. At(S, 4) = {} /\ At(S, 3) = {} /\ At(S, 2) = {x, y}
  BY <1>1, <1>3, AtOf
<1>7. Cardinality(Ranks(S)) = 3
  <2>1. Cardinality(Ranks(S)) = 1 + 2 + 0 + 0
    BY GroupsAddUp DEF Sized
  <2> QED BY <2>1
<1>8. /\ StraightHigh(S) = 0 /\ ~ OneSuit(S)
      /\ ~ Fits(S, 9) /\ ~ Fits(S, 6) /\ ~ Fits(S, 5)
  BY <1>7, FewRanks
<1> DEFINE g == <<x, y, k>>
<1>9. Groups(S) = g
  <2>1. Groups(S) = <<>> \o <<>> \o <<x, y>> \o <<k>>
    BY <1>1, <1>2, <1>3, GroupsAre, FallingFew
  <2>2. <<>> \o <<>> \o <<x, y>> \o <<k>> = g
    BY FewGroups
  <2> QED BY <2>1, <2>2
<1>10. g[1] = x /\ g[2] = y
  OBVIOUS
<1> HIDE DEF g
<1>11. EvaluateFiveCards(S) = [name |-> FiveName(0, FALSE, 2, 2), tiebreaker |-> g]
  <2>1. Count(S, g[1]) = 2 /\ Count(S, g[2]) = 2
    BY <1>4, <1>10
  <2> QED BY <1>8, <1>9, <2>1, UnsuitedFive
<1>12. First(S) = x /\ Second(S) = <<y>>
  <2>1. Max({x, y}) = x
    <3> DEFINE R == {x, y}
    <3>1. R \in RankSets /\ Falling(R) = <<x, y>> /\ R # {}
      BY <1>3, FallingFew
    <3>2. Max(R) = <<x, y>>[1]
      <4> HIDE DEF R
      <4> QED BY <3>1, MaxIsFirst
    <3> QED BY <3>2
  <2>2. First(S) = x
    BY <1>6, <2>1, FirstSecond
  <2>3. At(S, 2) \ {x} = {y}
    BY <1>5, <1>6
  <2> QED BY <2>2, <2>3, FallingFew DEF Second
<1>13. Tie(S, 3) = g
  <2>1. <<y>>[1] = y
    OBVIOUS
  <2>2. Tie(S, 3) = <<x, y>> \o Kickers(S, {x, y}, 1)
    <3>1. Tie(S, 3) = <<First(S), Second(S)[1]>> \o Kickers(S, {First(S), Second(S)[1]}, 1)
      BY TieIs
    <3> QED BY <1>12, <2>1, <3>1
  <2>3. Ranks(S) \ {x, y} = {k}
    BY <1>1, <1>2, <1>3, <1>5, OfGroups
  <2>4. Kickers(S, {x, y}, 1) = <<k>>
    <3>1. {k} \in RankSets /\ Cardinality({k}) = 1 /\ Falling({k}) = <<k>>
      BY FallingFew, FS_Singleton
    <3> QED BY <2>3, <3>1, KickersWhole
  <2>5. <<x, y>> \o <<k>> = <<x, y, k>>
    BY FewJoined
  <2> QED BY <2>2, <2>4, <2>5 DEF g
<1>14. RuleHand(S) = Worth(S, 3)
  <2>1. <<y>> # <<>>
    OBVIOUS
  <2>2. ~ Fits(S, 8) /\ ~ Fits(S, 7) /\ ~ Fits(S, 4) /\ Fits(S, 3)
    BY <1>6, <1>12, <2>1, FitsIs
  <2> QED BY <1>8, <2>2, RuleIs
<1> QED BY <1>11, <1>13, <1>14, FiveNameIs DEF Worth

LEMMA PairRule ==
  ASSUME NEW S \in SUBSET Deck, Cardinality(S) = 5, Sized(S, 0, 0, 1, 3)
  PROVE  EvaluateFiveCards(S) = RuleHand(S)
<1> DEFINE R == Of(S, 1)
           F == Falling(R)
<1>1. Of(S, 4) = {} /\ Of(S, 3) = {} /\ Cardinality(Of(S, 2)) = 1 /\ Cardinality(R) = 3
  BY OfGroups DEF Sized
<1>2. PICK a \in Nat : Of(S, 2) = {a}
  BY <1>1, OfGroups
<1>3. R \in RankSets
  BY OfTypes
<1>4. F \in Seq(Nat) /\ Len(F) = 3 /\ F[1] \in R
  <2> HIDE DEF R
  <2>1. F \in Seq(Nat) /\ Len(F) = 3 /\ \A i \in 1 .. 3 : F[i] \in R
    BY <1>1, <1>3, FallingIs
  <2> QED BY <2>1
<1>5. Count(S, a) = 2 /\ Count(S, F[1]) = 1 /\ a \notin R
  <2>1. Of(S, 1) \cap Of(S, 2) = {}
    BY OfGroups
  <2>2. Count(S, a) = 2
    BY <1>2, OfGroups
  <2> HIDE DEF F
  <2>3. Count(S, F[1]) = 1
    BY <1>4, OfGroups
  <2> QED BY <1>2, <2>1, <2>2, <2>3
<1>6. At(S, 4) = {} /\ At(S, 3) = {} /\ At(S, 2) = {a}
  BY <1>1, <1>2, AtOf
<1>7. Cardinality(Ranks(S)) = 4
  <2>1. Cardinality(Ranks(S)) = 3 + 1 + 0 + 0
    BY GroupsAddUp DEF Sized
  <2> QED BY <2>1
<1>8. /\ StraightHigh(S) = 0 /\ ~ OneSuit(S)
      /\ ~ Fits(S, 9) /\ ~ Fits(S, 6) /\ ~ Fits(S, 5)
  <2>1. Cardinality(Ranks(S)) # 5
    BY <1>7
  <2> QED BY <2>1, FewRanks
<1>9. Ranks(S) \ {a} = R
  BY <1>1, <1>2, <1>5, OfGroups
<1> DEFINE g == <<a>> \o F
<1>10. Groups(S) = g
  <2>1. Groups(S) = <<>> \o <<>> \o <<a>> \o F
    BY <1>1, <1>2, GroupsAre, FallingFew
  <2>2. <<a>> \in Seq(Nat)
    BY RowsOfRanks
  <2> HIDE DEF F
  <2>3. <<>> \o <<>> \o <<a>> \o F = <<a>> \o F
    BY <1>4, <2>2, GroupsJoined
  <2> QED BY <2>1, <2>3
<1>11. g[1] = a /\ g[2] = F[1]
  <2> HIDE DEF F
  <2>1. /\ Len(g) = Len(F) + 1 /\ g[1] = a
        /\ \A i \in 2 .. Len(g) : g[i] = F[i - 1]
    BY <1>4, InFront
  <2> HIDE DEF g
  <2>2. 2 \in 2 .. Len(g) /\ 2 - 1 = 1
    BY <1>4, <2>1
  <2> QED BY <2>1, <2>2
<1>12. EvaluateFiveCards(S) = [name |-> FiveName(0, FALSE, 2, 1), tiebreaker |-> g]
  <2> HIDE DEF g, F, R
  <2> QED BY <1>5, <1>8, <1>10, <1>11, UnsuitedFive
<1>13. First(S) = a /\ Second(S) = <<>>
  <2>1. First(S) = a
    BY <1>6, FirstSecond, MaxOfOne
  <2>2. At(S, 2) \ {a} = {}
    BY <1>6
  <2> QED BY <2>1, <2>2, FallingFew DEF Second
<1>14. Tie(S, 2) = g
  <2>1. Kickers(S, {a}, 3) = F
    <3> HIDE DEF R
    <3> QED BY <1>1, <1>3, <1>9, KickersWhole
  <2>2. Tie(S, 2) = <<a>> \o Kickers(S, {a}, 3)
    BY <1>13, TieIs
  <2> QED BY <2>1, <2>2
<1>15. RuleHand(S) = Worth(S, 2)
  <2>1. a \in Ranks(S) /\ a # 0
    <3>1. a \in Ranks(S)
      BY <1>2, OfGroups
    <3>2. a \in 2 .. 14
      BY <3>1, AtTypes
    <3> QED BY <3>1, <3>2
  <2>2. ~ Fits(S, 8) /\ ~ Fits(S, 7) /\ ~ Fits(S, 4) /\ ~ Fits(S, 3) /\ Fits(S, 2)
    BY <1>6, <1>13, <2>1, FitsIs
  <2> QED BY <1>8, <2>2, RuleIs
<1> HIDE DEF g
<1> QED BY <1>12, <1>14, <1>15, FiveNameIs DEF Worth

LEMMA NoGroupsRule ==
  ASSUME NEW S \in SUBSET Deck, Cardinality(S) = 5, Sized(S, 0, 0, 0, 5)
  PROVE  EvaluateFiveCards(S) = RuleHand(S)
<1> DEFINE R == Ranks(S)
           F == Falling(R)
           T == StraightsTo(S)
<1>1. Of(S, 4) = {} /\ Of(S, 3) = {} /\ Of(S, 2) = {} /\ Of(S, 1) = R
  <2>1. Of(S, 4) = {} /\ Of(S, 3) = {} /\ Of(S, 2) = {}
    BY OfGroups DEF Sized
  <2> QED BY <2>1, OfGroups
<1>2. R \in RankSets /\ Cardinality(R) = 5
  BY <1>1, OfTypes DEF Sized
<1>3. F \in Seq(Nat) /\ Len(F) = 5 /\ F[1] \in R /\ F[2] \in R
  <2> HIDE DEF R
  <2>1. F \in Seq(Nat) /\ Len(F) = 5 /\ \A i \in 1 .. 5 : F[i] \in R
    BY <1>2, FallingIs
  <2> QED BY <2>1
<1>4. Count(S, F[1]) = 1 /\ Count(S, F[2]) = 1
  BY <1>1, <1>3, OfGroups
<1>5. At(S, 4) = {} /\ At(S, 3) = {} /\ At(S, 2) = {}
  BY <1>1, AtOf
<1>6. Groups(S) = F
  <2>1. Groups(S) = <<>> \o <<>> \o <<>> \o F
    BY <1>1, GroupsAre, FallingFew
  <2> HIDE DEF F
  <2> QED BY <1>3, <2>1, GroupsJoined
<1>7. First(S) = 0 /\ Second(S) = <<>>
  <2>1. First(S) = 0
    BY <1>5, FirstSecond
  <2>2. At(S, 2) \ {0} = {}
    BY <1>5
  <2> QED BY <2>1, <2>2, FallingFew DEF Second
<1>8. ~ Fits(S, 8) /\ ~ Fits(S, 7) /\ ~ Fits(S, 4) /\ ~ Fits(S, 3) /\ ~ Fits(S, 2)
  BY <1>5, <1>7, FitsIs
<1>9. Kickers(S, {}, 5) = F
  <2>1. R \ {} = R
    OBVIOUS
  <2> HIDE DEF R
  <2>2. Ranks(S) \ {} = R
    BY <2>1 DEF R
  <2> QED BY <1>2, <2>2, KickersWhole
<1> DEFINE high  == StraightHigh(S)
           flush == OneSuit(S)
<1>10. /\ high = IF T = {} THEN 0 ELSE Max(T)
       /\ T # {} => Max(T) \in 5 .. 14
  BY HighOf
<1>11. flush <=> Suited(S) # {}
  BY FlushOf
<1>12. Suited(S) # {} => Suited(S) = {S} /\ Flushes(S) = T /\ UNION Suited(S) = S
  BY FlushOf DEF Flushes
<1>13. Suited(S) = {} => Flushes(S) = {}
  BY DEF Flushes
<1> HIDE DEF F, R
<1>14. CASE flush /\ T # {}
  <2>1. EvaluateFiveCards(S) = [name |-> FiveName(high, TRUE, 1, 1), tiebreaker |-> <<high>>]
    <3>1. high # 0
      <4> HIDE DEF high, T
      <4> QED BY <1>10, <1>14
    <3> HIDE DEF high
    <3>2. StraightHigh(S) = high
      BY DEF high
    <3> QED BY <1>4, <1>6, <1>14, <3>1, <3>2, SuitedFive
  <2>2. high \in Nat /\ high # 0 /\ high = Max(Flushes(S)) /\ Flushes(S) # {}
    <3> HIDE DEF high, T, flush
    <3> QED BY <1>10, <1>11, <1>12, <1>14
  <2>3. RuleHand(S) = Worth(S, 9)
    BY <2>2, FitsIs, RuleIs
  <2>4. Tie(S, 9) = <<high>>
    <3> HIDE DEF high
    <3> QED BY <2>2, TieIs
  <2> HIDE DEF high
  <2> QED BY <2>1, <2>2, <2>3, <2>4, FiveNameIs DEF Worth
<1>15. CASE ~ flush /\ T # {}
  <2>1. EvaluateFiveCards(S) = [name |-> FiveName(high, FALSE, 1, 1), tiebreaker |-> <<high>>]
    <3>1. high # 0
      <4> HIDE DEF high, T
      <4> QED BY <1>10, <1>15
    <3> HIDE DEF high
    <3>2. StraightHigh(S) = high
      BY DEF high
    <3> QED BY <1>4, <1>6, <1>15, <3>1, <3>2, UnsuitedFive
  <2>2. high \in Nat /\ high # 0 /\ high = Max(T) /\ Flushes(S) = {} /\ Suited(S) = {}
    <3> HIDE DEF high, T, flush
    <3> QED BY <1>10, <1>11, <1>13, <1>15
  <2>3. RuleHand(S) = Worth(S, 5)
    <3>1. ~ Fits(S, 9) /\ ~ Fits(S, 6) /\ Fits(S, 5)
      BY <1>15, <2>2, FitsIs
    <3> QED BY <1>8, <3>1, RuleIs
  <2>4. Tie(S, 5) = <<high>>
    <3> HIDE DEF high
    <3> QED BY <2>2, TieIs
  <2> HIDE DEF high
  <2> QED BY <2>1, <2>2, <2>3, <2>4, FiveNameIs DEF Worth
<1>16. CASE flush /\ T = {}
  <2>1. high = 0
    BY <1>10, <1>16
  <2>2. EvaluateFiveCards(S) = [name |-> FiveName(0, TRUE, 1, 1), tiebreaker |-> F]
    BY <1>4, <1>6, <1>16, <2>1, SuitedFive
  <2>3. Flushes(S) = {} /\ Suited(S) # {} /\ UNION Suited(S) = S
    BY <1>11, <1>12, <1>16
  <2>4. RuleHand(S) = Worth(S, 6)
    <3>1. ~ Fits(S, 9) /\ Fits(S, 6)
      BY <2>3, FitsIs
    <3> QED BY <1>8, <3>1, RuleIs
  <2>5. Tie(S, 6) = F
    BY <1>9, <2>3, TieIs
  <2> QED BY <2>2, <2>4, <2>5, FiveNameIs DEF Worth
<1>17. CASE ~ flush /\ T = {}
  <2>1. high = 0
    BY <1>10, <1>17
  <2>2. EvaluateFiveCards(S) = [name |-> FiveName(0, FALSE, 1, 1), tiebreaker |-> F]
    BY <1>4, <1>6, <1>17, <2>1, UnsuitedFive
  <2>3. Flushes(S) = {} /\ Suited(S) = {}
    BY <1>11, <1>13, <1>17
  <2>4. RuleHand(S) = Worth(S, 1)
    <3>1. ~ Fits(S, 9) /\ ~ Fits(S, 6) /\ ~ Fits(S, 5)
      BY <1>17, <2>3, FitsIs
    <3> QED BY <1>8, <3>1, RuleIs
  <2>5. Tie(S, 1) = F
    BY <1>9, TieIs
  <2> QED BY <2>2, <2>4, <2>5, FiveNameIs DEF Worth
<1> QED BY <1>14, <1>15, <1>16, <1>17

LEMMA FiveRule ==
  ASSUME NEW S \in SUBSET Deck, Cardinality(S) = 5
  PROVE  EvaluateFiveCards(S) = RuleHand(S)
BY FiveAreSized, FourRule, FullRule, ThreeRule, PairsRule, PairRule, NoGroupsRule

-----------------------------------------------------------------------------
(* Beating is a strict order *)

LEMMA HigherIsStrict ==
  ASSUME NEW s \in Seq(Nat), NEW t \in Seq(Nat), Higher(s, t)
  PROVE  ~ Higher(t, s) /\ s # t
<1>1. PICK i \in DOMAIN s : s[i] > t[i] /\ \A j \in 1 .. i - 1 : s[j] = t[j]
  BY DEF Higher
<1>2. i \in 1 .. Len(s) /\ s[i] \in Nat
  OBVIOUS
<1>3. ASSUME NEW x \in Nat PROVE ~ (x > x)
  OBVIOUS
<1>4. s # t
  BY <1>1, <1>2, <1>3
<1>5. ASSUME NEW k \in DOMAIN t, t[k] > s[k], \A j \in 1 .. k - 1 : t[j] = s[j] PROVE FALSE
  <2>1. k \in 1 .. Len(t) /\ t[k] \in Nat
    OBVIOUS
  <2>2. k \in Nat /\ i \in Nat /\ k >= 1 /\ i >= 1
    BY <1>2, <2>1
  <2>3. CASE k < i
    <3>1. k \in 1 .. i - 1
      BY <2>2, <2>3
    <3>2. s[k] = t[k]
      BY <1>1, <3>1
    <3> QED BY <1>3, <1>5, <2>1, <3>2
  <2>4. CASE i < k
    <3>1. i \in 1 .. k - 1
      BY <2>2, <2>4
    <3>2. t[i] = s[i]
      BY <1>5, <3>1
    <3> QED BY <1>1, <1>2, <1>3, <3>2
  <2>5. CASE i = k
    <3>1. s[i] > t[i] /\ t[i] > s[i] /\ s[i] \in Nat /\ t[i] \in Nat
      BY <1>1, <1>2, <1>5, <2>1, <2>5
    <3> QED BY <3>1
  <2> QED BY <2>2, <2>3, <2>4, <2>5
<1>6. ~ Higher(t, s)
  BY <1>5 DEF Higher
<1> QED BY <1>4, <1>6

LEMMA NamesApart ==
  /\ \A n \in 1 .. 9 : HandRank[Name(n)] = n
  /\ \A m, n \in 1 .. 9 : Name(m) = Name(n) => m = n
<1>1. ASSUME NEW n \in 1 .. 9 PROVE HandRank[Name(n)] = n
  <2>1. \/ n = 1 \/ n = 2 \/ n = 3 \/ n = 4 \/ n = 5 \/ n = 6 \/ n = 7 \/ n = 8 \/ n = 9
    OBVIOUS
  <2> QED BY <2>1 DEF HandRank, Name
<1>2. ASSUME NEW m \in 1 .. 9, NEW n \in 1 .. 9, Name(m) = Name(n) PROVE m = n
  <2>1. HandRank[Name(m)] = HandRank[Name(n)]
    BY <1>2
  <2> QED BY <1>1, <2>1
<1> QED BY <1>1, <1>2

LEMMA BeatsIs ==
  ASSUME NEW C, NEW S, NEW m \in 1 .. 9, NEW n \in 1 .. 9
  PROVE  Beats(Worth(C, m), Worth(S, n)) <=> m > n \/ (m = n /\ Higher(Tie(C, m), Tie(S, n)))
<1> DEFINE a == Worth(C, m)
           b == Worth(S, n)
<1>1. a.name = Name(m) /\ a.tiebreaker = Tie(C, m) /\ b.name = Name(n) /\ b.tiebreaker = Tie(S, n)
  BY DEF Worth
<1> HIDE DEF a, b
<1>2. Beats(a, b) <=> \/ HandRank[a.name] > HandRank[b.name]
                      \/ a.name = b.name /\ Higher(a.tiebreaker, b.tiebreaker)
  BY DEF Beats, Higher
<1>3. HandRank[a.name] = m /\ HandRank[b.name] = n /\ (a.name = b.name <=> m = n)
  BY <1>1, NamesApart
<1>4. Beats(a, b) <=> m > n \/ (m = n /\ Higher(Tie(C, m), Tie(S, n)))
  BY <1>1, <1>2, <1>3
<1> QED BY <1>4 DEF a, b

\* What seven cards are worth, five of them are not worth more.
LEMMA NoneBeats ==
  ASSUME NEW C \in SUBSET Deck, NEW S \in SUBSET C, Cardinality(S) = 5
  PROVE  /\ RuleHand(S) = RuleHand(C) \/ Beats(RuleHand(C), RuleHand(S))
         /\ ~ Beats(RuleHand(S), RuleHand(C))
<1>1. PICK n \in 1 .. 9 : Best(C, n)
  BY BestIs
<1>2. PICK m \in 1 .. 9 : Best(S, m)
  BY BestIs
<1>3. RuleHand(C) = Worth(C, n) /\ RuleHand(S) = Worth(S, m)
  BY <1>1, <1>2, BestIs
<1>4. m <= n
  <2>1. Fits(S, m)
    BY <1>2 DEF Best
  <2>2. Fits(C, m)
    BY <2>1, FitsGrows
  <2>3. ~ (m > n)
    BY <1>1, <2>2 DEF Best
  <2> QED BY <2>3
<1>5. CASE m < n
  <2>1. n > m /\ ~ (m > n) /\ m # n
    BY <1>5
  <2> QED BY <1>3, <2>1, BeatsIs
<1>6. CASE m = n
  <2>1. /\ Tie(C, n) \in Seq(Nat) /\ Tie(S, n) \in Seq(Nat) /\ AtLeast(Tie(C, n), Tie(S, n))
    BY <1>1, <1>2, <1>6, TieGrows
  <2>2. ~ (n > n)
    OBVIOUS
  <2>3. CASE Tie(C, n) = Tie(S, n)
    <3>1. RuleHand(S) = RuleHand(C)
      BY <1>3, <1>6, <2>3 DEF Worth
    <3>2. ~ Higher(Tie(S, n), Tie(C, n))
      BY <2>1, <2>3, HigherIsStrict
    <3>3. ~ Beats(Worth(S, n), Worth(C, n))
      BY <2>2, <3>2, BeatsIs
    <3> QED BY <1>3, <1>6, <3>1, <3>3
  <2>4. CASE Higher(Tie(C, n), Tie(S, n))
    <3>1. ~ Higher(Tie(S, n), Tie(C, n))
      BY <2>1, <2>4, HigherIsStrict
    <3>2. ~ Beats(Worth(S, n), Worth(C, n)) /\ Beats(Worth(C, n), Worth(S, n))
      BY <2>2, <2>4, <3>1, BeatsIs
    <3> QED BY <1>3, <1>6, <3>2
  <2> QED BY <2>1, <2>3, <2>4 DEF AtLeast
<1> QED BY <1>4, <1>5, <1>6

-----------------------------------------------------------------------------
(* Five of the seven that are worth as much *)

\* Any number of some things.
LEMMA SomeOf ==
  ASSUME NEW W, IsFiniteSet(W), NEW n \in Nat, n <= Cardinality(W)
  PROVE  \E G \in SUBSET W : Cardinality(G) = n
<1> DEFINE m == Cardinality(W)
<1>1. m \in Nat /\ ExistsBijection(1 .. m, W)
  BY FS_CardinalityType
<1>2. PICK f : f \in Bijection(1 .. m, W)
  BY <1>1 DEF ExistsBijection
<1>3. f \in [1 .. m -> W] /\ \A i, j \in 1 .. m : f[i] = f[j] => i = j
  BY <1>2 DEF Bijection, Injection, IsInjective
<1> DEFINE G == {f[i] : i \in 1 .. n}
           g == [i \in 1 .. n |-> f[i]]
<1>4. \A i \in 1 .. n : i \in 1 .. m
  BY <1>1
<1>5. G \in SUBSET W
  BY <1>3, <1>4
<1>6. ExistsBijection(1 .. n, G)
  <2>1. g \in [1 .. n -> G] /\ \A x \in G : \E i \in 1 .. n : g[i] = x
    OBVIOUS
  <2>2. ASSUME NEW i \in 1 .. n, NEW j \in 1 .. n, g[i] = g[j] PROVE i = j
    BY <1>3, <1>4, <2>2
  <2> HIDE DEF g, G
  <2>3. g \in Surjection(1 .. n, G) /\ g \in Injection(1 .. n, G)
    BY <2>1, <2>2 DEF Surjection, Injection, IsInjective
  <2> QED BY <2>3 DEF ExistsBijection, Bijection
<1> HIDE DEF G
<1>7. Cardinality(G) = n
  BY <1>6, FS_CountingElements
<1> QED BY <1>5, <1>7

LEMMA GroupOf ==
  ASSUME NEW C \in SUBSET Deck, NEW r, NEW n \in Nat, n >= 1, n <= Count(C, r)
  PROVE  \E G \in SUBSET C : Cardinality(G) = n /\ Ranks(G) = {r} /\ Count(G, r) = n
<1>1. IsFiniteSet(With(C, r)) /\ Count(C, r) = Cardinality(With(C, r)) /\ With(C, r) \in SUBSET C
  BY CountTypes
<1>2. PICK G \in SUBSET With(C, r) : Cardinality(G) = n
  BY <1>1, SomeOf
<1>3. \A c \in G : c.rank = r
  BY DEF With
<1>4. G # {}
  <2>1. n # 0 /\ Cardinality({}) = 0
    BY FS_EmptySet
  <2> QED BY <1>2, <2>1
<1>5. Ranks(G) = {r}
  BY <1>3, <1>4 DEF Ranks
<1>6. {c \in G : c.rank = r} = G
  BY <1>3
<1>7. Count(G, r) = n
  BY <1>2, <1>6 DEF Count
<1> QED BY <1>1, <1>2, <1>5, <1>7

\* A card of each of some ranks.
LEMMA OneOfEach ==
  ASSUME NEW C \in SUBSET Deck, NEW K \in SUBSET Ranks(C)
  PROVE  \E T \in SUBSET C : /\ Cardinality(T) = Cardinality(K) /\ Ranks(T) = K
                             /\ \A r \in K : Count(T, r) = 1
<1> DEFINE f == [r \in K |-> CHOOSE c \in C : c.rank = r]
           T == {f[r] : r \in K}
<1>1. ASSUME NEW r \in K PROVE f[r] \in C /\ f[r].rank = r
  <2>1. \E c \in C : c.rank = r
    BY DEF Ranks
  <2> QED BY <2>1
<1>2. T \in SUBSET C
  BY <1>1
<1>3. Ranks(T) = K
  <2>1. \A r \in K : f[r] \in T
    OBVIOUS
  <2>2. \A c \in T : \E r \in K : c = f[r]
    OBVIOUS
  <2> HIDE DEF f, T
  <2> QED BY <1>1, <2>1, <2>2 DEF Ranks
<1>4. IsFiniteSet(K)
  BY CardsFinite, FS_Subset
<1>5. Cardinality(T) = Cardinality(K)
  <2>1. f \in Surjection(K, T)
    BY DEF Surjection
  <2>2. f \in Injection(K, T)
    <3>1. f \in [K -> T]
      OBVIOUS
    <3>2. ASSUME NEW r \in K, NEW s \in K, f[r] = f[s] PROVE r = s
      BY <1>1, <3>2
    <3> HIDE DEF f, T
    <3> QED BY <3>1, <3>2 DEF Injection, IsInjective
  <2> HIDE DEF f, T
  <2> QED BY <1>4, <2>1, <2>2, FS_Surjection
<1>6. ASSUME NEW r \in K PROVE Count(T, r) = 1
  <2>1. f[r] \in T /\ \A c \in T : \E s \in K : c = f[s]
    OBVIOUS
  <2> HIDE DEF f, T
  <2>2. {c \in T : c.rank = r} = {f[r]}
    BY <1>1, <2>1
  <2> QED BY <2>2, FS_Singleton DEF Count
<1> HIDE DEF T
<1> QED BY <1>2, <1>3, <1>5, <1>6

LEMMA PartsJoin ==
  ASSUME NEW G \in SUBSET Deck, NEW H \in SUBSET Deck, Ranks(G) \cap Ranks(H) = {}
  PROVE  LET T == G \cup H
         IN  /\ T \in SUBSET Deck /\ Cardinality(T) = Cardinality(G) + Cardinality(H)
             /\ Ranks(T) = Ranks(G) \cup Ranks(H)
             /\ \A r \in Ranks(G) : Count(T, r) = Count(G, r)
             /\ \A r \in Ranks(H) : Count(T, r) = Count(H, r)
<1> DEFINE T == G \cup H
<1>1. T \in SUBSET Deck /\ Ranks(T) = Ranks(G) \cup Ranks(H)
  BY DEF Ranks
<1>2. G \cap H = {}
  BY DEF Ranks
<1>3. Cardinality(T) = Cardinality(G) + Cardinality(H)
  <2> DEFINE x == Cardinality(G)
             y == Cardinality(H)
             z == Cardinality(G \cap H)
  <2>1. IsFiniteSet(G) /\ IsFiniteSet(H) /\ x \in Nat /\ y \in Nat
    BY CardsFinite
  <2>2. Cardinality(T) = x + y - z
    BY <2>1, FS_Union
  <2>3. z = 0
    BY <1>2, FS_EmptySet
  <2> HIDE DEF x, y, z
  <2>4. x + y - z = x + y
    BY <2>1, <2>3
  <2> QED BY <2>2, <2>4 DEF x, y
<1>4. ASSUME NEW r \in Ranks(G) PROVE Count(T, r) = Count(G, r)
  <2>1. {c \in T : c.rank = r} = {c \in G : c.rank = r}
    BY DEF Ranks
  <2> QED BY <2>1 DEF Count
<1>5. ASSUME NEW r \in Ranks(H) PROVE Count(T, r) = Count(H, r)
  <2>1. {c \in T : c.rank = r} = {c \in H : c.rank = r}
    BY DEF Ranks
  <2> QED BY <2>1 DEF Count
<1> QED BY <1>1, <1>3, <1>4, <1>5

\* How many ranks seven cards have.
LEMMA RanksOfSeven ==
  ASSUME NEW C \in SUBSET Deck, Cardinality(C) = 7
  PROVE  /\ At(C, 4) # {} => Cardinality(Ranks(C)) >= 2
         /\ At(C, 3) # {} /\ At(C, 4) = {} /\ Second(C) = <<>> => Cardinality(Ranks(C)) >= 3
         /\ At(C, 3) = {} /\ Second(C) # <<>> => Cardinality(Ranks(C)) >= 3
         /\ At(C, 3) = {} /\ Second(C) = <<>> /\ First(C) # 0 => Cardinality(Ranks(C)) >= 4
         /\ First(C) = 0 => Cardinality(Ranks(C)) >= 5
<1> DEFINE a == Cardinality(Of(C, 1))
           b == Cardinality(Of(C, 2))
           c == Cardinality(Of(C, 3))
           d == Cardinality(Of(C, 4))
           n == Cardinality(Ranks(C))
<1>1. a \in Nat /\ b \in Nat /\ c \in Nat /\ d \in Nat
  BY OfTypes
<1>2. a + 2 * b + 3 * c + 4 * d = 7 /\ n = a + b + c + d
  BY GroupsAddUp
<1>3. /\ b = 0 <=> Of(C, 2) = {}
      /\ c = 0 <=> Of(C, 3) = {}
      /\ d = 0 <=> Of(C, 4) = {}
      /\ b >= 2 <=> \E x, y \in Of(C, 2) : x # y
      /\ c >= 2 <=> \E x, y \in Of(C, 3) : x # y
  BY OfTypes, NoneOneMore
<1>4. /\ At(C, 4) = Of(C, 4) /\ At(C, 3) = Of(C, 3) \cup Of(C, 4)
      /\ At(C, 2) = Of(C, 2) \cup Of(C, 3) \cup Of(C, 4)
  BY AtOf
<1>5. \A i, j \in Nat : i # j => Of(C, i) \cap Of(C, j) = {}
  BY DEF Of
<1>6. /\ First(C) # 0 <=> At(C, 2) # {}
      /\ At(C, 2) # {} => First(C) \in At(C, 2)
      /\ At(C, 3) # {} => First(C) \in At(C, 3)
      /\ Second(C) # <<>> <=> \E r \in At(C, 2) : r # First(C)
  BY FirstSecond
<1> HIDE DEF a, b, c, d, n
<1>7. At(C, 4) # {} => n >= 2
  <2>1. At(C, 4) # {} => d # 0
    BY <1>3, <1>4
  <2> QED BY <1>1, <1>2, <2>1
<1>8. At(C, 3) # {} /\ At(C, 4) = {} /\ Second(C) = <<>> => n >= 3
  <2> HAVE At(C, 3) # {} /\ At(C, 4) = {} /\ Second(C) = <<>>
  <2>1. First(C) \in Of(C, 3) /\ d = 0 /\ c # 0
    BY <1>3, <1>4, <1>6
  <2>2. (\A r \in Of(C, 2) : r = First(C)) /\ (\A r \in Of(C, 3) : r = First(C))
    BY <1>4, <1>6
  <2>3. Of(C, 2) = {}
    BY <1>5, <2>1, <2>2
  <2>4. b = 0 /\ ~ (c >= 2)
    BY <1>3, <2>2, <2>3
  <2> QED BY <1>1, <1>2, <2>1, <2>4
<1>9. At(C, 3) = {} => c = 0 /\ d = 0 /\ At(C, 2) = Of(C, 2)
  BY <1>3, <1>4
<1>10. At(C, 3) = {} /\ Second(C) # <<>> => n >= 3
  <2> HAVE At(C, 3) = {} /\ Second(C) # <<>>
  <2>1. b >= 2
    BY <1>3, <1>6, <1>9
  <2> QED BY <1>1, <1>2, <1>9, <2>1
<1>11. At(C, 3) = {} /\ Second(C) = <<>> /\ First(C) # 0 => n >= 4
  <2> HAVE At(C, 3) = {} /\ Second(C) = <<>> /\ First(C) # 0
  <2>1. ~ (b >= 2)
    BY <1>3, <1>6, <1>9
  <2>2. b # 0
    BY <1>3, <1>6, <1>9
  <2> QED BY <1>1, <1>2, <1>9, <2>1, <2>2
<1>12. First(C) = 0 => n >= 5
  <2> HAVE First(C) = 0
  <2>1. b = 0 /\ c = 0 /\ d = 0
    BY <1>3, <1>4, <1>6
  <2> QED BY <1>1, <1>2, <2>1
<1> QED BY <1>7, <1>8, <1>10, <1>11, <1>12 DEF n

LEMMA TopRanks ==
  ASSUME NEW C \in SUBSET Deck, NEW others, NEW n \in Nat,
         n <= Cardinality(Ranks(C) \ others)
  PROVE  \E K \in SUBSET (Ranks(C) \ others) :
           /\ K \in SUBSET Ranks(C) /\ K \in RankSets /\ Cardinality(K) = n
           /\ Kickers(C, others, n) = Falling(K)
<1> DEFINE R == Ranks(C) \ others
<1>1. R \in RankSets /\ R \in SUBSET Ranks(C)
  <2>1. Ranks(C) \in RankSets /\ R \in SUBSET Ranks(C)
    BY OfTypes
  <2> HIDE DEF R
  <2> QED BY <2>1, RankSubsets
<1>2. Kickers(C, others, n) = SubSeq(Falling(R), 1, n)
  BY DEF Kickers
<1>3. n <= Cardinality(R)
  OBVIOUS
<1> HIDE DEF R
<1>4. PICK K \in SUBSET R : /\ K \in RankSets /\ Cardinality(K) = n
                            /\ SubSeq(Falling(R), 1, n) = Falling(K)
  BY <1>1, <1>3, FirstRanks
<1> QED BY <1>1, <1>2, <1>4 DEF R

LEMMA TopOfAll ==
  ASSUME NEW C \in SUBSET Deck, NEW n \in Nat, n <= Cardinality(Ranks(C))
  PROVE  \E K \in SUBSET Ranks(C) : /\ K \in RankSets /\ Cardinality(K) = n
                                    /\ Kickers(C, {}, n) = Falling(K)
<1> DEFINE none == {}
<1>1. Ranks(C) \ none = Ranks(C)
  OBVIOUS
<1> HIDE DEF none
<1>2. \E K \in SUBSET (Ranks(C) \ none) :
           /\ K \in SUBSET Ranks(C) /\ K \in RankSets /\ Cardinality(K) = n
           /\ Kickers(C, none, n) = Falling(K)
  BY <1>1, TopRanks
<1> QED BY <1>2 DEF none

LEMMA MaxIs ==
  ASSUME NEW R \in RankSets, NEW x \in R, \A y \in R : y <= x
  PROVE  Max(R) = x
<1>1. Max(R) \in R /\ x <= Max(R)
  BY MaxIsFirst
<1>2. Max(R) \in Nat /\ x \in Nat /\ Max(R) <= x
  BY <1>1 DEF RankSets
<1> QED BY <1>1, <1>2

\* Five cards of one suit.
LEMMA OneSuitFive ==
  ASSUME NEW T \in SUBSET Deck, Cardinality(T) = 5, \A c, d \in T : c.suit = d.suit
  PROVE  Suited(T) = {T} /\ UNION Suited(T) = T /\ Flushes(T) = StraightsTo(T) /\ Suited(T) # {}
<1>1. OneSuit(T)
  <2>1. T # {}
    BY FS_EmptySet
  <2>2. PICK c \in T : TRUE
    BY <2>1
  <2>3. {d.suit : d \in T} = {c.suit}
    BY <2>2
  <2> QED BY <2>3, FS_Singleton DEF OneSuit
<1>2. Suited(T) = {T}
  BY <1>1, FlushOf
<1> QED BY <1>2 DEF Flushes

\* Five cards worth what a hand of some cards is.
WorthAs(C, n) ==
  \E T \in SUBSET C : Cardinality(T) = 5 /\ Fits(T, n) /\ Tie(T, n) = Tie(C, n)

LEMMA StraightPart ==
  ASSUME NEW C \in SUBSET Deck, NEW h \in StraightsTo(C)
  PROVE  \E T \in SUBSET C : Cardinality(T) = 5 /\ h \in StraightsTo(T)
<1>1. h \in 5 .. 14 /\ Run(h) \in SUBSET Ranks(C)
  BY StraightTypes
<1>2. Cardinality(Run(h)) = 5
  BY <1>1, RunTypes
<1>3. PICK T \in SUBSET C : Cardinality(T) = Cardinality(Run(h)) /\ Ranks(T) = Run(h)
  BY <1>1, OneOfEach
<1>4. h \in StraightsTo(T)
  BY <1>1, <1>3, StraightTypes
<1> QED BY <1>2, <1>3, <1>4

LEMMA StraightFlushPart ==
  ASSUME NEW C \in SUBSET Deck, Best(C, 9)
  PROVE  WorthAs(C, 9)
<1> DEFINE h == Max(Flushes(C))
<1>1. Flushes(C) # {} /\ Flushes(C) \in RankSets
  BY BestFacts, StraightTypes
<1>2. h \in Flushes(C) /\ \A y \in Flushes(C) : y <= h
  BY <1>1, MaxIsFirst
<1> HIDE DEF h
<1>3. PICK X \in Suited(C) : h \in StraightsTo(X)
  BY <1>2 DEF Flushes
<1>4. X \in SUBSET C /\ X \in SUBSET Deck /\ \A c, d \in X : c.suit = d.suit
  BY SuitedTypes
<1>5. PICK T \in SUBSET X : Cardinality(T) = 5 /\ h \in StraightsTo(T)
  BY <1>3, <1>4, StraightPart
<1>6. T \in SUBSET Deck /\ T \in SUBSET C /\ Flushes(T) = StraightsTo(T)
  BY <1>4, <1>5, OneSuitFive
<1>7. Flushes(T) \in RankSets /\ Flushes(T) \subseteq Flushes(C) /\ h \in Flushes(T)
  BY <1>5, <1>6, PartsGrow, StraightTypes
<1>8. Max(Flushes(T)) = h
  BY <1>2, <1>7, MaxIs
<1>9. Fits(T, 9) /\ Tie(T, 9) = <<h>> /\ Tie(C, 9) = <<h>>
  BY <1>7, <1>8, FitsIs, TieIs DEF h
<1> QED BY <1>5, <1>6, <1>9 DEF WorthAs

LEMMA StraightOnlyPart ==
  ASSUME NEW C \in SUBSET Deck, Best(C, 5)
  PROVE  WorthAs(C, 5)
<1> DEFINE h == Max(StraightsTo(C))
<1>1. StraightsTo(C) # {} /\ StraightsTo(C) \in RankSets
  BY BestFacts, StraightTypes
<1>2. h \in StraightsTo(C) /\ \A y \in StraightsTo(C) : y <= h
  BY <1>1, MaxIsFirst
<1> HIDE DEF h
<1>3. PICK T \in SUBSET C : Cardinality(T) = 5 /\ h \in StraightsTo(T)
  BY <1>2, StraightPart
<1>4. T \in SUBSET Deck /\ StraightsTo(T) \in RankSets /\ StraightsTo(T) \subseteq StraightsTo(C)
  <2>1. T \in SUBSET Deck
    OBVIOUS
  <2> QED BY <2>1, PartsGrow, StraightTypes
<1>5. Max(StraightsTo(T)) = h
  BY <1>2, <1>3, <1>4, MaxIs
<1>6. Fits(T, 5) /\ Tie(T, 5) = <<h>> /\ Tie(C, 5) = <<h>>
  BY <1>3, <1>5, FitsIs, TieIs DEF h
<1> QED BY <1>3, <1>6 DEF WorthAs

LEMMA FlushPart ==
  ASSUME NEW C \in SUBSET Deck, Cardinality(C) = 7, Best(C, 6)
  PROVE  WorthAs(C, 6)
<1>1. PICK X \in Suited(C) : TRUE
  BY BestFacts
<1>2. /\ X \in SUBSET C /\ X \in SUBSET Deck /\ Cardinality(Ranks(X)) >= 5
      /\ \A c, d \in X : c.suit = d.suit
  BY SuitedTypes
<1>3. ASSUME NEW Y \in Suited(C) PROVE Y = X
  <2>1. Y \in SUBSET C /\ Cardinality(Y) >= 5 /\ Cardinality(X) >= 5
    BY SuitedTypes
  <2>2. IsFiniteSet(C) /\ Cardinality(X) \in Nat /\ Cardinality(Y) \in Nat
    BY <1>2, <2>1, CardsFinite
  <2>3. Cardinality(X) + Cardinality(Y) > Cardinality(C)
    BY <2>1, <2>2
  <2>4. PICK c \in X : c \in Y
    BY <1>2, <2>1, <2>2, <2>3, FS_MajoritiesIntersect
  <2>5. PICK s \in {d.suit : d \in C} : X = {d \in C : d.suit = s}
    BY DEF Suited
  <2>6. PICK t \in {d.suit : d \in C} : Y = {d \in C : d.suit = t}
    BY DEF Suited
  <2>7. s = t
    BY <2>4, <2>5, <2>6
  <2> QED BY <2>5, <2>6, <2>7
<1>4. UNION Suited(C) = X
  BY <1>1, <1>3
<1>5. PICK K \in SUBSET Ranks(X) : /\ K \in RankSets /\ Cardinality(K) = 5
                                   /\ Kickers(X, {}, 5) = Falling(K)
  <2>1. 5 <= Cardinality(Ranks(X))
    <3>1. Cardinality(Ranks(X)) \in Nat
      BY <1>2, CardsFinite
    <3> QED BY <1>2, <3>1
  <2> QED BY <1>2, <2>1, TopOfAll
<1>6. PICK T \in SUBSET X : Cardinality(T) = Cardinality(K) /\ Ranks(T) = K
  BY <1>2, OneOfEach
<1>7. T \in SUBSET Deck /\ T \in SUBSET C /\ Cardinality(T) = 5 /\ \A c, d \in T : c.suit = d.suit
  BY <1>2, <1>5, <1>6
<1>8. UNION Suited(T) = T /\ Suited(T) # {}
  BY <1>7, OneSuitFive
<1>9. Kickers(T, {}, 5) = Falling(K)
  <2>1. Ranks(T) \ {} = K
    BY <1>6
  <2> QED BY <1>5, <1>7, <2>1, KickersWhole
<1>10. Tie(T, 6) = Tie(C, 6)
  <2>1. Tie(T, 6) = Kickers(UNION Suited(T), {}, 5) /\ Tie(C, 6) = Kickers(UNION Suited(C), {}, 5)
    BY TieIs
  <2> QED BY <1>4, <1>5, <1>8, <1>9, <2>1
<1>11. Fits(T, 6)
  BY <1>8, FitsIs
<1> QED BY <1>7, <1>10, <1>11 DEF WorthAs

LEMMA HighCardPart ==
  ASSUME NEW C \in SUBSET Deck, Cardinality(C) = 7, Best(C, 1)
  PROVE  WorthAs(C, 1)
<1>1. Cardinality(Ranks(C)) >= 5 /\ Cardinality(Ranks(C)) \in Nat
  BY BestFacts, RanksOfSeven, CardsFinite
<1>2. PICK K \in SUBSET Ranks(C) : /\ K \in RankSets /\ Cardinality(K) = 5
                                   /\ Kickers(C, {}, 5) = Falling(K)
  <2>1. 5 <= Cardinality(Ranks(C))
    BY <1>1
  <2> QED BY <2>1, TopOfAll
<1>3. PICK T \in SUBSET C : Cardinality(T) = Cardinality(K) /\ Ranks(T) = K
  BY OneOfEach
<1>4. T \in SUBSET Deck /\ Cardinality(T) = 5 /\ Ranks(T) \ {} = K
  BY <1>2, <1>3
<1>5. Kickers(T, {}, 5) = Falling(K)
  BY <1>2, <1>4, KickersWhole
<1>6. Tie(T, 1) = Tie(C, 1)
  <2>1. Tie(T, 1) = Kickers(T, {}, 5) /\ Tie(C, 1) = Kickers(C, {}, 5)
    BY TieIs
  <2> QED BY <1>2, <1>5, <2>1
<1>7. Fits(T, 1)
  BY FitsIs
<1> QED BY <1>4, <1>6, <1>7 DEF WorthAs

\* The groups of a hand, and the highest of the other cards.
LEMMA GroupsAndKickers ==
  ASSUME NEW C \in SUBSET Deck, NEW G \in SUBSET C, NEW others, Ranks(G) = others,
         NEW k \in Nat, k <= Cardinality(Ranks(C) \ others)
  PROVE  \E T \in SUBSET C :
           /\ T \in SUBSET Deck /\ Cardinality(T) = Cardinality(G) + k
           /\ \A n \in Nat : n >= 2 => At(T, n) = At(G, n)
           /\ Kickers(T, others, k) = Kickers(C, others, k)
<1>1. PICK K \in SUBSET (Ranks(C) \ others) :
        /\ K \in SUBSET Ranks(C) /\ K \in RankSets /\ Cardinality(K) = k
        /\ Kickers(C, others, k) = Falling(K)
  BY TopRanks
<1>2. PICK H \in SUBSET C : /\ Cardinality(H) = Cardinality(K) /\ Ranks(H) = K
                            /\ \A r \in K : Count(H, r) = 1
  BY <1>1, OneOfEach
<1> DEFINE T == G \cup H
<1>3. G \in SUBSET Deck /\ H \in SUBSET Deck /\ Ranks(G) \cap Ranks(H) = {}
  BY <1>1, <1>2
<1>4. /\ T \in SUBSET Deck /\ Cardinality(T) = Cardinality(G) + Cardinality(H)
      /\ Ranks(T) = Ranks(G) \cup Ranks(H)
      /\ \A r \in Ranks(G) : Count(T, r) = Count(G, r)
      /\ \A r \in Ranks(H) : Count(T, r) = Count(H, r)
  BY <1>3, PartsJoin
<1>5. T \in SUBSET C
  OBVIOUS
<1> HIDE DEF T
<1>6. ASSUME NEW n \in Nat, n >= 2 PROVE At(T, n) = At(G, n)
  <2>1. ~ (1 >= n)
    BY <1>6
  <2>2. \A r \in Ranks(H) : ~ (Count(T, r) >= n)
    BY <1>2, <1>4, <2>1
  <2> QED BY <1>4, <2>2 DEF At
<1>7. Kickers(T, others, k) = Falling(K)
  <2>1. Ranks(T) \ others = K
    BY <1>1, <1>2, <1>4
  <2> QED BY <1>1, <1>4, <2>1, KickersWhole
<1> QED BY <1>1, <1>2, <1>4, <1>5, <1>6, <1>7

LEMMA FourPart ==
  ASSUME NEW C \in SUBSET Deck, Cardinality(C) = 7, Best(C, 8)
  PROVE  WorthAs(C, 8)
<1> DEFINE q == Max(At(C, 4))
           R == Ranks(C)
<1>1. At(C, 4) # {} /\ At(C, 4) \in RankSets /\ R \in RankSets
  BY BestFacts, AtTypes, OfTypes
<1>2. q \in At(C, 4)
  BY <1>1, MaxIsFirst
<1> HIDE DEF q
<1>3. q \in Nat /\ 4 <= Count(C, q)
  <2>1. q \in Ranks(C) /\ Count(C, q) >= 4 /\ Count(C, q) \in 0 .. 4
    BY <1>2, CountTypes DEF At
  <2> QED BY <2>1, AtTypes
<1>4. PICK G \in SUBSET C : Cardinality(G) = 4 /\ Ranks(G) = {q} /\ Count(G, q) = 4
  BY <1>3, GroupOf
<1>5. 1 <= Cardinality(R \ {q})
  <2>1. Cardinality(R) >= 2
    BY <1>1, RanksOfSeven
  <2>2. Cardinality(R \ {q}) >= Cardinality(R) - 1 /\ Cardinality(R) \in Nat /\ Cardinality(R \ {q}) \in Nat
    BY <1>1, RanksLeft
  <2> HIDE DEF R
  <2> QED BY <2>1, <2>2
<1>6. PICK T \in SUBSET C : /\ T \in SUBSET Deck /\ Cardinality(T) = Cardinality(G) + 1
                            /\ \A n \in Nat : n >= 2 => At(T, n) = At(G, n)
                            /\ Kickers(T, {q}, 1) = Kickers(C, {q}, 1)
  BY <1>4, <1>5, GroupsAndKickers
<1>7. At(T, 4) = {q}
  <2>1. At(G, 4) = {q}
    BY <1>4 DEF At
  <2> QED BY <1>6, <2>1
<1>8. Tie(T, 8) = Tie(C, 8)
  <2>1. Tie(C, 8) = <<q>> \o Kickers(C, {q}, 1)
    BY TieIs DEF q
  <2>2. Max(At(T, 4)) = q
    BY <1>3, <1>7, MaxOfOne
  <2>3. Tie(T, 8) = <<Max(At(T, 4))>> \o Kickers(T, {Max(At(T, 4))}, 1)
    BY TieIs
  <2> QED BY <1>6, <2>1, <2>2, <2>3
<1>9. Cardinality(T) = 5 /\ Fits(T, 8)
  BY <1>4, <1>6, <1>7, FitsIs
<1> QED BY <1>8, <1>9 DEF WorthAs

LEMMA ThreePart ==
  ASSUME NEW C \in SUBSET Deck, Cardinality(C) = 7, Best(C, 4)
  PROVE  WorthAs(C, 4)
<1> DEFINE f == First(C)
           R == Ranks(C)
<1>1. At(C, 4) = {} /\ At(C, 3) # {} /\ Second(C) = <<>> /\ R \in RankSets
  BY BestFacts, OfTypes
<1>2. f \in At(C, 3)
  BY <1>1, FirstSecond
<1> HIDE DEF f
<1>3. f \in Nat /\ 3 <= Count(C, f)
  <2>1. f \in Ranks(C) /\ Count(C, f) >= 3 /\ Count(C, f) \in 0 .. 4
    BY <1>2, CountTypes DEF At
  <2> QED BY <2>1, AtTypes
<1>4. PICK G \in SUBSET C : Cardinality(G) = 3 /\ Ranks(G) = {f} /\ Count(G, f) = 3
  BY <1>3, GroupOf
<1>5. 2 <= Cardinality(R \ {f})
  <2>1. Cardinality(R) >= 3
    BY <1>1, RanksOfSeven
  <2>2. Cardinality(R \ {f}) >= Cardinality(R) - 1 /\ Cardinality(R) \in Nat /\ Cardinality(R \ {f}) \in Nat
    BY <1>1, RanksLeft
  <2> HIDE DEF R
  <2> QED BY <2>1, <2>2
<1>6. PICK T \in SUBSET C : /\ T \in SUBSET Deck /\ Cardinality(T) = Cardinality(G) + 2
                            /\ \A n \in Nat : n >= 2 => At(T, n) = At(G, n)
                            /\ Kickers(T, {f}, 2) = Kickers(C, {f}, 2)
  BY <1>4, <1>5, GroupsAndKickers
<1>7. At(T, 3) = {f}
  <2>1. At(G, 3) = {f}
    BY <1>4 DEF At
  <2> QED BY <1>6, <2>1
<1>8. Tie(T, 4) = Tie(C, 4)
  <2>1. Tie(C, 4) = <<f>> \o Kickers(C, {f}, 2)
    BY TieIs DEF f
  <2>2. First(T) = f
    BY <1>3, <1>6, <1>7, FirstSecond, MaxOfOne
  <2>3. Tie(T, 4) = <<First(T)>> \o Kickers(T, {First(T)}, 2)
    BY TieIs
  <2> QED BY <1>6, <2>1, <2>2, <2>3
<1>9. Cardinality(T) = 5 /\ Fits(T, 4)
  BY <1>4, <1>6, <1>7, FitsIs
<1> QED BY <1>8, <1>9 DEF WorthAs

LEMMA PairPart ==
  ASSUME NEW C \in SUBSET Deck, Cardinality(C) = 7, Best(C, 2)
  PROVE  WorthAs(C, 2)
<1> DEFINE f == First(C)
           R == Ranks(C)
<1>1. At(C, 3) = {} /\ First(C) # 0 /\ Second(C) = <<>> /\ R \in RankSets
  BY BestFacts, OfTypes
<1>2. f \in At(C, 2) /\ f # 0
  BY <1>1, FirstSecond
<1>3. Cardinality(R) >= 4
  BY <1>1, RanksOfSeven
<1> HIDE DEF f
<1>4. f \in Nat /\ 2 <= Count(C, f)
  <2>1. f \in Ranks(C) /\ Count(C, f) >= 2 /\ Count(C, f) \in 0 .. 4
    BY <1>2, CountTypes DEF At
  <2> QED BY <2>1, AtTypes
<1>5. PICK G \in SUBSET C : Cardinality(G) = 2 /\ Ranks(G) = {f} /\ Count(G, f) = 2
  <2> DEFINE two == 2
  <2>1. two \in Nat /\ two >= 1 /\ two <= Count(C, f)
    BY <1>4
  <2> HIDE DEF two
  <2>2. \E G \in SUBSET C : Cardinality(G) = two /\ Ranks(G) = {f} /\ Count(G, f) = two
    BY <2>1, GroupOf
  <2> QED BY <2>2 DEF two
<1>6. 3 <= Cardinality(R \ {f})
  <2>1. Cardinality(R \ {f}) >= Cardinality(R) - 1 /\ Cardinality(R) \in Nat /\ Cardinality(R \ {f}) \in Nat
    BY <1>1, RanksLeft
  <2> HIDE DEF R
  <2> QED BY <1>3, <2>1
<1>7. PICK T \in SUBSET C : /\ T \in SUBSET Deck /\ Cardinality(T) = Cardinality(G) + 3
                            /\ \A n \in Nat : n >= 2 => At(T, n) = At(G, n)
                            /\ Kickers(T, {f}, 3) = Kickers(C, {f}, 3)
  <2> DEFINE k == 3
             others == {f}
  <2>1. k \in Nat /\ k <= Cardinality(Ranks(C) \ others) /\ Ranks(G) = others
    BY <1>5, <1>6
  <2> HIDE DEF k, others
  <2>2. \E T \in SUBSET C : /\ T \in SUBSET Deck /\ Cardinality(T) = Cardinality(G) + k
                            /\ \A n \in Nat : n >= 2 => At(T, n) = At(G, n)
                            /\ Kickers(T, others, k) = Kickers(C, others, k)
    BY <2>1, GroupsAndKickers
  <2> QED BY <2>2 DEF k, others
<1>8. At(T, 2) = {f} /\ At(T, 3) = {}
  <2>1. At(G, 2) = {f} /\ At(G, 3) = {}
    BY <1>5 DEF At
  <2> QED BY <1>7, <2>1
<1>9. First(T) = f
  BY <1>4, <1>7, <1>8, FirstSecond, MaxOfOne
<1>10. Tie(T, 2) = Tie(C, 2)
  <2>1. Tie(C, 2) = <<f>> \o Kickers(C, {f}, 3)
    BY TieIs DEF f
  <2>2. Tie(T, 2) = <<First(T)>> \o Kickers(T, {First(T)}, 3)
    BY TieIs
  <2> QED BY <1>7, <1>9, <2>1, <2>2
<1>11. Cardinality(T) = 5 /\ Fits(T, 2)
  BY <1>2, <1>5, <1>7, <1>9, FitsIs
<1> QED BY <1>10, <1>11 DEF WorthAs

LEMMA TwoGroups ==
  ASSUME NEW C \in SUBSET Deck, NEW f, NEW s, f # s, NEW m \in Nat, m >= 1,
         m <= Count(C, f), 2 <= Count(C, s)
  PROVE  \E G \in SUBSET C : /\ Cardinality(G) = m + 2 /\ Ranks(G) = {f, s}
                             /\ Count(G, f) = m /\ Count(G, s) = 2
<1> DEFINE n == 2
<1>0. n \in Nat /\ n >= 1 /\ n <= Count(C, s)
  OBVIOUS
<1> HIDE DEF n
<1>1. PICK A \in SUBSET C : Cardinality(A) = m /\ Ranks(A) = {f} /\ Count(A, f) = m
  BY GroupOf
<1>2. PICK B \in SUBSET C : Cardinality(B) = n /\ Ranks(B) = {s} /\ Count(B, s) = n
  BY <1>0, GroupOf
<1> DEFINE G == A \cup B
<1>3. A \in SUBSET Deck /\ B \in SUBSET Deck /\ Ranks(A) \cap Ranks(B) = {}
  BY <1>1, <1>2
<1>4. /\ Cardinality(G) = Cardinality(A) + Cardinality(B)
      /\ Ranks(G) = Ranks(A) \cup Ranks(B)
      /\ \A r \in Ranks(A) : Count(G, r) = Count(A, r)
      /\ \A r \in Ranks(B) : Count(G, r) = Count(B, r)
  BY <1>3, PartsJoin
<1>5. G \in SUBSET C
  OBVIOUS
<1> HIDE DEF G
<1>6. Count(G, f) = m /\ Count(G, s) = n /\ Cardinality(G) = m + n /\ Ranks(G) = {f, s}
  BY <1>1, <1>2, <1>4
<1> QED BY <1>5, <1>6 DEF n

\* The groups of cards of which exactly two ranks come twice.
LEMMA FirstOfTwo ==
  ASSUME NEW T \in SUBSET Deck, NEW f \in Nat, NEW s \in Nat, f # s, At(T, 2) = {f, s},
         At(T, 3) = {f} \/ (At(T, 3) = {} /\ s <= f)
  PROVE  First(T) = f /\ Second(T) # <<>> /\ Second(T)[1] = s
<1> DEFINE R == At(T, 2)
<1>1. First(T) = f
  <2>1. CASE At(T, 3) = {f}
    BY <2>1, FirstSecond
  <2>2. CASE At(T, 3) = {} /\ s <= f
    <3>1. R \in RankSets /\ f \in R /\ \A y \in R : y <= f
      BY <2>2, AtTypes
    <3>2. First(T) = Max(R)
      BY <2>2, FirstSecond
    <3> HIDE DEF R
    <3> QED BY <3>1, <3>2, MaxIs
  <2> QED BY <2>1, <2>2
<1>2. Second(T) # <<>>
  BY <1>1, FirstSecond
<1>3. Second(T)[1] \in At(T, 2) \ {First(T)}
  BY <1>2, FirstSecond
<1> QED BY <1>1, <1>2, <1>3

LEMMA FullPart ==
  ASSUME NEW C \in SUBSET Deck, Cardinality(C) = 7, Best(C, 7)
  PROVE  WorthAs(C, 7)
<1> DEFINE f == First(C)
           s == Second(C)[1]
           m == 3
<1>1. At(C, 3) # {} /\ Second(C) # <<>>
  BY BestFacts
<1>2. f \in At(C, 3) /\ s \in At(C, 2) /\ f # s
  BY <1>1, FirstSecond
<1> HIDE DEF f, s
<1>3. /\ f \in Nat /\ s \in Nat /\ m \in Nat /\ m >= 1
      /\ m <= Count(C, f) /\ 2 <= Count(C, s)
  <2>1. f \in Ranks(C) /\ Count(C, f) >= 3 /\ Count(C, f) \in 0 .. 4
    BY <1>2, CountTypes DEF At
  <2>2. s \in Ranks(C) /\ Count(C, s) >= 2 /\ Count(C, s) \in 0 .. 4
    BY <1>2, CountTypes DEF At
  <2> QED BY <2>1, <2>2, AtTypes
<1> HIDE DEF m
<1>4. PICK T \in SUBSET C : /\ Cardinality(T) = m + 2 /\ Ranks(T) = {f, s}
                            /\ Count(T, f) = m /\ Count(T, s) = 2
  BY <1>2, <1>3, TwoGroups
<1>5. At(T, 2) = {f, s} /\ At(T, 3) = {f}
  BY <1>4 DEF At, m
<1>6. T \in SUBSET Deck /\ Cardinality(T) = 5
  BY <1>4 DEF m
<1>7. First(T) = f /\ Second(T) # <<>> /\ Second(T)[1] = s
  <2>1. /\ T \in SUBSET Deck /\ f \in Nat /\ s \in Nat /\ f # s /\ At(T, 2) = {f, s}
        /\ At(T, 3) = {f} \/ (At(T, 3) = {} /\ s <= f)
    BY <1>2, <1>3, <1>5, <1>6
  <2> QED BY <2>1, FirstOfTwo
<1>8. Tie(T, 7) = Tie(C, 7)
  <2>1. Tie(C, 7) = <<f, s>>
    BY TieIs DEF f, s
  <2>2. Tie(T, 7) = <<First(T), Second(T)[1]>>
    BY TieIs
  <2> QED BY <1>7, <2>1, <2>2
<1>9. Fits(T, 7)
  BY <1>5, <1>7, FitsIs
<1> QED BY <1>6, <1>8, <1>9 DEF WorthAs

LEMMA TwoPairPart ==
  ASSUME NEW C \in SUBSET Deck, Cardinality(C) = 7, Best(C, 3)
  PROVE  WorthAs(C, 3)
<1> DEFINE f == First(C)
           s == Second(C)[1]
           R == Ranks(C)
           two == 2
           k == 1
           others == {f, s}
<1>1. At(C, 3) = {} /\ Second(C) # <<>> /\ R \in RankSets
  BY BestFacts, OfTypes
<1>2. f \in At(C, 2) /\ s \in At(C, 2) /\ f # s /\ f = Max(At(C, 2)) /\ Cardinality(R) >= 3
  BY <1>1, FirstSecond, RanksOfSeven
<1> HIDE DEF f, s
<1>3. s <= f
  <2>1. At(C, 2) \in RankSets /\ At(C, 2) # {}
    BY <1>2, AtTypes
  <2> QED BY <1>2, <2>1, MaxIsFirst
<1>4. f \in Nat /\ s \in Nat /\ two \in Nat /\ two >= 1 /\ two <= Count(C, f) /\ 2 <= Count(C, s)
  <2>1. f \in Ranks(C) /\ Count(C, f) >= 2 /\ Count(C, f) \in 0 .. 4
    BY <1>2, CountTypes DEF At
  <2>2. s \in Ranks(C) /\ Count(C, s) >= 2 /\ Count(C, s) \in 0 .. 4
    BY <1>2, CountTypes DEF At
  <2> QED BY <2>1, <2>2, AtTypes
<1> HIDE DEF two
<1>5. PICK G \in SUBSET C : /\ Cardinality(G) = two + 2 /\ Ranks(G) = {f, s}
                            /\ Count(G, f) = two /\ Count(G, s) = 2
  <2>1. f # s /\ two \in Nat /\ two >= 1 /\ two <= Count(C, f) /\ 2 <= Count(C, s)
    BY <1>2, <1>4
  <2> HIDE DEF R, k, others
  <2> QED BY ONLY <2>1, TwoGroups
<1>6. k \in Nat /\ k <= Cardinality(R \ others)
  <2>1. /\ Cardinality(R \ others) >= Cardinality(R) - 2 /\ Cardinality(R) \in Nat
        /\ Cardinality(R \ others) \in Nat
    BY <1>1, RanksLeft
  <2> HIDE DEF R, others
  <2> QED BY <1>2, <2>1
<1>7. Ranks(G) = others
  BY <1>5
<1> HIDE DEF k, others
<1>8. PICK T \in SUBSET C : /\ T \in SUBSET Deck /\ Cardinality(T) = Cardinality(G) + k
                            /\ \A n \in Nat : n >= 2 => At(T, n) = At(G, n)
                            /\ Kickers(T, others, k) = Kickers(C, others, k)
  BY <1>6, <1>7, GroupsAndKickers
<1>9. At(T, 2) = {f, s} /\ At(T, 3) = {}
  <2>1. At(G, 2) = {f, s} /\ At(G, 3) = {}
    BY <1>5 DEF At, two
  <2> QED BY <1>8, <2>1
<1>10. First(T) = f /\ Second(T) # <<>> /\ Second(T)[1] = s
  BY <1>2, <1>3, <1>4, <1>8, <1>9, FirstOfTwo
<1>11. Tie(T, 3) = Tie(C, 3)
  <2>1. Tie(C, 3) = <<f, s>> \o Kickers(C, {f, s}, 1)
    BY TieIs DEF f, s
  <2>2. Tie(T, 3) = <<First(T), Second(T)[1]>> \o Kickers(T, {First(T), Second(T)[1]}, 1)
    BY TieIs
  <2>3. Kickers(T, {f, s}, 1) = Kickers(C, {f, s}, 1)
    BY <1>8 DEF others, k
  <2> QED BY <1>10, <2>1, <2>2, <2>3
<1>12. Cardinality(T) = 5
  BY <1>5, <1>8 DEF two, k
<1>13. Fits(T, 3)
  BY <1>10, FitsIs
<1> QED BY <1>11, <1>12, <1>13 DEF WorthAs

-----------------------------------------------------------------------------
(* The best hand of seven cards *)

\* Seven cards have five that are worth what the rules say of the seven.
LEMMA Reached ==
  ASSUME NEW C \in SUBSET Deck, Cardinality(C) = 7
  PROVE  \E T \in SUBSET C : Cardinality(T) = 5 /\ EvaluateFiveCards(T) = RuleHand(C)
<1>1. PICK n \in 1 .. 9 : Best(C, n)
  BY BestIs
<1>2. WorthAs(C, n)
  <2>1. Best(C, 9) => WorthAs(C, 9)
    BY StraightFlushPart
  <2>2. Best(C, 8) => WorthAs(C, 8)
    BY FourPart
  <2>3. Best(C, 7) => WorthAs(C, 7)
    BY FullPart
  <2>4. Best(C, 6) => WorthAs(C, 6)
    BY FlushPart
  <2>5. Best(C, 5) => WorthAs(C, 5)
    BY StraightOnlyPart
  <2>6. Best(C, 4) => WorthAs(C, 4)
    BY ThreePart
  <2>7. Best(C, 3) => WorthAs(C, 3)
    BY TwoPairPart
  <2>8. Best(C, 2) => WorthAs(C, 2)
    BY PairPart
  <2>9. Best(C, 1) => WorthAs(C, 1)
    BY HighCardPart
  <2>10. \/ n = 1 \/ n = 2 \/ n = 3 \/ n = 4 \/ n = 5 \/ n = 6 \/ n = 7 \/ n = 8 \/ n = 9
    OBVIOUS
  <2> QED BY <1>1, <2>1, <2>2, <2>3, <2>4, <2>5, <2>6, <2>7, <2>8, <2>9, <2>10
<1>3. PICK T \in SUBSET C : Cardinality(T) = 5 /\ Fits(T, n) /\ Tie(T, n) = Tie(C, n)
  BY <1>2 DEF WorthAs
<1>4. T \in SUBSET Deck
  OBVIOUS
<1>5. Best(T, n)
  <2>1. \A m \in 1 .. 9 : Fits(T, m) => Fits(C, m)
    BY FitsGrows
  <2> QED BY <1>1, <1>3, <2>1 DEF Best
<1>6. RuleHand(T) = RuleHand(C)
  BY <1>1, <1>3, <1>5, BestIs DEF Worth
<1>7. EvaluateFiveCards(T) = RuleHand(T)
  BY <1>3, <1>4, FiveRule
<1> QED BY <1>3, <1>6, <1>7

\* evaluateHand: the best of all fives of any seven different cards is what the rules of poker,
\* read off the seven at once, say they are worth.
THEOREM BestOfSeven ==
  ASSUME NEW C \in SUBSET Deck, Cardinality(C) = 7
  PROVE  EvaluateHand(C) = RuleHand(C)
<1> DEFINE five  == 5
           hands == {EvaluateFiveCards(S) : S \in kSubset(five, C)}
           best  == RuleHand(C)
<1>1. \A S : S \in kSubset(five, C) <=> S \in SUBSET C /\ Cardinality(S) = 5
  BY DEF kSubset
<1>2. best \in hands
  BY <1>1, Reached
<1>3. ASSUME NEW h \in hands
      PROVE  /\ h = best \/ Beats(best, h)
             /\ ~ Beats(h, best)
  <2>1. PICK S \in kSubset(five, C) : h = EvaluateFiveCards(S)
    OBVIOUS
  <2>2. S \in SUBSET C /\ S \in SUBSET Deck /\ Cardinality(S) = 5
    BY <1>1
  <2>3. h = RuleHand(S)
    BY <2>1, <2>2, FiveRule
  <2> QED BY <2>2, <2>3, NoneBeats
<1>4. EvaluateHand(C) = CHOOSE b \in hands : \A h \in hands : ~ Beats(h, b)
  BY DEF EvaluateHand
<1> HIDE DEF hands, best
<1>5. \A b \in hands : (\A h \in hands : ~ Beats(h, b)) => b = best
  BY <1>2, <1>3
<1>6. \E b \in hands : \A h \in hands : ~ Beats(h, b)
  BY <1>2, <1>3
<1> QED BY <1>4, <1>5, <1>6 DEF best
=============================================================================
