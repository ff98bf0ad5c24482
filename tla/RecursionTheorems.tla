------------------------- MODULE RecursionTheorems -------------------------
(***************************************************************************)
(* What the functions that the models define by recursion are.  Induction  *)
(* is on the set of the numbers for which a fact holds, and its least      *)
(* missing member.                                                         *)
(*                                                                         *)
(* The first part is about functions on an interval of numbers, the second *)
(* about sums: MapThenSumSet of the community modules is defined by a      *)
(* recursive function that takes an arbitrary element off the set each     *)
(* time.  It is proved, for the values v[x] of the elements x, that this   *)
(* function exists and is unique, that any element may be the last one,    *)
(* and that it adds over sets that have none in common.                    *)
(***************************************************************************)
EXTENDS Integers, Sequences, FiniteSets, FiniteSetTheorems, WellFoundedInduction, TLAPS

\* The least of a set of naturals.
LEMMA LeastNatural ==
  ASSUME NEW T \in SUBSET Nat, T # {}
  PROVE  \E x \in T : \A y \in T : x <= y
  <1>1. PICK R : R = OpToRel(<, Nat)
    OBVIOUS
  <1>2. IsWellFoundedOn(R, Nat)
    BY <1>1, NatLessThanWellFounded
  <1>3. PICK x \in T : \A y \in T : ~(<<y, x>> \in R)
    BY <1>2, WFMin
  <1>4. \A y \in T : y < x => <<y, x>> \in R
    BY <1>1 DEF OpToRel
  <1>5. ASSUME NEW y \in T
        PROVE  x <= y
    <2>1. x \in Nat /\ y \in Nat /\ ~(y < x)
      BY <1>3, <1>4
    <2>. QED  BY <2>1
  <1>. QED  BY <1>5

\* Induction on the naturals, by the least number that is not in the set.
LEMMA Counting ==
  ASSUME NEW G \in SUBSET Nat, 0 \in G, \A n \in G : n + 1 \in G
  PROVE  G = Nat
  <1>. SUFFICES ASSUME Nat \ G # {} PROVE FALSE
    OBVIOUS
  <1>1. PICK x \in Nat \ G : \A y \in Nat \ G : x <= y
    <2>1. Nat \ G \in SUBSET Nat
      OBVIOUS
    <2>. QED  BY <2>1, LeastNatural
  <1>2. x # 0 /\ x - 1 \in Nat /\ ~(x <= x - 1)
    BY <1>1
  <1>3. x - 1 \in G
    BY <1>1, <1>2
  <1>4. (x - 1) + 1 = x
    BY <1>2
  <1>. QED  BY <1>1, <1>3, <1>4

\* The greatest of a set of naturals that has a bound.
LEMMA GreatestNatural ==
  ASSUME NEW T \in SUBSET Nat, T # {}, NEW b \in Nat, \A x \in T : x <= b
  PROVE  \E x \in T : \A y \in T : y <= x
  <1>. DEFINE U == {b - x : x \in T}
  <1>1. U \in SUBSET Nat /\ U # {}
    <2>1. \A x \in T : b - x \in Nat
      OBVIOUS
    <2>2. \E x : x \in T
      OBVIOUS
    <2>. QED  BY <2>1, <2>2
  <1>2. PICK u \in U : \A z \in U : u <= z
    BY <1>1, LeastNatural
  <1>3. PICK x \in T : u = b - x
    BY DEF U
  <1>. HIDE DEF U
  <1>4. ASSUME NEW y \in T
        PROVE  y <= x
    <2>1. b - y \in U
      BY DEF U
    <2>2. b - x <= b - y
      BY <1>2, <1>3, <2>1
    <2>3. x \in Nat /\ y \in Nat
      OBVIOUS
    <2>. QED  BY <2>2, <2>3
  <1>. QED  BY <1>4

\* Induction on an interval, upwards.
LEMMA Climbing ==
  ASSUME NEW a \in Int, NEW b \in Int, NEW S, a <= b => a \in S,
         \A k \in a..b - 1 : k \in S => k + 1 \in S
  PROVE  \A k \in a..b : k \in S
  <1>. DEFINE G == {n \in Nat : a + n <= b => a + n \in S}
  <1>1. 0 \in G
    OBVIOUS
  <1>2. ASSUME NEW n \in G
        PROVE  n + 1 \in G
    <2>1. n \in Nat /\ (a + n <= b => a + n \in S)
      OBVIOUS
    <2>2. ASSUME a + (n + 1) <= b
          PROVE  a + (n + 1) \in S
      <3>1. a + n \in a..b - 1 /\ a + (n + 1) = (a + n) + 1
        BY <2>1, <2>2
      <3>. QED  BY <2>1, <3>1
    <2>3. n + 1 \in Nat
      BY <2>1
    <2>. QED  BY <2>2, <2>3
  <1>. HIDE DEF G
  <1>3. G = Nat
    <2>1. G \in SUBSET Nat
      BY DEF G
    <2>. QED  BY <1>1, <1>2, <2>1, Counting
  <1>4. ASSUME NEW k \in a..b
        PROVE  k \in S
    <2>1. k - a \in G /\ a + (k - a) = k
      BY <1>3
    <2>. QED  BY <2>1 DEF G
  <1>. QED  BY <1>4

\* ... and downwards, from everything above.
LEMMA Descending ==
  ASSUME NEW a \in Int, NEW b \in Int, NEW S,
         \A i \in a..b : (\A j \in i + 1 .. b : j \in S) => i \in S
  PROVE  \A i \in a..b : i \in S
  <1>. DEFINE G == {n \in Nat : \A i \in a..b : b < i + n => i \in S}
  <1>1. 0 \in G
    OBVIOUS
  <1>2. ASSUME NEW n \in G
        PROVE  n + 1 \in G
    <2>1. n \in Nat /\ \A i \in a..b : b < i + n => i \in S
      OBVIOUS
    <2>2. ASSUME NEW i \in a..b, b < i + (n + 1)
          PROVE  i \in S
      <3>1. \A j \in i + 1 .. b : j \in a..b /\ b < j + n
        BY <2>1, <2>2
      <3>. QED  BY <2>1, <3>1
    <2>3. n + 1 \in Nat
      BY <2>1
    <2>. QED  BY <2>2, <2>3
  <1>. HIDE DEF G
  <1>3. G = Nat
    <2>1. G \in SUBSET Nat
      BY DEF G
    <2>. QED  BY <1>1, <1>2, <2>1, Counting
  <1>4. ASSUME NEW i \in a..b
        PROVE  i \in S
    <2>1. (b - i) + 1 \in G /\ b < i + ((b - i) + 1)
      BY <1>3
    <2>. QED  BY <2>1 DEF G
  <1>. QED  BY <1>4

-----------------------------------------------------------------------------
(* Functions on an interval that are defined by recursion: an iteration,   *)
(* whose value at k is made from the value at k - 1, and an unfolding,     *)
(* whose value at i is a piece followed by the value at a later place.     *)

Iterates(f, a, b, base, step) == f = [k \in a..b |-> IF k = a THEN base ELSE step[k][f[k - 1]]]
Unfolds(f, last, Stops, piece, next) ==
  f = [i \in 1..last |-> IF i \in Stops THEN <<>> ELSE piece[i] \o f[next[i]]]

LEMMA IterationExists ==
  ASSUME NEW R, NEW base \in R, NEW a \in Int, NEW b \in Int,
         NEW step, \A k \in a + 1 .. b : \A r \in R : step[k][r] \in R
  PROVE  \E f \in [a..b -> R] : Iterates(f, a, b, base, step)
  <1>. DEFINE Upto(n) == {k \in a..b : k <= a + n}
              Is(f, D) == f = [k \in D |-> IF k = a THEN base ELSE step[k][f[k - 1]]]
              G == {n \in Nat : \E f \in [Upto(n) -> R] : Is(f, Upto(n))}
  <1>1. 0 \in G
    <2>1. \A k \in Upto(0) : k = a
      OBVIOUS
    <2>2. PICK f : f = [k \in Upto(0) |-> base]
      OBVIOUS
    <2>3. f \in [Upto(0) -> R]
      BY <2>2
    <2>4. Is(f, Upto(0))
      BY <2>1, <2>2
    <2>. QED  BY <2>3, <2>4
  <1>2. ASSUME NEW n \in G
        PROVE  n + 1 \in G
    <2>0. n \in Nat
      OBVIOUS
    <2>1. PICK f \in [Upto(n) -> R] : Is(f, Upto(n))
      OBVIOUS
    <2>2. PICK g : g = [k \in Upto(n + 1) |-> IF k = a THEN base ELSE step[k][f[k - 1]]]
      OBVIOUS
    <2>3. \A k \in Upto(n + 1) : k # a => k - 1 \in Upto(n) /\ k - 1 \in Upto(n + 1) /\ k \in a + 1 .. b
      BY <2>0
    <2>4. ASSUME NEW k \in Upto(n + 1), k # a
          PROVE  g[k - 1] = f[k - 1] /\ g[k] \in R
      <3>1. g[k - 1] = IF k - 1 = a THEN base ELSE step[k - 1][f[(k - 1) - 1]]
        BY <2>2, <2>3, <2>4
      <3>2. f[k - 1] = IF k - 1 = a THEN base ELSE step[k - 1][f[(k - 1) - 1]]
        BY <2>1, <2>3, <2>4
      <3>3. f[k - 1] \in R
        BY <2>1, <2>3, <2>4
      <3>. QED  BY <2>2, <2>3, <2>4, <3>1, <3>2, <3>3
    <2>5. \A k \in Upto(n + 1) : g[k] \in R
      BY <2>2, <2>4
    <2>6. g \in [Upto(n + 1) -> R]
      BY <2>2, <2>5
    <2>7. \A k \in Upto(n + 1) : g[k] = IF k = a THEN base ELSE step[k][g[k - 1]]
      BY <2>2, <2>4
    <2>8. Is(g, Upto(n + 1))
      BY <2>2, <2>7
    <2>9. n + 1 \in Nat
      BY <2>0
    <2>. QED  BY <2>6, <2>8, <2>9
  <1>. HIDE DEF G
  <1>3. G = Nat
    <2>1. G \in SUBSET Nat
      BY DEF G
    <2>. QED  BY <1>1, <1>2, <2>1, Counting
  <1>4. CASE a <= b
    <2>1. b - a \in G
      BY <1>3, <1>4
    <2>2. Upto(b - a) = a..b
      OBVIOUS
    <2>. QED  BY <2>1, <2>2 DEF G, Iterates
  <1>5. CASE b < a
    <2>1. 0 \in G
      BY <1>3
    <2>2. Upto(0) = a..b
      BY <1>5
    <2>. QED  BY <2>1, <2>2 DEF G, Iterates
  <1>. QED  BY <1>4, <1>5

LEMMA UnfoldingExists ==
  ASSUME NEW last \in Nat, NEW Stops, NEW piece, NEW next,
         \A i \in 1..last : i \notin Stops => next[i] \in i + 1 .. last
  PROVE  \E f : Unfolds(f, last, Stops, piece, next)
  <1>. DEFINE From(n) == {i \in 1..last : last <= i + n}
              Is(f, D) == f = [i \in D |-> IF i \in Stops THEN <<>> ELSE piece[i] \o f[next[i]]]
              G == {n \in Nat : \E f : Is(f, From(n))}
  <1>1. 0 \in G
    <2>1. \A i \in From(0) : i \in Stops
      <3>1. ASSUME NEW i \in From(0), i \notin Stops
            PROVE  FALSE
        <4>1. i = last
          OBVIOUS
        <4>. QED  BY <3>1, <4>1
      <3>. QED  BY <3>1
    <2>2. PICK f : f = [i \in From(0) |-> <<>>]
      OBVIOUS
    <2>3. Is(f, From(0))
      BY <2>1, <2>2
    <2>. QED  BY <2>3
  <1>2. ASSUME NEW n \in G
        PROVE  n + 1 \in G
    <2>0. n \in Nat
      OBVIOUS
    <2>1. PICK f : Is(f, From(n))
      OBVIOUS
    <2>2. PICK g : g = [i \in From(n + 1) |-> IF i \in Stops THEN <<>> ELSE piece[i] \o f[next[i]]]
      OBVIOUS
    <2>3. ASSUME NEW i \in From(n + 1), i \notin Stops
          PROVE  g[next[i]] = f[next[i]]
      <3>1. PICK j : j = next[i]
        OBVIOUS
      <3>2. j \in i + 1 .. last
        BY <2>3, <3>1
      <3>3. j \in From(n) /\ j \in From(n + 1)
        BY <2>0, <3>2
      <3>4. g[j] = IF j \in Stops THEN <<>> ELSE piece[j] \o f[next[j]]
        BY <2>2, <3>3
      <3>5. f[j] = IF j \in Stops THEN <<>> ELSE piece[j] \o f[next[j]]
        BY <2>1, <3>3
      <3>. QED  BY <3>1, <3>4, <3>5
    <2>4. Is(g, From(n + 1))
      BY <2>2, <2>3
    <2>5. n + 1 \in Nat
      BY <2>0
    <2>. QED  BY <2>4, <2>5
  <1>. HIDE DEF G
  <1>3. G = Nat
    <2>1. G \in SUBSET Nat
      BY DEF G
    <2>. QED  BY <1>1, <1>2, <2>1, Counting
  <1>4. last \in G
    BY <1>3
  <1>5. From(last) = 1..last
    OBVIOUS
  <1>. QED  BY <1>4, <1>5 DEF G, Unfolds
-----------------------------------------------------------------------------
(* The sum, as MapThenSumSet takes it.                                     *)

Some(S)         == CHOOSE x \in S : TRUE
Step(v, f, S)   == IF S = {} THEN 0 ELSE v[Some(S)] + f[S \ {Some(S)}]
AddsUp(v, f, D) == f = [S \in D |-> Step(v, f, S)]
SumOver(v, S)   == (CHOOSE f : AddsUp(v, f, SUBSET S))[S]
Small(S, n)     == {T \in SUBSET S : Cardinality(T) <= n}

LEMMA OneLess ==
  ASSUME NEW S, IsFiniteSet(S), S # {}
  PROVE  /\ Some(S) \in S /\ IsFiniteSet(S \ {Some(S)})
         /\ Cardinality(S) \in Nat /\ Cardinality(S \ {Some(S)}) \in Nat
         /\ Cardinality(S) = Cardinality(S \ {Some(S)}) + 1
  <1>1. Some(S) \in S
    BY DEF Some
  <1>2. /\ IsFiniteSet(S \ {Some(S)})
        /\ Cardinality(S \ {Some(S)}) = Cardinality(S) - 1
    BY <1>1, FS_RemoveElement
  <1>3. Cardinality(S) \in Nat /\ Cardinality(S \ {Some(S)}) \in Nat
    BY <1>2, FS_CardinalityType
  <1>. QED  BY <1>1, <1>2, <1>3

LEMMA SumExists ==
  ASSUME NEW v, NEW S, IsFiniteSet(S)
  PROVE  \E f : AddsUp(v, f, SUBSET S)
  <1>. DEFINE G == {n \in Nat : \E f : AddsUp(v, f, Small(S, n))}
  <1>0. \A T \in SUBSET S : IsFiniteSet(T) /\ Cardinality(T) \in Nat /\ Cardinality(T) <= Cardinality(S)
    BY FS_Subset, FS_CardinalityType
  <1>1. 0 \in G
    <2>1. \A T \in Small(S, 0) : T = {}
      BY <1>0, FS_EmptySet DEF Small
    <2>2. PICK f : f = [T \in Small(S, 0) |-> 0]
      OBVIOUS
    <2>3. \A T \in Small(S, 0) : Step(v, f, T) = 0
      BY <2>1 DEF Step
    <2>4. AddsUp(v, f, Small(S, 0))
      BY <2>2, <2>3 DEF AddsUp
    <2>. QED  BY <2>4
  <1>2. ASSUME NEW n \in G
        PROVE  n + 1 \in G
    <2>1. PICK f : AddsUp(v, f, Small(S, n))
      OBVIOUS
    <2>2. PICK g : g = [T \in Small(S, n + 1) |-> Step(v, f, T)]
      OBVIOUS
    <2>3. ASSUME NEW T \in Small(S, n + 1)
          PROVE  Step(v, g, T) = Step(v, f, T)
      <3>1. CASE T = {}
        BY <3>1 DEF Step
      <3>2. CASE T # {}
        <4>1. T \in SUBSET S /\ IsFiniteSet(T) /\ Cardinality(T) <= n + 1
          BY <1>0 DEF Small
        <4>2. /\ Cardinality(T) \in Nat /\ Cardinality(T \ {Some(T)}) \in Nat
              /\ Cardinality(T) = Cardinality(T \ {Some(T)}) + 1
          BY <3>2, <4>1, OneLess
        <4>3. T \ {Some(T)} \in Small(S, n)
          BY <4>1, <4>2 DEF Small
        <4>4. T \ {Some(T)} \in Small(S, n + 1)
          BY <4>1, <4>2 DEF Small
        <4>5. f[T \ {Some(T)}] = Step(v, f, T \ {Some(T)})
          BY <2>1, <4>3 DEF AddsUp
        <4>6. g[T \ {Some(T)}] = Step(v, f, T \ {Some(T)})
          BY <2>2, <4>4
        <4>. QED  BY <3>2, <4>5, <4>6 DEF Step
      <3>. QED  BY <3>1, <3>2
    <2>4. AddsUp(v, g, Small(S, n + 1))
      BY <2>2, <2>3 DEF AddsUp
    <2>. QED  BY <2>4
  <1>. HIDE DEF G
  <1>3. G = Nat
    <2>1. G \in SUBSET Nat
      BY DEF G
    <2>. QED  BY <1>1, <1>2, <2>1, Counting
  <1>4. Cardinality(S) \in G
    BY <1>3, FS_CardinalityType
  <1>5. Small(S, Cardinality(S)) = SUBSET S
    BY <1>0 DEF Small
  <1>. QED  BY <1>4, <1>5 DEF G

LEMMA SumsAgree ==
  ASSUME NEW v, NEW T, NEW S \in SUBSET T, IsFiniteSet(S),
         NEW f, NEW g, AddsUp(v, f, SUBSET S), AddsUp(v, g, SUBSET T)
  PROVE  f[S] = g[S]
  <1>. DEFINE G == {n \in Nat : \A U \in SUBSET S : Cardinality(U) = n => f[U] = g[U]}
  <1>0. \A U \in SUBSET S : /\ IsFiniteSet(U) /\ Cardinality(U) \in Nat
                            /\ f[U] = Step(v, f, U) /\ g[U] = Step(v, g, U)
    BY FS_Subset, FS_CardinalityType DEF AddsUp
  <1>1. 0 \in G
    <2>1. \A U \in SUBSET S : Cardinality(U) = 0 => U = {}
      BY <1>0, FS_EmptySet
    <2>. QED  BY <1>0, <2>1 DEF Step
  <1>2. ASSUME NEW n \in G
        PROVE  n + 1 \in G
    <2>1. ASSUME NEW U \in SUBSET S, Cardinality(U) = n + 1
          PROVE  f[U] = g[U]
      <3>1. U # {}
        <4>1. n \in Nat /\ n + 1 # 0
          OBVIOUS
        <4>. QED  BY <2>1, <4>1, FS_EmptySet
      <3>2. /\ Cardinality(U) = Cardinality(U \ {Some(U)}) + 1
            /\ Cardinality(U \ {Some(U)}) \in Nat
        BY <1>0, <3>1, OneLess
      <3>3. Cardinality(U \ {Some(U)}) = n /\ U \ {Some(U)} \in SUBSET S
        BY <2>1, <3>2
      <3>4. f[U \ {Some(U)}] = g[U \ {Some(U)}]
        BY <3>3
      <3>. QED  BY <1>0, <3>1, <3>4 DEF Step
    <2>. QED  BY <2>1
  <1>. HIDE DEF G
  <1>3. G = Nat
    <2>1. G \in SUBSET Nat
      BY DEF G
    <2>. QED  BY <1>1, <1>2, <2>1, Counting
  <1>4. Cardinality(S) \in G
    BY <1>3, FS_CardinalityType
  <1>. QED  BY <1>4 DEF G

\* Whatever satisfies the recursion is the sum.
LEMMA SumIsUnique ==
  ASSUME NEW v, NEW T, IsFiniteSet(T), NEW S \in SUBSET T, NEW f, AddsUp(v, f, SUBSET T)
  PROVE  f[S] = SumOver(v, S)
  <1>1. IsFiniteSet(S)
    BY FS_Subset
  <1>2. PICK g : g = CHOOSE h : AddsUp(v, h, SUBSET S)
    OBVIOUS
  <1>3. \E h : AddsUp(v, h, SUBSET S)
    BY <1>1, SumExists
  <1>4. AddsUp(v, g, SUBSET S)
    BY <1>2, <1>3
  <1>5. SumOver(v, S) = (CHOOSE h : AddsUp(v, h, SUBSET S))[S]
    BY DEF SumOver
  <1>6. \A f1, g1 : AddsUp(v, f1, SUBSET S) /\ AddsUp(v, g1, SUBSET T) => f1[S] = g1[S]
    BY <1>1, SumsAgree
  <1>. QED  BY <1>2, <1>4, <1>5, <1>6

\* The sum of a set is that of one of its elements and of the others.
LEMMA SumSteps ==
  ASSUME NEW v, NEW S, IsFiniteSet(S)
  PROVE  /\ S = {} => SumOver(v, S) = 0
         /\ S # {} => SumOver(v, S) = v[Some(S)] + SumOver(v, S \ {Some(S)})
  <1>1. PICK f : AddsUp(v, f, SUBSET S)
    BY SumExists
  <1>2. \A T \in SUBSET S : f[T] = SumOver(v, T)
    BY <1>1, SumIsUnique
  <1>3. f[S] = Step(v, f, S)
    BY <1>1 DEF AddsUp
  <1>. QED  BY <1>2, <1>3 DEF Step

\* Elements whose values count.
Counted(v, S) == IsFiniteSet(S) /\ \A x \in S : v[x] \in Int

LEMMA SumIsInt ==
  ASSUME NEW v, NEW S, Counted(v, S)
  PROVE  SumOver(v, S) \in Int
  <1>. DEFINE G == {n \in Nat : \A T \in SUBSET S : Cardinality(T) = n => SumOver(v, T) \in Int}
  <1>0. \A T \in SUBSET S : IsFiniteSet(T) /\ Cardinality(T) \in Nat
    BY FS_Subset, FS_CardinalityType DEF Counted
  <1>1. 0 \in G
    <2>1. \A T \in SUBSET S : Cardinality(T) = 0 => T = {}
      BY <1>0, FS_EmptySet
    <2>2. SumOver(v, {}) = 0
      BY FS_EmptySet, SumSteps
    <2>. QED  BY <2>1, <2>2
  <1>2. ASSUME NEW n \in G
        PROVE  n + 1 \in G
    <2>1. ASSUME NEW T \in SUBSET S, Cardinality(T) = n + 1
          PROVE  SumOver(v, T) \in Int
      <3>1. T # {}
        <4>1. n \in Nat /\ n + 1 # 0
          OBVIOUS
        <4>. QED  BY <2>1, <4>1, FS_EmptySet
      <3>2. /\ Cardinality(T) = Cardinality(T \ {Some(T)}) + 1 /\ Some(T) \in T
            /\ Cardinality(T \ {Some(T)}) \in Nat
        BY <1>0, <3>1, OneLess
      <3>3. Cardinality(T \ {Some(T)}) = n /\ T \ {Some(T)} \in SUBSET S
        BY <2>1, <3>2
      <3>4. SumOver(v, T \ {Some(T)}) \in Int
        BY <3>3
      <3>5. v[Some(T)] \in Int
        BY <3>2 DEF Counted
      <3>6. SumOver(v, T) = v[Some(T)] + SumOver(v, T \ {Some(T)})
        BY <1>0, <3>1, SumSteps
      <3>. QED  BY <3>4, <3>5, <3>6
    <2>. QED  BY <2>1
  <1>. HIDE DEF G
  <1>3. G = Nat
    <2>1. G \in SUBSET Nat
      BY DEF G
    <2>. QED  BY <1>1, <1>2, <2>1, Counting
  <1>4. Cardinality(S) \in G
    BY <1>3, FS_CardinalityType DEF Counted
  <1>. QED  BY <1>4 DEF G

\* ... of any of its elements.
LEMMA SumSplits ==
  ASSUME NEW v, NEW S, Counted(v, S), NEW e \in S
  PROVE  SumOver(v, S) = v[e] + SumOver(v, S \ {e})
  <1>. DEFINE G == {n \in Nat : \A T \in SUBSET S : Cardinality(T) = n =>
                              \A d \in T : SumOver(v, T) = v[d] + SumOver(v, T \ {d})}
  <1>0. \A T \in SUBSET S : IsFiniteSet(T) /\ Cardinality(T) \in Nat /\ Counted(v, T) /\ SumOver(v, T) \in Int
    <2>1. \A T \in SUBSET S : Counted(v, T)
      BY FS_Subset DEF Counted
    <2>2. \A T \in SUBSET S : SumOver(v, T) \in Int
      BY <2>1, SumIsInt
    <2>. QED  BY <2>1, <2>2, FS_CardinalityType DEF Counted
  <1>1. 0 \in G
    <2>1. \A T \in SUBSET S : Cardinality(T) = 0 => T = {}
      BY <1>0, FS_EmptySet
    <2>. QED  BY <2>1
  <1>2. ASSUME NEW n \in G
        PROVE  n + 1 \in G
    <2>1. ASSUME NEW T \in SUBSET S, Cardinality(T) = n + 1, NEW d \in T
          PROVE  SumOver(v, T) = v[d] + SumOver(v, T \ {d})
      <3>1. PICK x : x = Some(T)
        OBVIOUS
      <3>2. T # {} /\ IsFiniteSet(T) /\ Cardinality(T) \in Nat
        BY <1>0, <2>1
      <3>3. x \in T /\ SumOver(v, T) = v[x] + SumOver(v, T \ {x})
        <4>1. Some(T) \in T
          BY <3>2, OneLess
        <4>2. SumOver(v, T) = v[Some(T)] + SumOver(v, T \ {Some(T)})
          BY <3>2, SumSteps
        <4>. QED  BY <3>1, <4>1, <4>2
      <3>4. \A y \in T : Cardinality(T \ {y}) = n /\ T \ {y} \in SUBSET S
        <4>1. ASSUME NEW y \in T
              PROVE  Cardinality(T \ {y}) = n
          <5>1. Cardinality(T \ {y}) = Cardinality(T) - 1
            BY <3>2, FS_RemoveElement
          <5>. QED  BY <2>1, <5>1
        <4>. QED  BY <4>1
      <3>5. CASE d = x
        BY <3>3, <3>5
      <3>6. CASE d # x
        <4>1. SumOver(v, T \ {x}) = v[d] + SumOver(v, (T \ {x}) \ {d})
          BY <3>3, <3>4, <3>6
        <4>2. SumOver(v, T \ {d}) = v[x] + SumOver(v, (T \ {d}) \ {x})
          BY <3>3, <3>4, <3>6
        <4>3. (T \ {x}) \ {d} = (T \ {d}) \ {x}
          OBVIOUS
        <4>4. v[x] \in Int /\ v[d] \in Int /\ SumOver(v, (T \ {d}) \ {x}) \in Int
          BY <1>0, <3>3 DEF Counted
        <4>5. PICK r : r = SumOver(v, (T \ {d}) \ {x})
          OBVIOUS
        <4>6. SumOver(v, T \ {x}) = v[d] + r /\ SumOver(v, T \ {d}) = v[x] + r /\ r \in Int
          BY <4>1, <4>2, <4>3, <4>4, <4>5
        <4>. QED  BY <3>3, <4>4, <4>6
      <3>. QED  BY <3>5, <3>6
    <2>. QED  BY <2>1

  <1>. HIDE DEF G
  <1>3. G = Nat
    <2>1. G \in SUBSET Nat
      BY DEF G
    <2>. QED  BY <1>1, <1>2, <2>1, Counting
  <1>4. Cardinality(S) \in G
    BY <1>3, FS_CardinalityType DEF Counted
  <1>. QED  BY <1>4 DEF G

\* Two sets that have no element in common.
LEMMA SumOfUnion ==
  ASSUME NEW v, NEW A, NEW B, Counted(v, A), Counted(v, B), A \cap B = {}
  PROVE  Counted(v, A \cup B) /\ SumOver(v, A \cup B) = SumOver(v, A) + SumOver(v, B)
  <1>. DEFINE G == {n \in Nat : \A T \in SUBSET B : Cardinality(T) = n => SumOver(v, A \cup T) = SumOver(v, A) + SumOver(v, T)}
  <1>0. \A T \in SUBSET B : /\ IsFiniteSet(T) /\ Cardinality(T) \in Nat /\ Counted(v, T) /\ Counted(v, A \cup T)
                            /\ SumOver(v, T) \in Int
    <2>1. \A T \in SUBSET B : Counted(v, T)
      BY FS_Subset DEF Counted
    <2>2. \A T \in SUBSET B : SumOver(v, T) \in Int
      BY <2>1, SumIsInt
    <2>3. \A T \in SUBSET B : IsFiniteSet(A \cup T)
      BY <2>1, FS_Union DEF Counted
    <2>4. \A T \in SUBSET B : Counted(v, A \cup T)
      BY <2>1, <2>3 DEF Counted
    <2>. QED  BY <2>1, <2>2, <2>4, FS_CardinalityType DEF Counted
  <1>5. SumOver(v, A) \in Int
    BY SumIsInt
  <1>1. 0 \in G
    <2>1. \A T \in SUBSET B : Cardinality(T) = 0 => T = {}
      BY <1>0, FS_EmptySet
    <2>2. SumOver(v, {}) = 0 /\ A \cup {} = A
      BY FS_EmptySet, SumSteps
    <2>. QED  BY <1>5, <2>1, <2>2
  <1>2. ASSUME NEW n \in G
        PROVE  n + 1 \in G
    <2>1. ASSUME NEW T \in SUBSET B, Cardinality(T) = n + 1
          PROVE  SumOver(v, A \cup T) = SumOver(v, A) + SumOver(v, T)
      <3>1. T # {}
        <4>1. n \in Nat /\ n + 1 # 0
          OBVIOUS
        <4>. QED  BY <2>1, <4>1, FS_EmptySet
      <3>2. PICK x : x \in T
        BY <3>1
      <3>3. T \ {x} \in SUBSET B /\ Cardinality(T \ {x}) = n
        <4>1. Cardinality(T \ {x}) = Cardinality(T) - 1
          BY <1>0, <3>2, FS_RemoveElement
        <4>. QED  BY <2>1, <4>1
      <3>4. SumOver(v, A \cup (T \ {x})) = SumOver(v, A) + SumOver(v, T \ {x})
        BY <3>3
      <3>5. (A \cup T) \ {x} = A \cup (T \ {x})
        BY <3>2
      <3>6. SumOver(v, A \cup T) = v[x] + SumOver(v, (A \cup T) \ {x})
        <4>1. PICK U : U = A \cup T
          OBVIOUS
        <4>2. Counted(v, U) /\ x \in U
          BY <1>0, <3>2, <4>1
        <4>3. SumOver(v, U) = v[x] + SumOver(v, U \ {x})
          BY <4>2, SumSplits
        <4>. QED  BY <4>1, <4>3
      <3>7. SumOver(v, T) = v[x] + SumOver(v, T \ {x})
        <4>1. Counted(v, T)
          BY <1>0
        <4>. QED  BY <3>2, <4>1, SumSplits
      <3>8. v[x] \in Int /\ SumOver(v, T \ {x}) \in Int
        BY <1>0, <3>2, <3>3 DEF Counted
      <3>9. SumOver(v, A \cup T) = v[x] + SumOver(v, A \cup (T \ {x}))
        BY <3>5, <3>6
      <3>10. PICK a, r, y : a = SumOver(v, A) /\ r = SumOver(v, T \ {x}) /\ y = v[x]
        OBVIOUS
      <3>11. SumOver(v, A \cup T) = y + (a + r) /\ SumOver(v, T) = y + r
        BY <3>4, <3>7, <3>9, <3>10
      <3>12. a \in Int /\ r \in Int /\ y \in Int
        BY <1>5, <3>8, <3>10
      <3>. QED  BY <3>10, <3>11, <3>12
    <2>. QED  BY <2>1

  <1>. HIDE DEF G
  <1>3. G = Nat
    <2>1. G \in SUBSET Nat
      BY DEF G
    <2>. QED  BY <1>1, <1>2, <2>1, Counting
  <1>4. Cardinality(B) \in G
    BY <1>3, FS_CardinalityType DEF Counted
  <1>. QED  BY <1>0, <1>4 DEF G

\* Elements that have the same values.
LEMMA SumOfSame ==
  ASSUME NEW v, NEW w, NEW S, IsFiniteSet(S), \A x \in S : v[x] = w[x]
  PROVE  SumOver(v, S) = SumOver(w, S)
  <1>1. PICK f : AddsUp(v, f, SUBSET S)
    BY SumExists
  <1>2. \A T \in SUBSET S : Step(v, f, T) = Step(w, f, T)
    BY DEF Step, Some
  <1>3. AddsUp(w, f, SUBSET S)
    BY <1>1, <1>2 DEF AddsUp
  <1>4. f[S] = SumOver(v, S)
    BY <1>1, SumIsUnique
  <1>5. f[S] = SumOver(w, S)
    BY <1>3, SumIsUnique
  <1>. QED  BY <1>4, <1>5

\* Counting class by class is counting all: v[x] elements have the key x.
LEMMA SumOfClasses ==
  ASSUME NEW A, IsFiniteSet(A), NEW key, NEW S, IsFiniteSet(S), NEW v,
         \A x \in S : v[x] = Cardinality({a \in A : key[a] = x})
  PROVE  SumOver(v, S) = Cardinality({a \in A : key[a] \in S})
  <1>. DEFINE Of(T) == {a \in A : key[a] \in T}
              G     == {n \in Nat : \A T \in SUBSET S :
                          Cardinality(T) = n => SumOver(v, T) = Cardinality(Of(T))}
  <1>0. \A T \in SUBSET S : IsFiniteSet(T) /\ Cardinality(T) \in Nat
    BY FS_Subset, FS_CardinalityType
  <1>f. \A B \in SUBSET A : IsFiniteSet(B) /\ Cardinality(B) \in Nat
    BY FS_Subset, FS_CardinalityType
  <1>1. 0 \in G
    <2>1. \A T \in SUBSET S : Cardinality(T) = 0 => T = {}
      BY <1>0, FS_EmptySet
    <2>2. SumOver(v, {}) = 0 /\ Cardinality(Of({})) = 0
      <3>1. Of({}) = {}
        OBVIOUS
      <3>. QED  BY <3>1, FS_EmptySet, SumSteps
    <2>. QED  BY <2>1, <2>2
  <1>2. ASSUME NEW n \in G
        PROVE  n + 1 \in G
    <2>1. ASSUME NEW T \in SUBSET S, Cardinality(T) = n + 1
          PROVE  SumOver(v, T) = Cardinality(Of(T))
      <3>1. T # {}
        <4>1. n \in Nat /\ n + 1 # 0
          OBVIOUS
        <4>. QED  BY <2>1, <4>1, FS_EmptySet
      <3>2. PICK d : d = Some(T)
        OBVIOUS
      <3>3. /\ Cardinality(T) = Cardinality(T \ {d}) + 1 /\ d \in T /\ Cardinality(T \ {d}) \in Nat
        BY <1>0, <3>1, <3>2, OneLess
      <3>4. Cardinality(T \ {d}) = n /\ T \ {d} \in SUBSET S
        BY <2>1, <3>3
      <3>5. SumOver(v, T \ {d}) = Cardinality(Of(T \ {d}))
        BY <3>4
      <3>6. v[d] = Cardinality({a \in A : key[a] = d})
        BY <3>3
      <3>7. SumOver(v, T) = v[d] + SumOver(v, T \ {d})
        BY <1>0, <3>1, <3>2, SumSteps
      <3>8. /\ Of(T) = {a \in A : key[a] = d} \cup Of(T \ {d})
            /\ {a \in A : key[a] = d} \cap Of(T \ {d}) = {}
        BY <3>3
      <3>9. PICK B, C \in SUBSET A : B = {a \in A : key[a] = d} /\ C = Of(T \ {d})
        OBVIOUS
      <3>10. Cardinality(B \cup C) = Cardinality(B) + Cardinality(C) - Cardinality(B \cap C)
        BY <1>f, FS_Union
      <3>11. Cardinality(B \cap C) = 0
        <4>1. B \cap C = {}
          BY <3>8, <3>9
        <4>. QED  BY <4>1, FS_EmptySet
      <3>12. Cardinality(B) \in Nat /\ Cardinality(C) \in Nat
        BY <1>f
      <3>13. Cardinality(Of(T)) = Cardinality(B) + Cardinality(C)
        <4>1. Of(T) = B \cup C
          BY <3>8, <3>9
        <4>. HIDE DEF Of
        <4>. QED  BY <3>10, <3>11, <3>12, <4>1
      <3>. QED  BY <3>5, <3>6, <3>7, <3>9, <3>13
    <2>. QED  BY <2>1
  <1>. HIDE DEF G
  <1>3. G = Nat
    <2>1. G \in SUBSET Nat
      BY DEF G
    <2>. QED  BY <1>1, <1>2, <2>1, Counting
  <1>4. Cardinality(S) \in G
    BY <1>3, FS_CardinalityType
  <1>. QED  BY <1>4 DEF G
=============================================================================
