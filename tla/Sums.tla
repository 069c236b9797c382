-------------------------------- MODULE Sums --------------------------------
(***************************************************************************)
(* What the folds of FiniteSetsExt and Functions add up to, for any finite *)
(* set: the lemmas about sums that the proofs about the reference counts   *)
(* and about the buffer cache rest on.                                     *)
(*                                                                         *)
(* A fold is a recursive function on the subsets of its set.  That there   *)
(* is such a function, and what it computes, is shown by a counterexample  *)
(* of least cardinality.                                                   *)
(***************************************************************************)
EXTENDS Integers, FiniteSetsExt, Functions, FiniteSetTheorems,
        WellFoundedInduction, NaturalsInduction, TLAPS

\* The element a fold takes next.
Pick(s) == CHOOSE x \in s : TRUE

\* it adds up f on each of the sets in D.
Adds(it, D, f) ==
    it = [s \in D |-> IF s = {} THEN 0 ELSE f[Pick(s)] + it[s \ {Pick(s)}]]

Sum(f, S) == MapThenSumSet(LAMBDA x : f[x], S)

\* The fold takes an element while there is one.
LEMMA PickIn ==
    ASSUME NEW s, s # {}
    PROVE  Pick(s) \in s
BY DEF Pick

\* Every non-empty set of natural numbers has a least element.
LEMMA LeastNumber ==
    ASSUME NEW T, T \subseteq Nat, T # {}
    PROVE  \E x \in T : \A y \in T : x <= y
<1> DEFINE R == OpToRel(<, Nat)
<1>1. IsWellFoundedOn(R, Nat)
    BY NatLessThanWellFounded
<1> HIDE DEF R
<1>2. PICK x \in T : \A y \in T : ~ (<<y, x>> \in R)
    BY <1>1, WFMin
<1>3. ASSUME NEW y \in T
      PROVE  x <= y
    <2>1. x \in Nat /\ y \in Nat
        OBVIOUS
    <2>2. ~ (<<y, x>> \in R)
        BY <1>2
    <2>3. ~ (y < x)
        BY <2>1, <2>2 DEF R, OpToRel
    <2> QED
        BY <2>1, <2>3
<1> QED
    BY <1>3

\* Of the bad subsets of a finite set, if there are any, one has no bad
\* subset that lacks just the element the fold takes from it.
LEMMA LeastSet ==
    ASSUME NEW S, IsFiniteSet(S), NEW B, B \subseteq SUBSET S, B # {}
    PROVE  \E s \in B : s \ {Pick(s)} \in B => s = {}
<1>1. \A s \in B : IsFiniteSet(s) /\ Cardinality(s) \in Nat
    BY FS_Subset, FS_CardinalityType
<1>2. PICK T : T = {Cardinality(s) : s \in B}
    OBVIOUS
<1>3. T \subseteq Nat /\ T # {}
    BY <1>1, <1>2
<1>4. PICK m \in T : \A y \in T : m <= y
    BY <1>3, LeastNumber
<1>5. PICK s \in B : Cardinality(s) = m
    BY <1>2, <1>4
<1>6. ASSUME s \ {Pick(s)} \in B, s # {}
      PROVE  FALSE
    <2>1. Pick(s) \in s
        BY <1>6, PickIn
    <2>2. Cardinality(s \ {Pick(s)}) = Cardinality(s) - 1
        BY <1>1, <2>1, FS_RemoveElement
    <2>3. Cardinality(s \ {Pick(s)}) >= m
        BY <1>2, <1>4, <1>6
    <2> QED
        BY <1>1, <1>5, <2>2, <2>3
<1> QED
    BY <1>5, <1>6

\* A fold over the sets of up to so many elements extends to those of one
\* more.
LEMMA LevelExtends ==
    ASSUME NEW S, IsFiniteSet(S), NEW f, NEW k \in Nat, NEW g,
           Adds(g, {s \in SUBSET S : Cardinality(s) <= k}, f)
    PROVE  \E h : Adds(h, {s \in SUBSET S : Cardinality(s) <= k + 1}, f)
<1>1. PICK D : D = {s \in SUBSET S : Cardinality(s) <= k}
    OBVIOUS
<1>2. PICK E : E = {s \in SUBSET S : Cardinality(s) <= k + 1}
    OBVIOUS
<1>3. PICK h : h = [s \in E |-> IF s = {} THEN 0
                                ELSE f[Pick(s)] + g[s \ {Pick(s)}]]
    OBVIOUS
<1>4. \A s \in SUBSET S : IsFiniteSet(s) /\ Cardinality(s) \in Nat
    BY FS_Subset, FS_CardinalityType
<1>5. ASSUME NEW s \in E, s # {}
      PROVE  s \ {Pick(s)} \in D
    <2>1. Pick(s) \in s /\ s \in SUBSET S
        BY <1>2, <1>5, PickIn
    <2>2. Cardinality(s \ {Pick(s)}) = Cardinality(s) - 1
        BY <1>4, <2>1, FS_RemoveElement
    <2> QED
        BY <1>1, <1>2, <1>4, <2>1, <2>2
<1>6. \A s \in D : s \in E
    BY <1>1, <1>2, <1>4
<1>7. \A s \in D : h[s] = g[s]
    BY <1>1, <1>3, <1>6 DEF Adds
<1>8. h = [s \in E |-> IF s = {} THEN 0 ELSE f[Pick(s)] + h[s \ {Pick(s)}]]
    BY <1>3, <1>5, <1>7
<1> QED
    BY <1>2, <1>8 DEF Adds

\* Over a finite set the fold exists.
LEMMA FoldExists ==
    ASSUME NEW S, IsFiniteSet(S), NEW f
    PROVE  \E it : Adds(it, SUBSET S, f)
<1> DEFINE Level(n) == {s \in SUBSET S : Cardinality(s) <= n}
           T == {n \in Nat : ~ \E g : Adds(g, Level(n), f)}
<1>1. ASSUME NEW n \in Nat
      PROVE  \E g : Adds(g, Level(n), f)
    <2> SUFFICES ASSUME n \in T
                 PROVE  FALSE
        OBVIOUS
    <2>1. PICK m \in T : \A y \in T : m <= y
        BY LeastNumber
    <2>2. CASE m = 0
        <3>1. ASSUME NEW s \in Level(0)
              PROVE  s = {}
            <4>1. s \in SUBSET S /\ Cardinality(s) <= 0
                OBVIOUS
            <4>2. IsFiniteSet(s) /\ Cardinality(s) \in Nat
                BY <4>1, FS_Subset, FS_CardinalityType
            <4>3. Cardinality(s) = 0
                BY <4>1, <4>2
            <4> QED
                BY <4>2, <4>3, FS_EmptySet
        <3>2. PICK g : g = [s \in Level(0) |-> 0]
            OBVIOUS
        <3>3. Adds(g, Level(0), f)
            BY <3>1, <3>2 DEF Adds
        <3> QED
            BY <2>2, <3>3
    <2>3. CASE m # 0
        <3>0. m \in Nat /\ m - 1 \in Nat /\ ~ (m <= m - 1)
            BY <2>3
        <3>1. m - 1 \in Nat /\ m - 1 \notin T
            BY <2>1, <3>0, Zenon
        <3>2. PICK g : Adds(g, {s \in SUBSET S : Cardinality(s) <= m - 1}, f)
            BY <3>1
        <3>3. (m - 1) + 1 = m
            OBVIOUS
        <3>4. \E h : Adds(h, {s \in SUBSET S : Cardinality(s) <= (m - 1) + 1}, f)
            BY <3>1, <3>2, LevelExtends
        <3> QED
            BY <3>3, <3>4
    <2> QED
        BY <2>2, <2>3
<1>2. Cardinality(S) \in Nat
    BY FS_CardinalityType
<1>3. Level(Cardinality(S)) = SUBSET S
    BY FS_Subset
<1> QED
    BY <1>1, <1>2, <1>3

\* The library's sum is such a fold.
LEMMA SumIsFold ==
    ASSUME NEW S, IsFiniteSet(S), NEW f
    PROVE  \E it : Adds(it, SUBSET S, f) /\ Sum(f, S) = it[S]
<1>1. PICK it : Adds(it, SUBSET S, f)
    BY FoldExists
<1>2. it = [s \in SUBSET S |->
                IF s = {} THEN 0
                ELSE f[CHOOSE x \in s : TRUE] + it[s \ {CHOOSE x \in s : TRUE}]]
    BY <1>1 DEF Adds, Pick
<1>3. \E g : /\ g = [s \in SUBSET S |->
                        IF s = {} THEN 0
                        ELSE f[CHOOSE x \in s : TRUE]
                             + g[s \ {CHOOSE x \in s : TRUE}]]
             /\ Sum(f, S) = g[S]
    BY <1>2 DEF Sum, MapThenSumSet, MapThenFoldSet
<1> QED
    BY <1>3 DEF Adds, Pick

\* A fold over nothing is 0.
LEMMA FoldEmpty ==
    ASSUME NEW S, NEW f, NEW it, Adds(it, SUBSET S, f)
    PROVE  it[{}] = 0
BY DEF Adds

\* A fold takes an element of a set, and adds the rest.
LEMMA FoldStep ==
    ASSUME NEW S, NEW f, NEW it, Adds(it, SUBSET S, f), NEW s \in SUBSET S,
           s # {}
    PROVE  /\ Pick(s) \in s
           /\ s \ {Pick(s)} \in SUBSET S
           /\ it[s] = f[Pick(s)] + it[s \ {Pick(s)}]
<1>1. it[s] = IF s = {} THEN 0 ELSE f[Pick(s)] + it[s \ {Pick(s)}]
    BY DEF Adds
<1>2. s \ {Pick(s)} \in SUBSET S
    OBVIOUS
<1> QED
    BY <1>1, <1>2, PickIn

\* A sum of natural numbers is one.
LEMMA FoldNat ==
    ASSUME NEW S, IsFiniteSet(S), NEW f \in [S -> Nat], NEW it,
           Adds(it, SUBSET S, f), NEW s \in SUBSET S
    PROVE  it[s] \in Nat
<1>1. PICK B : B = {r \in SUBSET S : it[r] \notin Nat}
    OBVIOUS
<1> SUFFICES ASSUME B # {}
             PROVE  FALSE
    BY <1>1
<1>2. PICK r \in B : r \ {Pick(r)} \in B => r = {}
    BY <1>1, LeastSet
<1>3. r \in SUBSET S /\ it[r] \notin Nat
    BY <1>1, <1>2
<1>4. r # {}
    <2>1. it[{}] = 0
        BY FoldEmpty
    <2>2. ASSUME r = {}
          PROVE  it[r] = 0
        BY <2>1, <2>2, Zenon
    <2> QED
        BY <1>3, <2>2
<1>5. /\ Pick(r) \in r
      /\ r \ {Pick(r)} \in SUBSET S
      /\ it[r] = f[Pick(r)] + it[r \ {Pick(r)}]
    BY <1>3, <1>4, FoldStep
<1>6. it[r \ {Pick(r)}] \in Nat
    BY <1>1, <1>2, <1>4, <1>5
<1>7. f[Pick(r)] \in Nat
    BY <1>3, <1>5
<1> QED
    BY <1>3, <1>5, <1>6, <1>7

\* It is 0 only where each summand is.
LEMMA FoldZero ==
    ASSUME NEW S, IsFiniteSet(S), NEW f \in [S -> Nat], NEW it,
           Adds(it, SUBSET S, f), NEW s \in SUBSET S, NEW x \in s
    PROVE  it[s] >= f[x]
<1>1. PICK B : B = {r \in SUBSET S : x \in r /\ ~ (it[r] >= f[x])}
    OBVIOUS
<1> SUFFICES ASSUME B # {}
             PROVE  FALSE
    BY <1>1
<1>2. PICK r \in B : r \ {Pick(r)} \in B => r = {}
    BY <1>1, LeastSet
<1>3. r \in SUBSET S /\ x \in r /\ ~ (it[r] >= f[x]) /\ r # {}
    BY <1>1, <1>2
<1>4. /\ Pick(r) \in r
      /\ r \ {Pick(r)} \in SUBSET S
      /\ it[r] = f[Pick(r)] + it[r \ {Pick(r)}]
    BY <1>3, FoldStep
<1>5. it[r \ {Pick(r)}] \in Nat
    BY <1>4, FoldNat
<1>6. f[Pick(r)] \in Nat /\ f[x] \in Nat
    BY <1>3, <1>4
<1>7. CASE x = Pick(r)
    BY <1>3, <1>4, <1>5, <1>6, <1>7
<1>8. CASE x # Pick(r)
    <2>1. it[r \ {Pick(r)}] >= f[x]
        BY <1>1, <1>2, <1>3, <1>4, <1>8
    <2> QED
        BY <1>3, <1>4, <1>5, <1>6, <2>1
<1> QED
    BY <1>7, <1>8

\* Two folds differ by what the functions differ by in one place.
LEMMA FoldChange ==
    ASSUME NEW S, IsFiniteSet(S), NEW f \in [S -> Nat], NEW g \in [S -> Nat],
           NEW it, Adds(it, SUBSET S, f), NEW jt, Adds(jt, SUBSET S, g),
           NEW y \in S, \A x \in S : x # y => g[x] = f[x]
    PROVE  jt[S] = it[S] + (g[y] - f[y])
<1> DEFINE Less(s) == IF y \in s THEN g[y] - f[y] ELSE 0
<1>1. PICK B : B = {s \in SUBSET S : jt[s] # it[s] + Less(s)}
    OBVIOUS
<1>2. ASSUME B # {}
      PROVE  FALSE
    <2>1. PICK r \in B : r \ {Pick(r)} \in B => r = {}
        BY <1>1, <1>2, LeastSet
    <2>2. r \in SUBSET S /\ jt[r] # it[r] + Less(r)
        BY <1>1, <2>1
    <2>3. r # {}
        <3>1. it[{}] = 0
            BY FoldEmpty
        <3>2. jt[{}] = 0
            BY FoldEmpty
        <3>3. ASSUME r = {}
              PROVE  it[r] = 0 /\ jt[r] = 0 /\ Less(r) = 0
            <4>1. Less({}) = 0
                OBVIOUS
            <4> HIDE DEF Less
            <4> QED
                BY <3>1, <3>2, <3>3, <4>1, Zenon
        <3> HIDE DEF Less
        <3> QED
            BY <2>2, <3>3
    <2>4. PICK p \in r : p = Pick(r)
        BY <2>3, PickIn
    <2>5. /\ r \ {p} \in SUBSET S
          /\ it[r] = f[p] + it[r \ {p}]
          /\ jt[r] = g[p] + jt[r \ {p}]
        <3>1. r \in SUBSET S
            BY <2>2
        <3>2. r \ {Pick(r)} \in SUBSET S /\ it[r] = f[Pick(r)] + it[r \ {Pick(r)}]
            BY <2>3, <3>1, FoldStep
        <3>3. jt[r] = g[Pick(r)] + jt[r \ {Pick(r)}]
            BY <2>3, <3>1 DEF Adds
        <3> QED
            BY <2>4, <3>2, <3>3
    <2>6. jt[r \ {p}] = it[r \ {p}] + Less(r \ {p})
        BY <1>1, <2>1, <2>3, <2>4, <2>5
    <2>7. it[r \ {p}] \in Nat
        BY <2>5, FoldNat
    <2>8. p \in S /\ f[p] \in Nat /\ g[p] \in Nat /\ f[y] \in Nat /\ g[y] \in Nat
        BY <2>2, <2>4
    <2>9. CASE p = y
        <3>1. Less(r \ {p}) = 0 /\ Less(r) = g[y] - f[y]
            BY <2>9
        <3> QED
            BY <2>2, <2>5, <2>6, <2>7, <2>8, <2>9, <3>1
    <2>10. CASE p # y
        <3>1. Less(r \ {p}) = Less(r) /\ g[p] = f[p] /\ Less(r) \in Int
            BY <2>8, <2>10
        <3> HIDE DEF Less
        <3> QED
            BY <2>2, <2>5, <2>6, <2>7, <2>8, <3>1
    <2> QED
        BY <2>9, <2>10
<1>3. Less(S) = g[y] - f[y] /\ S \in SUBSET S
    OBVIOUS
<1> HIDE DEF Less
<1> QED
    BY <1>1, <1>2, <1>3

-----------------------------------------------------------------------------
(* The sum itself *)

\* The sum of natural numbers is one, and no summand exceeds it.
LEMMA SumNat ==
    ASSUME NEW S, IsFiniteSet(S), NEW f \in [S -> Nat]
    PROVE  /\ Sum(f, S) \in Nat
           /\ \A x \in S : f[x] <= Sum(f, S)
<1>1. PICK it : Adds(it, SUBSET S, f) /\ Sum(f, S) = it[S]
    BY SumIsFold
<1>2. it[S] \in Nat
    BY <1>1, FoldNat
<1>3. \A x \in S : it[S] >= f[x]
    BY <1>1, FoldZero
<1>4. \A x \in S : f[x] \in Nat
    OBVIOUS
<1> QED
    BY <1>1, <1>2, <1>3, <1>4

\* When one summand changes, the sum changes by as much.
LEMMA SumChange ==
    ASSUME NEW S, IsFiniteSet(S), NEW f \in [S -> Nat], NEW g \in [S -> Nat],
           NEW y \in S, \A x \in S : x # y => g[x] = f[x]
    PROVE  Sum(g, S) = Sum(f, S) + (g[y] - f[y])
<1>1. PICK it : Adds(it, SUBSET S, f) /\ Sum(f, S) = it[S]
    BY SumIsFold
<1>2. PICK jt : Adds(jt, SUBSET S, g) /\ Sum(g, S) = jt[S]
    BY SumIsFold
<1>3. jt[S] = it[S] + (g[y] - f[y])
    BY <1>1, <1>2, FoldChange
<1> QED
    BY <1>1, <1>2, <1>3

\* A sum of zeros is 0.
LEMMA SumOfZeros ==
    ASSUME NEW S, IsFiniteSet(S), NEW f \in [S -> Nat], \A x \in S : f[x] = 0
    PROVE  Sum(f, S) = 0
<1>1. PICK it : Adds(it, SUBSET S, f) /\ Sum(f, S) = it[S]
    BY SumIsFold
<1>2. PICK B : B = {s \in SUBSET S : it[s] # 0}
    OBVIOUS
<1>3. ASSUME B # {}
      PROVE  FALSE
    <2>1. PICK r \in B : r \ {Pick(r)} \in B => r = {}
        BY <1>2, <1>3, LeastSet
    <2>2. r \in SUBSET S /\ it[r] # 0
        BY <1>2, <2>1
    <2>3. r # {}
        BY <1>1, <2>2, FoldEmpty
    <2>4. /\ Pick(r) \in r
          /\ r \ {Pick(r)} \in SUBSET S
          /\ it[r] = f[Pick(r)] + it[r \ {Pick(r)}]
        BY <1>1, <2>2, <2>3, FoldStep
    <2>5. it[r \ {Pick(r)}] = 0 /\ f[Pick(r)] = 0
        BY <1>2, <2>1, <2>2, <2>3, <2>4
    <2> QED
        BY <2>2, <2>4, <2>5
<1> QED
    BY <1>1, <1>2, <1>3

=============================================================================
