---------------------------- MODULE MemoryProofs ----------------------------
(***************************************************************************)
(* Proofs about module Memory, for any processes, sizes of the areas and   *)
(* of a page table and any number of frames: a frame is in one place, and  *)
(* a process keeps its pages.                                              *)
(***************************************************************************)
EXTENDS Memory, FiniteSetTheorems, TLAPS

\* The places a frame can be kept in, apart from the list of free frames.
DirSlots(P) == {<<"pd", p, 0>> : p \in P}
TableSlots(P) == {<<"pt", p, t>> : p \in P, t \in Tables}
PageSlots(P, V) == {<<"page", p, v>> : p \in P, v \in V}
SharedSlots == {<<"shared", v, 0>> : v \in SharedPages}
Slots == DirSlots(Procs) \union TableSlots(Procs) \union PageSlots(Procs, Pages)
            \union SharedSlots

\* The frame that is kept there, 0 if there is none.
Content(x) ==
    CASE x[1] = "pd" -> pd[x[2]]
      [] x[1] = "pt" -> pt[x[2]][x[3]]
      [] x[1] = "page" -> page[x[2]][x[3]]
      [] x[1] = "shared" -> shared[x[2]]

\* The frames that alloc_frame has returned at least once to a process.
Given == (GlobalFrames + 1)..(avail - 1)

Types ==
    /\ pd \in [Procs -> Nat]
    /\ pt \in [Procs -> [Tables -> Nat]]
    /\ page \in [Procs -> [Pages -> Nat]]
    /\ shared \in [SharedPages -> Nat]

Bounds ==
    /\ avail \in Nat /\ GlobalFrames < avail /\ avail <= NFrames + 1
    /\ firstFree \subseteq Given
    /\ lost \subseteq Given

Locations == {"none", "user", "forked", "fill", "lock", "shared", "dead"}

ThreadTypes ==
    /\ regions \in [Procs -> SUBSET Region]
    /\ pc \in [Procs -> Locations]
    /\ DOMAIN va = Procs
    /\ \A p \in Procs : pc[p] \in {"lock", "shared"} => va[p] \in SharedPages

\* What a place holds was given out, and is neither free nor lost.
HeldNotFree ==
    \A x \in Slots :
        Content(x) # 0 => /\ Content(x) \in Given
                          /\ Content(x) \notin firstFree
                          /\ Content(x) \notin lost

\* No two places hold the same frame.
HeldOnce ==
    \A x, y \in Slots : Content(x) = Content(y) /\ Content(x) # 0 => x = y

\* What was given out is free, lost or held.
NoneForgotten ==
    /\ firstFree \cap lost = {}
    /\ \A f \in Given :
            f \in firstFree \/ f \in lost \/ \E x \in Slots : Content(x) = f

Places == Bounds /\ HeldNotFree /\ HeldOnce /\ NoneForgotten

\* Only a process has a directory, and only then tables and pages.
Empty ==
    \A p \in Procs :
        IF pc[p] = "none" THEN pd[p] = 0 /\ pt[p] = NoTables /\ page[p] = NoPages
        ELSE pd[p] # 0

\* The regions of a process are in the area and disjoint.
Disjoint ==
    \A p \in Procs : \A r, s \in regions[p] :
        r # s => Of(r) \cap Of(s) = {}

IndInv == Types /\ ThreadTypes /\ Places /\ Empty /\ Disjoint

-----------------------------------------------------------------------------

(* The numbering of finite sets of numbers *)

\* Of two members the larger one has the larger number, and all are from 1 to
\* the number of members.
LEMMA RankGrows ==
    ASSUME NEW S, S \subseteq Int, IsFiniteSet(S), NEW x \in S
    PROVE  /\ Rank(S, x) \in 1..Cardinality(S)
           /\ \A y \in S : x < y => Rank(S, x) < Rank(S, y)
<1> DEFINE upTo(y) == {z \in S : z <= y}
<1>1. \A y \in S : /\ IsFiniteSet(upTo(y)) /\ Cardinality(upTo(y)) \in Nat
                   /\ Cardinality(upTo(y)) <= Cardinality(S)
    BY FS_Subset, FS_CardinalityType
<1>2. Cardinality(upTo(x)) # 0
    <2>1. x \in upTo(x)
        OBVIOUS
    <2> QED
        BY <1>1, <2>1, FS_EmptySet
<1>3. ASSUME NEW y \in S, x < y
      PROVE  Cardinality(upTo(x)) < Cardinality(upTo(y))
    <2>1. upTo(x) \subseteq upTo(y) /\ y \in upTo(y) /\ y \notin upTo(x)
        <3>1. x \in Int /\ y \in Int
            OBVIOUS
        <3>2. ASSUME NEW z \in S, z <= x
              PROVE  z <= y
            <4>1. z \in Int
                OBVIOUS
            <4> QED
                BY <1>3, <3>1, <3>2, <4>1
        <3>3. y <= y /\ ~(y <= x)
            BY <1>3, <3>1
        <3> QED
            BY <3>2, <3>3
    <2>2. /\ Cardinality(upTo(x)) <= Cardinality(upTo(y))
          /\ Cardinality(upTo(y)) = Cardinality(upTo(x)) => upTo(y) = upTo(x)
        BY <1>1, <2>1, FS_Subset
    <2> QED
        BY <1>1, <2>1, <2>2
<1>4. Cardinality(S) \in Nat
    BY FS_CardinalityType
<1> QED
    BY <1>1, <1>2, <1>3, <1>4 DEF Rank

\* Every number up to the number of members is that of one of them.
LEMMA RankReaches ==
    ASSUME NEW S, S \subseteq Int, IsFiniteSet(S), NEW k \in 1..Cardinality(S)
    PROVE  \E x \in S : Rank(S, x) = k
<1> DEFINE n == Cardinality(S)
           f == [x \in S |-> Rank(S, x)]
<1>1. n \in Nat
    BY FS_CardinalityType
<1>2. IsFiniteSet(1..n) /\ Cardinality(1..n) = n
    BY <1>1, FS_Interval
<1>3. f \in [S -> 1..n]
    BY RankGrows
<1>4. ASSUME NEW x \in S, NEW y \in S, f[x] = f[y]
      PROVE  x = y
    <2>1. x \in Int /\ y \in Int /\ Rank(S, x) = Rank(S, y)
        BY <1>4
    <2>2. /\ Rank(S, x) \in 1..n /\ Rank(S, y) \in 1..n
          /\ x < y => Rank(S, x) < Rank(S, y)
          /\ y < x => Rank(S, y) < Rank(S, x)
        BY RankGrows
    <2> HIDE DEF n
    <2> QED
        BY <1>1, <2>1, <2>2
<1>5. f \in Injection(S, 1..n)
    BY <1>3, <1>4 DEF Injection, IsInjective
<1>6. f \in Surjection(S, 1..n)
    BY <1>2, <1>5, FS_Injection
<1> QED
    BY <1>6 DEF Surjection

\* Nth finds the member with a number.
LEMMA NthIs ==
    ASSUME NEW S, S \subseteq Int, IsFiniteSet(S)
    PROVE  /\ \A k \in 1..Cardinality(S) : Nth(S, k) \in S /\ Rank(S, Nth(S, k)) = k
           /\ \A x \in S : Nth(S, Rank(S, x)) = x
<1>1. ASSUME NEW k \in 1..Cardinality(S)
      PROVE  Nth(S, k) \in S /\ Rank(S, Nth(S, k)) = k
    BY <1>1, RankReaches DEF Nth
<1>2. ASSUME NEW x \in S
      PROVE  Nth(S, Rank(S, x)) = x
    <2> DEFINE y == Nth(S, Rank(S, x))
    <2>1. y \in S /\ Rank(S, y) = Rank(S, x)
        BY <1>1, RankGrows
    <2>2. x \in Int /\ y \in Int
        BY <2>1
    <2>3. /\ Cardinality(S) \in Nat
          /\ Rank(S, x) \in 1..Cardinality(S)
          /\ x < y => Rank(S, x) < Rank(S, y)
          /\ y < x => Rank(S, y) < Rank(S, x)
        BY <2>1, RankGrows, FS_CardinalityType
    <2> HIDE DEF y
    <2>4. x < y \/ y < x \/ x = y
        BY <2>2
    <2>5. \A i \in 1..Cardinality(S) : ~(i < i)
        BY <2>3
    <2>6. x = y
        BY <2>1, <2>3, <2>4, <2>5
    <2> QED
        BY <2>6 DEF y
<1> QED
    BY <1>1, <1>2

\* k calls of alloc_frame return k different frames, the lowest ones.
LEMMA FramesGiven ==
    ASSUME Bounds, NEW k \in 1..Cardinality(Supply)
    PROVE  /\ Frame(k) \in Supply
           /\ \A j \in 1..k : Frame(j) \in Supply /\ Frame(j) <= Frame(k)
           /\ \A i, j \in 1..k : Frame(i) = Frame(j) => i = j
           /\ \A f \in Supply : f <= Frame(k) => \E j \in 1..k : f = Frame(j)
<1>1. /\ Supply \subseteq Int /\ Supply \subseteq 0..NFrames
      /\ NFrames \in Nat
    BY MemoryAssumption DEF Bounds, Given, Supply
<1>2. IsFiniteSet(Supply) /\ Cardinality(Supply) \in Nat
    <2>1. IsFiniteSet(0..NFrames)
        BY <1>1, FS_Interval
    <2> QED
        BY <1>1, <2>1, FS_Subset, FS_CardinalityType
<1>3. \A j \in 1..k : j \in 1..Cardinality(Supply)
    BY <1>2
<1>4. \A j \in 1..k : Frame(j) \in Supply /\ Rank(Supply, Frame(j)) = j
    BY <1>1, <1>2, <1>3, NthIs DEF Frame
<1>5. k \in 1..k /\ \A j \in 1..k : j \in Int /\ j <= k
    BY <1>2
<1>6. ASSUME NEW f \in Supply, NEW g \in Supply, f < g
      PROVE  Rank(Supply, f) < Rank(Supply, g)
    BY <1>1, <1>2, <1>6, RankGrows
<1>7. ASSUME NEW j \in 1..k
      PROVE  Frame(j) <= Frame(k)
    <2>1. ~(Frame(k) < Frame(j))
        BY <1>4, <1>5, <1>6
    <2>2. Frame(j) \in Int /\ Frame(k) \in Int
        BY <1>1, <1>4, <1>5
    <2> QED
        BY <2>1, <2>2
<1>8. ASSUME NEW f \in Supply, f <= Frame(k)
      PROVE  \E j \in 1..k : f = Frame(j)
    <2> DEFINE j == Rank(Supply, f)
    <2>1. j \in 1..Cardinality(Supply) /\ f = Nth(Supply, j)
        BY <1>1, <1>2, RankGrows, NthIs
    <2>2. f = Frame(k) \/ f < Frame(k)
        <3>1. f \in Int /\ Frame(k) \in Int
            BY <1>1, <1>4, <1>5
        <3> QED
            BY <1>8, <3>1
    <2>3. j <= k
        BY <1>4, <1>5, <1>6, <2>2, <2>1
    <2> QED
        BY <1>2, <2>1, <2>3 DEF Frame
<1> QED
    BY <1>4, <1>5, <1>7, <1>8

-----------------------------------------------------------------------------
(* Giving out and taking back *)

\* What was given out stays so when avail grows.
LEMMA GivenGrows ==
    ASSUME NEW a \in Nat, NEW b \in Nat, a <= b
    PROVE  \A f \in (GlobalFrames + 1)..(a - 1) : f \in (GlobalFrames + 1)..(b - 1)
BY MemoryAssumption

\* k calls of alloc_frame whose results are put into k empty places N, the
\* result of call r[x] into x.
LEMMA AllocKeeps ==
    ASSUME Places,
           NEW k \in Nat \ {0}, AllocFrames(k),
           NEW N \in SUBSET Slots, NEW r \in [N -> 1..k],
           \A x, y \in N : r[x] = r[y] => x = y,
           \A j \in 1..k : \E x \in N : r[x] = j,
           \A x \in N : Content(x) = 0 /\ Content(x)' = Frame(r[x]),
           \A x \in Slots \ N : Content(x)' = Content(x),
           lost' = lost
    PROVE  Places'
<1> DEFINE F == Frame(k)
<1>1. Bounds /\ GlobalFrames \in Nat /\ NFrames \in Nat
    BY MemoryAssumption DEF Places
<1>2. k \in 1..Cardinality(Supply)
    <2>1. IsFiniteSet(0..NFrames)
        BY <1>1, FS_Interval
    <2>2. Supply \in SUBSET (0..NFrames)
        BY <1>1 DEF Bounds, Given, Supply
    <2>3. Cardinality(Supply) \in Nat
        BY <2>1, <2>2, FS_Subset, FS_CardinalityType
    <2> QED
        BY <2>3 DEF AllocFrames
<1>3. /\ F \in Supply
      /\ \A j \in 1..k : Frame(j) \in Supply /\ Frame(j) <= F
      /\ \A i, j \in 1..k : Frame(i) = Frame(j) => i = j
      /\ \A f \in Supply : f <= F => \E j \in 1..k : f = Frame(j)
    BY <1>1, <1>2, FramesGiven
<1>4. /\ firstFree' = {f \in firstFree : f > F}
      /\ avail' = IF F < avail THEN avail ELSE F + 1
    BY DEF AllocFrames
<1> HIDE DEF F
<1>5. \A f \in Supply : /\ f \in Int /\ GlobalFrames < f /\ f <= NFrames
                        /\ f < avail <=> f \in firstFree
    BY <1>1 DEF Bounds, Given, Supply
<1>6. F \in Int /\ GlobalFrames < F /\ F <= NFrames
    BY <1>3, <1>5
<1>7. avail \in Nat /\ avail' \in Nat /\ avail <= avail' /\ F < avail'
      /\ avail' <= NFrames + 1
    BY <1>1, <1>4, <1>6 DEF Bounds
<1>8. \A f \in Given : f \in Given'
    BY <1>7, GivenGrows DEF Given
<1>9. Bounds'
    BY <1>1, <1>4, <1>7, <1>8 DEF Bounds
<1>10. \A f \in Given' : f \notin Given => f \in Supply /\ f <= F
    BY <1>1, <1>4, <1>6, <1>7 DEF Given, Supply
\* The frames that are given out were free, or above avail.
<1>11. ASSUME NEW x \in N
       PROVE  /\ Frame(r[x]) \in Given' /\ Frame(r[x]) \notin firstFree'
              /\ Frame(r[x]) \notin lost /\ Frame(r[x]) # 0
              /\ \A y \in Slots : Frame(r[x]) # Content(y)
    <2>1. Frame(r[x]) \in Supply /\ Frame(r[x]) <= F
        BY <1>3, <1>11
    <2>2. /\ Frame(r[x]) \in Int /\ GlobalFrames < Frame(r[x])
          /\ Frame(r[x]) \in firstFree \/ ~(Frame(r[x]) < avail)
        BY <1>5, <2>1
    <2>3. Frame(r[x]) \in Given' /\ Frame(r[x]) # 0
        BY <1>1, <1>6, <1>7, <2>1, <2>2 DEF Given
    <2>4. Frame(r[x]) \notin firstFree'
        BY <1>4, <1>6, <2>1, <2>2
    <2>5. Frame(r[x]) \notin lost
        <3>1. lost \subseteq Given /\ firstFree \cap lost = {}
            BY <1>1 DEF Places, Bounds, NoneForgotten
        <3>2. \A f \in Given : f < avail
            BY <1>1, <1>7 DEF Given
        <3> QED
            BY <2>2, <3>1, <3>2
    <2>6. ASSUME NEW y \in Slots, Frame(r[x]) = Content(y)
          PROVE  FALSE
        <3>1. Content(y) \in Given /\ Content(y) \notin firstFree
            BY <2>3, <2>6 DEF Places, HeldNotFree
        <3>2. \A f \in Given : f < avail
            BY <1>1, <1>7 DEF Given
        <3> QED
            BY <2>2, <2>6, <3>1, <3>2
    <2> QED
        BY <2>3, <2>4, <2>5, <2>6
<1>12. HeldNotFree'
    <2> SUFFICES ASSUME NEW x \in Slots, Content(x)' # 0
                 PROVE  /\ Content(x)' \in Given' /\ Content(x)' \notin firstFree'
                        /\ Content(x)' \notin lost'
        BY DEF HeldNotFree
    <2>1. CASE x \in N
        BY <2>1, <1>11
    <2>2. CASE x \notin N
        <3>1. Content(x)' = Content(x)
            BY <2>2
        <3>2. Content(x) \in Given /\ Content(x) \notin firstFree /\ Content(x) \notin lost
            BY <3>1 DEF Places, HeldNotFree
        <3> QED
            BY <1>4, <1>8, <3>1, <3>2
    <2> QED
        BY <2>1, <2>2
<1>13. HeldOnce'
    <2> SUFFICES ASSUME NEW x \in Slots, NEW y \in Slots,
                        Content(x)' = Content(y)', Content(x)' # 0
                 PROVE  x = y
        BY DEF HeldOnce
    <2>1. CASE x \in N /\ y \in N
        <3>1. Frame(r[x]) = Frame(r[y]) /\ r[x] \in 1..k /\ r[y] \in 1..k
            BY <2>1
        <3>2. r[x] = r[y]
            BY <1>3, <3>1
        <3> QED
            BY <2>1, <3>2
    <2>2. CASE x \in N /\ y \notin N
        BY <2>2, <1>11
    <2>3. CASE x \notin N /\ y \in N
        BY <2>3, <1>11
    <2>4. CASE x \notin N /\ y \notin N
        BY <2>4 DEF Places, HeldOnce
    <2> QED
        BY <2>1, <2>2, <2>3, <2>4
<1>14. NoneForgotten'
    <2>1. ASSUME NEW f \in Supply, f <= F
          PROVE  \E x \in Slots : Content(x)' = f
        <3>1. PICK j \in 1..k : f = Frame(j)
            BY <1>3, <2>1
        <3>2. PICK x \in N : r[x] = j
            OBVIOUS
        <3> QED
            BY <3>1, <3>2
    <2>2. firstFree' \cap lost' = {}
        BY <1>4 DEF Places, NoneForgotten
    <2>3. ASSUME NEW f \in Given'
          PROVE  f \in firstFree' \/ f \in lost' \/ \E x \in Slots : Content(x)' = f
        <3>1. CASE f \notin Given
            BY <3>1, <1>10, <2>1
        <3>2. CASE f \in firstFree
            <4>1. f \in Supply /\ f \in Int
                BY <3>2, <1>5 DEF Supply
            <4> QED
                BY <3>2, <4>1, <1>4, <1>6, <2>1
        <3>3. CASE \E x \in Slots : Content(x) = f
            <4>1. PICK x \in Slots : Content(x) = f
                BY <3>3
            <4>2. f # 0
                BY <1>1, <2>3 DEF Given
            <4> QED
                BY <4>1, <4>2
        <3> QED
            BY <3>1, <3>2, <3>3 DEF Places, NoneForgotten
    <2> QED
        BY <2>2, <2>3 DEF NoneForgotten
<1> QED
    BY <1>9, <1>12, <1>13, <1>14 DEF Places

\* The places D and L become empty, and what was in D is free and what was in
\* L is lost.
LEMMA FreeKeeps ==
    ASSUME Places,
           NEW D \in SUBSET Slots, NEW L \in SUBSET Slots, D \cap L = {},
           \A x \in D \union L : Content(x)' = 0,
           \A x \in Slots \ (D \union L) : Content(x)' = Content(x),
           \A f : f \in firstFree' <=>
                    f \in firstFree \/ (f # 0 /\ \E x \in D : Content(x) = f),
           \A f : f \in lost' <=>
                    f \in lost \/ (f # 0 /\ \E x \in L : Content(x) = f),
           avail' = avail
    PROVE  Places'
<1>1. Given' = Given
    BY DEF Given
<1>2. Bounds'
    <2>1. \A x \in Slots : Content(x) # 0 => Content(x) \in Given
        BY DEF Places, HeldNotFree
    <2> QED
        BY <1>1, <2>1 DEF Places, Bounds
<1>3. ASSUME NEW x \in Slots, Content(x)' # 0
      PROVE  x \notin D \union L /\ Content(x)' = Content(x)
    BY <1>3
<1>4. \A x, y \in Slots : Content(x) = Content(y) /\ Content(x) # 0 => x = y
    BY DEF Places, HeldOnce
<1>5. HeldNotFree'
    <2> SUFFICES ASSUME NEW x \in Slots, Content(x)' # 0
                 PROVE  /\ Content(x)' \in Given' /\ Content(x)' \notin firstFree'
                        /\ Content(x)' \notin lost'
        BY DEF HeldNotFree
    <2>1. x \notin D \union L /\ Content(x)' = Content(x)
        BY <1>3
    <2>2. Content(x) \in Given /\ Content(x) \notin firstFree /\ Content(x) \notin lost
        BY <2>1 DEF Places, HeldNotFree
    <2>3. \A y \in D \union L : Content(y) # Content(x)
        BY <1>4, <2>1
    <2> QED
        BY <1>1, <2>1, <2>2, <2>3
<1>6. HeldOnce'
    BY <1>3, <1>4 DEF HeldOnce
<1>7. NoneForgotten'
    <2>1. firstFree' \cap lost' = {}
        <3>1. firstFree \cap lost = {}
            BY DEF Places, NoneForgotten
        <3>2. \A x \in Slots : Content(x) # 0 =>
                    Content(x) \notin firstFree /\ Content(x) \notin lost
            BY DEF Places, HeldNotFree
        <3>3. \A x \in D, y \in L : Content(x) # 0 => Content(x) # Content(y)
            BY <1>4
        <3> QED
            BY <3>1, <3>2, <3>3
    <2>2. ASSUME NEW f \in Given
          PROVE  f \in firstFree' \/ f \in lost' \/ \E x \in Slots : Content(x)' = f
        <3>1. CASE \E x \in Slots : Content(x) = f
            <4>1. PICK x \in Slots : Content(x) = f
                BY <3>1
            <4>2. f # 0
                BY MemoryAssumption DEF Given, Places, Bounds
            <4> QED
                BY <4>1, <4>2
        <3> QED
            BY <3>1 DEF Places, NoneForgotten
    <2> QED
        BY <1>1, <2>1, <2>2 DEF NoneForgotten
<1> QED
    BY <1>2, <1>5, <1>6, <1>7 DEF Places

-----------------------------------------------------------------------------
(* The places and the tables *)

\* What the places hold, before and after a step.
LEMMA Contents ==
    /\ \A p \in Procs : /\ Content(<<"pd", p, 0>>) = pd[p]
                        /\ Content(<<"pd", p, 0>>)' = pd'[p]
    /\ \A p \in Procs, t \in Tables : /\ Content(<<"pt", p, t>>) = pt[p][t]
                                      /\ Content(<<"pt", p, t>>)' = pt'[p][t]
    /\ \A p \in Procs, v \in Pages : /\ Content(<<"page", p, v>>) = page[p][v]
                                     /\ Content(<<"page", p, v>>)' = page'[p][v]
    /\ \A v \in SharedPages : /\ Content(<<"shared", v, 0>>) = shared[v]
                              /\ Content(<<"shared", v, 0>>)' = shared'[v]
BY DEF Content

\* A frame is in a place for pages of a process exactly if an entry has it.
LEMMA OccursPage ==
    ASSUME NEW p \in Procs, NEW V \in SUBSET Pages, NEW f
    PROVE  (\E x \in PageSlots({p}, V) : Content(x) = f) <=> \E v \in V : page[p][v] = f
<1>1. \A v \in V : Content(<<"page", p, v>>) = page[p][v]
    BY Contents
<1>2. ASSUME NEW x \in PageSlots({p}, V), Content(x) = f
      PROVE  \E v \in V : page[p][v] = f
    <2>1. PICK v \in V : x = <<"page", p, v>>
        BY <1>2 DEF PageSlots
    <2> QED
        BY <1>1, <1>2, <2>1
<1>3. ASSUME NEW v \in V, page[p][v] = f
      PROVE  \E x \in PageSlots({p}, V) : Content(x) = f
    <2>1. <<"page", p, v>> \in PageSlots({p}, V)
        BY DEF PageSlots
    <2>2. Content(<<"page", p, v>>) = f
        BY <1>1, <1>3
    <2> QED
        BY <2>1, <2>2
<1> QED
    BY <1>2, <1>3

\* The same for the page tables.
LEMMA OccursTable ==
    ASSUME NEW P \in SUBSET Procs, NEW f
    PROVE  (\E x \in TableSlots(P) : Content(x) = f) <=> \E p \in P, t \in Tables : pt[p][t] = f
<1>1. \A p \in P, t \in Tables : Content(<<"pt", p, t>>) = pt[p][t]
    BY Contents
<1>2. ASSUME NEW x \in TableSlots(P), Content(x) = f
      PROVE  \E p \in P, t \in Tables : pt[p][t] = f
    <2>1. PICK p \in P, t \in Tables : x = <<"pt", p, t>>
        BY <1>2 DEF TableSlots
    <2> QED
        BY <1>1, <1>2, <2>1
<1>3. ASSUME NEW p \in P, NEW t \in Tables, pt[p][t] = f
      PROVE  \E x \in TableSlots(P) : Content(x) = f
    <2>1. <<"pt", p, t>> \in TableSlots(P)
        BY DEF TableSlots
    <2>2. Content(<<"pt", p, t>>) = f
        BY <1>1, <1>3
    <2> QED
        BY <2>1, <2>2
<1> QED
    BY <1>2, <1>3

\* The same for the directories.
LEMMA OccursDir ==
    ASSUME NEW P \in SUBSET Procs, NEW f
    PROVE  (\E x \in DirSlots(P) : Content(x) = f) <=> \E p \in P : pd[p] = f
<1>1. \A p \in P : Content(<<"pd", p, 0>>) = pd[p]
    BY Contents
<1>2. ASSUME NEW x \in DirSlots(P), Content(x) = f
      PROVE  \E p \in P : pd[p] = f
    <2>1. PICK p \in P : x = <<"pd", p, 0>>
        BY <1>2 DEF DirSlots
    <2> QED
        BY <1>1, <1>2, <2>1
<1>3. ASSUME NEW p \in P, pd[p] = f
      PROVE  \E x \in DirSlots(P) : Content(x) = f
    <2>1. <<"pd", p, 0>> \in DirSlots(P)
        BY DEF DirSlots
    <2>2. Content(<<"pd", p, 0>>) = f
        BY <1>1, <1>3
    <2> QED
        BY <2>1, <2>2
<1> QED
    BY <1>2, <1>3

\* A step that frees pages V of p, the tables of the processes in T and the
\* directories of those in Q, and loses the other pages of those in E.
Clears(p, V, T, Q, E) ==
    /\ pd' = [q \in Procs |-> IF q \in Q THEN 0 ELSE pd[q]]
    /\ pt' = [q \in Procs |-> IF q \in T THEN NoTables ELSE pt[q]]
    /\ page' = [q \in Procs |-> [v \in Pages |->
                    IF q \in E \/ (q = p /\ v \in V) THEN 0 ELSE page[q][v]]]
    /\ shared' = shared
    /\ avail' = avail
    /\ \A f : f \in firstFree' <=>
            \/ f \in firstFree
            \/ f # 0 /\ \/ \E v \in V : page[p][v] = f
                        \/ \E q \in T, t \in Tables : pt[q][t] = f
                        \/ \E q \in Q : pd[q] = f
    /\ \A f : f \in lost' <=>
            \/ f \in lost
            \/ f # 0 /\ \E q \in E, v \in Pages : ~(q = p /\ v \in V) /\ page[q][v] = f

\* Such a step leaves every frame in one place.
LEMMA ClearKeeps ==
    ASSUME Types, Places,
           NEW p \in Procs, NEW V \in SUBSET Pages,
           NEW T \in SUBSET Procs, NEW Q \in SUBSET Procs, NEW E \in SUBSET Procs,
           Clears(p, V, T, Q, E)
    PROVE  Types' /\ Places'
<1> DEFINE D == PageSlots({p}, V) \union TableSlots(T) \union DirSlots(Q)
           L == PageSlots(E, Pages) \ PageSlots({p}, V)
<1>1. Types'
    BY DEF Clears, Types, NoTables
<1>2. D \in SUBSET Slots /\ L \in SUBSET Slots /\ D \cap L = {}
    BY DEF Clears, Slots, PageSlots, TableSlots, DirSlots
<1>3. \A x \in D \union L : Content(x)' = 0
    <2>1. \A v \in V : Content(<<"page", p, v>>)' = 0
        BY Contents DEF Clears
    <2>2. \A q \in T, t \in Tables : Content(<<"pt", q, t>>)' = 0
        BY Contents DEF Clears, NoTables
    <2>3. \A q \in Q : Content(<<"pd", q, 0>>)' = 0
        BY Contents DEF Clears
    <2>4. \A q \in E, v \in Pages : Content(<<"page", q, v>>)' = 0
        BY Contents DEF Clears
    <2> QED
        BY <2>1, <2>2, <2>3, <2>4 DEF PageSlots, TableSlots, DirSlots
<1>4. ASSUME NEW x \in Slots, x \notin D, x \notin L
      PROVE  Content(x)' = Content(x)
    <2>1. ASSUME NEW q \in Procs, x = <<"pd", q, 0>>
          PROVE  Content(x)' = Content(x)
        <3>1. q \notin Q
            BY <1>4, <2>1 DEF PageSlots, TableSlots, DirSlots
        <3> QED
            BY <2>1, <3>1, Contents DEF Clears
    <2>2. ASSUME NEW q \in Procs, NEW t \in Tables, x = <<"pt", q, t>>
          PROVE  Content(x)' = Content(x)
        <3>1. q \notin T
            BY <1>4, <2>2 DEF PageSlots, TableSlots, DirSlots
        <3> QED
            BY <2>2, <3>1, Contents DEF Clears
    <2>3. ASSUME NEW q \in Procs, NEW v \in Pages, x = <<"page", q, v>>
          PROVE  Content(x)' = Content(x)
        <3>1. q \notin E /\ ~(q = p /\ v \in V)
            BY <1>4, <2>3 DEF PageSlots, TableSlots, DirSlots
        <3> QED
            BY <2>3, <3>1, Contents DEF Clears
    <2>4. ASSUME NEW v \in SharedPages, x = <<"shared", v, 0>>
          PROVE  Content(x)' = Content(x)
        BY <2>4, Contents DEF Clears
    <2> QED
        BY <2>1, <2>2, <2>3, <2>4
           DEF Slots, PageSlots, TableSlots, DirSlots, SharedSlots
<1>5. ASSUME NEW f
      PROVE  (\E x \in D : Content(x) = f) <=>
                \/ \E v \in V : page[p][v] = f
                \/ \E q \in T, t \in Tables : pt[q][t] = f
                \/ \E q \in Q : pd[q] = f
    <2>1. (\E x \in PageSlots({p}, V) : Content(x) = f) <=>
                \E v \in V : page[p][v] = f
        BY OccursPage
    <2>2. (\E x \in TableSlots(T) : Content(x) = f) <=>
                \E q \in T, t \in Tables : pt[q][t] = f
        BY OccursTable
    <2>3. (\E x \in DirSlots(Q) : Content(x) = f) <=> \E q \in Q : pd[q] = f
        BY OccursDir
    <2>4. (\E x \in D : Content(x) = f) <=>
                \/ \E x \in PageSlots({p}, V) : Content(x) = f
                \/ \E x \in TableSlots(T) : Content(x) = f
                \/ \E x \in DirSlots(Q) : Content(x) = f
        OBVIOUS
    <2> QED
        BY <2>1, <2>2, <2>3, <2>4
<1>6. ASSUME NEW f
      PROVE  (\E x \in L : Content(x) = f) <=>
                \E q \in E, v \in Pages : ~(q = p /\ v \in V) /\ page[q][v] = f
    <2>1. ASSUME NEW x \in L, Content(x) = f
          PROVE  \E q \in E, v \in Pages : ~(q = p /\ v \in V) /\ page[q][v] = f
        <3>1. PICK q \in E, v \in Pages : x = <<"page", q, v>>
            BY <2>1 DEF PageSlots
        <3>2. ~(q = p /\ v \in V)
            BY <2>1, <3>1 DEF PageSlots
        <3>3. page[q][v] = f
            BY <2>1, <3>1, Contents
        <3> QED
            BY <3>2, <3>3
    <2>2. ASSUME NEW q \in E, NEW v \in Pages, ~(q = p /\ v \in V), page[q][v] = f
          PROVE  \E x \in L : Content(x) = f
        <3>1. <<"page", q, v>> \in L
            BY <2>2 DEF PageSlots
        <3>2. Content(<<"page", q, v>>) = f
            BY <2>2, Contents
        <3> HIDE DEF L
        <3> QED
            BY <3>1, <3>2
    <2> QED
        BY <2>1, <2>2
<1> HIDE DEF D, L
<1>7. \A f : f \in firstFree' <=>
                f \in firstFree \/ (f # 0 /\ \E x \in D : Content(x) = f)
    BY <1>5 DEF Clears
<1>8. \A f : f \in lost' <=>
                f \in lost \/ (f # 0 /\ \E x \in L : Content(x) = f)
    BY <1>6 DEF Clears
<1>9. \A x \in Slots \ (D \union L) : Content(x)' = Content(x)
    BY <1>4, Zenon
<1>10. avail' = avail
    BY DEF Clears
<1>11. Places'
    BY <1>2, <1>3, <1>7, <1>8, <1>9, <1>10, FreeKeeps, Zenon
<1> QED
    BY <1>1, <1>11

\* A step that leaves frames and tables alone.
LEMMA StillKeeps ==
    ASSUME Types, Places, UNCHANGED <<firstFree, avail, pd, pt, page, shared, lost>>
    PROVE  Types' /\ Places'
<1>1. Types'
    BY DEF Types
<1>2. \A x \in Slots : Content(x)' = Content(x)
    BY Contents DEF Slots, PageSlots, TableSlots, DirSlots, SharedSlots
<1>3. Given' = Given
    BY DEF Given
<1>4. Bounds' /\ HeldNotFree'
    BY <1>2, <1>3 DEF Places, Bounds, HeldNotFree
<1>5. HeldOnce' /\ NoneForgotten'
    BY <1>2, <1>3 DEF Places, HeldOnce, NoneForgotten
<1> QED
    BY <1>1, <1>4, <1>5 DEF Places

-----------------------------------------------------------------------------
(* What each call does to the places *)

\* The page table of a page is one of the tables.
LEMMA TableOfPage ==
    /\ NTables \in Nat \ {0} /\ NPages \in Nat
    /\ \A v \in Pages : PDI(v) \in Tables
<1>1. NPages \in Nat \ {0} /\ PagesPerTable \in Nat \ {0}
    BY MemoryAssumption
<1>2. \A v \in 0..(NPages - 1) :
            0 <= v \div PagesPerTable
            /\ v \div PagesPerTable <= (NPages - 1) \div PagesPerTable
            /\ v \div PagesPerTable \in Int
    BY <1>1
<1>3. (NPages - 1) \div PagesPerTable \in Nat
    BY <1>1
<1> QED
    BY <1>1, <1>2, <1>3 DEF Pages, Tables, NTables, PDI

\* munmap frees the pages of the region.
LEMMA MunmapKeeps ==
    ASSUME Types, Places, NEW p \in Procs, NEW r, Munmap(p, r)
    PROVE  Types' /\ Places'
<1> DEFINE V == Pages \cap Covered({r})
<1>1. Clears(p, V, {}, {}, {})
    <2>1. pd' = [q \in Procs |-> IF q \in {} THEN 0 ELSE pd[q]]
        BY DEF Munmap, Types
    <2>2. pt' = [q \in Procs |-> IF q \in {} THEN NoTables ELSE pt[q]]
        BY DEF Munmap, Types
    <2>3. page' = [q \in Procs |-> [v \in Pages |->
                    IF q \in {} \/ (q = p /\ v \in V) THEN 0 ELSE page[q][v]]]
        BY DEF Munmap, Types, RemoveMappings
    <2>4. shared' = shared /\ avail' = avail /\ lost' = lost
        BY DEF Munmap, area, rest, DeallocFrames
    <2>5. \A f : f \in firstFree' <=>
                    f \in firstFree \/ (f # 0 /\ \E v \in V : page[p][v] = f)
        BY DEF Munmap, DeallocFrames, FramesOf
    <2> QED
        BY <2>1, <2>2, <2>3, <2>4, <2>5 DEF Clears
<1>2. V \in SUBSET Pages
    OBVIOUS
<1> HIDE DEF V
<1> QED
    BY <1>1, <1>2, ClearKeeps

\* execl frees the page tables and, if nobody else holds the VME, the pages of
\* all regions.  The other pages are lost.
LEMMA ExecKeeps ==
    ASSUME Types, Places, NEW p \in Procs, Exec(p)
    PROVE  Types' /\ Places'
<1> DEFINE V == Pages \cap Covered(Going(p))
<1>1. Clears(p, V, {p}, {}, {p})
    <2>1. pd' = [q \in Procs |-> IF q \in {} THEN 0 ELSE pd[q]]
        BY DEF Exec, Types
    <2>2. pt' = [q \in Procs |-> IF q \in {p} THEN NoTables ELSE pt[q]]
        BY DEF Exec, Types
    <2>3. page' = [q \in Procs |-> [v \in Pages |->
                    IF q \in {p} \/ (q = p /\ v \in V) THEN 0 ELSE page[q][v]]]
        BY DEF Exec, Types, NoPages
    <2>4. shared' = shared /\ avail' = avail
        BY DEF Exec, area, DeallocFrames
    <2>5. \A f : f \in firstFree' <=>
                    \/ f \in firstFree
                    \/ f # 0 /\ \/ \E v \in V : page[p][v] = f
                                \/ \E q \in {p}, t \in Tables : pt[q][t] = f
        BY DEF Exec, DeallocFrames, FramesOf, TablesOf
    <2>6. \A f : f \in lost' <=>
                    \/ f \in lost
                    \/ f # 0 /\ \E q \in {p}, v \in Pages :
                                    ~(q = p /\ v \in V) /\ page[q][v] = f
        <3>1. lost' = lost \union Framed(RemoveMappings(page[p], Going(p)))
            BY DEF Exec
        <3>2. ASSUME NEW f
              PROVE  f \in Framed(RemoveMappings(page[p], Going(p))) <=>
                        f # 0 /\ \E v \in Pages : v \notin V /\ page[p][v] = f
            BY DEF Framed, RemoveMappings
        <3> HIDE DEF V
        <3> QED
            BY <3>1, <3>2
    <2> QED
        BY <2>1, <2>2, <2>3, <2>4, <2>5, <2>6 DEF Clears
<1>2. V \in SUBSET Pages /\ {p} \in SUBSET Procs
    OBVIOUS
<1> HIDE DEF V
<1> QED
    BY <1>1, <1>2, ClearKeeps

\* fork returns, and frees the pages of the regions that only it still held.
LEMMA ForkReturnsKeeps ==
    ASSUME Types, Places, NEW p \in Procs, ForkReturns(p)
    PROVE  Types' /\ Places'
<1> DEFINE V == Pages \cap Covered(child_vme[p])
<1>1. Clears(p, V, {}, {}, {})
    <2>1. pd' = [q \in Procs |-> IF q \in {} THEN 0 ELSE pd[q]]
        BY DEF ForkReturns, Types
    <2>2. pt' = [q \in Procs |-> IF q \in {} THEN NoTables ELSE pt[q]]
        BY DEF ForkReturns, Types
    <2>3. page' = [q \in Procs |-> [v \in Pages |->
                    IF q \in {} \/ (q = p /\ v \in V) THEN 0 ELSE page[q][v]]]
        BY DEF ForkReturns, Types, RemoveMappings
    <2>4. shared' = shared /\ avail' = avail /\ lost' = lost
        BY DEF ForkReturns, area, rest, DeallocFrames
    <2>5. \A f : f \in firstFree' <=>
                    f \in firstFree \/ (f # 0 /\ \E v \in V : page[p][v] = f)
        BY DEF ForkReturns, DeallocFrames, FramesOf
    <2> QED
        BY <2>1, <2>2, <2>3, <2>4, <2>5 DEF Clears
<1>2. V \in SUBSET Pages
    OBVIOUS
<1> HIDE DEF V
<1> QED
    BY <1>1, <1>2, ClearKeeps

\* The destructor of a TCB that runs in the reaper frees the page tables and
\* the directory, and forgets the pages.
LEMMA ReapKeeps ==
    ASSUME Types, Places, NEW d \in Procs, pd[d] # 0, Reap(d)
    PROVE  Types' /\ Places'
<1>1. Clears(d, {}, {d}, {d}, {d})
    <2>1. pd' = [q \in Procs |-> IF q \in {d} THEN 0 ELSE pd[q]]
        BY DEF Reap, Deleted, Types
    <2>2. pt' = [q \in Procs |-> IF q \in {d} THEN NoTables ELSE pt[q]]
        BY DEF Reap, Deleted, Types
    <2>3. page' = [q \in Procs |-> [v \in Pages |->
                    IF q \in {d} \/ (q = d /\ v \in {}) THEN 0 ELSE page[q][v]]]
        BY DEF Reap, Types, NoPages
    <2>4. shared' = shared /\ avail' = avail
        BY DEF Reap, Deleted, area, DeallocFrames
    <2>5. FramesOf(NoPages, Going(d)) = {}
        BY DEF FramesOf, NoPages
    <2>6. \A f : f \in firstFree' <=>
                    \/ f \in firstFree
                    \/ f # 0 /\ \/ \E q \in {d}, t \in Tables : pt[q][t] = f
                                \/ \E q \in {d} : pd[q] = f
        BY <2>5 DEF Reap, Deleted, DeallocFrames, TablesOf
    <2>7. \A f : f \in lost' <=>
                    f \in lost \/ (f # 0 /\ \E q \in {d}, v \in Pages : page[q][v] = f)
        BY DEF Reap, Deleted, Framed
    <2> QED
        BY <2>1, <2>2, <2>3, <2>4, <2>6, <2>7 DEF Clears
<1>2. {} \in SUBSET Pages /\ {d} \in SUBSET Procs
    OBVIOUS
<1> QED
    BY <1>1, <1>2, ClearKeeps

\* If it runs in another process it frees that one's pages as well.
LEMMA ReapByKeeps ==
    ASSUME Types, Places, NEW p \in Procs, NEW d \in Procs, p # d, pd[d] # 0,
           ReapBy(p, d)
    PROVE  Types' /\ Places'
<1> DEFINE V == Pages \cap Covered(Going(d))
<1>1. Clears(p, V, {d}, {d}, {d})
    <2>1. pd' = [q \in Procs |-> IF q \in {d} THEN 0 ELSE pd[q]]
        BY DEF ReapBy, Deleted, Types
    <2>2. pt' = [q \in Procs |-> IF q \in {d} THEN NoTables ELSE pt[q]]
        BY DEF ReapBy, Deleted, Types
    <2>3. page' = [q \in Procs |-> [v \in Pages |->
                    IF q \in {d} \/ (q = p /\ v \in V) THEN 0 ELSE page[q][v]]]
        BY DEF ReapBy, Types, NoPages, RemoveMappings
    <2>4. shared' = shared /\ avail' = avail
        BY DEF ReapBy, Deleted, area, DeallocFrames
    <2>5. \A f : f \in firstFree' <=>
                    \/ f \in firstFree
                    \/ f # 0 /\ \/ \E v \in V : page[p][v] = f
                                \/ \E q \in {d}, t \in Tables : pt[q][t] = f
                                \/ \E q \in {d} : pd[q] = f
        BY DEF ReapBy, Deleted, DeallocFrames, FramesOf, TablesOf
    <2>6. \A f : f \in lost' <=>
                    f \in lost \/ (f # 0 /\ \E q \in {d}, v \in Pages : page[q][v] = f)
        BY DEF ReapBy, Deleted, Framed
    <2>7. p \notin {d}
        OBVIOUS
    <2> QED
        BY <2>1, <2>2, <2>3, <2>4, <2>5, <2>6, <2>7 DEF Clears
<1>2. V \in SUBSET Pages /\ {d} \in SUBSET Procs
    OBVIOUS
<1> HIDE DEF V
<1> QED
    BY <1>1, <1>2, ClearKeeps

\* What fork copies has numbers, each its own.
LEMMA CopiesNumbered ==
    ASSUME NEW p \in Procs
    PROVE  /\ Copies(p) \subseteq Int /\ IsFiniteSet(Copies(p))
           /\ Dir \in Copies(p)
           /\ \A t \in Tables : /\ Table(t) \in Copies(p) <=> pt[p][t] # 0
                                /\ Table(t) # Dir
                                /\ \A u \in Tables : Table(t) = Table(u) => t = u
                                /\ \A v \in Pages : Table(t) # Page(v)
           /\ \A v \in Pages : /\ Page(v) \in Copies(p) <=> page[p][v] # 0
                               /\ Page(v) # Dir
                               /\ \A w \in Pages : Page(v) = Page(w) => v = w
<1> DEFINE T == {u \in Tables : pt[p][u] # 0}
           V == {u \in Pages : page[p][u] # 0}
<1>1. NTables \in Nat \ {0} /\ NPages \in Nat
    BY TableOfPage
<1>2. /\ Dir = 0
      /\ \A t \in Tables : Table(t) \in 1..NTables /\ Table(t) = 1 + t /\ t \in Int
      /\ \A v \in Pages : /\ Page(v) \in (NTables + 1)..(NTables + NPages)
                          /\ Page(v) = 1 + NTables + v /\ v \in Int
    BY <1>1 DEF Dir, Table, Page, Tables, Pages
<1>3. /\ \A t \in Tables : /\ Table(t) # Dir
                           /\ \A u \in Tables : Table(t) = Table(u) => t = u
                           /\ \A v \in Pages : Table(t) # Page(v)
      /\ \A v \in Pages : /\ Page(v) # Dir
                          /\ \A w \in Pages : Page(v) = Page(w) => v = w
    BY <1>1, <1>2
<1>4. Copies(p) = {Dir} \union {Table(t) : t \in T} \union {Page(v) : v \in V}
    BY DEF Copies
<1>5. \A t \in Tables : Table(t) \in Copies(p) <=> t \in T
    BY <1>3, <1>4
<1>6. \A v \in Pages : Page(v) \in Copies(p) <=> v \in V
    BY <1>3, <1>4
<1>7. Copies(p) \in SUBSET (0..(NTables + NPages))
    BY <1>1, <1>2, <1>4
<1>8. IsFiniteSet(0..(NTables + NPages))
    BY <1>1, FS_Interval
<1>9. Copies(p) \subseteq Int /\ IsFiniteSet(Copies(p))
    BY <1>1, <1>7, <1>8, FS_Subset
<1> QED
    BY <1>3, <1>4, <1>5, <1>6, <1>9

\* The frames given out are numbers, and not 0.
LEMMA FrameIsFrame ==
    ASSUME Bounds, NEW k \in Nat \ {0}, AllocFrames(k)
    PROVE  \A j \in 1..k : Frame(j) \in Nat \ {0}
<1>1. GlobalFrames \in Nat /\ NFrames \in Nat
    BY MemoryAssumption
<1>2. Supply \in SUBSET (1..NFrames)
    BY <1>1 DEF Bounds, Given, Supply
<1>3. IsFiniteSet(1..NFrames)
    BY <1>1, FS_Interval
<1>4. Cardinality(Supply) \in Nat
    BY <1>2, <1>3, FS_Subset, FS_CardinalityType
<1>5. k \in 1..Cardinality(Supply)
    BY <1>4 DEF AllocFrames
<1>6. \A j \in 1..k : Frame(j) \in Supply
    BY <1>5, FramesGiven
<1>7. \A f \in 1..NFrames : f \in Nat \ {0}
    BY <1>1
<1> QED
    BY <1>2, <1>6, <1>7

\* The number among the copies is the call of alloc_frame that is for it.
LEMMA CopiesRanked ==
    ASSUME NEW p \in Procs
    PROVE  LET C == Copies(p)  k == Cardinality(C) IN
           /\ k \in Nat \ {0}
           /\ \A x \in C : Rank(C, x) \in 1..k
           /\ \A x, y \in C : Rank(C, x) = Rank(C, y) => x = y
           /\ \A j \in 1..k : \E x \in C : Rank(C, x) = j
<1> DEFINE C == Copies(p)
           k == Cardinality(C)
<1>1. C \subseteq Int /\ IsFiniteSet(C) /\ Dir \in C
    BY CopiesNumbered
<1>2. k \in Nat /\ k # 0
    BY <1>1, FS_CardinalityType, FS_EmptySet
<1>3. \A x \in C : Rank(C, x) \in 1..k /\ Nth(C, Rank(C, x)) = x
    BY <1>1, RankGrows, NthIs
<1>4. \A j \in 1..k : \E x \in C : Rank(C, x) = j
    BY <1>1, RankReaches
<1>5. ASSUME NEW x \in C, NEW y \in C, Rank(C, x) = Rank(C, y)
      PROVE  x = y
    BY <1>3, <1>5
<1> QED
    BY <1>2, <1>3, <1>4, <1>5

\* fork puts a frame into every place of the child that its parent uses.
LEMMA ForkKeeps ==
    ASSUME Types, Places, Empty, NEW p \in Procs, NEW c \in Procs, Fork(p, c)
    PROVE  Types' /\ Places'
<1> DEFINE C == Copies(p)
           k == Cardinality(C)
           T == {t \in Tables : pt[p][t] # 0}
           V == {v \in Pages : page[p][v] # 0}
           NT == {<<"pt", c, t>> : t \in T}
           NV == {<<"page", c, v>> : v \in V}
           N == {<<"pd", c, 0>>} \union NT \union NV
           number(x) == CASE x[1] = "pd" -> Dir
                          [] x[1] = "pt" -> Table(x[3])
                          [] x[1] = "page" -> Page(x[3])
           r == [x \in N |-> Rank(C, number(x))]
<1>1. /\ AllocFrames(k) /\ pc[c] = "none" /\ lost' = lost
      /\ pd' = [pd EXCEPT ![c] = CopyOf(p, Dir)]
      /\ pt' = [pt EXCEPT ![c] = [t \in Tables |-> CopyOf(p, Table(t))]]
      /\ page' = [page EXCEPT ![c] = [v \in Pages |-> CopyOf(p, Page(v))]]
      /\ shared' = shared
    BY DEF Fork, area, rest
<1>2. pd[c] = 0 /\ pt[c] = NoTables /\ page[c] = NoPages
    BY <1>1 DEF Empty
<1>3. /\ k \in Nat \ {0}
      /\ \A x \in C : Rank(C, x) \in 1..k
      /\ \A x, y \in C : Rank(C, x) = Rank(C, y) => x = y
      /\ \A j \in 1..k : \E x \in C : Rank(C, x) = j
    BY CopiesRanked
<1>4. \A x \in C : CopyOf(p, x) = Frame(Rank(C, x))
    BY DEF CopyOf
<1>5. \A x : x \notin C => CopyOf(p, x) = 0
    BY DEF CopyOf
<1>6. /\ Dir \in C
      /\ \A t \in Tables : /\ Table(t) \in C <=> t \in T
                           /\ Table(t) # Dir
                           /\ \A u \in Tables : Table(t) = Table(u) => t = u
                           /\ \A v \in Pages : Table(t) # Page(v)
      /\ \A v \in Pages : /\ Page(v) \in C <=> v \in V
                          /\ Page(v) # Dir
                          /\ \A w \in Pages : Page(v) = Page(w) => v = w
    BY CopiesNumbered
<1>7. \A x : CopyOf(p, x) \in Nat
    <2>1. \A j \in 1..k : Frame(j) \in Nat
        BY <1>1, <1>3, FrameIsFrame DEF Places
    <2> QED
        BY <1>3, <1>4, <1>5, <2>1
<1>8. Types'
    BY <1>1, <1>7 DEF Types
<1>9. N \in SUBSET Slots
    BY DEF Slots, DirSlots, TableSlots, PageSlots
<1>10. /\ number(<<"pd", c, 0>>) = Dir
       /\ \A t \in Tables : number(<<"pt", c, t>>) = Table(t)
       /\ \A v \in Pages : number(<<"page", c, v>>) = Page(v)
    OBVIOUS
<1>11. \A x \in N : \/ x = <<"pd", c, 0>>
                    \/ \E t \in T : x = <<"pt", c, t>>
                    \/ \E v \in V : x = <<"page", c, v>>
    OBVIOUS
<1>12. C = {Dir} \union {Table(t) : t \in T} \union {Page(v) : v \in V}
    BY DEF Copies
<1> HIDE DEF C, k
<1>13. \A x \in N : number(x) \in C
    BY <1>6, <1>10, <1>11
<1>14. \A x, y \in N : number(x) = number(y) => x = y
    <2> SUFFICES ASSUME NEW x \in N, NEW y \in N, number(x) = number(y)
                 PROVE  x = y
        OBVIOUS
    <2>1. T \subseteq Tables /\ V \subseteq Pages
        OBVIOUS
    <2> HIDE DEF N, T, V, number
    <2>2. CASE x = <<"pd", c, 0>>
        <3>1. number(x) = Dir
            BY <1>10, <2>2
        <3>2. ASSUME NEW t \in T, y = <<"pt", c, t>>
              PROVE  FALSE
            <4>1. t \in Tables
                BY <2>1
            <4>2. number(y) = Table(t) /\ Table(t) # Dir
                BY <1>6, <1>10, <3>2, <4>1
            <4> QED
                BY <3>1, <4>2
        <3>3. ASSUME NEW v \in V, y = <<"page", c, v>>
              PROVE  FALSE
            <4>1. v \in Pages
                BY <2>1
            <4>2. number(y) = Page(v) /\ Page(v) # Dir
                BY <1>6, <1>10, <3>3, <4>1
            <4> QED
                BY <3>1, <4>2
        <3> QED
            BY <1>11, <2>2, <3>2, <3>3
    <2>3. ASSUME NEW t \in T, x = <<"pt", c, t>>
          PROVE  x = y
        BY <1>6, <1>10, <1>11, <2>1, <2>3
    <2>4. ASSUME NEW v \in V, x = <<"page", c, v>>
          PROVE  x = y
        BY <1>6, <1>10, <1>11, <2>1, <2>4
    <2> QED
        BY <1>11, <2>2, <2>3, <2>4
<1>15. \A z \in C : \E x \in N : number(x) = z
    BY <1>10, <1>12
<1>16. r \in [N -> 1..k]
    BY <1>3, <1>13
<1>17. \A x, y \in N : r[x] = r[y] => x = y
    BY <1>3, <1>13, <1>14
<1>18. \A j \in 1..k : \E x \in N : r[x] = j
    <2> SUFFICES ASSUME NEW j \in 1..k
                 PROVE  \E x \in N : r[x] = j
        OBVIOUS
    <2>1. PICK z \in C : Rank(C, z) = j
        BY <1>3
    <2>2. PICK x \in N : number(x) = z
        BY <1>15
    <2> QED
        BY <2>1, <2>2
<1>19. ASSUME NEW x \in N
       PROVE  Content(x) = 0 /\ Content(x)' = Frame(r[x])
    <2>1. r[x] = Rank(C, number(x)) /\ CopyOf(p, number(x)) = Frame(Rank(C, number(x)))
        BY <1>4, <1>13
    <2>2. Content(x) = 0 /\ Content(x)' = CopyOf(p, number(x))
        <3>1. CASE x = <<"pd", c, 0>>
            BY <3>1, <1>1, <1>2, <1>10, Contents DEF Types
        <3>2. ASSUME NEW t \in T, x = <<"pt", c, t>>
              PROVE  Content(x) = 0 /\ Content(x)' = CopyOf(p, number(x))
            BY <3>2, <1>1, <1>2, <1>10, Contents DEF Types, NoTables
        <3>3. ASSUME NEW v \in V, x = <<"page", c, v>>
              PROVE  Content(x) = 0 /\ Content(x)' = CopyOf(p, number(x))
            BY <3>3, <1>1, <1>2, <1>10, Contents DEF Types, NoPages
        <3> QED
            BY <3>1, <3>2, <3>3, <1>11
    <2> QED
        BY <2>1, <2>2
<1>20. ASSUME NEW x \in Slots, x \notin N
       PROVE  Content(x)' = Content(x)
    <2>1. ASSUME NEW q \in Procs, x = <<"pd", q, 0>>
          PROVE  Content(x)' = Content(x)
        <3>1. q # c
            BY <1>20, <2>1
        <3> QED
            BY <1>1, <2>1, <3>1, Contents DEF Types
    <2>2. ASSUME NEW q \in Procs, NEW t \in Tables, x = <<"pt", q, t>>
          PROVE  Content(x)' = Content(x)
        <3>1. CASE q # c
            BY <1>1, <2>2, <3>1, Contents DEF Types
        <3>2. CASE q = c
            <4>1. t \notin T
                BY <1>20, <2>2, <3>2
            <4>2. CopyOf(p, Table(t)) = 0
                BY <1>5, <1>6, <4>1
            <4> QED
                BY <1>1, <1>2, <2>2, <3>2, <4>2, Contents DEF Types, NoTables
        <3> QED
            BY <3>1, <3>2
    <2>3. ASSUME NEW q \in Procs, NEW v \in Pages, x = <<"page", q, v>>
          PROVE  Content(x)' = Content(x)
        <3>1. CASE q # c
            BY <1>1, <2>3, <3>1, Contents DEF Types
        <3>2. CASE q = c
            <4>1. v \notin V
                BY <1>20, <2>3, <3>2
            <4>2. CopyOf(p, Page(v)) = 0
                BY <1>5, <1>6, <4>1
            <4> QED
                BY <1>1, <1>2, <2>3, <3>2, <4>2, Contents DEF Types, NoPages
        <3> QED
            BY <3>1, <3>2
    <2>4. ASSUME NEW v \in SharedPages, x = <<"shared", v, 0>>
          PROVE  Content(x)' = Content(x)
        BY <1>1, <2>4, Contents
    <2> QED
        BY <2>1, <2>2, <2>3, <2>4
           DEF Slots, PageSlots, TableSlots, DirSlots, SharedSlots
<1> HIDE DEF N, r
<1>21. \A x \in Slots \ N : Content(x)' = Content(x)
    BY <1>20
<1>22. Places'
    BY <1>1, <1>3, <1>9, <1>16, <1>17, <1>18, <1>19, <1>21, AllocKeeps
<1> QED
    BY <1>8, <1>22

\* A fault puts a frame into the entry of the page, and another one into that
\* of the page table if there is none.
LEMMA FaultKeeps ==
    ASSUME Types, Places, NEW p \in Procs, NEW v \in Pages, NEW file,
           Fault(p, v, file)
    PROVE  Types' /\ Places'
<1> DEFINE x == <<"page", p, v>>
           y == <<"pt", p, PDI(v)>>
<1>1. PDI(v) \in Tables
    BY TableOfPage
<1>2. /\ page[p][v] = 0 /\ AllocFrames(Need(p, v))
      /\ page' = [page EXCEPT ![p][v] = Frame(1)]
      /\ pt' = IF Need(p, v) = 1 THEN pt ELSE [pt EXCEPT ![p][PDI(v)] = Frame(2)]
      /\ UNCHANGED <<pd, shared, lost>>
    BY DEF Fault, AddMapping, area, rest
<1>3. x \in Slots /\ y \in Slots /\ x # y
    BY <1>1 DEF Slots, PageSlots, TableSlots
<1>4. Content(x) = 0 /\ Content(x)' = Frame(1)
    BY <1>2, Contents DEF Types
<1>5. Bounds
    BY DEF Places
<1>6. \A z \in Slots : z # x /\ z # y => Content(z)' = Content(z)
    <2> SUFFICES ASSUME NEW z \in Slots, z # x, z # y
                 PROVE  Content(z)' = Content(z)
        OBVIOUS
    <2>1. ASSUME NEW q \in Procs, z = <<"pd", q, 0>>
          PROVE  Content(z)' = Content(z)
        BY <1>2, <2>1, Contents
    <2>2. ASSUME NEW q \in Procs, NEW t \in Tables, z = <<"pt", q, t>>
          PROVE  Content(z)' = Content(z)
        <3>1. ~(q = p /\ t = PDI(v))
            BY <2>2
        <3>2. pt'[q][t] = pt[q][t]
            BY <1>1, <1>2, <3>1 DEF Types
        <3> QED
            BY <2>2, <3>2, Contents
    <2>3. ASSUME NEW q \in Procs, NEW w \in Pages, z = <<"page", q, w>>
          PROVE  Content(z)' = Content(z)
        <3>1. ~(q = p /\ w = v)
            BY <2>3
        <3>2. page'[q][w] = page[q][w]
            BY <1>2, <3>1 DEF Types
        <3> QED
            BY <2>3, <3>2, Contents
    <2>4. ASSUME NEW w \in SharedPages, z = <<"shared", w, 0>>
          PROVE  Content(z)' = Content(z)
        BY <1>2, <2>4, Contents
    <2> QED
        BY <2>1, <2>2, <2>3, <2>4
           DEF Slots, PageSlots, TableSlots, DirSlots, SharedSlots
<1>7. CASE Need(p, v) = 1
    <2> DEFINE r == [z \in {x} |-> 1]
    <2>1. AllocFrames(1) /\ Frame(1) \in Nat /\ pt' = pt
        BY <1>2, <1>5, <1>7, FrameIsFrame
    <2>2. Types'
        BY <1>2, <2>1 DEF Types
    <2>3. Content(y)' = Content(y)
        BY <1>1, <2>1, Contents
    <2>4. \A z \in Slots \ {x} : Content(z)' = Content(z)
        BY <1>6, <2>3
    <2>5. /\ {x} \in SUBSET Slots /\ r \in [{x} -> 1..1]
          /\ \A z, w \in {x} : r[z] = r[w] => z = w
          /\ \A j \in 1..1 : \E z \in {x} : r[z] = j
          /\ \A z \in {x} : Content(z) = 0 /\ Content(z)' = Frame(r[z])
        BY <1>3, <1>4
    <2>6. 1 \in Nat \ {0} /\ lost' = lost
        BY <1>2
    <2> HIDE DEF r, x
    <2>7. Places'
        BY <2>1, <2>4, <2>5, <2>6, AllocKeeps
    <2> QED
        BY <2>2, <2>7
<1>8. CASE Need(p, v) = 2
    <2> DEFINE r == [z \in {x, y} |-> IF z = x THEN 1 ELSE 2]
    <2>1. /\ AllocFrames(2) /\ Frame(1) \in Nat /\ Frame(2) \in Nat
          /\ pt' = [pt EXCEPT ![p][PDI(v)] = Frame(2)]
        BY <1>2, <1>5, <1>8, FrameIsFrame
    <2>2. Types'
        BY <1>1, <1>2, <2>1 DEF Types
    <2>3. pt[p][PDI(v)] = 0
        BY <1>8 DEF Need
    <2>4. Content(y) = 0 /\ Content(y)' = Frame(2)
        BY <1>1, <2>1, <2>3, Contents DEF Types
    <2>5. \A z \in Slots \ {x, y} : Content(z)' = Content(z)
        BY <1>6
    <2>6. r[x] = 1 /\ r[y] = 2
        BY <1>3
    <2>7. /\ {x, y} \in SUBSET Slots /\ r \in [{x, y} -> 1..2]
          /\ \A z, w \in {x, y} : r[z] = r[w] => z = w
          /\ \A j \in 1..2 : \E z \in {x, y} : r[z] = j
          /\ \A z \in {x, y} : Content(z) = 0 /\ Content(z)' = Frame(r[z])
        BY <1>3, <1>4, <2>4, <2>6
    <2>8. 2 \in Nat \ {0} /\ lost' = lost
        BY <1>2
    <2> HIDE DEF r, x, y
    <2>9. Places'
        BY <2>1, <2>5, <2>7, <2>8, AllocKeeps
    <2> QED
        BY <2>2, <2>9
<1> QED
    BY <1>7, <1>8 DEF Need

\* A fault in the shared area puts one into the shared entry.
LEMMA SharedMapsKeeps ==
    ASSUME Types, Places, ThreadTypes, NEW p \in Procs, NEW file,
           SharedMaps(p, file)
    PROVE  Types' /\ Places'
<1>1. PICK v \in SharedPages : v = va[p]
    BY DEF SharedMaps, At, ThreadTypes
<1> DEFINE x == <<"shared", v, 0>>
           r == [z \in {x} |-> 1]
<1>2. /\ shared[v] = 0 /\ AllocFrames(1)
      /\ shared' = [shared EXCEPT ![v] = Frame(1)]
      /\ UNCHANGED <<pd, pt, page, lost>>
    BY <1>1 DEF SharedMaps, check_VPN, space, rest
<1>3. Frame(1) \in Nat
    BY <1>2, FrameIsFrame DEF Places
<1>4. Types'
    BY <1>2, <1>3 DEF Types
<1>5. x \in Slots /\ Content(x) = 0 /\ Content(x)' = Frame(1)
    BY <1>2, Contents DEF Types, Slots, SharedSlots
<1>6. ASSUME NEW z \in Slots, z # x
      PROVE  Content(z)' = Content(z)
    <2>1. ASSUME NEW w \in SharedPages, z = <<"shared", w, 0>>
          PROVE  Content(z)' = Content(z)
        <3>1. w # v
            BY <1>6, <2>1
        <3> QED
            BY <1>2, <2>1, <3>1, Contents DEF Types
    <2>2. CASE z \notin SharedSlots
        BY <1>2, <2>2, Contents DEF Slots, PageSlots, TableSlots, DirSlots
    <2> QED
        BY <2>1, <2>2 DEF SharedSlots
<1>7. /\ {x} \in SUBSET Slots /\ r \in [{x} -> 1..1]
      /\ \A z, w \in {x} : r[z] = r[w] => z = w
      /\ \A j \in 1..1 : \E z \in {x} : r[z] = j
      /\ \A z \in {x} : Content(z) = 0 /\ Content(z)' = Frame(r[z])
    BY <1>5
<1>8. 1 \in Nat \ {0} /\ lost' = lost
    BY <1>2
<1> HIDE DEF r, x
<1>9. \A z \in Slots \ {x} : Content(z)' = Content(z)
    BY <1>6
<1>20. Places'
    BY <1>2, <1>7, <1>8, <1>9, AllocKeeps
<1> QED
    BY <1>4, <1>20

-----------------------------------------------------------------------------
(* The invariant *)

\* The first process has its directory, and nothing else was given out.
LEMMA InitInv ==
    ASSUME Init
    PROVE  IndInv
<1>1. GlobalFrames \in Nat /\ NFrames \in Nat /\ GlobalFrames < NFrames
      /\ First \in Procs
    BY MemoryAssumption
<1>2. /\ avail = GlobalFrames + 2 /\ firstFree = {} /\ lost = {}
      /\ pd = [p \in Procs |-> IF p = First THEN GlobalFrames + 1 ELSE 0]
      /\ pt = [p \in Procs |-> NoTables] /\ page = [p \in Procs |-> NoPages]
      /\ shared = [v \in SharedPages |-> 0]
    BY <1>1 DEF Init, PhysMemInit
<1>3. Types
    BY <1>1, <1>2 DEF Types, NoTables, NoPages
<1>4. ThreadTypes
    <2>1. regions \in [Procs -> SUBSET Region]
        BY DEF Init
    <2>2. pc \in [Procs -> Locations] /\ DOMAIN va = Procs
        BY DEF Init, Locations
    <2>3. \A p \in Procs : pc[p] = "user" \/ pc[p] = "none"
        BY DEF Init
    <2> QED
        BY <2>1, <2>2, <2>3 DEF ThreadTypes
<1>5. Empty /\ Disjoint
    BY <1>1, <1>2 DEF Init, Empty, Disjoint
<1>6. \A f : f \in Given <=> f = GlobalFrames + 1
    BY <1>1, <1>2 DEF Given
<1>7. \A x \in Slots : IF x = <<"pd", First, 0>> THEN Content(x) = GlobalFrames + 1
                       ELSE Content(x) = 0
    <2> SUFFICES ASSUME NEW x \in Slots
                 PROVE  IF x = <<"pd", First, 0>> THEN Content(x) = GlobalFrames + 1
                        ELSE Content(x) = 0
        OBVIOUS
    <2>1. ASSUME NEW q \in Procs, x = <<"pd", q, 0>>
          PROVE  Content(x) = IF q = First THEN GlobalFrames + 1 ELSE 0
        BY <1>2, <2>1, Contents
    <2>2. CASE x \in TableSlots(Procs)
        BY <1>2, <2>2, Contents DEF TableSlots, NoTables
    <2>3. CASE x \in PageSlots(Procs, Pages)
        BY <1>2, <2>3, Contents DEF PageSlots, NoPages
    <2>4. CASE x \in SharedSlots
        BY <1>2, <2>4, Contents DEF SharedSlots
    <2>5. CASE x \in DirSlots(Procs)
        BY <2>1, <2>5 DEF DirSlots
    <2> QED
        BY <2>2, <2>3, <2>4, <2>5 DEF Slots
<1>8. <<"pd", First, 0>> \in Slots
    BY <1>1 DEF Slots, DirSlots
<1>9. Bounds /\ HeldNotFree
    BY <1>1, <1>2, <1>6, <1>7 DEF Bounds, HeldNotFree
<1>10. HeldOnce
    BY <1>7 DEF HeldOnce
<1>11. NoneForgotten
    BY <1>2, <1>6, <1>7, <1>8 DEF NoneForgotten
<1> QED
    BY <1>3, <1>4, <1>5, <1>9, <1>10, <1>11 DEF IndInv, Places

\* Frames and places: every step keeps each frame in one place.
LEMMA StepPlaces ==
    ASSUME IndInv, NEW p \in Procs, Step(p)
    PROVE  Types' /\ Places'
<1>1. Types /\ ThreadTypes /\ Places /\ Empty
    BY DEF IndInv
<1>2. ASSUME NEW r \in Region, Mmap(p, r)
      PROVE  Types' /\ Places'
    BY <1>1, <1>2, StillKeeps DEF Mmap, frames, area, rest
<1>3. ASSUME NEW r \in Region, Munmap(p, r)
      PROVE  Types' /\ Places'
    BY <1>1, <1>3, MunmapKeeps
<1>4. CASE Exec(p)
    BY <1>1, <1>4, ExecKeeps
<1>5. CASE Exit(p) \/ Fill(p) \/ Lock(p)
    BY <1>1, <1>5, StillKeeps DEF Exit, Fill, Lock, frames, space, area, rest
<1>6. CASE ForkPanics(p)
    BY <1>1, <1>6, StillKeeps DEF ForkPanics, Panic, frames, space, area
<1>15. CASE ForkReturns(p)
    BY <1>1, <1>15, ForkReturnsKeeps
<1>7. ASSUME NEW c \in Procs, Fork(p, c)
      PROVE  Types' /\ Places'
    BY <1>1, <1>7, ForkKeeps
<1>8. ASSUME NEW d \in Procs, ReapBy(p, d)
      PROVE  Types' /\ Places'
    <2>1. p # d /\ pd[d] # 0
        BY <1>1, <1>8 DEF ReapBy, At, Empty
    <2> QED
        BY <1>1, <1>8, <2>1, ReapByKeeps
<1>9. CASE Reap(p)
    <2>1. pd[p] # 0
        BY <1>1, <1>9 DEF Reap, At, Empty
    <2> QED
        BY <1>1, <1>9, <2>1, ReapKeeps
<1>10. ASSUME NEW v \in Pages, FaultExits(p, v) \/ FaultPanics(p, v)
       PROVE  Types' /\ Places'
    BY <1>1, <1>10, StillKeeps
       DEF FaultExits, FaultPanics, Panic, frames, space, area, rest
<1>11. ASSUME NEW v \in Pages, NEW file \in BOOLEAN, Fault(p, v, file)
       PROVE  Types' /\ Places'
    BY <1>1, <1>11, FaultKeeps
<1>12. ASSUME NEW v \in SharedPages, SharedFault(p, v) \/ MmapShared(p, v)
       PROVE  Types' /\ Places'
    BY <1>1, <1>12, StillKeeps DEF SharedFault, MmapShared, frames, space, area, rest
<1>13. CASE SharedThere(p) \/ SharedExits(p) \/ SharedPanics(p)
    BY <1>1, <1>13, StillKeeps
       DEF SharedThere, SharedExits, SharedPanics, Panic, frames, space, area, rest
<1>14. ASSUME NEW file \in BOOLEAN, SharedMaps(p, file)
       PROVE  Types' /\ Places'
    BY <1>1, <1>14, SharedMapsKeeps
<1> QED
    BY <1>2, <1>3, <1>4, <1>5, <1>6, <1>7, <1>8, <1>9, <1>10, <1>11, <1>12, <1>13,
       <1>14, <1>15 DEF Step, UnderLock

\* A copy of the regions is what they are.
LEMMA DuplicateIs ==
    ASSUME NEW rs \in SUBSET Region
    PROVE  Duplicate(rs) = rs
<1>1. \A r \in rs : [first |-> r.first, pages |-> r.pages] = r
    BY DEF Region
<1> QED
    BY <1>1 DEF Duplicate

\* A step in which a thread goes somewhere else, other than into or out of a
\* process, and the address spaces stay.
LEMMA MovesKeep ==
    ASSUME ThreadTypes, Empty, Disjoint, NEW p \in Procs, NEW where \in Locations,
           pc[p] # "none", where # "none",
           pc' = [pc EXCEPT ![p] = where],
           regions' = regions, DOMAIN va' = Procs,
           \A q \in Procs : q # p => va'[q] = va[q],
           where \in {"lock", "shared"} => va'[p] \in SharedPages,
           \A q \in Procs : pd'[q] = pd[q],
           \A q \in Procs : q # p => pt'[q] = pt[q] /\ page'[q] = page[q]
    PROVE  ThreadTypes' /\ Empty' /\ Disjoint'
<1>1. \A q \in Procs : pc'[q] = IF q = p THEN where ELSE pc[q]
    BY DEF ThreadTypes
<1>2. ThreadTypes'
    BY <1>1 DEF ThreadTypes
<1>3. Empty'
    BY <1>1 DEF Empty
<1>4. Disjoint'
    BY DEF Disjoint
<1> QED
    BY <1>2, <1>3, <1>4

\* A step of a process in which threads stay where they are and directories
\* what they are.
LEMMA CallsKeep ==
    ASSUME ThreadTypes, Empty, NEW p \in Procs, pc[p] # "none",
           pc' = pc, va' = va, pd' = pd,
           regions' \in [Procs -> SUBSET Region], Disjoint',
           \A q \in Procs : q # p => pt'[q] = pt[q] /\ page'[q] = page[q]
    PROVE  ThreadTypes' /\ Empty' /\ Disjoint'
<1>1. ThreadTypes'
    BY DEF ThreadTypes
<1>2. Empty'
    BY DEF Empty
<1> QED
    BY <1>1, <1>2

\* The destructor of a TCB: its process is gone with all it had.
LEMMA DeletedKeeps ==
    ASSUME Types, ThreadTypes, Empty, Disjoint, NEW d \in Procs, NEW dir,
           Deleted(d, dir), NEW p \in Procs, pc[p] # "none",
           page'[d] = NoPages,
           \A q \in Procs : q # d /\ q # p => page'[q] = page[q]
    PROVE  ThreadTypes' /\ Empty' /\ Disjoint'
<1>1. /\ pd' = [pd EXCEPT ![d] = 0] /\ pt' = [pt EXCEPT ![d] = NoTables]
      /\ regions' = [regions EXCEPT ![d] = {}] /\ pc' = [pc EXCEPT ![d] = "none"]
      /\ va' = va
    BY DEF Deleted, Goto
<1>2. \A q \in Procs : pc'[q] = IF q = d THEN "none" ELSE pc[q]
    BY <1>1 DEF ThreadTypes
<1>3. ThreadTypes'
    <2>1. regions' \in [Procs -> SUBSET Region] /\ pc' \in [Procs -> Locations]
        BY <1>1 DEF ThreadTypes, Locations
    <2> QED
        BY <1>1, <1>2, <2>1 DEF ThreadTypes
<1>4. Empty'
    <2> SUFFICES ASSUME NEW q \in Procs
                 PROVE  IF pc'[q] = "none"
                        THEN pd'[q] = 0 /\ pt'[q] = NoTables /\ page'[q] = NoPages
                        ELSE pd'[q] # 0
        BY DEF Empty, NoTables, NoPages
    <2>1. CASE q = d
        BY <1>1, <1>2, <2>1 DEF Types
    <2>2. CASE q # d
        BY <1>1, <1>2, <2>2 DEF Types, Empty
    <2> QED
        BY <2>1, <2>2
<1>5. Disjoint'
    BY <1>1 DEF Disjoint, ThreadTypes
<1> QED
    BY <1>3, <1>4, <1>5

\* fork: the child has a directory, and the regions of its parent.
LEMMA ForkThreads ==
    ASSUME Types, ThreadTypes, Places, Empty, Disjoint,
           NEW p \in Procs, NEW c \in Procs, Fork(p, c)
    PROVE  ThreadTypes' /\ Empty' /\ Disjoint'
<1>1. /\ pd' = [pd EXCEPT ![c] = CopyOf(p, Dir)]
      /\ pt' = [pt EXCEPT ![c] = [t \in Tables |-> CopyOf(p, Table(t))]]
      /\ page' = [page EXCEPT ![c] = [v \in Pages |-> CopyOf(p, Page(v))]]
      /\ regions' = [regions EXCEPT ![c] = Duplicate(regions[p])]
      /\ pc' = [pc EXCEPT ![c] = "user", ![p] = "forked"] /\ va' = va
      /\ pc[p] = "user" /\ pc[c] = "none"
      /\ AllocFrames(Cardinality(Copies(p)))
    BY DEF Fork, Call, At
<1>2. Duplicate(regions[p]) = regions[p]
    BY DuplicateIs DEF ThreadTypes
<1>3. CopyOf(p, Dir) # 0
    <2>1. Dir \in Copies(p)
        BY CopiesNumbered
    <2>2. /\ Cardinality(Copies(p)) \in Nat \ {0}
          /\ Rank(Copies(p), Dir) \in 1..Cardinality(Copies(p))
        BY <2>1, CopiesRanked
    <2>3. Bounds
        BY DEF Places
    <2>4. Frame(Rank(Copies(p), Dir)) # 0
        BY <1>1, <2>2, <2>3, FrameIsFrame
    <2> QED
        BY <2>1, <2>4 DEF CopyOf
<1>4. p # c /\ \A q \in Procs : pc'[q] = IF q = c THEN "user"
                                         ELSE IF q = p THEN "forked" ELSE pc[q]
    BY <1>1 DEF ThreadTypes
<1>5. ThreadTypes'
    <2>1. regions' \in [Procs -> SUBSET Region] /\ pc' \in [Procs -> Locations]
        BY <1>1, <1>2 DEF ThreadTypes, Locations
    <2> QED
        BY <1>1, <1>4, <2>1 DEF ThreadTypes
<1>6. Empty'
    <2> SUFFICES ASSUME NEW q \in Procs
                 PROVE  IF pc'[q] = "none"
                        THEN pd'[q] = 0 /\ pt'[q] = NoTables /\ page'[q] = NoPages
                        ELSE pd'[q] # 0
        BY DEF Empty, NoTables, NoPages
    <2>1. CASE q = c
        BY <1>1, <1>3, <1>4, <2>1 DEF Types
    <2>2. CASE q # c
        <3>1. pd'[q] = pd[q] /\ pt'[q] = pt[q] /\ page'[q] = page[q]
            BY <1>1, <2>2 DEF Types
        <3>2. pc'[q] = "none" <=> pc[q] = "none"
            <4>1. pc'[q] = IF q = p THEN "forked" ELSE pc[q]
                BY <1>4, <2>2
            <4>2. pc[p] = "user"
                BY <1>1
            <4> QED
                BY <4>1, <4>2
        <3> QED
            BY <3>1, <3>2 DEF Empty
    <2> QED
        BY <2>1, <2>2
<1>7. Disjoint'
    BY <1>1, <1>2 DEF Disjoint, ThreadTypes
<1> QED
    BY <1>5, <1>6, <1>7

\* Threads and regions: every step keeps them as they should be.
LEMMA StepThreads ==
    ASSUME IndInv, NEW p \in Procs, Step(p)
    PROVE  ThreadTypes' /\ Empty' /\ Disjoint'
<1>1. Types /\ ThreadTypes /\ Places /\ Empty /\ Disjoint
    BY DEF IndInv
<1>2. ASSUME NEW r \in Region, Mmap(p, r)
      PROVE  ThreadTypes' /\ Empty' /\ Disjoint'
    <2>1. /\ pc[p] = "user" /\ regions' = [regions EXCEPT ![p] = @ \union {r}]
          /\ Of(r) \cap Covered(regions[p]) = {}
          /\ UNCHANGED <<pd, pt, page, pc, va>>
        BY <1>2 DEF Mmap, Call, At, thread
    <2>2. \A q \in Procs : regions'[q] = IF q = p THEN regions[p] \union {r}
                                         ELSE regions[q]
        BY <1>1, <2>1 DEF ThreadTypes
    <2>3. \A s \in regions[p] : Of(s) \cap Of(r) = {}
        BY <2>1 DEF Covered
    <2>4. Disjoint'
        BY <1>1, <2>2, <2>3 DEF Disjoint
    <2>5. regions' \in [Procs -> SUBSET Region]
        BY <1>1, <2>1 DEF ThreadTypes
    <2> QED
        BY <1>1, <2>1, <2>4, <2>5, CallsKeep
<1>3. ASSUME NEW r \in Region, Munmap(p, r)
      PROVE  ThreadTypes' /\ Empty' /\ Disjoint'
    <2>1. /\ pc[p] = "user" /\ regions' = [regions EXCEPT ![p] = @ \ {r}]
          /\ page' = [page EXCEPT ![p] = RemoveMappings(@, {r})]
          /\ UNCHANGED <<pd, pt, pc, va>>
        BY <1>3 DEF Munmap, Call, At, thread
    <2>2. regions' \in [Procs -> SUBSET Region] /\ Disjoint'
        BY <1>1, <2>1 DEF ThreadTypes, Disjoint
    <2>3. \A q \in Procs : q # p => page'[q] = page[q]
        BY <1>1, <2>1 DEF Types
    <2> QED
        BY <1>1, <2>1, <2>2, <2>3, CallsKeep
<1>4. CASE Exec(p)
    <2>1. /\ pc[p] = "user" /\ regions' = [regions EXCEPT ![p] = {}]
          /\ page' = [page EXCEPT ![p] = NoPages]
          /\ pt' = [pt EXCEPT ![p] = NoTables]
          /\ UNCHANGED <<pd, pc, va>>
        BY <1>4 DEF Exec, Call, At, thread
    <2>2. regions' \in [Procs -> SUBSET Region] /\ Disjoint'
        BY <1>1, <2>1 DEF ThreadTypes, Disjoint
    <2>3. \A q \in Procs : q # p => page'[q] = page[q] /\ pt'[q] = pt[q]
        BY <1>1, <2>1 DEF Types
    <2> QED
        BY <1>1, <2>1, <2>2, <2>3, CallsKeep
<1>5. ASSUME NEW v \in SharedPages, MmapShared(p, v)
      PROVE  ThreadTypes' /\ Empty' /\ Disjoint'
    BY <1>1, <1>5
       DEF MmapShared, Call, At, space, thread, ThreadTypes, Empty, Disjoint
<1>6. CASE ForkPanics(p) \/ SharedPanics(p) \/ \E v \in Pages : FaultPanics(p, v)
    BY <1>1, <1>6 DEF ForkPanics, SharedPanics, FaultPanics, Panic, space, thread,
                      ThreadTypes, Empty, Disjoint
<1>7. CASE Exit(p) \/ \E v \in Pages : FaultExits(p, v)
    <2>1. /\ pc[p] = "user" /\ pc' = [pc EXCEPT ![p] = "dead"] /\ va' = va
          /\ UNCHANGED <<regions, pd, pt, page>>
        BY <1>7 DEF Exit, FaultExits, At, Goto, space
    <2> QED
        BY <1>1, <2>1, MovesKeep DEF ThreadTypes, Locations
<1>8. CASE Fill(p)
    <2>1. /\ pc[p] = "fill" /\ pc' = [pc EXCEPT ![p] = "user"] /\ va' = va
          /\ UNCHANGED <<regions, pd, pt, page>>
        BY <1>8 DEF Fill, At, Goto, space
    <2> QED
        BY <1>1, <2>1, MovesKeep DEF ThreadTypes, Locations
<1>17. CASE ForkReturns(p)
    <2>1. /\ pc[p] = "forked" /\ pc' = [pc EXCEPT ![p] = "user"] /\ va' = va
          /\ page' = [page EXCEPT ![p] = RemoveMappings(@, child_vme[p])]
          /\ UNCHANGED <<regions, pd, pt>>
        BY <1>17 DEF ForkReturns, At, Goto
    <2>2. \A q \in Procs : q # p => page'[q] = page[q]
        BY <1>1, <2>1 DEF Types
    <2> QED
        BY <1>1, <2>1, <2>2, MovesKeep DEF ThreadTypes, Locations
<1>9. ASSUME NEW v \in SharedPages, SharedFault(p, v)
      PROVE  ThreadTypes' /\ Empty' /\ Disjoint'
    <2>1. /\ pc[p] = "user" /\ pc' = [pc EXCEPT ![p] = "lock"]
          /\ va' = [va EXCEPT ![p] = v]
          /\ UNCHANGED <<regions, pd, pt, page>>
        BY <1>9 DEF SharedFault, At, Goto, space
    <2>2. DOMAIN va' = Procs /\ va'[p] = v /\ \A q \in Procs : q # p => va'[q] = va[q]
        BY <1>1, <2>1 DEF ThreadTypes
    <2> QED
        BY <1>1, <2>1, <2>2, MovesKeep DEF Locations
<1>10. CASE Lock(p)
    <2>1. /\ pc[p] = "lock" /\ pc' = [pc EXCEPT ![p] = "shared"] /\ va' = va
          /\ UNCHANGED <<regions, pd, pt, page>>
        BY <1>10 DEF Lock, At, Goto, space
    <2>2. DOMAIN va' = Procs /\ va'[p] \in SharedPages
        BY <1>1, <2>1 DEF ThreadTypes
    <2> QED
        BY <1>1, <2>1, <2>2, MovesKeep DEF Locations
<1>11. CASE SharedThere(p) \/ SharedExits(p)
    <2>1. PICK where \in {"user", "dead"} :
            /\ pc[p] = "shared" /\ pc' = [pc EXCEPT ![p] = where]
            /\ va' = [va EXCEPT ![p] = 0]
            /\ UNCHANGED <<regions, pd, pt, page>>
        BY <1>11 DEF SharedThere, SharedExits, At, Goto, space
    <2>2. DOMAIN va' = Procs /\ \A q \in Procs : q # p => va'[q] = va[q]
        BY <1>1, <2>1 DEF ThreadTypes
    <2> QED
        BY <1>1, <2>1, <2>2, MovesKeep DEF Locations
<1>12. ASSUME NEW file \in BOOLEAN, SharedMaps(p, file)
       PROVE  ThreadTypes' /\ Empty' /\ Disjoint'
    <2>1. PICK where \in {"user", "fill"} :
            /\ pc[p] = "shared" /\ pc' = [pc EXCEPT ![p] = where]
            /\ va' = [va EXCEPT ![p] = 0]
            /\ UNCHANGED <<regions, pd, pt, page>>
        BY <1>12 DEF SharedMaps, Mapped, At, Goto, space
    <2>2. DOMAIN va' = Procs /\ \A q \in Procs : q # p => va'[q] = va[q]
        BY <1>1, <2>1 DEF ThreadTypes
    <2> QED
        BY <1>1, <2>1, <2>2, MovesKeep DEF Locations
<1>13. ASSUME NEW v \in Pages, NEW file \in BOOLEAN, Fault(p, v, file)
       PROVE  ThreadTypes' /\ Empty' /\ Disjoint'
    <2>1. PICK where \in {"user", "fill"} :
            /\ pc[p] = "user" /\ pc' = [pc EXCEPT ![p] = where]
            /\ va' = [va EXCEPT ![p] = 0]
            /\ UNCHANGED <<regions, pd>>
            /\ page' = [page EXCEPT ![p][v] = Frame(1)]
            /\ pt' = IF Need(p, v) = 1 THEN pt ELSE [pt EXCEPT ![p][PDI(v)] = Frame(2)]
        BY <1>13 DEF Fault, AddMapping, Mapped, At, Goto
    <2>2. DOMAIN va' = Procs /\ \A q \in Procs : q # p => va'[q] = va[q]
        BY <1>1, <2>1 DEF ThreadTypes
    <2>3. \A q \in Procs : q # p => page'[q] = page[q] /\ pt'[q] = pt[q]
        BY <1>1, <2>1 DEF Types
    <2>4. /\ where \in Locations /\ where # "none" /\ where \notin {"lock", "shared"}
          /\ pc[p] # "none" /\ pc' = [pc EXCEPT ![p] = where]
          /\ regions' = regions /\ \A q \in Procs : pd'[q] = pd[q]
        BY <2>1 DEF Locations
    <2> QED
        BY <1>1, <2>2, <2>3, <2>4, MovesKeep
<1>14. ASSUME NEW c \in Procs, Fork(p, c)
       PROVE  ThreadTypes' /\ Empty' /\ Disjoint'
    BY <1>1, <1>14, ForkThreads
<1>15. CASE Reap(p)
    <2>1. /\ pc[p] = "dead" /\ Deleted(p, NoPages)
          /\ page' = [page EXCEPT ![p] = NoPages]
        BY <1>15 DEF Reap, At
    <2>2. page'[p] = NoPages /\ \A q \in Procs : q # p => page'[q] = page[q]
        BY <1>1, <2>1 DEF Types
    <2> QED
        BY <1>1, <2>1, <2>2, DeletedKeeps
<1>16. ASSUME NEW d \in Procs, ReapBy(p, d)
       PROVE  ThreadTypes' /\ Empty' /\ Disjoint'
    <2>1. /\ pc[p] \in {"user", "fill"} /\ pc[d] = "dead" /\ Deleted(d, page[p])
          /\ page' = [page EXCEPT ![d] = NoPages,
                                  ![p] = RemoveMappings(@, Going(d))]
        BY <1>16 DEF ReapBy, At
    <2>2. /\ p # d /\ page'[d] = NoPages
          /\ \A q \in Procs : q # d /\ q # p => page'[q] = page[q]
        BY <1>1, <2>1 DEF Types
    <2> QED
        BY <1>1, <2>1, <2>2, DeletedKeeps
<1> QED
    BY <1>2, <1>3, <1>4, <1>5, <1>6, <1>7, <1>8, <1>9, <1>10, <1>11, <1>12, <1>13,
       <1>14, <1>15, <1>16, <1>17 DEF Step, UnderLock

\* Every step keeps the invariant.
LEMMA NextInv ==
    ASSUME IndInv, [Next]_vars
    PROVE  IndInv'
<1>1. CASE UNCHANGED vars
    <2>1. UNCHANGED <<firstFree, avail, pd, pt, page, shared, lost, regions, pc, va>>
        BY <1>1 DEF vars, frames, space, area, thread, rest
    <2>2. Types' /\ Places'
        BY <2>1, StillKeeps DEF IndInv
    <2>3. ThreadTypes' /\ Empty' /\ Disjoint'
        BY <2>1 DEF IndInv, ThreadTypes, Empty, Disjoint
    <2> QED
        BY <2>2, <2>3 DEF IndInv
<1>2. CASE Next
    BY <1>2, StepPlaces, StepThreads DEF Next, IndInv
<1> QED
    BY <1>1, <1>2

\* The invariant holds in every behaviour.
THEOREM MemoryInvariance == Spec => []IndInv
BY InitInv, NextInv, PTL DEF Spec

-----------------------------------------------------------------------------

\* A place that holds a frame is the only one of its kind.
LEMMA CountIs ==
    ASSUME NEW S, NEW B \in BOOLEAN,
           \A x, y \in S : x = y,
           (\E x \in S : TRUE) <=> B
    PROVE  Cardinality(S) = IF B THEN 1 ELSE 0
<1>1. CASE B
    <2>1. PICK x : S = {x}
        BY <1>1
    <2> QED
        BY <1>1, <2>1, FS_Singleton
<1>2. CASE ~B
    <2>1. S = {}
        BY <1>2
    <2> QED
        BY <1>2, <2>1, FS_EmptySet
<1> QED
    BY <1>1, <1>2

\* FrameInOnePlace, for every number of processes, pages and frames: however
\* munmap, execl, fork, faults, exits and the destructors of dead processes
\* follow each other, every frame that PhysMem gave out is in its list of free
\* frames, or in one entry of one directory or table, or was lost with the
\* pages of a process that ended or called execl before its fork had returned.
THEOREM OneOwner == Spec => []FrameInOnePlace
<1>1. ASSUME IndInv
      PROVE  FrameInOnePlace
    <2> SUFFICES ASSUME NEW f \in 1..NFrames
                 PROVE  Uses(f) = IF GlobalFrames < f /\ f < avail /\ f \notin lost
                                  THEN 1 ELSE 0
        BY DEF FrameInOnePlace
    <2> DEFINE inPd == {x \in DOMAIN pd : pd[x] = f}
               inShared == {x \in DOMAIN shared : shared[x] = f}
               inPt == {x \in Procs \X Tables : pt[x[1]][x[2]] = f}
               inPage == {x \in Procs \X Pages : page[x[1]][x[2]] = f}
               isPd == \E p \in Procs : pd[p] = f
               isShared == \E v \in SharedPages : shared[v] = f
               isPt == \E p \in Procs, t \in Tables : pt[p][t] = f
               isPage == \E p \in Procs, v \in Pages : page[p][v] = f
    <2>1. f # 0 /\ f \in Int
        BY MemoryAssumption
    <2>2. /\ DOMAIN pd = Procs /\ DOMAIN shared = SharedPages
        BY <1>1 DEF IndInv, Types
    <2>3. ASSUME NEW x \in Slots, NEW y \in Slots, Content(x) = f, Content(y) = f
          PROVE  x = y
        BY <1>1, <2>1, <2>3 DEF IndInv, Places, HeldOnce
    <2>4. /\ \A p \in Procs : <<"pd", p, 0>> \in Slots
          /\ \A p \in Procs, t \in Tables : <<"pt", p, t>> \in Slots
          /\ \A p \in Procs, v \in Pages : <<"page", p, v>> \in Slots
          /\ \A v \in SharedPages : <<"shared", v, 0>> \in Slots
        BY DEF Slots, DirSlots, TableSlots, PageSlots, SharedSlots
    <2>5. \A p, q \in Procs : pd[p] = f /\ pd[q] = f => p = q
        <3> SUFFICES ASSUME NEW p \in Procs, NEW q \in Procs, pd[p] = f, pd[q] = f
                     PROVE  p = q
            OBVIOUS
        <3>1. Content(<<"pd", p, 0>>) = f /\ Content(<<"pd", q, 0>>) = f
            BY Contents
        <3>2. <<"pd", p, 0>> = <<"pd", q, 0>>
            BY <2>3, <2>4, <3>1
        <3> QED
            BY <3>2
    <2>6. \A v, w \in SharedPages : shared[v] = f /\ shared[w] = f => v = w
        <3> SUFFICES ASSUME NEW v \in SharedPages, NEW w \in SharedPages,
                            shared[v] = f, shared[w] = f
                     PROVE  v = w
            OBVIOUS
        <3>1. Content(<<"shared", v, 0>>) = f /\ Content(<<"shared", w, 0>>) = f
            BY Contents
        <3>2. <<"shared", v, 0>> = <<"shared", w, 0>>
            BY <2>3, <2>4, <3>1
        <3> QED
            BY <3>2
    <2>7. \A p, q \in Procs : \A t, u \in Tables :
                pt[p][t] = f /\ pt[q][u] = f => p = q /\ t = u
        <3> SUFFICES ASSUME NEW p \in Procs, NEW q \in Procs, NEW t \in Tables,
                            NEW u \in Tables, pt[p][t] = f, pt[q][u] = f
                     PROVE  p = q /\ t = u
            OBVIOUS
        <3>1. Content(<<"pt", p, t>>) = f /\ Content(<<"pt", q, u>>) = f
            BY Contents
        <3>2. <<"pt", p, t>> = <<"pt", q, u>>
            BY <2>3, <2>4, <3>1
        <3> QED
            BY <3>2
    <2>8. \A p, q \in Procs : \A v, w \in Pages :
                page[p][v] = f /\ page[q][w] = f => p = q /\ v = w
        <3> SUFFICES ASSUME NEW p \in Procs, NEW q \in Procs, NEW v \in Pages,
                            NEW w \in Pages, page[p][v] = f, page[q][w] = f
                     PROVE  p = q /\ v = w
            OBVIOUS
        <3>1. Content(<<"page", p, v>>) = f /\ Content(<<"page", q, w>>) = f
            BY Contents
        <3>2. <<"page", p, v>> = <<"page", q, w>>
            BY <2>3, <2>4, <3>1
        <3> QED
            BY <3>2
    <2>9. Cardinality(inPd) = IF isPd THEN 1 ELSE 0
        <3>1. \A x, y \in inPd : x = y
            BY <2>2, <2>5
        <3>2. (\E x \in inPd : TRUE) <=> isPd
            BY <2>2
        <3>3. isPd \in BOOLEAN
            OBVIOUS
        <3> HIDE DEF inPd, isPd
        <3> QED
            BY <3>1, <3>2, <3>3, CountIs
    <2>10. Cardinality(inShared) = IF isShared THEN 1 ELSE 0
        <3>1. \A x, y \in inShared : x = y
            BY <2>2, <2>6
        <3>2. (\E x \in inShared : TRUE) <=> isShared
            BY <2>2
        <3>3. isShared \in BOOLEAN
            OBVIOUS
        <3> HIDE DEF inShared, isShared
        <3> QED
            BY <3>1, <3>2, <3>3, CountIs
    <2>11. Cardinality(inPt) = IF isPt THEN 1 ELSE 0
        <3>1. \A x, y \in inPt : x = y
            BY <2>7
        <3>2. (\E x \in inPt : TRUE) <=> isPt
            <4>1. ASSUME NEW p \in Procs, NEW t \in Tables, pt[p][t] = f
                  PROVE  <<p, t>> \in inPt
                BY <4>1
            <4> QED
                BY <4>1
        <3> QED
            BY <3>1, <3>2, CountIs
    <2>12. Cardinality(inPage) = IF isPage THEN 1 ELSE 0
        <3>1. \A x, y \in inPage : x = y
            BY <2>8
        <3>2. (\E x \in inPage : TRUE) <=> isPage
            <4>1. ASSUME NEW p \in Procs, NEW v \in Pages, page[p][v] = f
                  PROVE  <<p, v>> \in inPage
                BY <4>1
            <4> QED
                BY <4>1
        <3> QED
            BY <3>1, <3>2, CountIs
    <2>13. Cardinality({f} \cap firstFree) = IF f \in firstFree THEN 1 ELSE 0
        <3>1. CASE f \in firstFree
            <4>1. {f} \cap firstFree = {f}
                BY <3>1
            <4> QED
                BY <3>1, <4>1, FS_Singleton
        <3>2. CASE f \notin firstFree
            <4>1. {f} \cap firstFree = {}
                BY <3>2
            <4> QED
                BY <3>2, <4>1, FS_EmptySet
        <3> QED
            BY <3>1, <3>2
    <2>14. Uses(f) = Cardinality({f} \cap firstFree) + Cardinality(inPd)
                        + Cardinality(inShared) + Cardinality(inPt) + Cardinality(inPage)
        BY DEF Uses
    \* It is in one kind of place only.
    <2>15. /\ isPd => ~isShared /\ ~isPt /\ ~isPage
           /\ isShared => ~isPt /\ ~isPage
           /\ isPt => ~isPage
        <3>1. ASSUME NEW p \in Procs, pd[p] = f
              PROVE  ~isShared /\ ~isPt /\ ~isPage
            <4>1. Content(<<"pd", p, 0>>) = f
                BY <3>1, Contents
            <4>2. ASSUME NEW v \in SharedPages, shared[v] = f
                  PROVE  FALSE
                <5>1. Content(<<"shared", v, 0>>) = f
                    BY <4>2, Contents
                <5> QED
                    BY <2>3, <2>4, <4>1, <5>1
            <4>3. ASSUME NEW q \in Procs, NEW t \in Tables, pt[q][t] = f
                  PROVE  FALSE
                <5>1. Content(<<"pt", q, t>>) = f
                    BY <4>3, Contents
                <5> QED
                    BY <2>3, <2>4, <4>1, <5>1
            <4>4. ASSUME NEW q \in Procs, NEW v \in Pages, page[q][v] = f
                  PROVE  FALSE
                <5>1. Content(<<"page", q, v>>) = f
                    BY <4>4, Contents
                <5> QED
                    BY <2>3, <2>4, <4>1, <5>1
            <4> QED
                BY <4>2, <4>3, <4>4
        <3>2. ASSUME NEW v \in SharedPages, shared[v] = f
              PROVE  ~isPt /\ ~isPage
            <4>1. Content(<<"shared", v, 0>>) = f
                BY <3>2, Contents
            <4>2. ASSUME NEW q \in Procs, NEW t \in Tables, pt[q][t] = f
                  PROVE  FALSE
                <5>1. Content(<<"pt", q, t>>) = f
                    BY <4>2, Contents
                <5> QED
                    BY <2>3, <2>4, <4>1, <5>1
            <4>3. ASSUME NEW q \in Procs, NEW w \in Pages, page[q][w] = f
                  PROVE  FALSE
                <5>1. Content(<<"page", q, w>>) = f
                    BY <4>3, Contents
                <5> QED
                    BY <2>3, <2>4, <4>1, <5>1
            <4> QED
                BY <4>2, <4>3
        <3>3. ASSUME NEW p \in Procs, NEW t \in Tables, pt[p][t] = f
              PROVE  ~isPage
            <4>1. Content(<<"pt", p, t>>) = f
                BY <3>3, Contents
            <4>2. ASSUME NEW q \in Procs, NEW w \in Pages, page[q][w] = f
                  PROVE  FALSE
                <5>1. Content(<<"page", q, w>>) = f
                    BY <4>2, Contents
                <5> QED
                    BY <2>3, <2>4, <4>1, <5>1
            <4> QED
                BY <4>2
        <3> QED
            BY <3>1, <3>2, <3>3
    <2>16. (\E x \in Slots : Content(x) = f) <=> isPd \/ isShared \/ isPt \/ isPage
        <3>1. ASSUME NEW x \in Slots, Content(x) = f
              PROVE  isPd \/ isShared \/ isPt \/ isPage
            BY <3>1, Contents DEF Slots, DirSlots, TableSlots, PageSlots, SharedSlots
        <3>2. ASSUME isPd \/ isShared \/ isPt \/ isPage
              PROVE  \E x \in Slots : Content(x) = f
            <4>1. ASSUME NEW p \in Procs, pd[p] = f
                  PROVE  \E x \in Slots : Content(x) = f
                BY <2>4, <4>1, Contents
            <4>2. ASSUME NEW v \in SharedPages, shared[v] = f
                  PROVE  \E x \in Slots : Content(x) = f
                BY <2>4, <4>2, Contents
            <4>3. ASSUME NEW p \in Procs, NEW t \in Tables, pt[p][t] = f
                  PROVE  \E x \in Slots : Content(x) = f
                BY <2>4, <4>3, Contents
            <4>4. ASSUME NEW p \in Procs, NEW v \in Pages, page[p][v] = f
                  PROVE  \E x \in Slots : Content(x) = f
                BY <2>4, <4>4, Contents
            <4> QED
                BY <3>2, <4>1, <4>2, <4>3, <4>4, Zenon
        <3> QED
            BY <3>1, <3>2
    <2> DEFINE held == \E x \in Slots : Content(x) = f
    <2>17. f \in Given <=> GlobalFrames < f /\ f < avail
        BY <1>1, <2>1, MemoryAssumption DEF Given, IndInv, Places, Bounds
    <2>18. /\ held => f \in Given /\ f \notin firstFree /\ f \notin lost
           /\ f \in firstFree => f \in Given /\ f \notin lost
           /\ f \in Given => f \in firstFree \/ f \in lost \/ held
        BY <1>1, <2>1 DEF IndInv, Places, Bounds, HeldNotFree, NoneForgotten
    <2> HIDE DEF inPd, inShared, inPt, inPage, isPd, isShared, isPt, isPage, held
    <2>19. held <=> isPd \/ isShared \/ isPt \/ isPage
        BY <2>16 DEF held
    <2>20. Cardinality(inPd) + Cardinality(inShared) + Cardinality(inPt)
                + Cardinality(inPage) = IF held THEN 1 ELSE 0
        BY <2>9, <2>10, <2>11, <2>12, <2>15, <2>19
    <2>21. Uses(f) = (IF f \in firstFree THEN 1 ELSE 0) + (IF held THEN 1 ELSE 0)
        BY <2>9, <2>10, <2>11, <2>12, <2>13, <2>14, <2>20
    <2> QED
        BY <2>17, <2>18, <2>21
<1> QED
    BY <1>1, MemoryInvariance, PTL

\* KeepsPages, for every number of processes: an entry of a page table that
\* VMM::add_mapping made goes only with the region it belongs to, or when
\* the process reaps another one with a region at the same address, or when it
\* returns from fork as the last to hold such a region of its child.
THEOREM PagesKept == Spec => KeepsPages
<1>1. ASSUME IndInv, [Next]_vars, NEW q \in Procs, NEW v \in Pages,
             page[q][v] # 0, page'[q][v] # page[q][v]
      PROVE  \/ v \notin Covered(regions'[q])
             \/ \E d \in Procs : /\ pc[d] = "dead" /\ pc'[d] = "none"
                                 /\ v \in Covered(regions[d])
             \/ /\ pc[q] = "forked" /\ pc'[q] = "user"
                /\ v \in Covered(child_vme[q])
    <2>1. Types /\ ThreadTypes /\ Empty /\ Disjoint
        BY <1>1 DEF IndInv
    <2>2. PICK p \in Procs : Step(p)
        BY <1>1 DEF Next, vars, space
    <2>3. page' # page
        BY <1>1
    <2>4. ASSUME NEW r \in Region, Munmap(p, r)
          PROVE  v \notin Covered(regions'[q])
        <3>1. /\ r \in regions[p] /\ regions' = [regions EXCEPT ![p] = @ \ {r}]
              /\ page' = [page EXCEPT ![p] = RemoveMappings(@, {r})]
            BY <2>4 DEF Munmap
        <3>2. q = p /\ v \in Covered({r})
            BY <1>1, <2>1, <3>1 DEF Types, RemoveMappings
        <3>3. v \in Of(r) /\ regions'[p] = regions[p] \ {r}
            BY <2>1, <3>1, <3>2 DEF ThreadTypes, Covered
        <3> QED
            BY <2>1, <3>1, <3>2, <3>3 DEF Covered, Disjoint
    <2>5. CASE Exec(p)
        <3>1. /\ regions' = [regions EXCEPT ![p] = {}]
              /\ page' = [page EXCEPT ![p] = NoPages]
            BY <2>5 DEF Exec
        <3>2. q = p /\ regions'[p] = {}
            BY <1>1, <2>1, <3>1 DEF Types, ThreadTypes
        <3> QED
            BY <3>2 DEF Covered
    <2>6. ASSUME NEW c \in Procs, Fork(p, c)
          PROVE  FALSE
        <3>1. pc[c] = "none"
              /\ page' = [page EXCEPT ![c] = [w \in Pages |-> CopyOf(p, Page(w))]]
            BY <2>6 DEF Fork
        <3>2. page[c] = NoPages
            BY <2>1, <3>1 DEF Empty
        <3>3. q # c
            BY <1>1, <3>2 DEF NoPages
        <3> QED
            BY <1>1, <2>1, <3>1, <3>3 DEF Types
    <2>7. CASE Reap(p)
        <3>1. /\ regions' = [regions EXCEPT ![p] = {}]
              /\ page' = [page EXCEPT ![p] = NoPages]
            BY <2>7 DEF Reap, Deleted
        <3>2. q = p /\ regions'[p] = {}
            BY <1>1, <2>1, <3>1 DEF Types, ThreadTypes
        <3> QED
            BY <3>2 DEF Covered
    <2>8. ASSUME NEW d \in Procs, ReapBy(p, d)
          PROVE  \/ v \notin Covered(regions'[q])
                 \/ /\ pc[d] = "dead" /\ pc'[d] = "none"
                    /\ v \in Covered(regions[d])
        <3>1. /\ regions' = [regions EXCEPT ![d] = {}] /\ pc[d] = "dead"
              /\ pc' = [pc EXCEPT ![d] = "none"]
              /\ page' = [page EXCEPT ![d] = NoPages,
                                      ![p] = RemoveMappings(@, Going(d))]
            BY <2>8 DEF ReapBy, Deleted, At, Goto
        <3>2. pc'[d] = "none" /\ regions'[d] = {}
            BY <2>1, <3>1 DEF ThreadTypes
        <3>3. CASE q = d
            BY <3>2, <3>3 DEF Covered
        <3>4. CASE q # d
            <4>1. q = p /\ v \in Covered(Going(d))
                BY <1>1, <2>1, <3>1, <3>4 DEF Types, RemoveMappings
            <4>2. v \in Covered(regions[d])
                BY <4>1 DEF Going, Covered
            <4> QED
                BY <3>1, <3>2, <4>2
        <3> QED
            BY <3>3, <3>4
    <2>9. ASSUME NEW w \in Pages, NEW file \in BOOLEAN, Fault(p, w, file)
          PROVE  FALSE
        <3>1. page[p][w] = 0 /\ page' = [page EXCEPT ![p][w] = Frame(1)]
            BY <2>9 DEF Fault, AddMapping
        <3>2. ~(q = p /\ v = w)
            BY <1>1, <3>1
        <3> QED
            BY <1>1, <2>1, <3>1, <3>2 DEF Types
    <2>11. CASE ForkReturns(p)
        <3>1. /\ page' = [page EXCEPT ![p] = RemoveMappings(@, child_vme[p])]
              /\ pc[p] = "forked" /\ pc' = [pc EXCEPT ![p] = "user"]
            BY <2>11 DEF ForkReturns, At, Goto
        <3>2. q = p /\ v \in Covered(child_vme[p])
            BY <1>1, <2>1, <3>1 DEF Types, RemoveMappings
        <3> QED
            BY <2>1, <3>1, <3>2 DEF ThreadTypes
    <2>10. \/ \E r \in Region : Munmap(p, r)
           \/ Exec(p) \/ Reap(p) \/ ForkReturns(p)
           \/ \E c \in Procs : Fork(p, c) \/ ReapBy(p, c)
           \/ \E w \in Pages, file \in BOOLEAN : Fault(p, w, file)
        BY <2>2, <2>3
           DEF Step, UnderLock, Mmap, Exit, ForkPanics, Fill, FaultExits, FaultPanics,
               SharedFault, MmapShared, Lock, SharedThere, SharedExits, SharedPanics,
               SharedMaps, Panic, space
    <2> QED
        BY <2>4, <2>5, <2>6, <2>7, <2>8, <2>9, <2>10, <2>11
<1>2. ASSUME IndInv, [Next]_vars
      PROVE  \A p \in Procs, v \in Pages :
                page[p][v] # 0 /\ page'[p][v] # page[p][v] =>
                    \/ v \notin Covered(regions'[p])
                    \/ \E d \in Procs : /\ pc[d] = "dead" /\ pc'[d] = "none"
                                        /\ v \in Covered(regions[d])
                    \/ /\ pc[p] = "forked" /\ pc'[p] = "user"
                       /\ v \in Covered(child_vme[p])
    BY <1>1, <1>2
<1> QED
    BY <1>2, MemoryInvariance, PTL DEF Spec, KeepsPages

=============================================================================
