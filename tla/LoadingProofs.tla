---------------------------- MODULE LoadingProofs ----------------------------
(***************************************************************************)
(* Proofs about how a program gets into memory.                            *)
(*                                                                         *)
(* Modules VME and Loading, for any area, any files, any arguments and any *)
(* sizes, from execl until a region goes around the end of the addresses:  *)
(* the regions tile the area and keep the promise of module Regions, and   *)
(* what execl put into the area stays where it is.  Modules Ext2 and       *)
(* FileRead, for any file system and any file: find comes to the node a    *)
(* path means, and read_all returns the bytes of the file.                 *)
(***************************************************************************)
EXTENDS Loading, Ext2, Sums, SequenceTheorems

-----------------------------------------------------------------------------
(* Regions *)

\* The address behind a region, without the wrap at the end of the word.
Hi(r) == r.start + r.pages * FrameSize

\* The pages of the area, or some of them.
InArea(r) == r.start % FrameSize = 0 /\ Base <= r.start /\ Hi(r) <= Limit

Regs == {r \in [start : Nat, pages : Nat, user : BOOLEAN] : InArea(r)}
Frees == {r \in [start : Nat, pages : Nat \ {0}] : InArea(r)}

\* A region of the list has the address va, and no two have.
Some(l, va) == \E i \in 1..Len(l) : Covers(l[i], va)
Once(l, va) ==
    \A i, j \in 1..Len(l) : Covers(l[i], va) /\ Covers(l[j], va) => i = j

\* One region after the other, that may touch or may not.
Ordered(l) == \A i, j \in 1..Len(l) : i < j => Hi(l[i]) <= l[j].start
Apart(l) == \A i, j \in 1..Len(l) : i < j => Hi(l[i]) < l[j].start

\* Whole pages take no less than nothing, and a page or more at least one.
LEMMA PagesTake ==
    ASSUME NEW p \in Nat
    PROVE  /\ p * FrameSize \in Nat
           /\ p # 0 => p * FrameSize >= FrameSize
BY VMEAssumption

\* A mapped region lies in the area, and its end is no word too large.
LEMMA RegBounds ==
    ASSUME NEW r \in Regs
    PROVE  /\ r.start \in Nat /\ r.pages \in Nat /\ Hi(r) \in Nat
           /\ r.start <= Hi(r) /\ Base <= r.start /\ Hi(r) <= Limit
           /\ End(r) = Hi(r)
<1>1. /\ r.start \in Nat /\ r.pages \in Nat
      /\ Base <= r.start /\ Hi(r) <= Limit
    BY DEF Regs, InArea
<1>2. r.pages * FrameSize \in Nat
    BY <1>1, PagesTake
<1>3. Hi(r) \in Nat /\ r.start <= Hi(r)
    BY <1>1, <1>2 DEF Hi
<1>4. Hi(r) < Word /\ Word \in Nat
    BY <1>1, <1>3, VMEAssumption
<1>5. Hi(r) % Word = Hi(r)
    BY <1>3, <1>4
<1>6. End(r) = Hi(r) % Word
    BY Zenon DEF End, Hi
<1> QED
    BY <1>1, <1>3, <1>5, <1>6

\* A free region lies in the area too, and is not empty.
LEMMA FreeBounds ==
    ASSUME NEW r \in Frees
    PROVE  /\ r.start \in Nat /\ r.pages \in Nat \ {0} /\ Hi(r) \in Nat
           /\ r.start < Hi(r) /\ Base <= r.start /\ Hi(r) <= Limit
           /\ End(r) = Hi(r)
<1>1. /\ r.start \in Nat /\ r.pages \in Nat \ {0}
      /\ Base <= r.start /\ Hi(r) <= Limit
    BY DEF Frees, InArea
<1>2. r.pages * FrameSize \in Nat /\ r.pages * FrameSize >= FrameSize
    BY <1>1, PagesTake
<1>3. Hi(r) \in Nat /\ r.start < Hi(r)
    BY <1>1, <1>2, VMEAssumption DEF Hi
<1>4. Hi(r) < Word /\ Word \in Nat
    BY <1>1, <1>3, VMEAssumption
<1>5. Hi(r) % Word = Hi(r)
    BY <1>3, <1>4
<1>6. End(r) = Hi(r) % Word
    BY Zenon DEF End, Hi
<1> QED
    BY <1>1, <1>3, <1>5, <1>6

\* A region covers what lies between its ends.
LEMMA CoversIs ==
    ASSUME NEW r, NEW va
    PROVE  Covers(r, va) <=> r.start <= va /\ va < Hi(r)
BY DEF Covers, Hi

-----------------------------------------------------------------------------
(* Lists *)

\* The least of some numbers.
LEMMA MinIs ==
    ASSUME NEW T, T \subseteq Nat, T # {}
    PROVE  Min(T) \in T /\ \A y \in T : Min(T) <= y
BY LeastNumber DEF Min

\* A piece of a list, which may be empty.
LEMMA PieceIs ==
    ASSUME NEW S, NEW l \in Seq(S), NEW a \in 1..(Len(l) + 1), NEW b \in 0..Len(l),
           a <= b + 1
    PROVE  /\ SubSeq(l, a, b) \in Seq(S)
           /\ Len(SubSeq(l, a, b)) = b - a + 1
           /\ \A i \in 1..(b - a + 1) : SubSeq(l, a, b)[i] = l[a + i - 1]
<1>1. \A i \in a..b : l[i] \in S
    OBVIOUS
<1>2. a \in Int /\ b \in Int
    OBVIOUS
<1>3. /\ SubSeq(l, a, b) \in Seq(S)
      /\ Len(SubSeq(l, a, b)) = IF a <= b THEN b - a + 1 ELSE 0
      /\ \A i \in 1..(b - a + 1) : SubSeq(l, a, b)[i] = l[a + i - 1]
    BY <1>1, <1>2, SubSeqProperties
<1> QED
    BY <1>3

\* A list with another behind it.
LEMMA Appended ==
    ASSUME NEW S, NEW a \in Seq(S), NEW b \in Seq(S)
    PROVE  /\ a \o b \in Seq(S) /\ Len(a \o b) = Len(a) + Len(b)
           /\ \A j \in 1..(Len(a) + Len(b)) :
                (a \o b)[j] = IF j <= Len(a) THEN a[j] ELSE b[j - Len(a)]
OBVIOUS

\* What InsertAt makes of a list.
LEMMA InsertedIs ==
    ASSUME NEW S, NEW l \in Seq(S), NEW r \in S, NEW k \in 1..(Len(l) + 1),
           NEW m, m = InsertAt(l, k, r)
    PROVE  /\ m \in Seq(S) /\ Len(m) = Len(l) + 1
           /\ \A i \in 1..Len(m) :
                m[i] = IF i < k THEN l[i] ELSE IF i = k THEN r ELSE l[i - 1]
<1> DEFINE a == SubSeq(l, 1, k - 1)
           b == SubSeq(l, k, Len(l))
<1>1. Len(l) \in Nat /\ k - 1 \in 0..Len(l) /\ 1 \in 1..(Len(l) + 1)
    OBVIOUS
<1>2. a \in Seq(S) /\ Len(a) = k - 1 /\ \A i \in 1..(k - 1) : a[i] = l[i]
    <2>1. /\ a \in Seq(S)
          /\ Len(a) = (k - 1) - 1 + 1
          /\ \A i \in 1..((k - 1) - 1 + 1) : a[i] = l[1 + i - 1]
        BY <1>1, PieceIs
    <2> QED
        BY <1>1, <2>1
<1>3. /\ b \in Seq(S) /\ Len(b) = Len(l) - k + 1
      /\ \A i \in 1..(Len(l) - k + 1) : b[i] = l[k + i - 1]
    BY <1>1, PieceIs
<1> HIDE DEF a, b
<1>4. /\ a \o <<r>> \in Seq(S) /\ Len(a \o <<r>>) = k
      /\ \A i \in 1..k : (a \o <<r>>)[i] = IF i < k THEN a[i] ELSE r
    BY <1>1, <1>2
<1>5. PICK c : c = a \o <<r>>
    OBVIOUS
<1>6. m = c \o b
    BY <1>5 DEF InsertAt, a, b
<1>7. /\ m \in Seq(S) /\ Len(m) = k + (Len(l) - k + 1)
      /\ \A i \in 1..(k + (Len(l) - k + 1)) : m[i] = IF i <= k THEN c[i] ELSE b[i - k]
    <2>1. c \in Seq(S) /\ Len(c) = k
        BY <1>4, <1>5
    <2>2. /\ m \in Seq(S) /\ Len(m) = Len(c) + Len(b)
          /\ \A i \in 1..(Len(c) + Len(b)) : m[i] = IF i <= Len(c) THEN c[i] ELSE b[i - Len(c)]
        BY <1>3, <1>6, <2>1, Appended
    <2> QED
        BY <1>3, <2>1, <2>2
<1>8. Len(m) = Len(l) + 1 /\ 1..Len(m) = 1..(k + (Len(l) - k + 1))
    BY <1>1, <1>7
<1>9. ASSUME NEW i \in 1..Len(m)
      PROVE  m[i] = IF i < k THEN l[i] ELSE IF i = k THEN r ELSE l[i - 1]
    <2>1. CASE i <= k
        <3>1. i \in 1..k /\ (i < k => i \in 1..(k - 1))
            BY <1>1, <1>7, <2>1
        <3>2. m[i] = c[i] /\ c[i] = IF i < k THEN a[i] ELSE r
            BY <1>4, <1>5, <1>7, <1>8, <2>1, <3>1
        <3> QED
            BY <1>2, <2>1, <3>1, <3>2
    <2>2. CASE ~ (i <= k)
        <3>1. i - k \in 1..(Len(l) - k + 1) /\ k + (i - k) - 1 = i - 1
            <4>1. PICK whole \in Nat : whole = Len(l)
                BY <1>1
            <4>2. k \in 1..(whole + 1) /\ i \in 1..(whole + 1)
                BY <1>8, <4>1
            <4>3. i - k \in 1..(whole - k + 1) /\ k + (i - k) - 1 = i - 1
                BY <2>2, <4>2
            <4> QED
                BY <4>1, <4>3
        <3>2. m[i] = b[i - k]
            BY <1>7, <1>8, <2>2
        <3>3. b[i - k] = l[i - 1]
            BY <1>3, <3>1
        <3>4. ~ (i < k) /\ i # k
            BY <2>2
        <3> QED
            BY <3>2, <3>3, <3>4
    <2> QED
        BY <2>1, <2>2
<1> QED
    BY <1>7, <1>8, <1>9

\* Every region of a list is in the list with r, and one more.
LEMMA InsertedMembers ==
    ASSUME NEW S, NEW l \in Seq(S), NEW r \in S, NEW k \in 1..(Len(l) + 1),
           NEW m, m = InsertAt(l, k, r)
    PROVE  /\ \A i \in 1..Len(l) : \E j \in 1..Len(m) : m[j] = l[i]
           /\ \E j \in 1..Len(m) : m[j] = r
           /\ \A j \in 1..Len(m) : m[j] = r \/ \E i \in 1..Len(l) : m[j] = l[i]
<1>1. /\ Len(l) \in Nat /\ Len(m) = Len(l) + 1
      /\ \A i \in 1..Len(m) :
            m[i] = IF i < k THEN l[i] ELSE IF i = k THEN r ELSE l[i - 1]
    BY InsertedIs
<1>2. ASSUME NEW i \in 1..Len(l)
      PROVE  \E j \in 1..Len(m) : m[j] = l[i]
    <2>1. CASE i < k
        <3>1. i \in 1..Len(m)
            BY <1>1
        <3> QED
            BY <1>1, <2>1, <3>1
    <2>2. CASE ~ (i < k)
        <3>1. i + 1 \in 1..Len(m) /\ ~ (i + 1 < k) /\ i + 1 # k /\ (i + 1) - 1 = i
            BY <1>1, <2>2
        <3>2. m[i + 1] = l[i]
            BY <1>1, <3>1
        <3> QED
            BY <3>1, <3>2
    <2> QED
        BY <2>1, <2>2
<1>3. k \in 1..Len(m) /\ ~ (k < k)
    BY <1>1
<1>4. m[k] = r
    BY <1>1, <1>3
<1>5. ASSUME NEW j \in 1..Len(m), m[j] # r
      PROVE  \E i \in 1..Len(l) : m[j] = l[i]
    <2>1. j # k
        BY <1>4, <1>5
    <2>2. CASE j < k
        <3>1. j \in 1..Len(l)
            BY <1>1, <2>2
        <3> QED
            BY <1>1, <2>2, <3>1
    <2>3. CASE ~ (j < k)
        <3>1. j - 1 \in 1..Len(l)
            BY <1>1, <2>1, <2>3
        <3> QED
            BY <1>1, <2>1, <2>3, <3>1
    <2> QED
        BY <2>2, <2>3
<1> QED
    BY <1>2, <1>3, <1>4, <1>5

\* With r the list has its addresses as well, and still nothing twice if it
\* had none of them.
LEMMA InsertedCovers ==
    ASSUME NEW S, NEW l \in Seq(S), NEW r \in S, NEW k \in 1..(Len(l) + 1),
           NEW m, m = InsertAt(l, k, r), NEW va
    PROVE  /\ Some(m, va) <=> Some(l, va) \/ Covers(r, va)
           /\ Once(l, va) /\ ~ (Some(l, va) /\ Covers(r, va)) => Once(m, va)
<1>1. /\ Len(l) \in Nat /\ Len(m) = Len(l) + 1
      /\ \A i \in 1..Len(m) :
            m[i] = IF i < k THEN l[i] ELSE IF i = k THEN r ELSE l[i - 1]
    BY InsertedIs
<1>2. Some(m, va) <=> Some(l, va) \/ Covers(r, va)
    <2>1. \A i \in 1..Len(l) : \E j \in 1..Len(m) : m[j] = l[i]
        BY InsertedMembers
    <2>2. \E j \in 1..Len(m) : m[j] = r
        BY InsertedMembers
    <2>3. \A j \in 1..Len(m) : m[j] = r \/ \E i \in 1..Len(l) : m[j] = l[i]
        BY InsertedMembers
    <2>4. ASSUME Some(m, va)
          PROVE  Some(l, va) \/ Covers(r, va)
        BY <2>3, <2>4, Zenon DEF Some
    <2>5. ASSUME Some(l, va)
          PROVE  Some(m, va)
        BY <2>1, <2>5, Zenon DEF Some
    <2>6. ASSUME Covers(r, va)
          PROVE  Some(m, va)
        BY <2>2, <2>6, Zenon DEF Some
    <2> QED
        BY <2>4, <2>5, <2>6
<1>3. ASSUME Once(l, va), ~ (Some(l, va) /\ Covers(r, va)),
             NEW i \in 1..Len(m), NEW j \in 1..Len(m),
             Covers(m[i], va), Covers(m[j], va)
      PROVE  i = j
    <2> DEFINE o(num) == IF num < k THEN num ELSE num - 1
    <2>1. ASSUME NEW num \in 1..Len(m), num # k
          PROVE  o(num) \in 1..Len(l) /\ m[num] = l[o(num)]
        BY <1>1, <2>1
    <2>2. m[k] = r
        <3>1. k \in 1..Len(m) /\ ~ (k < k)
            BY <1>1
        <3> QED
            BY <1>1, <3>1
    <2>3. CASE i = k
        <3>1. j = k
            <4> SUFFICES ASSUME j # k
                         PROVE  FALSE
                OBVIOUS
            <4> QED
                BY <1>3, <2>1, <2>2, <2>3 DEF Some
        <3> QED
            BY <2>3, <3>1
    <2>4. CASE i # k
        <3>1. j # k
            <4> SUFFICES ASSUME j = k
                         PROVE  FALSE
                OBVIOUS
            <4> QED
                BY <1>3, <2>1, <2>2, <2>4 DEF Some
        <3>2. o(i) = o(j)
            BY <1>3, <2>1, <2>4, <3>1 DEF Once
        <3> QED
            BY <1>1, <2>4, <3>1, <3>2
    <2> QED
        BY <2>3, <2>4
<1> QED
    BY <1>2, <1>3 DEF Once

\* What RemoveAt makes of a list.
LEMMA RemovedIs ==
    ASSUME NEW S, NEW l \in Seq(S), NEW k \in 1..Len(l),
           NEW m, m = RemoveAt(l, k)
    PROVE  /\ m \in Seq(S) /\ Len(m) = Len(l) - 1
           /\ \A i \in 1..Len(m) : m[i] = IF i < k THEN l[i] ELSE l[i + 1]
<1> DEFINE a == SubSeq(l, 1, k - 1)
           b == SubSeq(l, k + 1, Len(l))
<1>1. /\ Len(l) \in Nat /\ k - 1 \in 0..Len(l) /\ 1 \in 1..(Len(l) + 1)
      /\ k + 1 \in 1..(Len(l) + 1)
    OBVIOUS
<1>2. a \in Seq(S) /\ Len(a) = k - 1 /\ \A i \in 1..(k - 1) : a[i] = l[i]
    <2>1. /\ a \in Seq(S)
          /\ Len(a) = (k - 1) - 1 + 1
          /\ \A i \in 1..((k - 1) - 1 + 1) : a[i] = l[1 + i - 1]
        BY <1>1, PieceIs
    <2> QED
        BY <1>1, <2>1
<1>3. /\ b \in Seq(S) /\ Len(b) = Len(l) - k
      /\ \A i \in 1..(Len(l) - k) : b[i] = l[k + i]
    <2>1. /\ b \in Seq(S)
          /\ Len(b) = Len(l) - (k + 1) + 1
          /\ \A i \in 1..(Len(l) - (k + 1) + 1) : b[i] = l[(k + 1) + i - 1]
        BY <1>1, PieceIs
    <2> QED
        BY <1>1, <2>1
<1>4. m = a \o b
    BY DEF RemoveAt
<1> HIDE DEF a, b
<1>5. /\ m \in Seq(S) /\ Len(m) = (k - 1) + (Len(l) - k)
      /\ \A i \in 1..((k - 1) + (Len(l) - k)) :
            m[i] = IF i <= k - 1 THEN a[i] ELSE b[i - (k - 1)]
    <2>1. /\ a \o b \in Seq(S) /\ Len(a \o b) = Len(a) + Len(b)
          /\ \A i \in 1..(Len(a) + Len(b)) :
                (a \o b)[i] = IF i <= Len(a) THEN a[i] ELSE b[i - Len(a)]
        BY <1>2, <1>3, Appended
    <2> QED
        BY <1>2, <1>3, <1>4, <2>1
<1>6. ASSUME NEW i \in 1..Len(m)
      PROVE  m[i] = IF i < k THEN l[i] ELSE l[i + 1]
    <2>1. CASE i < k
        <3>1. PICK whole \in Nat : whole = Len(l)
            BY <1>1
        <3>2. k \in 1..whole /\ i \in 1..((k - 1) + (whole - k))
            BY <1>5, <3>1
        <3>3. i \in 1..(k - 1) /\ i <= k - 1
            BY <2>1, <3>2
        <3>4. m[i] = a[i]
            BY <1>5, <3>1, <3>2, <3>3
        <3>5. a[i] = l[i]
            BY <1>2, <3>3
        <3> QED
            BY <2>1, <3>4, <3>5
    <2>2. CASE ~ (i < k)
        <3>1. i - (k - 1) \in 1..(Len(l) - k) /\ k + (i - (k - 1)) = i + 1
            BY <1>1, <1>5, <2>2
        <3>2. m[i] = b[i - (k - 1)]
            BY <1>1, <1>5, <2>2
        <3> QED
            BY <1>1, <1>3, <2>2, <3>1, <3>2
    <2> QED
        BY <2>1, <2>2
<1>7. Len(m) = Len(l) - 1
    BY <1>1, <1>5
<1> QED
    BY <1>5, <1>6, <1>7

\* All but the removed region are in the list.
LEMMA RemovedMembers ==
    ASSUME NEW S, NEW l \in Seq(S), NEW k \in 1..Len(l),
           NEW m, m = RemoveAt(l, k), NEW i \in 1..Len(l), i # k
    PROVE  \E j \in 1..Len(m) : m[j] = l[i]
<1>1. /\ Len(l) \in Nat /\ Len(m) = Len(l) - 1
      /\ \A num \in 1..Len(m) : m[num] = IF num < k THEN l[num] ELSE l[num + 1]
    BY RemovedIs
<1>2. CASE i < k
    <2>1. i \in 1..Len(m)
        BY <1>1, <1>2
    <2> QED
        BY <1>1, <1>2, <2>1
<1>3. CASE ~ (i < k)
    <2>1. i - 1 \in 1..Len(m) /\ ~ (i - 1 < k) /\ (i - 1) + 1 = i
        BY <1>1, <1>3
    <2>2. m[i - 1] = l[i]
        BY <1>1, <2>1
    <2> QED
        BY <2>1, <2>2
<1> QED
    BY <1>2, <1>3

\* A region of the shorter list is one of the others.
LEMMA RemovedOthers ==
    ASSUME NEW S, NEW l \in Seq(S), NEW k \in 1..Len(l),
           NEW m, m = RemoveAt(l, k), NEW j \in 1..Len(m)
    PROVE  \E i \in 1..Len(l) : i # k /\ m[j] = l[i]
<1>1. /\ Len(l) \in Nat /\ Len(m) = Len(l) - 1
      /\ m[j] = IF j < k THEN l[j] ELSE l[j + 1]
    BY RemovedIs
<1>2. CASE j < k
    <2>1. j \in 1..Len(l) /\ j # k
        BY <1>1, <1>2
    <2> QED
        BY <1>1, <1>2, <2>1
<1>3. CASE ~ (j < k)
    <2>1. j + 1 \in 1..Len(l) /\ j + 1 # k
        BY <1>1, <1>3
    <2> QED
        BY <1>1, <1>3, <2>1
<1> QED
    BY <1>2, <1>3

\* Without it the list lacks its addresses, and no others.
LEMMA RemovedCovers ==
    ASSUME NEW S, NEW l \in Seq(S), NEW k \in 1..Len(l),
           NEW m, m = RemoveAt(l, k), NEW va, Once(l, va)
    PROVE  /\ Some(m, va) <=> Some(l, va) /\ ~ Covers(l[k], va)
           /\ Once(m, va)
<1>1. /\ Len(l) \in Nat /\ Len(m) = Len(l) - 1
      /\ \A i \in 1..Len(m) : m[i] = IF i < k THEN l[i] ELSE l[i + 1]
    BY RemovedIs
<1>2. ASSUME Some(m, va)
      PROVE  Some(l, va) /\ ~ Covers(l[k], va)
    <2>1. PICK j \in 1..Len(m) : Covers(m[j], va)
        BY <1>2 DEF Some
    <2>2. PICK i \in 1..Len(l) : i # k /\ m[j] = l[i]
        BY RemovedOthers
    <2>3. Covers(l[i], va)
        BY <2>1, <2>2
    <2> QED
        BY <2>2, <2>3 DEF Some, Once
<1>3. ASSUME Some(l, va), ~ Covers(l[k], va)
      PROVE  Some(m, va)
    <2>1. PICK i \in 1..Len(l) : i # k /\ Covers(l[i], va)
        BY <1>3 DEF Some
    <2>2. PICK j \in 1..Len(m) : m[j] = l[i]
        BY <2>1, RemovedMembers
    <2>3. Covers(m[j], va)
        BY <2>1, <2>2
    <2> QED
        BY <2>3 DEF Some
<1>4. ASSUME NEW i \in 1..Len(m), NEW j \in 1..Len(m),
             Covers(m[i], va), Covers(m[j], va)
      PROVE  i = j
    <2> DEFINE o(num) == IF num < k THEN num ELSE num + 1
    <2>1. ASSUME NEW num \in 1..Len(m)
          PROVE  o(num) \in 1..Len(l) /\ m[num] = l[o(num)]
        BY <1>1
    <2>2. o(i) = o(j)
        BY <1>4, <2>1 DEF Once
    <2> QED
        BY <1>1, <2>2
<1> QED
    BY <1>2, <1>3, <1>4 DEF Once

-----------------------------------------------------------------------------
(* The list of free regions *)

\* Sorted insertion puts r behind the regions that start before it and in
\* front of one that does not.
LEMMA SortedAt ==
    ASSUME NEW S, NEW l \in Seq(S), NEW r \in S,
           \A i \in 1..Len(l) : l[i].start \in Nat,
           r.start \in Nat
    PROVE  \E k \in 1..(Len(l) + 1) :
                /\ InsertSorted(l, r) = InsertAt(l, k, r)
                /\ \A i \in 1..Len(l) : i < k => l[i].start < r.start
                /\ k \in 1..Len(l) => l[k].start >= r.start
<1> DEFINE I == {i \in 1..Len(l) : l[i].start >= r.start}
           at == IF I # {} THEN Min(I) ELSE 0
<1>1. InsertSorted(l, r) = InsertAt(l, IF at = 0 THEN Len(l) + 1 ELSE at, r)
    BY Zenon DEF InsertSorted, SelectInSeq
<1>2. Len(l) \in Nat /\ I \subseteq Nat /\ I \subseteq 1..Len(l)
    OBVIOUS
<1>3. CASE I = {}
    <2>1. InsertSorted(l, r) = InsertAt(l, Len(l) + 1, r)
        BY <1>1, <1>3, Zenon
    <2>2. \A i \in 1..Len(l) : l[i].start < r.start
        <3>1. ASSUME NEW i \in 1..Len(l)
              PROVE  l[i].start < r.start
            <4>1. i \notin I
                BY <1>3
            <4> QED
                BY <4>1
        <3> QED
            BY <3>1
    <2>3. Len(l) + 1 \in 1..(Len(l) + 1) /\ Len(l) + 1 \notin 1..Len(l)
        BY <1>2
    <2> QED
        BY <2>1, <2>2, <2>3
<1>4. CASE I # {}
    <2>1. Min(I) \in I /\ \A y \in I : Min(I) <= y
        BY <1>2, <1>4, MinIs
    <2>2. PICK k \in I : k = Min(I)
        BY <2>1
    <2>3. k \in 1..Len(l) /\ k # 0 /\ k \in 1..(Len(l) + 1) /\ l[k].start >= r.start
        BY <1>2
    <2>4. InsertSorted(l, r) = InsertAt(l, k, r)
        BY <1>1, <1>4, <2>2, <2>3, Zenon
    <2>5. ASSUME NEW i \in 1..Len(l), i < k
          PROVE  l[i].start < r.start
        <3>1. i \notin I
            BY <2>1, <2>2, <2>3, <2>5
        <3> QED
            BY <3>1
    <2> QED
        BY <2>3, <2>4, <2>5
<1> QED
    BY <1>3, <1>4

\* Regions that share no address, neither of them empty, are in order.
LEMMA DisjointOrder ==
    ASSUME NEW a \in Frees, NEW b \in Frees,
           \A va \in Nat : ~ (Covers(a, va) /\ Covers(b, va)),
           a.start <= b.start
    PROVE  Hi(a) <= b.start
<1>1. /\ a.start \in Nat /\ Hi(a) \in Nat /\ a.start < Hi(a)
      /\ b.start \in Nat /\ Hi(b) \in Nat /\ b.start < Hi(b)
    BY FreeBounds
<1>2. ~ (Covers(a, b.start) /\ Covers(b, b.start))
    BY <1>1
<1>3. Covers(b, b.start)
    BY <1>1, CoversIs
<1>4. Covers(a, b.start) <=> a.start <= b.start /\ b.start < Hi(a)
    BY CoversIs
<1> QED
    BY <1>1, <1>2, <1>3, <1>4

\* A free region that shares no address with the others finds its place
\* between them.
LEMMA InsertedOrdered ==
    ASSUME NEW l \in Seq(Frees), Apart(l), NEW r \in Frees,
           \A va \in Nat : ~ (Some(l, va) /\ Covers(r, va))
    PROVE  /\ InsertSorted(l, r) \in Seq(Frees)
           /\ Ordered(InsertSorted(l, r))
           /\ \A va : Some(InsertSorted(l, r), va) <=> Some(l, va) \/ Covers(r, va)
<1>1. /\ Len(l) \in Nat /\ \A i \in 1..Len(l) : l[i] \in Frees
      /\ \A i \in 1..Len(l) : /\ l[i].start \in Nat /\ Hi(l[i]) \in Nat
                              /\ l[i].start < Hi(l[i])
      /\ r.start \in Nat /\ Hi(r) \in Nat /\ r.start < Hi(r)
    BY FreeBounds
<1>2. PICK k \in 1..(Len(l) + 1) :
            /\ InsertSorted(l, r) = InsertAt(l, k, r)
            /\ \A i \in 1..Len(l) : i < k => l[i].start < r.start
            /\ k \in 1..Len(l) => l[k].start >= r.start
    BY <1>1, SortedAt
<1>3. PICK m : m = InsertAt(l, k, r)
    OBVIOUS
<1>4. /\ m \in Seq(Frees) /\ Len(m) = Len(l) + 1
      /\ \A i \in 1..Len(m) :
            m[i] = IF i < k THEN l[i] ELSE IF i = k THEN r ELSE l[i - 1]
    BY <1>3, InsertedIs
<1>5. \A va : Some(m, va) <=> Some(l, va) \/ Covers(r, va)
    BY <1>3, InsertedCovers
<1>6. ASSUME NEW i \in 1..Len(l)
      PROVE  \A va \in Nat : ~ (Covers(l[i], va) /\ Covers(r, va))
    BY DEF Some
<1>7. ASSUME NEW i \in 1..Len(l), i < k
      PROVE  Hi(l[i]) <= r.start
    BY <1>1, <1>2, <1>6, <1>7, DisjointOrder
<1>8. ASSUME NEW i \in 1..Len(l), ~ (i < k)
      PROVE  Hi(r) <= l[i].start
    <2>1. k \in 1..Len(l) /\ l[k].start >= r.start
        BY <1>1, <1>2, <1>8
    <2>2. r.start <= l[i].start
        <3>1. CASE i = k
            BY <2>1, <3>1
        <3>2. CASE i # k
            <4>1. k < i
                BY <1>8, <3>2
            <4>2. Hi(l[k]) < l[i].start
                BY <2>1, <4>1 DEF Apart
            <4> QED
                BY <1>1, <2>1, <4>2
        <3> QED
            BY <3>1, <3>2
    <2> QED
        BY <1>1, <1>6, <2>2, DisjointOrder
<1>9. ASSUME NEW i \in 1..Len(m), NEW j \in 1..Len(m), i < j
      PROVE  Hi(m[i]) <= m[j].start
    <2>1. CASE j < k
        <3>1. i \in 1..Len(l) /\ j \in 1..Len(l) /\ m[i] = l[i] /\ m[j] = l[j]
            BY <1>1, <1>4, <1>9, <2>1
        <3>2. Hi(l[i]) < l[j].start
            BY <1>9, <3>1 DEF Apart
        <3> QED
            BY <1>1, <3>1, <3>2
    <2>2. CASE j = k
        <3>1. i \in 1..Len(l) /\ i < k /\ m[i] = l[i] /\ m[j] = r
            BY <1>1, <1>4, <1>9, <2>2
        <3> QED
            BY <1>7, <3>1
    <2>3. CASE k < j /\ i < k
        <3>1. /\ i \in 1..Len(l) /\ j - 1 \in 1..Len(l)
              /\ m[i] = l[i] /\ m[j] = l[j - 1] /\ i < k /\ ~ (j - 1 < k)
            BY <1>1, <1>4, <1>9, <2>3
        <3>2. Hi(l[i]) <= r.start /\ Hi(r) <= l[j - 1].start
            BY <1>7, <1>8, <3>1
        <3>3. Hi(l[i]) \in Nat /\ l[j - 1].start \in Nat
            BY <1>1, <3>1
        <3>4. Hi(l[i]) <= l[j - 1].start
            BY <1>1, <3>2, <3>3
        <3> QED
            BY <3>1, <3>4
    <2>4. CASE k < j /\ i = k
        <3>1. j - 1 \in 1..Len(l) /\ m[i] = r /\ m[j] = l[j - 1] /\ ~ (j - 1 < k)
            BY <1>1, <1>4, <1>9, <2>4
        <3> QED
            BY <1>8, <3>1
    <2>5. CASE k < j /\ k < i
        <3>1. /\ i - 1 \in 1..Len(l) /\ j - 1 \in 1..Len(l) /\ i - 1 < j - 1
              /\ m[i] = l[i - 1] /\ m[j] = l[j - 1]
            BY <1>1, <1>4, <1>9, <2>5
        <3>2. Hi(l[i - 1]) < l[j - 1].start
            BY <3>1 DEF Apart
        <3>3. Hi(l[i - 1]) \in Nat /\ l[j - 1].start \in Nat
            BY <1>1, <3>1
        <3>4. Hi(l[i - 1]) <= l[j - 1].start
            BY <3>2, <3>3
        <3> QED
            BY <3>1, <3>4
    <2>6. i \in Int /\ j \in Int /\ k \in Int
        OBVIOUS
    <2> QED
        BY <2>1, <2>2, <2>3, <2>4, <2>5, <2>6
<1> QED
    BY <1>2, <1>3, <1>4, <1>5, <1>9 DEF Ordered

\* Two pieces in a row are as long as both.
LEMMA PagesAdd ==
    ASSUME NEW p \in Nat, NEW q \in Nat
    PROVE  (p + q) * FrameSize = p * FrameSize + q * FrameSize
BY VMEAssumption

\* The free region that two become that touch.
LEMMA Merged ==
    ASSUME NEW a \in Frees, NEW r \in Frees, Hi(a) = r.start,
           NEW c, c = [a EXCEPT !.pages = a.pages + r.pages]
    PROVE  /\ c \in Frees /\ c.start = a.start /\ Hi(c) = Hi(r)
           /\ \A va \in Int : Covers(c, va) <=> Covers(a, va) \/ Covers(r, va)
<1>1. /\ a.start \in Nat /\ a.pages \in Nat \ {0} /\ Hi(a) \in Nat
      /\ a.start < Hi(a) /\ Base <= a.start
      /\ r.start \in Nat /\ r.pages \in Nat \ {0} /\ Hi(r) \in Nat
      /\ r.start < Hi(r) /\ Hi(r) <= Limit
    BY FreeBounds
<1>2. a \in [start : Nat, pages : Nat \ {0}] /\ a.start % FrameSize = 0
    BY DEF Frees, InArea
<1>3. c.start = a.start /\ c.pages = a.pages + r.pages
    BY <1>2
<1>4. c \in [start : Nat, pages : Nat \ {0}]
    BY <1>1, <1>2
<1>5. (a.pages + r.pages) * FrameSize = a.pages * FrameSize + r.pages * FrameSize
    BY <1>1, PagesAdd
<1>6. a.pages * FrameSize \in Nat /\ r.pages * FrameSize \in Nat
    BY <1>1, PagesTake
<1>7. Hi(c) = Hi(r)
    <2>1. Hi(c) = a.start + (a.pages * FrameSize + r.pages * FrameSize)
        BY <1>3, <1>5 DEF Hi
    <2>2. Hi(a) = a.start + a.pages * FrameSize /\ Hi(r) = r.start + r.pages * FrameSize
        BY DEF Hi
    <2>3. PICK u \in Nat, v \in Nat : u = a.pages * FrameSize /\ v = r.pages * FrameSize
        BY <1>6
    <2>4. Hi(c) = a.start + (u + v) /\ Hi(a) = a.start + u /\ Hi(r) = r.start + v
        BY <2>1, <2>2, <2>3, Zenon
    <2>5. PICK x \in Nat : x = a.start
        BY <1>1
    <2>6. Hi(c) = x + (u + v) /\ Hi(r) = (x + u) + v
        BY <2>4, <2>5, Zenon
    <2> QED
        BY <2>6
<1>8. c \in Frees
    BY <1>1, <1>2, <1>3, <1>4, <1>7 DEF Frees, InArea
<1>9. ASSUME NEW va \in Int
      PROVE  Covers(c, va) <=> Covers(a, va) \/ Covers(r, va)
    <2>1. /\ Covers(c, va) <=> a.start <= va /\ va < Hi(r)
          /\ Covers(a, va) <=> a.start <= va /\ va < Hi(a)
          /\ Covers(r, va) <=> r.start <= va /\ va < Hi(r)
        BY <1>3, <1>7, CoversIs
    <2> QED
        BY <1>1, <2>1
<1> QED
    BY <1>3, <1>7, <1>8, <1>9

\* One step of coallescing() with a region behind all that are done: they
\* stay apart and keep their addresses, and the new ones are among them.
LEMMA JoinIs ==
    ASSUME NEW d \in Seq(Frees), Apart(d), NEW r \in Frees,
           \A j \in 1..Len(d) : Hi(d[j]) <= r.start
    PROVE  /\ Join(d, r) \in Seq(Frees) /\ Apart(Join(d, r))
           /\ \A va \in Int : Some(Join(d, r), va) <=> Some(d, va) \/ Covers(r, va)
           /\ \A j \in 1..Len(Join(d, r)) : Hi(Join(d, r)[j]) <= Hi(r)
<1> DEFINE num == Len(d)
<1>1. /\ num \in Nat /\ \A i \in 1..num : d[i] \in Frees
      /\ \A i \in 1..num : /\ d[i].start \in Nat /\ Hi(d[i]) \in Nat
                         /\ d[i].start < Hi(d[i]) /\ End(d[i]) = Hi(d[i])
      /\ r.start \in Nat /\ Hi(r) \in Nat /\ r.start < Hi(r)
    BY FreeBounds
<1>2. d # <<>> <=> num \in 1..num
    BY <1>1
<1>3. CASE d # <<>> /\ End(d[num]) = r.start
    <2>1. Join(d, r) = [d EXCEPT ![num] = [d[num] EXCEPT !.pages = d[num].pages + r.pages]]
        BY <1>3 DEF Join
    <2>2. PICK c : c = [d[num] EXCEPT !.pages = d[num].pages + r.pages]
        OBVIOUS
    <2>3. num \in 1..num /\ d[num] \in Frees /\ Hi(d[num]) = r.start
        BY <1>1, <1>2, <1>3
    <2>4. /\ c \in Frees /\ c.start = d[num].start /\ Hi(c) = Hi(r)
          /\ \A va \in Int : Covers(c, va) <=> Covers(d[num], va) \/ Covers(r, va)
        BY <2>2, <2>3, Merged
    <2>5. PICK m : m = Join(d, r)
        OBVIOUS
    <2>6. m = [d EXCEPT ![num] = c]
        BY <2>1, <2>2, <2>5
    <2>7. /\ m \in Seq(Frees) /\ Len(m) = num
          /\ m[num] = c /\ \A i \in 1..num : i # num => m[i] = d[i]
        BY <1>1, <2>3, <2>4, <2>6
    <2>8. ASSUME NEW i \in 1..num, NEW j \in 1..num, i < j
          PROVE  Hi(m[i]) < m[j].start
        <3>1. i # num /\ m[i] = d[i] /\ m[j].start = d[j].start
            BY <1>1, <2>4, <2>7, <2>8
        <3>2. Hi(d[i]) < d[j].start
            BY <2>8 DEF Apart
        <3> QED
            BY <3>1, <3>2
    <2>9. ASSUME NEW va \in Int
          PROVE  Some(m, va) <=> Some(d, va) \/ Covers(r, va)
        <3>1. Covers(m[num], va) <=> Covers(d[num], va) \/ Covers(r, va)
            BY <2>4, <2>7
        <3>2. \A i \in 1..num : i # num => (Covers(m[i], va) <=> Covers(d[i], va))
            BY <2>7
        <3>3. ASSUME Some(m, va)
              PROVE  Some(d, va) \/ Covers(r, va)
            BY <2>3, <2>7, <3>1, <3>2, <3>3, Zenon DEF Some
        <3>4. ASSUME Some(d, va) \/ Covers(r, va)
              PROVE  Some(m, va)
            BY <2>3, <2>7, <3>1, <3>2, <3>4, Zenon DEF Some
        <3> QED
            BY <3>3, <3>4
    <2>10. ASSUME NEW j \in 1..num
           PROVE  Hi(m[j]) <= Hi(r)
        <3>1. CASE j = num
            BY <1>1, <2>4, <2>7, <3>1
        <3>2. CASE j # num
            <4>1. Hi(m[j]) = Hi(d[j]) /\ Hi(d[j]) <= r.start
                BY <2>7, <3>2
            <4> QED
                BY <1>1, <4>1
        <3> QED
            BY <3>1, <3>2
    <2> QED
        BY <2>5, <2>7, <2>8, <2>9, <2>10 DEF Apart
<1>4. CASE ~ (d # <<>> /\ End(d[num]) = r.start)
    <2>1. Join(d, r) = Append(d, r)
        BY <1>4, Zenon DEF Join
    <2>2. PICK m : m = Join(d, r)
        OBVIOUS
    <2>3. /\ m \in Seq(Frees) /\ Len(m) = num + 1
          /\ m[num + 1] = r /\ \A i \in 1..num : m[i] = d[i]
        BY <2>1, <2>2, AppendProperties
    <2>4. ASSUME NEW i \in 1..num
          PROVE  Hi(d[i]) < r.start
        <3>1. num \in 1..num /\ d # <<>>
            BY <1>1
        <3>2. Hi(d[num]) # r.start
            BY <1>1, <1>4, <3>1
        <3>3. CASE i = num
            BY <1>1, <3>2, <3>3
        <3>4. CASE i # num
            <4>1. i < num
                BY <1>1, <3>4
            <4>2. Hi(d[i]) < d[num].start
                BY <3>1, <4>1 DEF Apart
            <4>3. Hi(d[num]) <= r.start
                BY <3>1
            <4> QED
                BY <1>1, <3>1, <4>2, <4>3
        <3> QED
            BY <3>3, <3>4
    <2>5. ASSUME NEW i \in 1..(num + 1), NEW j \in 1..(num + 1), i < j
          PROVE  Hi(m[i]) < m[j].start
        <3>1. i \in 1..num /\ m[i] = d[i]
            BY <1>1, <2>3, <2>5
        <3>2. CASE j = num + 1
            BY <2>3, <2>4, <3>1, <3>2
        <3>3. CASE j # num + 1
            <4>1. j \in 1..num /\ m[j] = d[j]
                BY <1>1, <2>3, <3>3
            <4>2. Hi(d[i]) < d[j].start
                BY <2>5, <3>1, <4>1 DEF Apart
            <4> QED
                BY <3>1, <4>1, <4>2
        <3> QED
            BY <3>2, <3>3
    <2>6. ASSUME NEW va \in Int
          PROVE  Some(m, va) <=> Some(d, va) \/ Covers(r, va)
        <3>1. \A i \in 1..(num + 1) : i = num + 1 \/ i \in 1..num
            BY <1>1
        <3>2. num + 1 \in 1..(num + 1) /\ \A i \in 1..num : i \in 1..(num + 1)
            BY <1>1
        <3>3. ASSUME Some(m, va)
              PROVE  Some(d, va) \/ Covers(r, va)
            BY <2>3, <3>1, <3>3, Zenon DEF Some
        <3>4. ASSUME Some(d, va) \/ Covers(r, va)
              PROVE  Some(m, va)
            BY <2>3, <3>2, <3>4, Zenon DEF Some
        <3> QED
            BY <3>3, <3>4
    <2>7. ASSUME NEW j \in 1..(num + 1)
          PROVE  Hi(m[j]) <= Hi(r)
        <3>1. CASE j = num + 1
            BY <1>1, <2>3, <3>1
        <3>2. CASE j # num + 1
            <4>1. j \in 1..num
                BY <1>1, <3>2
            <4>2. Hi(m[j]) = Hi(d[j]) /\ Hi(d[j]) < r.start
                BY <2>3, <2>4, <4>1
            <4> QED
                BY <1>1, <4>1, <4>2
        <3> QED
            BY <3>1, <3>2
    <2> QED
        BY <2>2, <2>3, <2>5, <2>6, <2>7 DEF Apart
<1> QED
    BY <1>3, <1>4

\* What coallescing() computes step by step is defined.
LEMMA JoinedExists ==
    ASSUME NEW l, NEW num \in Nat
    PROVE  \E f : f = [k \in 0..num |-> IF k = 0 THEN <<>> ELSE Join(f[k - 1], l[k])]
<1> DEFINE Defined(x) ==
        \E f : f = [k \in 0..x |-> IF k = 0 THEN <<>> ELSE Join(f[k - 1], l[k])]
           T == {x \in Nat : ~ Defined(x)}
<1> SUFFICES ASSUME num \in T
             PROVE  FALSE
    OBVIOUS
<1>1. PICK x \in T : \A y \in T : x <= y
    BY LeastNumber
<1>2. x \in Nat
    OBVIOUS
<1>3. CASE x = 0
    <2>1. PICK f : f = [k \in 0..0 |-> <<>>]
        OBVIOUS
    <2>2. f = [k \in 0..0 |-> IF k = 0 THEN <<>> ELSE Join(f[k - 1], l[k])]
        BY <2>1
    <2> QED
        BY <1>3, <2>2
<1>4. CASE x # 0
    <2>1. x - 1 \in Nat /\ ~ (x <= x - 1)
        BY <1>2, <1>4
    <2>2. x - 1 \in Nat /\ x - 1 \notin T
        BY <1>1, <2>1, Zenon
    <2>3. PICK g : g = [k \in 0..(x - 1) |->
                            IF k = 0 THEN <<>> ELSE Join(g[k - 1], l[k])]
        BY <2>2
    <2>4. PICK f : f = [k \in 0..x |-> IF k = x THEN Join(g[x - 1], l[x]) ELSE g[k]]
        OBVIOUS
    <2>5. \A k \in 0..(x - 1) : k \in 0..x /\ k # x
        BY <1>2
    <2>6. \A k \in 0..(x - 1) : f[k] = g[k]
        BY <2>4, <2>5
    <2>7. ASSUME NEW k \in 0..x
          PROVE  f[k] = IF k = 0 THEN <<>> ELSE Join(f[k - 1], l[k])
        <3>1. CASE k = x
            <4>1. x - 1 \in 0..(x - 1) /\ k # 0
                BY <1>2, <1>4, <2>2, <3>1
            <4>2. f[k] = Join(g[x - 1], l[x]) /\ f[x - 1] = g[x - 1]
                BY <2>4, <2>6, <3>1, <4>1
            <4> QED
                BY <3>1, <4>1, <4>2
        <3>2. CASE k # x
            <4>1. k \in 0..(x - 1) /\ (k # 0 => k - 1 \in 0..(x - 1))
                BY <1>2, <3>2
            <4>2. f[k] = g[k] /\ g[k] = IF k = 0 THEN <<>> ELSE Join(g[k - 1], l[k])
                BY <2>3, <2>6, <4>1
            <4>3. k # 0 => f[k - 1] = g[k - 1]
                BY <2>6, <4>1
            <4> QED
                BY <4>2, <4>3
        <3> QED
            BY <3>1, <3>2
    <2>8. f = [k \in 0..x |-> IF k = 0 THEN <<>> ELSE Join(f[k - 1], l[k])]
        BY <2>4, <2>7
    <2> QED
        BY <2>8
<1> QED
    BY <1>3, <1>4

\* The steps of coallescing(), and their end.
LEMMA CoalescingSteps ==
    ASSUME NEW l, Len(l) \in Nat
    PROVE  \E f : /\ f[0] = <<>>
                  /\ \A k \in 1..Len(l) : f[k] = Join(f[k - 1], l[k])
                  /\ Coalescing(l) = f[Len(l)]
<1>1. \E f : f = [k \in 0..Len(l) |-> IF k = 0 THEN <<>> ELSE Join(f[k - 1], l[k])]
    BY JoinedExists
<1>2. \E f : /\ f = [k \in 0..Len(l) |-> IF k = 0 THEN <<>> ELSE Join(f[k - 1], l[k])]
             /\ Coalescing(l) = f[Len(l)]
    BY <1>1, Zenon DEF Coalescing
<1>3. PICK f : /\ f = [k \in 0..Len(l) |->
                            IF k = 0 THEN <<>> ELSE Join(f[k - 1], l[k])]
               /\ Coalescing(l) = f[Len(l)]
    BY <1>2
<1>4. f[0] = <<>>
    BY <1>3
<1>5. ASSUME NEW k \in 1..Len(l)
      PROVE  f[k] = Join(f[k - 1], l[k])
    <2>1. k \in 0..Len(l) /\ k # 0
        OBVIOUS
    <2> QED
        BY <1>3, <2>1
<1> QED
    BY <1>3, <1>4, <1>5

\* coallescing() turns an ordered list into one whose regions do not touch,
\* with the same addresses.
LEMMA CoalescingIs ==
    ASSUME NEW l \in Seq(Frees), Ordered(l)
    PROVE  /\ Coalescing(l) \in Seq(Frees) /\ Apart(Coalescing(l))
           /\ \A va \in Int : Some(Coalescing(l), va) <=> Some(l, va)
<1>1. /\ Len(l) \in Nat /\ \A i \in 1..Len(l) : l[i] \in Frees
      /\ \A i \in 1..Len(l) : l[i].start \in Nat /\ Hi(l[i]) \in Nat
    BY FreeBounds
<1>2. PICK f : /\ f[0] = <<>>
               /\ \A k \in 1..Len(l) : f[k] = Join(f[k - 1], l[k])
               /\ Coalescing(l) = f[Len(l)]
    BY <1>1, CoalescingSteps
<1> DEFINE
    Done(k) ==
        /\ f[k] \in Seq(Frees) /\ Apart(f[k])
        /\ \A va \in Int : Some(f[k], va) <=> \E i \in 1..k : Covers(l[i], va)
        /\ \A i \in 1..Len(l) : k < i =>
                \A j \in 1..Len(f[k]) : Hi(f[k][j]) <= l[i].start
    T == {k \in 0..Len(l) : ~ Done(k)}
<1>3. Done(0)
    <2>1. Len(f[0]) = 0 /\ f[0] \in Seq(Frees)
        BY <1>2
    <2> QED
        BY <2>1 DEF Apart, Some
<1>4. ASSUME NEW k \in 1..Len(l), Done(k - 1)
      PROVE  Done(k)
    <2>1. /\ f[k - 1] \in Seq(Frees) /\ Apart(f[k - 1])
          /\ \A va \in Int : Some(f[k - 1], va) <=> \E i \in 1..(k - 1) : Covers(l[i], va)
          /\ \A j \in 1..Len(f[k - 1]) : Hi(f[k - 1][j]) <= l[k].start
        <3>1. k - 1 < k
            OBVIOUS
        <3> QED
            BY <1>4, <3>1, Zenon
    <2>2. PICK d : d = f[k - 1]
        OBVIOUS
    <2>3. f[k] = Join(d, l[k]) /\ l[k] \in Frees
        BY <1>1, <1>2, <2>2
    <2>4. /\ Join(d, l[k]) \in Seq(Frees) /\ Apart(Join(d, l[k]))
          /\ \A va \in Int : Some(Join(d, l[k]), va) <=> Some(d, va) \/ Covers(l[k], va)
          /\ \A j \in 1..Len(Join(d, l[k])) : Hi(Join(d, l[k])[j]) <= Hi(l[k])
        BY <2>1, <2>2, <2>3, JoinIs
    <2>5. ASSUME NEW va \in Int
          PROVE  Some(f[k], va) <=> \E i \in 1..k : Covers(l[i], va)
        <3>1. \A i \in 1..k : i = k \/ i \in 1..(k - 1)
            OBVIOUS
        <3>2. k \in 1..k /\ \A i \in 1..(k - 1) : i \in 1..k
            OBVIOUS
        <3>3. Some(f[k], va) <=> (\E i \in 1..(k - 1) : Covers(l[i], va)) \/ Covers(l[k], va)
            BY <2>1, <2>2, <2>3, <2>4, Zenon
        <3> QED
            BY <3>1, <3>2, <3>3, Zenon
    <2>6. ASSUME NEW i \in 1..Len(l), k < i, NEW j \in 1..Len(f[k])
          PROVE  Hi(f[k][j]) <= l[i].start
        <3>1. Hi(l[k]) <= l[i].start
            BY <2>6 DEF Ordered
        <3>2. Hi(f[k][j]) <= Hi(l[k])
            BY <2>3, <2>4
        <3>3. f[k][j] \in Frees
            BY <2>3, <2>4
        <3>4. Hi(f[k][j]) \in Nat
            BY <3>3, FreeBounds
        <3> QED
            BY <1>1, <3>1, <3>2, <3>4
    <2> QED
        BY <2>3, <2>4, <2>5, <2>6
<1> HIDE DEF Done
<1>5. T = {}
    <2> SUFFICES ASSUME T # {}
                 PROVE  FALSE
        OBVIOUS
    <2>1. T \subseteq Nat
        BY <1>1
    <2>2. PICK k \in T : \A y \in T : k <= y
        BY <2>1, LeastNumber
    <2>3. k \in 0..Len(l) /\ k # 0
        BY <1>3
    <2>4. k \in 1..Len(l) /\ k - 1 \in 0..Len(l) /\ ~ (k <= k - 1)
        BY <1>1, <2>3
    <2>5. k - 1 \notin T
        BY <2>2, <2>4
    <2>6. Done(k - 1)
        BY <2>4, <2>5
    <2> QED
        BY <1>4, <2>4, <2>6
<1>6. Done(Len(l))
    <2>1. Len(l) \in 0..Len(l)
        BY <1>1
    <2> QED
        BY <1>5, <2>1
<1> QED
    BY <1>2, <1>6 DEF Done, Some

\* Where the regions of a list do not touch no address is in two.
LEMMA ApartOnce ==
    ASSUME NEW l \in Seq(Frees), Apart(l), NEW va \in Int
    PROVE  Once(l, va)
<1> SUFFICES ASSUME NEW i \in 1..Len(l), NEW j \in 1..Len(l),
                    Covers(l[i], va), Covers(l[j], va), i < j
             PROVE  FALSE
    <2>1. ASSUME NEW i \in 1..Len(l), NEW j \in 1..Len(l), i # j
          PROVE  i < j \/ j < i
        BY <2>1
    <2> QED
        BY <2>1, Zenon DEF Once
<1>1. l[i] \in Frees /\ l[j] \in Frees
    OBVIOUS
<1>2. Hi(l[i]) < l[j].start
    BY DEF Apart
<1>3. l[j].start <= va /\ va < Hi(l[i])
    BY CoversIs
<1>4. Hi(l[i]) \in Nat /\ l[j].start \in Nat
    BY <1>1, FreeBounds
<1> QED
    BY <1>2, <1>3, <1>4

\* A page boundary is a number of pages.
LEMMA AlignedIs ==
    ASSUME NEW a \in Nat
    PROVE  /\ a % FrameSize = 0 => \E num \in Nat : a = num * FrameSize
           /\ (a * FrameSize) % FrameSize = 0
<1>1. FrameSize \in Nat \ {0}
    BY VMEAssumption
<1>2. ASSUME a % FrameSize = 0
      PROVE  \E num \in Nat : a = num * FrameSize
    <2>1. a \div FrameSize \in Nat /\ a = (a \div FrameSize) * FrameSize
        BY <1>1, <1>2
    <2> QED
        BY <2>1
<1>3. (a * FrameSize) % FrameSize = 0
    BY <1>1
<1> QED
    BY <1>2, <1>3

\* More pages take more bytes.
LEMMA PagesOrder ==
    ASSUME NEW p \in Int, NEW q \in Int
    PROVE  p < q <=> p * FrameSize < q * FrameSize
<1>1. FrameSize \in Nat \ {0}
    BY VMEAssumption
<1> QED
    BY <1>1

\* Whole pages behind a page boundary end at one.
LEMMA StaysAligned ==
    ASSUME NEW a \in Nat, a % FrameSize = 0, NEW p \in Nat
    PROVE  (a + p * FrameSize) % FrameSize = 0
<1>1. PICK num \in Nat : a = num * FrameSize
    BY AlignedIs
<1>2. a + p * FrameSize = (num + p) * FrameSize
    BY <1>1, PagesAdd
<1>3. num + p \in Nat
    OBVIOUS
<1>4. ((num + p) * FrameSize) % FrameSize = 0
    BY <1>3, AlignedIs
<1> QED
    BY <1>2, <1>4

\* What is less than a page behind a page boundary, and at one, is not behind.
LEMMA AlignedBelow ==
    ASSUME NEW a \in Nat, a % FrameSize = 0, NEW b \in Nat, b % FrameSize = 0,
           a < b + FrameSize
    PROVE  a <= b
<1>1. PICK num \in Nat : a = num * FrameSize
    BY AlignedIs
<1>2. PICK k \in Nat : b = k * FrameSize
    BY AlignedIs
<1>3. b + FrameSize = (k + 1) * FrameSize
    <2>1. (k + 1) * FrameSize = k * FrameSize + 1 * FrameSize /\ 1 * FrameSize = FrameSize
        BY VMEAssumption, PagesAdd
    <2> QED
        BY <1>2, <2>1
<1>4. num < k + 1
    BY <1>1, <1>3, PagesOrder
<1>5. ~ (k < num)
    BY <1>4
<1>6. ~ (k * FrameSize < num * FrameSize)
    BY <1>5, PagesOrder
<1> QED
    BY <1>1, <1>2, <1>6

\* A page is no larger than the area, nor than the addresses.
LEMMA PageFits == /\ FrameSize \in Nat \ {0} /\ Word \in Nat /\ Limit \in Nat
                  /\ Base \in Nat /\ FrameSize <= Base /\ Base <= Limit /\ Limit < Word
<1>1. /\ FrameSize \in Nat \ {0} /\ Word \in Nat /\ Limit \in Nat
      /\ Base \in Nat \ {0} /\ Base <= Limit /\ Limit < Word /\ Base % FrameSize = 0
    BY VMEAssumption
<1>2. FrameSize <= Base
    BY <1>1
<1> QED
    BY <1>1, <1>2

\* The pages a size needs hold it, and one fewer would not; where the sum of
\* the size and a page is too large for a word they are none.
LEMMA RequiredPagesAre ==
    ASSUME NEW size \in Uint32
    PROVE  /\ size \in Nat /\ size < Word
           /\ RequiredPages(size) \in Nat
           /\ \/ /\ size <= RequiredPages(size) * FrameSize
                 /\ RequiredPages(size) * FrameSize < size + FrameSize
              \/ RequiredPages(size) = 0 /\ size + FrameSize - 1 >= Word
<1>1. /\ size \in Nat /\ size < Word /\ FrameSize \in Nat \ {0}
      /\ Word \in Nat /\ FrameSize < Word
    BY PageFits DEF Uint32
<1>2. CASE size + FrameSize - 1 < Word
    <2>1. (size + FrameSize - 1) % Word = size + FrameSize - 1
        BY <1>1, <1>2
    <2>2. RequiredPages(size) = (size + FrameSize - 1) \div FrameSize
        BY <2>1 DEF RequiredPages
    <2> QED
        BY <1>1, <2>2
<1>3. CASE size + FrameSize - 1 >= Word
    <2>1. PICK over \in Nat : over = size + FrameSize - 1 - Word
        BY <1>1, <1>3
    <2>2. (size + FrameSize - 1) % Word = over /\ over < FrameSize
        BY <1>1, <1>3, <2>1
    <2>3. RequiredPages(size) = over \div FrameSize
        BY <2>2 DEF RequiredPages
    <2>4. over \div FrameSize = 0
        BY <1>1, <2>1, <2>2
    <2> QED
        BY <1>1, <1>3, <2>3, <2>4
<1> QED
    BY <1>1, <1>2, <1>3

\* What is taken from the front of a free region lies in it.
LEMMA Taken ==
    ASSUME NEW r \in Frees, NEW pages \in Nat, pages <= r.pages,
           NEW user \in BOOLEAN, NEW t, t = Entry(r.start, pages, user)
    PROVE  /\ t \in Regs /\ t.start = r.start /\ t.pages = pages /\ t.user = user
           /\ Hi(t) = r.start + pages * FrameSize
           /\ Hi(t) <= Hi(r)
           /\ pages = r.pages => Hi(t) = Hi(r)
<1>1. /\ r.start \in Nat /\ r.pages \in Nat \ {0} /\ Hi(r) \in Nat
      /\ Base <= r.start /\ Hi(r) <= Limit
    BY FreeBounds
<1>2. r.start % FrameSize = 0
    BY DEF Frees, InArea
<1>3. /\ t.start = r.start /\ t.pages = pages /\ t.user = user
      /\ t \in [start : Nat, pages : Nat, user : BOOLEAN]
    BY <1>1 DEF Entry
<1>4. Hi(t) = r.start + pages * FrameSize /\ Hi(r) = r.start + r.pages * FrameSize
    BY <1>3 DEF Hi
<1>5. PICK q \in Nat : q = r.pages - pages
    BY <1>1
<1>6. r.pages * FrameSize = pages * FrameSize + q * FrameSize
    <2>1. r.pages = pages + q
        BY <1>1, <1>5
    <2> QED
        BY <2>1, PagesAdd
<1>7. pages * FrameSize \in Nat /\ q * FrameSize \in Nat
    BY PagesTake
<1>8. Hi(t) <= Hi(r)
    BY <1>1, <1>4, <1>6, <1>7
<1>9. t \in Regs
    BY <1>1, <1>2, <1>3, <1>4, <1>7, <1>8, VMEAssumption DEF Regs, InArea
<1> QED
    BY <1>3, <1>4, <1>8, <1>9

\* What remains of the free region is one, behind what was taken.
LEMMA Rest ==
    ASSUME NEW r \in Frees, NEW pages \in Nat, pages < r.pages,
           NEW c, c = FreeEntry(r.start + pages * FrameSize, r.pages - pages)
    PROVE  /\ c \in Frees /\ Hi(c) = Hi(r)
           /\ c.start = r.start + pages * FrameSize /\ r.start <= c.start
<1>1. /\ r.start \in Nat /\ r.pages \in Nat \ {0} /\ Hi(r) \in Nat
      /\ Base <= r.start /\ Hi(r) <= Limit
    BY FreeBounds
<1>2. r.start % FrameSize = 0
    BY DEF Frees, InArea
<1>3. PICK q \in Nat \ {0} : q = r.pages - pages
    BY <1>1
<1>4. pages * FrameSize \in Nat /\ q * FrameSize \in Nat
    BY <1>3, PagesTake
<1>5. /\ c.start = r.start + pages * FrameSize /\ c.pages = q
      /\ c \in [start : Nat, pages : Nat \ {0}]
    BY <1>1, <1>3, <1>4 DEF FreeEntry
<1>6. r.pages * FrameSize = pages * FrameSize + q * FrameSize
    <2>1. r.pages = pages + q
        BY <1>1, <1>3
    <2> QED
        BY <2>1, <1>3, PagesAdd
<1>7. Hi(c) = Hi(r)
    <2>1. PICK x \in Nat, u \in Nat, v \in Nat :
                x = r.start /\ u = pages * FrameSize /\ v = q * FrameSize
        BY <1>1, <1>4
    <2>2. Hi(c) = (x + u) + v /\ Hi(r) = x + (u + v)
        BY <1>5, <1>6, <2>1, Zenon DEF Hi
    <2> QED
        BY <2>2
<1>8. c.start % FrameSize = 0
    BY <1>1, <1>2, <1>5, StaysAligned
<1>9. r.start <= c.start
    BY <1>1, <1>4, <1>5
<1>10. Base <= c.start
    BY <1>1, <1>4, <1>5, <1>9, VMEAssumption
<1> QED
    BY <1>1, <1>5, <1>7, <1>8, <1>9, <1>10 DEF Frees, InArea

\* A region of the list makes place for a shorter one at its end.
LEMMA ReplacedIs ==
    ASSUME NEW l \in Seq(Frees), Apart(l), NEW i \in 1..Len(l),
           NEW c \in Frees, l[i].start <= c.start, Hi(c) = Hi(l[i]),
           NEW m, m = [l EXCEPT ![i] = c]
    PROVE  /\ m \in Seq(Frees) /\ Apart(m)
           /\ \A va \in Int : Some(m, va) <=>
                Some(l, va) /\ ~ (l[i].start <= va /\ va < c.start)
<1>1. /\ Len(l) \in Nat /\ \A k \in 1..Len(l) : l[k] \in Frees
      /\ \A k \in 1..Len(l) : l[k].start \in Nat /\ Hi(l[k]) \in Nat
      /\ c.start \in Nat /\ c.start < Hi(c)
    BY FreeBounds
<1>2. /\ m \in Seq(Frees) /\ Len(m) = Len(l) /\ m[i] = c
      /\ \A k \in 1..Len(l) : k # i => m[k] = l[k]
    OBVIOUS
<1>3. ASSUME NEW j \in 1..Len(l), NEW k \in 1..Len(l), j < k
      PROVE  Hi(m[j]) < m[k].start
    <2>1. Hi(l[j]) < l[k].start
        BY <1>3 DEF Apart
    <2>2. Hi(m[j]) = Hi(l[j])
        BY <1>2
    <2>3. m[k].start >= l[k].start /\ m[k].start \in Nat
        BY <1>1, <1>2
    <2> QED
        BY <1>1, <2>1, <2>2, <2>3
<1>4. ASSUME NEW va \in Int
      PROVE  Some(m, va) <=> Some(l, va) /\ ~ (l[i].start <= va /\ va < c.start)
    <2>1. Covers(c, va) <=> Covers(l[i], va) /\ ~ (l[i].start <= va /\ va < c.start)
        <3>1. /\ Covers(c, va) <=> c.start <= va /\ va < Hi(c)
              /\ Covers(l[i], va) <=> l[i].start <= va /\ va < Hi(c)
            BY CoversIs
        <3> QED
            BY <1>1, <3>1
    <2>2. (l[i].start <= va /\ va < c.start) => Covers(l[i], va)
        <3>1. Covers(l[i], va) <=> l[i].start <= va /\ va < Hi(c)
            BY CoversIs
        <3> QED
            BY <1>1, <3>1
    <2>3. Once(l, va)
        BY ApartOnce
    <2>4. PICK gone \in BOOLEAN : gone <=> (l[i].start <= va /\ va < c.start)
        OBVIOUS
    <2>5. ASSUME Some(m, va)
          PROVE  Some(l, va) /\ ~ gone
        <3>1. PICK k \in 1..Len(l) : Covers(m[k], va)
            BY <1>2, <2>5 DEF Some
        <3>2. CASE k = i
            <4>1. Covers(l[i], va) /\ ~ gone
                BY <1>2, <2>1, <2>4, <3>1, <3>2
            <4> QED
                BY <4>1 DEF Some
        <3>3. CASE k # i
            <4>1. Covers(l[k], va)
                BY <1>2, <3>1, <3>3
            <4>2. ~ Covers(l[i], va)
                BY <2>3, <3>3, <4>1 DEF Once
            <4> QED
                BY <2>2, <2>4, <4>1, <4>2 DEF Some
        <3> QED
            BY <3>2, <3>3
    <2>6. ASSUME Some(l, va), ~ gone
          PROVE  Some(m, va)
        <3>1. PICK k \in 1..Len(l) : Covers(l[k], va)
            BY <2>6 DEF Some
        <3>2. Covers(m[k], va)
            <4>1. CASE k = i
                BY <1>2, <2>1, <2>4, <2>6, <3>1, <4>1
            <4>2. CASE k # i
                <5>1. m[k] = l[k]
                    BY <1>2, <4>2
                <5> QED
                    BY <3>1, <5>1
            <4> QED
                BY <4>1, <4>2
        <3> QED
            BY <1>2, <3>2 DEF Some
    <2> QED
        BY <2>4, <2>5, <2>6
<1> QED
    BY <1>2, <1>3, <1>4 DEF Apart

\* Without one region the others do not touch either.
LEMMA RemovedApart ==
    ASSUME NEW l \in Seq(Frees), Apart(l), NEW k \in 1..Len(l),
           NEW m, m = RemoveAt(l, k)
    PROVE  m \in Seq(Frees) /\ Apart(m)
<1>1. /\ m \in Seq(Frees) /\ Len(l) \in Nat /\ Len(m) = Len(l) - 1
      /\ \A i \in 1..Len(m) : m[i] = IF i < k THEN l[i] ELSE l[i + 1]
    BY RemovedIs
<1>2. ASSUME NEW i \in 1..Len(m), NEW j \in 1..Len(m), i < j
      PROVE  Hi(m[i]) < m[j].start
    <2> DEFINE o(num) == IF num < k THEN num ELSE num + 1
    <2>1. ASSUME NEW num \in 1..Len(m)
          PROVE  o(num) \in 1..Len(l) /\ m[num] = l[o(num)]
        <3>1. PICK whole \in Nat : whole = Len(l)
            BY <1>1
        <3>2. num \in 1..(whole - 1) /\ k \in 1..whole
            BY <1>1, <2>1, <3>1
        <3>3. o(num) \in 1..whole
            BY <3>2
        <3>4. m[num] = IF num < k THEN l[num] ELSE l[num + 1]
            BY <1>1, <2>1
        <3> QED
            BY <3>1, <3>3, <3>4
    <2>2. o(i) < o(j)
        BY <1>1, <1>2
    <2>3. o(i) \in 1..Len(l) /\ o(j) \in 1..Len(l) /\ m[i] = l[o(i)] /\ m[j] = l[o(j)]
        BY <2>1
    <2> HIDE DEF o
    <2>4. Hi(l[o(i)]) < l[o(j)].start
        BY <2>2, <2>3 DEF Apart
    <2> QED
        BY <2>3, <2>4
<1> QED
    BY <1>1, <1>2 DEF Apart

-----------------------------------------------------------------------------
(* The inductive invariant of the regions *)

AreaBounds == /\ avail \in Nat /\ avail % FrameSize = 0
              /\ Base <= avail /\ avail <= Limit

\* The mapped regions, and free ones that do not touch.
Lists == /\ entries \in Seq(Regs)
         /\ free_entries \in Seq(Frees) /\ Apart(free_entries)

\* Every address below avail, of every page, is in one region.
Tiles ==
    \A va \in Int :
        /\ Once(entries, va)
        /\ ~ (Some(entries, va) /\ Some(free_entries, va))
        /\ (Some(entries, va) \/ Some(free_entries, va)) <=> (Base <= va /\ va < avail)

VInv == AreaBounds /\ Lists /\ Tiles

\* One more mapped region, that shares no address with the others.
Gains(r) ==
    /\ r \in Regs
    /\ \A va \in Int : ~ (Some(entries, va) /\ Covers(r, va))
    /\ ToSet(entries') = ToSet(entries) \union {r}

\* The free region that is taken from is large enough.
LEMMA FirstFitIs ==
    ASSUME NEW pages, FirstFit(pages) # 0
    PROVE  /\ FirstFit(pages) \in 1..Len(free_entries)
           /\ free_entries[FirstFit(pages)].pages >= pages
<1>1. PICK I : I = {i \in 1..Len(free_entries) : free_entries[i].pages >= pages}
    OBVIOUS
<1>2. FirstFit(pages) = IF I # {} THEN Min(I) ELSE 0
    BY <1>1, Zenon DEF FirstFit, SelectInSeq
<1>3. I # {} /\ FirstFit(pages) = Min(I)
    BY <1>2
<1>4. I \subseteq Nat
    BY <1>1
<1>5. Min(I) \in I
    BY <1>3, <1>4, MinIs
<1> QED
    BY <1>1, <1>3, <1>5

\* What is left of the free regions when t was taken.
LEMMA ShrinkIs ==
    ASSUME free_entries \in Seq(Frees), Apart(free_entries),
           NEW i \in 1..Len(free_entries), NEW pages \in Nat,
           pages <= free_entries[i].pages, NEW user \in BOOLEAN,
           NEW t, t = Entry(free_entries[i].start, pages, user)
    PROVE  /\ Shrink(i, pages) \in Seq(Frees) /\ Apart(Shrink(i, pages))
           /\ \A va \in Int : Some(Shrink(i, pages), va) <=>
                Some(free_entries, va) /\ ~ Covers(t, va)
<1>1. PICK r \in Frees : r = free_entries[i]
    OBVIOUS
<1>2. /\ t \in Regs /\ t.start = r.start
      /\ Hi(t) = r.start + pages * FrameSize
      /\ pages = r.pages => Hi(t) = Hi(r)
    BY <1>1, Taken
<1>3. r.pages \in Nat
    BY <1>1, FreeBounds
<1>4. CASE pages = r.pages
    <2>1. Shrink(i, pages) = RemoveAt(free_entries, i)
        BY <1>1, <1>4 DEF Shrink
    <2>2. ASSUME NEW va \in Int
          PROVE  Some(Shrink(i, pages), va) <=>
                    Some(free_entries, va) /\ ~ Covers(t, va)
        <3>1. Once(free_entries, va)
            BY ApartOnce
        <3>2. Some(Shrink(i, pages), va) <=>
                    Some(free_entries, va) /\ ~ Covers(free_entries[i], va)
            BY <2>1, <3>1, RemovedCovers
        <3>3. Covers(t, va) <=> Covers(r, va)
            BY <1>2, <1>4, CoversIs
        <3> QED
            BY <1>1, <3>2, <3>3
    <2> QED
        BY <2>1, <2>2, RemovedApart
<1>5. CASE pages # r.pages
    <2>1. PICK c : c = FreeEntry(r.start + pages * FrameSize, r.pages - pages)
        OBVIOUS
    <2>2. pages < r.pages
        BY <1>1, <1>3, <1>5
    <2>3. /\ c \in Frees /\ Hi(c) = Hi(r)
          /\ c.start = r.start + pages * FrameSize /\ r.start <= c.start
        BY <2>1, <2>2, Rest
    <2>4. Shrink(i, pages) = [free_entries EXCEPT ![i] = c]
        BY <1>1, <1>5, <2>1 DEF Shrink
    <2>5. PICK m : m = Shrink(i, pages)
        OBVIOUS
    <2>6. /\ m \in Seq(Frees) /\ Apart(m)
          /\ \A va \in Int : Some(m, va) <=>
                Some(free_entries, va) /\ ~ (free_entries[i].start <= va /\ va < c.start)
        BY <1>1, <2>3, <2>4, <2>5, ReplacedIs
    <2>7. ASSUME NEW va \in Int
          PROVE  Covers(t, va) <=> free_entries[i].start <= va /\ va < c.start
        BY <1>1, <1>2, <2>3, CoversIs
    <2> QED
        BY <2>5, <2>6, <2>7
<1> QED
    BY <1>4, <1>5

\* A region finds its place among the mapped ones.
LEMMA EntryInserted ==
    ASSUME NEW l \in Seq(Regs), NEW r \in Regs
    PROVE  /\ InsertSorted(l, r) \in Seq(Regs)
           /\ ToSet(InsertSorted(l, r)) = ToSet(l) \union {r}
           /\ \A va : /\ Some(InsertSorted(l, r), va) <=> Some(l, va) \/ Covers(r, va)
                      /\ Once(l, va) /\ ~ (Some(l, va) /\ Covers(r, va))
                            => Once(InsertSorted(l, r), va)
<1>1. \A i \in 1..Len(l) : l[i] \in Regs /\ l[i].start \in Nat
    BY RegBounds
<1>2. r.start \in Nat
    BY RegBounds
<1>3. PICK k \in 1..(Len(l) + 1) : InsertSorted(l, r) = InsertAt(l, k, r)
    BY <1>1, <1>2, SortedAt
<1>4. PICK m : m = InsertAt(l, k, r)
    OBVIOUS
<1>5. m \in Seq(Regs)
    BY <1>4, InsertedIs
<1>6. ToSet(m) = ToSet(l) \union {r}
    <2>1. \A i \in 1..Len(l) : \E j \in 1..Len(m) : m[j] = l[i]
        BY <1>4, InsertedMembers
    <2>2. \E j \in 1..Len(m) : m[j] = r
        BY <1>4, InsertedMembers
    <2>3. \A j \in 1..Len(m) : m[j] = r \/ \E i \in 1..Len(l) : m[j] = l[i]
        BY <1>4, InsertedMembers
    <2>4. DOMAIN m = 1..Len(m) /\ DOMAIN l = 1..Len(l)
        BY <1>5
    <2>5. /\ \A x : x \in ToSet(m) <=> \E j \in 1..Len(m) : x = m[j]
          /\ \A x : x \in ToSet(l) <=> \E i \in 1..Len(l) : x = l[i]
        BY <2>4, Zenon DEF ToSet
    <2>6. \A x : x \in ToSet(m) => x \in ToSet(l) \/ x = r
        BY <2>3, <2>5, Zenon
    <2>7. \A x : x \in ToSet(l) \/ x = r => x \in ToSet(m)
        BY <2>1, <2>2, <2>5, Zenon
    <2> QED
        BY <2>6, <2>7, Zenon
<1>7. \A va : /\ Some(m, va) <=> Some(l, va) \/ Covers(r, va)
              /\ Once(l, va) /\ ~ (Some(l, va) /\ Covers(r, va)) => Once(m, va)
    BY <1>4, InsertedCovers
<1> QED
    BY <1>3, <1>4, <1>5, <1>6, <1>7

\* What add_entry takes from a free region it maps, and nothing else changes.
LEMMA AddReusesKeeps ==
    ASSUME VInv, NEW size \in Uint32, NEW user \in BOOLEAN, AddReuses(size, user)
    PROVE  /\ VInv'
           /\ \E t : t.user = user /\ t.pages = RequiredPages(size) /\ Gains(t)
<1> DEFINE pages == RequiredPages(size)
           i == FirstFit(pages)
<1>1. /\ i # 0
      /\ entries' = InsertSorted(entries, Entry(free_entries[i].start, pages, user))
      /\ free_entries' = Shrink(i, pages)
      /\ avail' = avail
    BY Zenon DEF AddReuses
<1>2. pages \in Nat
    BY RequiredPagesAre
<1>3. i \in 1..Len(free_entries) /\ free_entries[i].pages >= pages
    BY <1>1, FirstFitIs
<1> HIDE DEF i, pages
<1>4. AreaBounds /\ Lists /\ Tiles
    BY DEF VInv
<1>5. free_entries \in Seq(Frees) /\ Apart(free_entries) /\ entries \in Seq(Regs)
    BY <1>4 DEF Lists
<1>6. PICK t : t = Entry(free_entries[i].start, pages, user)
    OBVIOUS
<1>7. free_entries[i] \in Frees /\ free_entries[i].pages \in Nat
    BY <1>3, <1>5, FreeBounds
<1>8. pages <= free_entries[i].pages
    BY <1>2, <1>3, <1>7
<1>9. /\ t \in Regs /\ t.start = free_entries[i].start /\ t.pages = pages
      /\ t.user = user /\ Hi(t) <= Hi(free_entries[i])
    BY <1>2, <1>6, <1>7, <1>8, Taken
<1>10. /\ free_entries' \in Seq(Frees) /\ Apart(free_entries')
       /\ \A va \in Int : Some(free_entries', va) <=>
            Some(free_entries, va) /\ ~ Covers(t, va)
    BY <1>1, <1>2, <1>3, <1>5, <1>6, <1>8, ShrinkIs
<1>11. /\ entries' \in Seq(Regs)
       /\ ToSet(entries') = ToSet(entries) \union {t}
       /\ \A va : /\ Some(entries', va) <=> Some(entries, va) \/ Covers(t, va)
                  /\ Once(entries, va) /\ ~ (Some(entries, va) /\ Covers(t, va))
                        => Once(entries', va)
    BY <1>1, <1>5, <1>6, <1>9, EntryInserted
<1>12. ASSUME NEW va \in Int, Covers(t, va)
       PROVE  Some(free_entries, va)
    <2>1. t.start <= va /\ va < Hi(t)
        BY <1>12, CoversIs
    <2>2. Hi(t) \in Nat /\ Hi(free_entries[i]) \in Nat
        BY <1>7, <1>9, RegBounds, FreeBounds
    <2>3. free_entries[i].start <= va /\ va < Hi(free_entries[i])
        BY <1>9, <2>1, <2>2
    <2>4. Covers(free_entries[i], va)
        BY <2>3, CoversIs
    <2> QED
        BY <1>3, <2>4 DEF Some
<1>13. \A va \in Int : ~ (Some(entries, va) /\ Covers(t, va))
    BY <1>4, <1>12 DEF Tiles
<1>14. Tiles'
    BY <1>1, <1>4, <1>10, <1>11, <1>12, <1>13 DEF Tiles
<1>15. Lists' /\ AreaBounds'
    BY <1>1, <1>4, <1>10, <1>11 DEF Lists, AreaBounds
<1>16. Gains(t)
    BY <1>9, <1>11, <1>13 DEF Gains
<1> QED
    BY <1>9, <1>14, <1>15, <1>16 DEF VInv, pages

\* The members of a list.
LEMMA ToSetIs ==
    ASSUME NEW S, NEW l \in Seq(S)
    PROVE  \A x : x \in ToSet(l) <=> \E i \in 1..Len(l) : x = l[i]
<1>1. DOMAIN l = 1..Len(l)
    OBVIOUS
<1> QED
    BY <1>1, Zenon DEF ToSet

\* What add_entry maps at avail lies behind all other regions, and avail
\* stays at a page boundary and within the area.
LEMMA AddGrowsKeeps ==
    ASSUME VInv, NEW size \in Uint32, NEW user \in BOOLEAN, AddGrows(size, user),
           ~wrapped'
    PROVE  /\ VInv'
           /\ \E t : t.user = user /\ t.pages = RequiredPages(size) /\ Gains(t)
<1> DEFINE pages == RequiredPages(size)
<1>1. /\ (avail + size) % Word <= Limit
      /\ entries' = InsertSorted(entries, Entry(avail, pages, user))
      /\ avail' = (avail + pages * FrameSize) % Word
      /\ wrapped' = (avail + pages * FrameSize >= Word)
      /\ free_entries' = free_entries
    BY Zenon DEF AddGrows
<1>2. /\ pages \in Nat /\ size \in Nat
      /\ \/ size <= pages * FrameSize /\ pages * FrameSize < size + FrameSize
         \/ pages = 0
    BY RequiredPagesAre
<1> HIDE DEF pages
<1>3. AreaBounds /\ Lists /\ Tiles
    BY DEF VInv
<1>4. /\ avail \in Nat /\ avail % FrameSize = 0 /\ Base <= avail /\ avail <= Limit
      /\ entries \in Seq(Regs)
    BY <1>3 DEF AreaBounds, Lists
<1>5. PICK num \in Nat : num = pages * FrameSize
    BY <1>2, PagesTake
<1>6. avail + num < Word /\ Word \in Nat
    <2>1. ~ (avail + pages * FrameSize >= Word)
        BY <1>1
    <2> QED
        BY <1>4, <1>5, <2>1, PageFits
<1>7. (avail + num) % FrameSize = 0
    BY <1>2, <1>4, <1>5, StaysAligned
<1>8. avail + num < Limit + FrameSize
    <2>1. CASE size <= num /\ num < size + FrameSize
        <3>1. avail + size < Word /\ avail + size \in Nat
            BY <1>2, <1>4, <1>6, <2>1
        <3>2. (avail + size) % Word = avail + size
            BY <1>6, <3>1
        <3>3. avail + size <= Limit
            BY <1>1, <3>2
        <3> QED
            BY <1>2, <1>4, <2>1, <3>3, PageFits
    <2>2. CASE pages = 0
        <3>1. num = 0
            BY <1>5, <2>2, PageFits
        <3> QED
            BY <1>4, <3>1, PageFits
    <2> QED
        BY <1>2, <1>5, <2>1, <2>2
<1>9. avail + num \in Nat /\ Limit \in Nat /\ Limit % FrameSize = 0
    BY <1>4, VMEAssumption
<1>10. avail + num <= Limit
    BY <1>7, <1>8, <1>9, AlignedBelow
<1>11. avail' = avail + num
    <2>1. avail + num < Word /\ Word \in Nat
        BY <1>9, <1>10, VMEAssumption
    <2>2. (avail + num) % Word = avail + num
        BY <1>9, <2>1
    <2> QED
        BY <1>1, <1>5, <2>2
<1>12. AreaBounds'
    BY <1>4, <1>7, <1>10, <1>11, VMEAssumption DEF AreaBounds
<1>13. PICK t : t = Entry(avail, pages, user)
    OBVIOUS
<1>14. /\ t.start = avail /\ t.pages = pages /\ t.user = user
       /\ t \in [start : Nat, pages : Nat, user : BOOLEAN]
    BY <1>2, <1>4, <1>13 DEF Entry
<1>15. Hi(t) = avail + num
    BY <1>5, <1>14 DEF Hi
<1>16. t \in Regs
    BY <1>4, <1>10, <1>14, <1>15 DEF Regs, InArea
<1>17. ASSUME NEW va \in Int
       PROVE  Covers(t, va) <=> avail <= va /\ va < avail'
    BY <1>11, <1>14, <1>15, CoversIs
<1>18. /\ entries' \in Seq(Regs)
       /\ ToSet(entries') = ToSet(entries) \union {t}
       /\ \A va : /\ Some(entries', va) <=> Some(entries, va) \/ Covers(t, va)
                  /\ Once(entries, va) /\ ~ (Some(entries, va) /\ Covers(t, va))
                        => Once(entries', va)
    BY <1>1, <1>4, <1>13, <1>16, EntryInserted
<1>19. ASSUME NEW va \in Int
       PROVE  /\ (Base <= va /\ va < avail') <=>
                    (Base <= va /\ va < avail) \/ Covers(t, va)
              /\ ~ ((Base <= va /\ va < avail) /\ Covers(t, va))
    BY <1>4, <1>11, <1>17, VMEAssumption
<1>20. ASSUME NEW va \in Int
       PROVE  /\ Once(entries, va)
              /\ ~ (Some(entries, va) /\ Some(free_entries, va))
              /\ (Some(entries, va) \/ Some(free_entries, va))
                    <=> (Base <= va /\ va < avail)
    BY <1>3 DEF Tiles
<1>21. \A va \in Int : ~ (Some(entries, va) /\ Covers(t, va))
    BY <1>19, <1>20, Zenon
<1>22. ASSUME NEW va \in Int
       PROVE  /\ Once(entries', va)
              /\ ~ (Some(entries', va) /\ Some(free_entries', va))
              /\ (Some(entries', va) \/ Some(free_entries', va))
                    <=> (Base <= va /\ va < avail')
    <2>1. Some(free_entries', va) <=> Some(free_entries, va)
        BY <1>1
    <2> QED
        BY <1>18, <1>19, <1>20, <2>1, Zenon
<1>23. Tiles'
    BY <1>22 DEF Tiles
<1>24. Lists'
    BY <1>1, <1>3, <1>18 DEF Lists
<1>25. Gains(t)
    BY <1>16, <1>18, <1>21 DEF Gains
<1> QED
    BY <1>12, <1>14, <1>23, <1>24, <1>25 DEF VInv, pages

\* mmap keeps the invariant: it maps one more region, or nothing.
LEMMA AddKeeps ==
    ASSUME VInv, NEW size \in Uint32, NEW user \in BOOLEAN, Add(size, user), ~wrapped'
    PROVE  /\ VInv'
           /\ \/ UNCHANGED vme
              \/ \E t : t.user = user /\ t.pages = RequiredPages(size) /\ Gains(t)
<1>1. CASE AddReuses(size, user)
    BY <1>1, AddReusesKeeps
<1>2. CASE AddGrows(size, user)
    BY <1>2, AddGrowsKeeps
<1>3. CASE AddFails(size)
    <2>1. UNCHANGED vme
        BY <1>3, Zenon DEF AddFails
    <2> QED
        BY <2>1 DEF vme, VInv, AreaBounds, Lists, Tiles
<1> QED
    BY <1>1, <1>2, <1>3 DEF Add

\* The region that munmap removes has the address it is called with.
LEMMA MunmapFinds ==
    ASSUME NEW va, NEW user, Munmap(va, user)
    PROVE  \E i \in 1..Len(entries) :
                /\ entries[i].start <= va /\ va < End(entries[i])
                /\ user => entries[i].user
                /\ entries' = RemoveAt(entries, i)
                /\ free_entries' = InsertFreeSpace(free_entries, entries[i].start,
                                                   entries[i].pages)
                /\ avail' = avail
<1>1. PICK I : I = {i \in 1..Len(entries) :
                        /\ entries[i].start <= va /\ va < End(entries[i])
                        /\ user => entries[i].user}
    OBVIOUS
<1>2. PICK k : k = IF I # {} THEN Min(I) ELSE 0
    OBVIOUS
<1>3. /\ k # 0
      /\ entries' = RemoveAt(entries, k)
      /\ free_entries' = InsertFreeSpace(free_entries, entries[k].start,
                                         entries[k].pages)
      /\ avail' = avail
    BY <1>1, <1>2, Zenon DEF Munmap, SelectInSeq
<1>4. I # {} /\ k = Min(I) /\ I \subseteq Nat
    BY <1>1, <1>2, <1>3
<1>5. k \in I
    BY <1>4, MinIs
<1> QED
    BY <1>1, <1>3, <1>5

\* munmap keeps the invariant: of the mapped regions one goes, and its
\* addresses are free.
LEMMA MunmapKeeps ==
    ASSUME VInv, NEW va \in Int, NEW user \in BOOLEAN, Munmap(va, user)
    PROVE  /\ VInv'
           /\ \E e \in ToSet(entries) : /\ ToSet(entries') = ToSet(entries) \ {e}
                                        /\ user => e.user
<1>1. PICK i \in 1..Len(entries) :
            /\ entries[i].start <= va /\ va < End(entries[i])
            /\ user => entries[i].user
            /\ entries' = RemoveAt(entries, i)
            /\ free_entries' = InsertFreeSpace(free_entries, entries[i].start,
                                               entries[i].pages)
            /\ avail' = avail
    BY MunmapFinds
<1>2. AreaBounds /\ Lists /\ Tiles
    BY DEF VInv
<1>3. /\ entries \in Seq(Regs) /\ free_entries \in Seq(Frees) /\ Apart(free_entries)
    BY <1>2 DEF Lists
<1>4. PICK e \in Regs : e = entries[i]
    BY <1>3
<1>5. /\ e.start \in Nat /\ e.pages \in Nat /\ Hi(e) \in Nat /\ End(e) = Hi(e)
      /\ e.start % FrameSize = 0 /\ Base <= e.start /\ Hi(e) <= Limit
    BY RegBounds DEF Regs, InArea
<1>6. Covers(e, va)
    BY <1>1, <1>4, <1>5, CoversIs
<1>7. e.pages # 0
    <2>1. e.start < Hi(e)
        BY <1>1, <1>4, <1>5
    <2>2. Hi(e) = e.start + e.pages * FrameSize
        BY DEF Hi
    <2>3. 0 * FrameSize = 0
        BY VMEAssumption
    <2> QED
        BY <1>5, <2>1, <2>2, <2>3
<1>8. PICK c : c = FreeEntry(e.start, e.pages)
    OBVIOUS
<1>9. /\ c.start = e.start /\ c.pages = e.pages
      /\ c \in [start : Nat, pages : Nat \ {0}]
    BY <1>5, <1>7, <1>8 DEF FreeEntry
<1>10. Hi(c) = Hi(e)
    BY <1>9 DEF Hi
<1>11. c \in Frees
    BY <1>5, <1>9, <1>10 DEF Frees, InArea
<1>12. \A x : Covers(c, x) <=> Covers(e, x)
    BY <1>9, <1>10, CoversIs
<1>13. ASSUME NEW x \in Int
       PROVE  /\ Once(entries, x)
              /\ ~ (Some(entries, x) /\ Some(free_entries, x))
              /\ (Some(entries, x) \/ Some(free_entries, x))
                    <=> (Base <= x /\ x < avail)
              /\ Covers(e, x) => Some(entries, x)
    BY <1>2, <1>4 DEF Tiles, Some
<1>14. ASSUME NEW x \in Nat
       PROVE  ~ (Some(free_entries, x) /\ Covers(c, x))
    BY <1>12, <1>13
<1>15. /\ InsertSorted(free_entries, c) \in Seq(Frees)
       /\ Ordered(InsertSorted(free_entries, c))
       /\ \A x : Some(InsertSorted(free_entries, c), x) <=>
                    Some(free_entries, x) \/ Covers(c, x)
    BY <1>3, <1>11, <1>14, InsertedOrdered
<1>16. free_entries' = Coalescing(InsertSorted(free_entries, c))
    BY <1>1, <1>4, <1>8 DEF InsertFreeSpace
<1>17. /\ free_entries' \in Seq(Frees) /\ Apart(free_entries')
       /\ \A x \in Int : Some(free_entries', x) <=>
                    Some(InsertSorted(free_entries, c), x)
    BY <1>15, <1>16, CoalescingIs
<1>18. entries' \in Seq(Regs)
    BY <1>1, <1>3, RemovedIs
<1>19. ASSUME NEW x \in Int
       PROVE  /\ Some(entries', x) <=> Some(entries, x) /\ ~ Covers(e, x)
              /\ Once(entries', x)
    BY <1>1, <1>3, <1>4, <1>13, RemovedCovers
<1>20. ASSUME NEW x \in Int
       PROVE  /\ Once(entries', x)
              /\ ~ (Some(entries', x) /\ Some(free_entries', x))
              /\ (Some(entries', x) \/ Some(free_entries', x))
                    <=> (Base <= x /\ x < avail')
    <2>1. (Base <= x /\ x < avail') <=> (Base <= x /\ x < avail)
        BY <1>1
    <2> QED
        BY <1>12, <1>13, <1>15, <1>17, <1>19, <2>1, Zenon
<1>21. Tiles' /\ Lists' /\ AreaBounds'
    BY <1>1, <1>2, <1>17, <1>18, <1>20 DEF Tiles, Lists, AreaBounds
<1>22. ToSet(entries') = ToSet(entries) \ {e}
    <2>1. ASSUME NEW j \in 1..Len(entries), j # i
          PROVE  \E k \in 1..Len(entries') : entries'[k] = entries[j]
        BY <1>1, <1>3, <2>1, RemovedMembers
    <2>2. ASSUME NEW k \in 1..Len(entries')
          PROVE  \E j \in 1..Len(entries) : j # i /\ entries'[k] = entries[j]
        <3>1. PICK m : m = entries' /\ m = RemoveAt(entries, i)
            BY <1>1
        <3>2. PICK l : l = entries
            OBVIOUS
        <3>3. /\ l \in Seq(Regs) /\ i \in 1..Len(l)
              /\ m = RemoveAt(l, i) /\ k \in 1..Len(m)
            BY <1>3, <3>1, <3>2
        <3>4. \E j \in 1..Len(l) : j # i /\ m[k] = l[j]
            BY <3>3, RemovedOthers
        <3> QED
            BY <3>1, <3>2, <3>4
    <2>3. \A j \in 1..Len(entries) : j # i => entries[j] # e
        <3>1. ASSUME NEW j \in 1..Len(entries), j # i, entries[j] = e
              PROVE  FALSE
            <4>1. Covers(entries[j], va) /\ Covers(entries[i], va)
                BY <1>4, <1>6, <3>1
            <4> QED
                BY <1>13, <3>1, <4>1 DEF Once
        <3> QED
            BY <3>1
    <2>4. \A x : x \in ToSet(entries) <=> \E j \in 1..Len(entries) : x = entries[j]
        BY <1>3, ToSetIs
    <2>5. \A x : x \in ToSet(entries') <=> \E k \in 1..Len(entries') : x = entries'[k]
        BY <1>18, ToSetIs
    <2>6. \A x : x \in ToSet(entries') => x \in ToSet(entries) /\ x # e
        <3>1. ASSUME NEW x, x \in ToSet(entries')
              PROVE  x \in ToSet(entries) /\ x # e
            <4>1. PICK k \in 1..Len(entries') : x = entries'[k]
                BY <2>5, <3>1
            <4>2. PICK j \in 1..Len(entries) : j # i /\ entries'[k] = entries[j]
                BY <2>2
            <4> QED
                BY <2>3, <2>4, <4>1, <4>2
        <3> QED
            BY <3>1
    <2>7. \A x : x \in ToSet(entries) /\ x # e => x \in ToSet(entries')
        <3>1. ASSUME NEW x, x \in ToSet(entries), x # e
              PROVE  x \in ToSet(entries')
            <4>1. PICK j \in 1..Len(entries) : x = entries[j]
                BY <2>4, <3>1
            <4>2. j # i
                BY <1>4, <3>1, <4>1
            <4>3. PICK k \in 1..Len(entries') : entries'[k] = entries[j]
                BY <2>1, <4>2
            <4> QED
                BY <2>5, <4>1, <4>3
        <3> QED
            BY <3>1
    <2> QED
        BY <2>6, <2>7
<1>23. e \in ToSet(entries) /\ (user => e.user)
    BY <1>1, <1>3, <1>4, ToSetIs
<1> QED
    BY <1>21, <1>22, <1>23 DEF VInv

\* An address space without regions, as a new process has it.
LEMMA EmptyArea ==
    avail = Base /\ entries = <<>> /\ free_entries = <<>> =>
        VInv /\ ToSet(entries) = {}
<1> SUFFICES ASSUME avail = Base, entries = <<>>, free_entries = <<>>
             PROVE  VInv /\ ToSet(entries) = {}
    OBVIOUS
<1>1. Len(entries) = 0 /\ Len(free_entries) = 0
    OBVIOUS
<1>2. entries \in Seq(Regs) /\ free_entries \in Seq(Frees)
    OBVIOUS
<1>3. \A i \in 1..0 : FALSE
    OBVIOUS
<1>4. Lists
    BY <1>1, <1>2, <1>3 DEF Lists, Apart
<1>5. AreaBounds
    BY VMEAssumption DEF AreaBounds
<1>6. ASSUME NEW va \in Int
      PROVE  /\ Once(entries, va)
             /\ ~ Some(entries, va) /\ ~ Some(free_entries, va)
             /\ ~ (Base <= va /\ va < avail)
    <2>1. ~ (Base <= va /\ va < avail)
        BY VMEAssumption
    <2> QED
        BY <1>1, <1>3, <2>1 DEF Once, Some
<1>7. Tiles
    BY <1>6 DEF Tiles
<1>8. ToSet(entries) = {}
    <2>1. \A x : x \in ToSet(entries) <=> \E i \in 1..Len(entries) : x = entries[i]
        BY <1>2, ToSetIs
    <2> QED
        BY <1>1, <1>3, <2>1
<1> QED
    BY <1>4, <1>5, <1>7, <1>8 DEF VInv

-----------------------------------------------------------------------------
(* The inductive invariant of loading *)

\* A region of the kernel has the address: the program cannot unmap it.
Kept(va) == \E e \in ToSet(entries) : ~ e.user /\ Covers(e, va)

Modes == mode \in {"boot", "segment", "mmap", "read", "args", "user", "dead",
                   "panic", "kernel written"}

LoadTypes == /\ headers \in Seq(HeaderType)
             /\ argv \in Seq(Nat)
             /\ loaded \subseteq HeaderType

\* mmap is called for a segment.
AtSegment == mode \in {"mmap", "read"} => headers # <<>> /\ headers[1].type = 1

\* Until the program runs all regions are the kernel's.
KernelOnly == mode \in {"segment", "mmap", "read", "args"} =>
                \A e \in ToSet(entries) : ~ e.user

SegmentsKept == mode \in {"segment", "mmap", "read", "args", "user"} =>
                    \A h \in loaded : \A va \in Bytes(h) : Kept(va)

\* The stack, if there was room for it, is a region of the kernel's, with no
\* byte of a segment.
StackThere == mode \in {"args", "user"} /\ stack # 0 =>
                /\ \E e \in ToSet(entries) : /\ ~ e.user /\ e.start = stack
                                             /\ Hi(e) = stack + StackSize
                /\ \A h \in loaded : \A va \in Bytes(h) :
                        ~ (stack <= va /\ va < stack + StackSize)

\* Before load_args there is no stack pointer.
NoEsp == mode \notin {"user", "dead", "kernel written"} => esp = 0

\* What holds as long as no region goes around the end of the addresses.
LoadInv == /\ ~wrapped
           /\ VInv /\ Modes /\ LoadTypes /\ AtSegment /\ KernelOnly
           /\ SegmentsKept /\ StackThere /\ NoEsp /\ ArgsInStack

\* An address of a page that begins in a region is in the region.
LEMMA PageIn ==
    ASSUME NEW r \in Regs, NEW page \in Int,
           r.start <= page * FrameSize, page * FrameSize < Hi(r),
           NEW va \in Int, page * FrameSize <= va, va < page * FrameSize + FrameSize
    PROVE  Covers(r, va)
<1>1. /\ r.start \in Nat /\ r.pages \in Nat /\ Hi(r) \in Nat
      /\ r.start % FrameSize = 0 /\ FrameSize \in Nat \ {0}
    BY RegBounds, VMEAssumption DEF Regs, InArea
<1>2. Hi(r) % FrameSize = 0
    BY <1>1, StaysAligned DEF Hi
<1>3. PICK num \in Nat : Hi(r) = num * FrameSize
    BY <1>1, <1>2, AlignedIs
<1>4. page < num
    BY <1>3, PagesOrder
<1>5. ~ (num < page + 1)
    BY <1>4
<1>6. ~ (num * FrameSize < (page + 1) * FrameSize)
    BY <1>5, PagesOrder
<1>7. (page + 1) * FrameSize = page * FrameSize + FrameSize
    BY <1>1
<1>8. PICK x \in Int : x = page * FrameSize
    BY <1>1
<1>9. /\ r.start <= x /\ x <= va /\ va < x + FrameSize
      /\ ~ (Hi(r) < x + FrameSize)
    BY <1>3, <1>6, <1>7, <1>8
<1>10. r.start <= va /\ va < Hi(r)
    BY <1>1, <1>8, <1>9
<1> QED
    BY <1>10, CoversIs

\* The page of an address.
LEMMA PageOf ==
    ASSUME NEW va \in Int
    PROVE  /\ va \div FrameSize \in Int
           /\ (va \div FrameSize) * FrameSize <= va
           /\ va < (va \div FrameSize) * FrameSize + FrameSize
BY VMEAssumption

\* The pages of addresses are in the order of the addresses.
LEMMA PageMonotone ==
    ASSUME NEW a \in Int, NEW b \in Int, a <= b
    PROVE  a \div FrameSize <= b \div FrameSize
BY VMEAssumption

\* Where pages are mapped their addresses are in regions.
LEMMA MappedCovers ==
    ASSUME Lists, NEW lo \in Int, NEW size \in Nat, Mapped(lo, size),
           NEW va \in lo..(lo + size - 1)
    PROVE  \E e \in ToSet(entries) : Covers(e, va)
<1>1. PICK page \in Int : page = va \div FrameSize
    BY PageOf
<1>2. page \in (lo \div FrameSize)..((lo + size - 1) \div FrameSize)
    <2>1. lo \in Int /\ va \in Int /\ lo + size - 1 \in Int
        OBVIOUS
    <2>2. lo <= va /\ va <= lo + size - 1
        OBVIOUS
    <2>3. /\ lo \div FrameSize <= page /\ page <= (lo + size - 1) \div FrameSize
        BY <1>1, <2>1, <2>2, PageMonotone
    <2>4. lo \div FrameSize \in Int /\ (lo + size - 1) \div FrameSize \in Int
        BY <2>1, PageOf
    <2> QED
        BY <2>3, <2>4
<1>3. PICK i \in DOMAIN entries :
            entries[i].start <= page * FrameSize /\ page * FrameSize < End(entries[i])
    BY <1>2 DEF Mapped
<1>4. entries \in Seq(Regs)
    BY DEF Lists
<1>5. PICK r \in Regs : r = entries[i] /\ r \in ToSet(entries)
    BY <1>3, <1>4 DEF ToSet
<1>6. r.start <= page * FrameSize /\ page * FrameSize < Hi(r)
    BY <1>3, <1>5, RegBounds
<1>7. va \in Int /\ page * FrameSize <= va /\ va < page * FrameSize + FrameSize
    BY <1>1, PageOf
<1>8. Covers(r, va)
    BY <1>6, <1>7, PageIn
<1> QED
    BY <1>5, <1>8

-----------------------------------------------------------------------------
(* Every step keeps it *)

\* What belongs to the kernel stays when a region is added, and what is
\* added for the kernel belongs to it.
LEMMA AddKept ==
    ASSUME VInv, NEW size \in Uint32, NEW user \in BOOLEAN, Add(size, user), ~wrapped'
    PROVE  /\ VInv'
           /\ \A e \in ToSet(entries) : e \in ToSet(entries')
           /\ \A e \in ToSet(entries') : e \in ToSet(entries) \/ e.user = user
<1>1. VInv' /\ \/ UNCHANGED vme
               \/ \E t : t.user = user /\ t.pages = RequiredPages(size) /\ Gains(t)
    BY AddKeeps
<1>2. CASE UNCHANGED vme
    BY <1>1, <1>2 DEF vme
<1>3. CASE \E t : t.user = user /\ t.pages = RequiredPages(size) /\ Gains(t)
    BY <1>1, <1>3 DEF Gains
<1> QED
    BY <1>1, <1>2, <1>3

\* Addresses that are kept stay so as long as the kernel's regions are there.
LEMMA KeptStays ==
    ASSUME \A e \in ToSet(entries) : ~ e.user => e \in ToSet(entries'),
           NEW va, Kept(va)
    PROVE  Kept(va)'
<1>1. PICK e \in ToSet(entries) : ~ e.user /\ Covers(e, va)
    BY DEF Kept
<1>2. e \in ToSet(entries') /\ ~ e.user /\ Covers(e, va)
    BY <1>1
<1>3. \E x \in ToSet(entries') : ~ x.user /\ Covers(x, va)
    BY <1>2
<1> QED
    BY <1>3 DEF Kept, Covers

\* A step that changes at most the regions, and no region of the kernel,
\* keeps what is said of the segments and of the stack.
LEMMA LoadedStays ==
    ASSUME SegmentsKept, StackThere,
           \A e \in ToSet(entries) : ~ e.user => e \in ToSet(entries'),
           mode' = mode, UNCHANGED loading
    PROVE  SegmentsKept' /\ StackThere'
<1>1. loaded' = loaded /\ stack' = stack
    BY DEF loading
<1>2. SegmentsKept'
    <2>1. ASSUME mode \in {"segment", "mmap", "read", "args", "user"},
                 NEW h \in loaded, NEW va \in Bytes(h)
          PROVE  Kept(va)'
        <3>1. Kept(va)
            BY <2>1 DEF SegmentsKept
        <3> QED
            BY <3>1, KeptStays
    <2>2. mode \in {"segment", "mmap", "read", "args", "user"} =>
                \A h \in loaded : \A va \in Bytes(h) :
                    \E e \in ToSet(entries') : ~ e.user /\ Covers(e, va)
        BY <2>1 DEF Kept, Covers
    <2> QED
        BY <1>1, <2>2 DEF SegmentsKept, Kept, Bytes, ZeroAt, ZeroLen, Covers
<1>3. StackThere'
    <2>1. ASSUME mode \in {"args", "user"}, stack # 0
          PROVE  \E e \in ToSet(entries') : /\ ~ e.user /\ e.start = stack
                                            /\ Hi(e) = stack + StackSize
        <3>1. PICK e \in ToSet(entries) : /\ ~ e.user /\ e.start = stack
                                          /\ Hi(e) = stack + StackSize
            BY <2>1 DEF StackThere
        <3> QED
            BY <3>1
    <2> QED
        BY <1>1, <2>1 DEF StackThere, Hi, Bytes, ZeroAt, ZeroLen
<1> QED
    BY <1>2, <1>3

\* execl begins with an empty address space.
LEMMA ExecKeeps ==
    ASSUME NEW f \in Programs, NEW a \in ArgLists, Exec(f, a)
    PROVE  LoadInv' /\ ToSet(entries') = {}
<1>1. /\ avail' = Base /\ entries' = <<>> /\ free_entries' = <<>> /\ wrapped' = FALSE
      /\ argv' = a /\ stack' = 0 /\ esp' = 0 /\ loaded' = {}
      /\ headers' = f.headers
      /\ mode' = IF f.elf THEN "segment" ELSE "panic"
    BY Zenon DEF Exec, ReadHeader
<1>2. VInv' /\ ToSet(entries') = {}
    <2>1. (avail = Base /\ entries = <<>> /\ free_entries = <<>>)'
        BY <1>1
    <2>2. (VInv /\ ToSet(entries) = {})'
        BY <2>1, EmptyArea, PTL
    <2> QED
        BY <2>2
<1>3. mode' \in {"segment", "panic"}
    BY <1>1
<1>4. Modes' /\ AtSegment' /\ StackThere' /\ NoEsp'
    BY <1>1, <1>3 DEF Modes, AtSegment, StackThere, NoEsp
<1>5. KernelOnly' /\ SegmentsKept'
    BY <1>1, <1>2 DEF KernelOnly, SegmentsKept
<1>6. ArgsInStack'
    BY <1>1 DEF ArgsInStack
<1>7. LoadTypes'
    <2>1. f.headers \in Seq(HeaderType) /\ a \in Seq(Nat)
        BY LoadingAssumption
    <2> QED
        BY <1>1, <2>1 DEF LoadTypes
<1> QED
    BY <1>1, <1>2, <1>4, <1>5, <1>6, <1>7 DEF LoadInv

\* The next header, if there is one, and those behind it.
LEMMA HeadOf ==
    ASSUME LoadTypes, headers # <<>>
    PROVE  /\ Head(headers) = headers[1] /\ Head(headers) \in HeaderType
           /\ Tail(headers) \in Seq(HeaderType)
BY HeadTailProperties DEF LoadTypes

\* A header that is passed over changes nothing else.
LEMMA SegmentSkipKeeps ==
    ASSUME LoadInv, SegmentSkip
    PROVE  LoadInv'
<1>1. /\ mode = "segment" /\ headers # <<>>
      /\ headers' = Tail(headers)
      /\ UNCHANGED <<vme, mode, argv, stack, esp, loaded>>
    BY Zenon DEF SegmentSkip
<1>2. /\ wrapped' = wrapped
      /\ avail' = avail /\ entries' = entries /\ free_entries' = free_entries
      /\ mode' = mode /\ argv' = argv /\ stack' = stack /\ esp' = esp
      /\ loaded' = loaded
    BY <1>1 DEF vme
<1>3. LoadTypes
    BY DEF LoadInv
<1>4. LoadTypes'
    BY <1>1, <1>2, <1>3, HeadOf DEF LoadTypes
<1>5. AtSegment'
    BY <1>1, <1>2 DEF AtSegment
<1>6. VInv'
    BY <1>2 DEF LoadInv, VInv, AreaBounds, Lists, Tiles
<1>7. Modes' /\ KernelOnly' /\ SegmentsKept' /\ StackThere' /\ NoEsp'
    BY <1>2 DEF LoadInv, Modes, KernelOnly, SegmentsKept, StackThere, NoEsp, Kept
<1>8. ArgsInStack'
    BY <1>1, <1>2 DEF ArgsInStack
<1> QED
    BY <1>2, <1>4, <1>5, <1>6, <1>7, <1>8 DEF LoadInv

\* A segment outside the area ends it all.
LEMMA SegmentPanicsKeeps ==
    ASSUME LoadInv, SegmentPanics
    PROVE  LoadInv'
<1>1. mode = "segment" /\ mode' = "panic" /\ UNCHANGED <<vme, loading>>
    BY Zenon DEF SegmentPanics
<1>2. /\ wrapped' = wrapped
      /\ avail' = avail /\ entries' = entries /\ free_entries' = free_entries
      /\ headers' = headers /\ argv' = argv /\ stack' = stack /\ esp' = esp
      /\ loaded' = loaded
    BY <1>1 DEF vme, loading
<1>3. VInv'
    BY <1>2 DEF LoadInv, VInv, AreaBounds, Lists, Tiles
<1>4. LoadTypes'
    BY <1>2 DEF LoadInv, LoadTypes
<1>5. Modes' /\ AtSegment' /\ KernelOnly' /\ SegmentsKept' /\ StackThere' /\ ArgsInStack'
    BY <1>1 DEF Modes, AtSegment, KernelOnly, SegmentsKept, StackThere, ArgsInStack
<1>6. NoEsp'
    BY <1>1, <1>2 DEF LoadInv, NoEsp
<1> QED
    BY <1>2, <1>3, <1>4, <1>5, <1>6 DEF LoadInv

\* A call of mmap while the program is loaded: what is loaded stays.
LEMMA LoadMmapKeeps ==
    ASSUME LoadInv, mode \in {"segment", "mmap"}, mode' \in {"mmap", "read"},
           headers # <<>>, headers[1].type = 1,
           NEW size \in Uint32, Add(size, FALSE) \/ UNCHANGED vme,
           UNCHANGED loading, ~wrapped'
    PROVE  LoadInv'
<1>1. /\ headers' = headers /\ argv' = argv /\ stack' = stack /\ esp' = esp
      /\ loaded' = loaded
    BY DEF loading
<1>2. VInv
    BY DEF LoadInv
<1>3. /\ VInv'
      /\ \A e \in ToSet(entries) : e \in ToSet(entries')
      /\ \A e \in ToSet(entries') : e \in ToSet(entries) \/ e.user = FALSE
    <2>1. CASE Add(size, FALSE)
        <3>1. FALSE \in BOOLEAN
            OBVIOUS
        <3> QED
            BY <1>2, <2>1, <3>1, AddKept
    <2>2. CASE UNCHANGED vme
        BY <1>2, <2>2 DEF vme, VInv, AreaBounds, Lists, Tiles
    <2> QED
        BY <2>1, <2>2
<1>4. KernelOnly'
    <2>1. \A e \in ToSet(entries) : ~ e.user
        BY DEF LoadInv, KernelOnly
    <2> QED
        BY <1>3, <2>1 DEF KernelOnly
<1>5. SegmentsKept'
    <2>1. ASSUME NEW h \in loaded, NEW va \in Bytes(h)
          PROVE  Kept(va)'
        <3>1. Kept(va)
            BY <2>1 DEF LoadInv, SegmentsKept
        <3> QED
            BY <1>3, <3>1, KeptStays
    <2>2. \A h \in loaded : \A va \in Bytes(h) :
                \E e \in ToSet(entries') : ~ e.user /\ Covers(e, va)
        BY <2>1 DEF Kept, Covers
    <2> QED
        BY <1>1, <2>2 DEF SegmentsKept, Kept, Bytes, ZeroAt, ZeroLen, Covers
<1>6. LoadTypes'
    BY <1>1 DEF LoadInv, LoadTypes
<1>7. Modes' /\ AtSegment' /\ StackThere' /\ ArgsInStack'
    BY <1>1 DEF Modes, AtSegment, StackThere, ArgsInStack
<1>8. NoEsp'
    BY <1>1 DEF LoadInv, NoEsp
<1> QED
    BY <1>3, <1>4, <1>5, <1>6, <1>7, <1>8 DEF LoadInv

\* The gap in front of a segment.
LEMMA SegmentGapKeeps ==
    ASSUME LoadInv, SegmentGap, ~wrapped'
    PROVE  LoadInv' /\ (UNCHANGED vme \/ \E size \in Uint32 : Add(size, FALSE))
<1>1. /\ mode = "segment" /\ headers # <<>> /\ Head(headers).type = 1
      /\ ~Outside(Head(headers))
      /\ IF Head(headers).vaddr > Base THEN Add(Head(headers).vaddr - Base, FALSE)
         ELSE UNCHANGED vme
      /\ mode' = "mmap"
      /\ UNCHANGED loading
    BY Zenon DEF SegmentGap
<1>2. LoadTypes
    BY DEF LoadInv
<1>3. Head(headers) = headers[1] /\ Head(headers) \in HeaderType
    BY <1>1, <1>2, HeadOf
<1>4. PICK size : size = Head(headers).vaddr - Base
    OBVIOUS
<1>5. size \in Uint32
    BY <1>1, <1>3, <1>4, PageFits DEF HeaderType, Uint32, Outside
<1>6. Add(size, FALSE) \/ UNCHANGED vme
    BY <1>1, <1>4
<1> QED
    BY <1>1, <1>3, <1>5, <1>6, LoadMmapKeeps

\* The segment itself.
LEMMA SegmentMmapKeeps ==
    ASSUME LoadInv, SegmentMmap, ~wrapped'
    PROVE  LoadInv' /\ \E size \in Uint32 : Add(size, FALSE)
<1>1. /\ mode = "mmap" /\ mode' = "read"
      /\ Add(Head(headers).memsz, FALSE)
      /\ UNCHANGED loading
    BY Zenon DEF SegmentMmap
<1>2. LoadTypes /\ headers # <<>> /\ headers[1].type = 1
    BY <1>1 DEF LoadInv, AtSegment
<1>3. Head(headers) = headers[1] /\ Head(headers) \in HeaderType
    BY <1>2, HeadOf
<1>4. PICK size : size = Head(headers).memsz
    OBVIOUS
<1>5. size \in Uint32
    BY <1>3, <1>4 DEF HeaderType
<1>6. Add(size, FALSE)
    BY <1>1, <1>4
<1> QED
    BY <1>1, <1>2, <1>5, <1>6, LoadMmapKeeps

\* A thread that goes on has written to regions.
LEMMA WriteGoesOn ==
    ASSUME NEW lo \in Nat, NEW size \in Nat, NEW next,
           Write(lo, size, next) = "segment"
    PROVE  next = "segment" /\ (size > 0 => Mapped(lo, size))
<1>1. CASE size > 0 /\ lo < Base
    <2>1. Write(lo, size, next) = "kernel written"
        BY <1>1, PageFits DEF Write
    <2> QED
        BY <2>1
<1>2. CASE size > 0 /\ lo >= Base /\ ~Mapped(lo, size)
    <2>1. Write(lo, size, next) = "dead"
        BY <1>2, PageFits DEF Write
    <2> QED
        BY <2>1
<1>3. CASE ~ (size > 0) \/ (lo >= Base /\ Mapped(lo, size))
    <2>1. Write(lo, size, next) = next
        BY <1>3, PageFits DEF Write
    <2> QED
        BY <1>3, <2>1
<1> QED
    BY <1>1, <1>2, <1>3, PageFits

\* Otherwise it ends.
LEMMA WriteEnds ==
    ASSUME NEW lo, NEW size, NEW next
    PROVE  Write(lo, size, next) \in {"kernel written", "dead", next}
BY Zenon DEF Write

\* Where a thread has written and gone on the kernel has regions.
LEMMA WrittenKept ==
    ASSUME Lists, NEW lo \in Nat, NEW size \in Nat, size > 0 => Mapped(lo, size),
           \A e \in ToSet(entries) : ~ e.user,
           NEW va \in lo..(lo + size - 1)
    PROVE  Kept(va)
<1>1. size > 0
    OBVIOUS
<1>2. PICK e \in ToSet(entries) : Covers(e, va)
    BY <1>1, MappedCovers
<1> QED
    BY <1>2 DEF Kept

\* A segment is read where regions of the kernel hold all of it.
LEMMA SegmentReadKeeps ==
    ASSUME LoadInv, SegmentRead
    PROVE  LoadInv'
<1> DEFINE h == Head(headers)
<1>1. /\ mode = "read"
      /\ mode' = Write(h.vaddr, h.held, Write(ZeroAt(h), ZeroLen(h), "segment"))
      /\ headers' = Tail(headers)
      /\ loaded' = loaded \union {h}
      /\ UNCHANGED <<vme, argv, stack, esp>>
    BY Zenon DEF SegmentRead
<1>2. /\ wrapped' = wrapped
      /\ avail' = avail /\ entries' = entries /\ free_entries' = free_entries
      /\ argv' = argv /\ stack' = stack /\ esp' = esp
    BY <1>1 DEF vme
<1>3. LoadTypes /\ headers # <<>>
    BY <1>1 DEF LoadInv, AtSegment
<1>4. h \in HeaderType /\ Tail(headers) \in Seq(HeaderType)
    BY <1>3, HeadOf
<1> HIDE DEF h
<1>5. LoadTypes'
    BY <1>1, <1>2, <1>3, <1>4 DEF LoadTypes
<1>6. mode' \in {"segment", "dead", "kernel written"}
    <2>1. Write(ZeroAt(h), ZeroLen(h), "segment") \in {"kernel written", "dead", "segment"}
        BY WriteEnds
    <2>2. PICK next : next = Write(ZeroAt(h), ZeroLen(h), "segment")
        OBVIOUS
    <2>3. Write(h.vaddr, h.held, next) \in {"kernel written", "dead", next}
        BY WriteEnds
    <2> QED
        BY <1>1, <2>1, <2>2, <2>3
<1>7. SegmentsKept'
    <2>1. ASSUME mode' = "segment", NEW g \in loaded', NEW va \in Bytes(g)
          PROVE  Kept(va)
        <3>1. CASE g \in loaded
            BY <1>1, <2>1, <3>1 DEF LoadInv, SegmentsKept
        <3>2. CASE g = h
            <4>1. h.vaddr \in Nat /\ h.held \in Nat /\ ZeroAt(h) \in Nat /\ ZeroLen(h) \in Nat
                <5>1. /\ h.vaddr \in Nat /\ h.held \in Nat /\ h.filesz \in Nat
                      /\ h.memsz \in Nat /\ Word \in Nat /\ Word > 0
                    BY <1>4, PageFits DEF HeaderType, Uint32
                <5> QED
                    BY <5>1 DEF ZeroAt, ZeroLen
            <4>2. PICK next : next = Write(ZeroAt(h), ZeroLen(h), "segment")
                OBVIOUS
            <4>3. next = "segment" /\ (h.held > 0 => Mapped(h.vaddr, h.held))
                BY <1>1, <2>1, <4>1, <4>2, WriteGoesOn
            <4>4. ZeroLen(h) > 0 => Mapped(ZeroAt(h), ZeroLen(h))
                BY <4>1, <4>2, <4>3, WriteGoesOn
            <4>5. Lists /\ \A e \in ToSet(entries) : ~ e.user
                BY <1>1 DEF LoadInv, VInv, KernelOnly
            <4>6. \/ va \in h.vaddr..(h.vaddr + h.held - 1)
                  \/ va \in ZeroAt(h)..(ZeroAt(h) + ZeroLen(h) - 1)
                BY <2>1, <3>2 DEF Bytes
            <4>7. CASE va \in h.vaddr..(h.vaddr + h.held - 1)
                BY <4>1, <4>3, <4>5, <4>7, WrittenKept
            <4>8. CASE va \in ZeroAt(h)..(ZeroAt(h) + ZeroLen(h) - 1)
                BY <4>1, <4>4, <4>5, <4>8, WrittenKept
            <4> QED
                BY <4>6, <4>7, <4>8
        <3> QED
            BY <1>1, <2>1, <3>1, <3>2
    <2> QED
        BY <1>2, <1>6, <2>1 DEF SegmentsKept, Kept, Bytes, ZeroAt, ZeroLen, Covers
<1>8. VInv'
    BY <1>2 DEF LoadInv, VInv, AreaBounds, Lists, Tiles
<1>9. Modes' /\ AtSegment' /\ StackThere'
    BY <1>6 DEF Modes, AtSegment, StackThere
<1>10. KernelOnly'
    BY <1>1, <1>2 DEF LoadInv, KernelOnly
<1>11. esp' = 0
    BY <1>1, <1>2 DEF LoadInv, NoEsp
<1>12. NoEsp' /\ ArgsInStack'
    BY <1>11 DEF NoEsp, ArgsInStack
<1> QED
    BY <1>2, <1>5, <1>7, <1>8, <1>9, <1>10, <1>12 DEF LoadInv

\* The stack takes whole pages.
LEMMA StackPages ==
    /\ StackSize \in Uint32 /\ StackSize \in Nat \ {0}
    /\ RequiredPages(StackSize) \in Nat
    /\ RequiredPages(StackSize) * FrameSize = StackSize
<1>1. /\ StackSize \in Uint32 /\ StackSize \in Nat \ {0}
      /\ StackSize % FrameSize = 0 /\ FrameSize \in Nat \ {0}
    BY LoadingAssumption, PageFits DEF Uint32
<1>2. PICK num \in Int : num = RequiredPages(StackSize) * FrameSize
    BY <1>1, RequiredPagesAre
<1>3. /\ RequiredPages(StackSize) \in Nat
      /\ StackSize <= num /\ num < StackSize + FrameSize
    <2>1. ~ (StackSize + FrameSize - 1 >= Word)
        BY <1>1, LoadingAssumption, PageFits
    <2> QED
        BY <1>1, <1>2, <2>1, RequiredPagesAre
<1>4. num \in Nat /\ num % FrameSize = 0
    BY <1>1, <1>2, <1>3, AlignedIs
<1>5. num <= StackSize
    BY <1>1, <1>3, <1>4, AlignedBelow
<1> QED
    BY <1>1, <1>2, <1>3, <1>5

\* The bytes of a segment have addresses.
LEMMA SegmentBytes ==
    ASSUME NEW h \in HeaderType, NEW va \in Bytes(h)
    PROVE  va \in Int
<1>1. /\ h.vaddr \in Nat /\ h.held \in Nat /\ h.filesz \in Nat
      /\ h.memsz \in Nat /\ Word \in Nat /\ Word > 0
    BY PageFits DEF HeaderType, Uint32
<1>2. ZeroAt(h) \in Nat /\ ZeroLen(h) \in Nat
    BY <1>1 DEF ZeroAt, ZeroLen
<1> QED
    BY <1>1, <1>2 DEF Bytes

\* The stack is the region that mmap added, and lies beside the segments; or
\* there is none.
LEMMA StackKeeps ==
    ASSUME LoadInv, Stack, ~wrapped'
    PROVE  LoadInv' /\ Add(StackSize, FALSE)
<1>1. /\ mode = "segment" /\ Add(StackSize, FALSE)
      /\ stack' = IF entries' = entries THEN 0
                  ELSE (CHOOSE e \in ToSet(entries') \ ToSet(entries) : TRUE).start
      /\ mode' = "args"
      /\ UNCHANGED <<headers, argv, esp, loaded>>
    BY Zenon DEF Stack
<1>2. VInv /\ Lists /\ Tiles
    BY DEF LoadInv, VInv
<1>3. FALSE \in BOOLEAN /\ StackSize \in Uint32
    BY StackPages
<1>4. /\ VInv'
      /\ \A e \in ToSet(entries) : e \in ToSet(entries')
      /\ \A e \in ToSet(entries') : e \in ToSet(entries) \/ e.user = FALSE
    BY <1>1, <1>2, <1>3, AddKept
<1>5. KernelOnly'
    <2>1. \A e \in ToSet(entries) : ~ e.user
        BY <1>1 DEF LoadInv, KernelOnly
    <2> QED
        BY <1>4, <2>1 DEF KernelOnly
<1>6. ASSUME NEW h \in loaded, NEW va \in Bytes(h)
      PROVE  Kept(va) /\ Kept(va)'
    <2>1. Kept(va)
        BY <1>1, <1>6 DEF LoadInv, SegmentsKept
    <2> QED
        BY <1>4, <2>1, KeptStays
<1>7. SegmentsKept'
    <2>1. \A h \in loaded : \A va \in Bytes(h) :
                \E e \in ToSet(entries') : ~ e.user /\ Covers(e, va)
        BY <1>6 DEF Kept, Covers
    <2> QED
        BY <1>1, <2>1 DEF SegmentsKept, Kept, Bytes, ZeroAt, ZeroLen, Covers
<1>8. StackThere'
    <2>1. CASE UNCHANGED vme
        <3>1. stack' = 0
            BY <1>1, <2>1 DEF vme
        <3> QED
            BY <3>1 DEF StackThere
    <2>2. CASE \E t : /\ t.user = FALSE /\ t.pages = RequiredPages(StackSize)
                      /\ Gains(t)
        <3>1. PICK t : /\ t.user = FALSE /\ t.pages = RequiredPages(StackSize)
                       /\ Gains(t)
            BY <2>2
        <3>2. /\ t \in Regs
              /\ \A va \in Int : ~ (Some(entries, va) /\ Covers(t, va))
              /\ ToSet(entries') = ToSet(entries) \union {t}
            BY <3>1 DEF Gains
        <3>3. t.start \in Nat /\ Hi(t) = t.start + StackSize
            BY <3>1, <3>2, RegBounds, StackPages DEF Hi
        <3>4. Covers(t, t.start)
            BY <3>3, StackPages, CoversIs
        <3>5. t \notin ToSet(entries)
            <4>1. SUFFICES ASSUME t \in ToSet(entries)
                           PROVE  FALSE
                OBVIOUS
            <4>2. entries \in Seq(Regs)
                BY <1>2 DEF Lists
            <4>3. PICK i \in 1..Len(entries) : t = entries[i]
                BY <4>1, <4>2, ToSetIs
            <4>4. Some(entries, t.start)
                BY <3>4, <4>3 DEF Some
            <4> QED
                BY <3>2, <3>3, <3>4, <4>4
        <3>6. ToSet(entries') \ ToSet(entries) = {t} /\ entries' # entries
            BY <3>2, <3>5
        <3>7. stack' = t.start
            BY <1>1, <3>6
        <3>8. ASSUME NEW h \in loaded, NEW va \in Bytes(h)
              PROVE  ~ (stack' <= va /\ va < stack' + StackSize)
            <4>1. Kept(va)
                BY <1>6
            <4>2. PICK e \in ToSet(entries) : Covers(e, va)
                BY <4>1 DEF Kept
            <4>3. entries \in Seq(Regs)
                BY <1>2 DEF Lists
            <4>4. PICK i \in 1..Len(entries) : e = entries[i]
                BY <4>3, ToSetIs
            <4>5. Some(entries, va)
                BY <4>2, <4>4 DEF Some
            <4>6. h \in HeaderType
                BY DEF LoadInv, LoadTypes
            <4>7. va \in Int
                BY <4>6, SegmentBytes
            <4>8. ~ Covers(t, va)
                BY <3>2, <4>5, <4>7
            <4> QED
                BY <3>3, <3>7, <4>8, CoversIs
        <3>9. /\ t \in ToSet(entries') /\ ~ t.user /\ t.start = stack'
              /\ Hi(t) = stack' + StackSize
            BY <3>1, <3>2, <3>3, <3>7
        <3>10. \E e \in ToSet(entries') : /\ ~ e.user /\ e.start = stack'
                                          /\ Hi(e) = stack' + StackSize
            BY <3>9
        <3>11. loaded' = loaded
            BY <1>1
        <3> QED
            BY <3>8, <3>10, <3>11 DEF StackThere, Hi, Bytes, ZeroAt, ZeroLen
    <2> QED
        BY <1>1, <1>2, <1>3, <2>1, <2>2, AddKeeps
<1>9. LoadTypes'
    BY <1>1 DEF LoadInv, LoadTypes
<1>10. Modes' /\ AtSegment' /\ ArgsInStack'
    BY <1>1 DEF Modes, AtSegment, ArgsInStack
<1>11. NoEsp'
    BY <1>1 DEF LoadInv, NoEsp
<1> QED
    BY <1>1, <1>4, <1>5, <1>7, <1>8, <1>9, <1>10, <1>11 DEF LoadInv

\* The sum in the room of the arguments.
LEMMA ArgBytesIs == ArgBytes = Sum(argv, DOMAIN argv) + 4 * (Len(argv) + 2)
BY DEF ArgBytes, Sum

\* The arguments take some bytes, and their room is a multiple of 16 that
\* holds them.
LEMMA ArgsTake ==
    ASSUME argv \in Seq(Nat)
    PROVE  /\ ArgBytes \in Nat \ {0} /\ ArgRoom \in Nat
           /\ ArgBytes <= ArgRoom /\ ArgRoom % 16 = 0
<1>1. DOMAIN argv = 1..Len(argv) /\ Len(argv) \in Nat /\ argv \in [1..Len(argv) -> Nat]
    OBVIOUS
<1>2. IsFiniteSet(1..Len(argv))
    BY <1>1, FS_Interval
<1>3. Sum(argv, 1..Len(argv)) \in Nat
    BY <1>1, <1>2, SumNat
<1>4. ArgBytes = Sum(argv, DOMAIN argv) + 4 * (Len(argv) + 2)
    BY ArgBytesIs
<1>5. ArgBytes \in Nat \ {0}
    BY <1>1, <1>3, <1>4
<1>6. PICK b \in Nat : b = ArgBytes
    BY <1>5
<1>7. ArgRoom = 4 * (((b + 15) \div 16) * 16)
    BY <1>6 DEF ArgRoom
<1>8. /\ ArgRoom \in Nat /\ b <= ArgRoom /\ ArgRoom % 16 = 0
    BY <1>7
<1> QED
    BY <1>5, <1>6, <1>8

\* Where the arguments do not change neither does their room.
LEMMA ArgsStay ==
    ASSUME argv' = argv
    PROVE  ArgBytes' = ArgBytes /\ ArgRoom' = ArgRoom
<1>1. ArgBytes = Sum(argv, DOMAIN argv) + 4 * (Len(argv) + 2)
    BY ArgBytesIs
<1>2. ArgBytes' = Sum(argv', DOMAIN argv') + 4 * (Len(argv') + 2)
    <2>1. (ArgBytes = Sum(argv, DOMAIN argv) + 4 * (Len(argv) + 2))'
        BY ArgBytesIs, PTL
    <2> QED
        BY <2>1
<1>3. ArgBytes' = ArgBytes
    BY <1>1, <1>2
<1> QED
    BY <1>3 DEF ArgRoom

\* A page boundary is a multiple of 16.
LEMMA PageOf16 ==
    ASSUME NEW a \in Nat, a % FrameSize = 0
    PROVE  a % 16 = 0
<1>1. PICK num \in Nat : a = num * FrameSize
    BY AlignedIs
<1>2. FrameSize \in Nat /\ FrameSize % 16 = 0
    BY VMEAssumption, LoadingAssumption
<1>3. PICK m \in Nat : FrameSize = 16 * m
    <2>1. FrameSize \div 16 \in Nat /\ FrameSize = 16 * (FrameSize \div 16)
        BY <1>2
    <2> QED
        BY <2>1
<1>4. a = 16 * (num * m) /\ num * m \in Nat
    BY <1>1, <1>3
<1> QED
    BY <1>4

\* The pages of a piece of a region are mapped.
LEMMA PieceMapped ==
    ASSUME Lists, NEW e \in ToSet(entries), NEW lo \in Nat, NEW size \in Nat \ {0},
           e.start <= lo, lo + size <= Hi(e)
    PROVE  Mapped(lo, size)
<1>1. entries \in Seq(Regs)
    BY DEF Lists
<1>2. PICK i \in 1..Len(entries) : e = entries[i]
    BY <1>1, ToSetIs
<1>3. e \in Regs /\ i \in DOMAIN entries
    BY <1>1, <1>2
<1>4. /\ e.start \in Nat /\ e.start % FrameSize = 0 /\ Hi(e) \in Nat
      /\ End(e) = Hi(e) /\ FrameSize \in Nat \ {0}
    BY <1>3, RegBounds, VMEAssumption DEF Regs, InArea
<1>5. PICK num \in Nat : e.start = num * FrameSize
    BY <1>4, AlignedIs
<1>6. ASSUME NEW page \in (lo \div FrameSize)..((lo + size - 1) \div FrameSize)
      PROVE  e.start <= page * FrameSize /\ page * FrameSize < End(e)
    <2>1. /\ lo \div FrameSize \in Int
          /\ lo < (lo \div FrameSize) * FrameSize + FrameSize
        BY PageOf
    <2>2. /\ (lo + size - 1) \div FrameSize \in Int
          /\ ((lo + size - 1) \div FrameSize) * FrameSize <= lo + size - 1
        BY PageOf
    <2>3. PICK a \in Int, b \in Int :
                a = lo \div FrameSize /\ b = (lo + size - 1) \div FrameSize
        BY <2>1, <2>2
    <2>4. page \in Int /\ a <= page /\ page <= b
        BY <2>3
    <2>5. num * FrameSize < (a + 1) * FrameSize
        <3>1. (a + 1) * FrameSize = a * FrameSize + FrameSize /\ a * FrameSize \in Int
            BY <1>4
        <3>2. PICK x \in Int, y \in Int : x = a * FrameSize /\ y = num * FrameSize
            BY <1>4, <3>1
        <3>3. y <= lo /\ lo < x + FrameSize
            BY <1>5, <2>1, <2>3, <3>2
        <3>4. y < x + FrameSize
            BY <1>4, <3>3
        <3> QED
            BY <3>1, <3>2, <3>4
    <2>6. num < a + 1
        BY <2>5, PagesOrder
    <2>7. ~ (page < num) /\ ~ (b < page)
        BY <2>3, <2>4, <2>6
    <2>8. ~ (page * FrameSize < num * FrameSize) /\ ~ (b * FrameSize < page * FrameSize)
        BY <2>4, <2>7, PagesOrder
    <2>9. PICK p \in Int, x \in Int, y \in Int :
                p = page * FrameSize /\ x = num * FrameSize /\ y = b * FrameSize
        BY <1>4, <2>4
    <2>10. ~ (p < x) /\ ~ (y < p) /\ x = e.start /\ y <= lo + size - 1
        BY <1>5, <2>2, <2>3, <2>8, <2>9
    <2>11. x <= p /\ p < Hi(e)
        <3>1. PICK f \in Nat, n0 \in Nat, hi \in Nat :
                    f = lo /\ n0 = size /\ hi = Hi(e)
            BY <1>4
        <3>2. f + n0 <= hi /\ y <= f + n0 - 1
            BY <2>10, <3>1
        <3> QED
            BY <2>9, <2>10, <3>1, <3>2
    <2> QED
        BY <1>4, <2>9, <2>10, <2>11
<1> QED
    BY <1>2, <1>3, <1>6 DEF Mapped

\* load_args puts the arguments into the stack if there is one that is large
\* enough.
LEMMA LoadArgsFit ==
    ASSUME LoadInv, LoadArgs, stack # 0, ArgRoom + 16 <= StackSize
    PROVE  /\ mode' = "user" /\ esp' % 16 = 0
           /\ esp' \in Nat /\ stack \in Nat
           /\ stack <= esp' /\ esp' + ArgBytes <= stack + StackSize
<1> DEFINE at == stack + StackSize - 16 - ArgRoom
<1>1. /\ mode = "args" /\ esp' = at % Word
      /\ mode' = Write(at % Word, ArgBytes, "user")
    BY Zenon DEF LoadArgs
<1>2. PICK e \in ToSet(entries) : e.start = stack /\ Hi(e) = stack + StackSize
    BY <1>1 DEF LoadInv, StackThere
<1>3. Lists /\ entries \in Seq(Regs)
    BY DEF LoadInv, VInv, Lists
<1>4. e \in Regs
    <2>1. PICK i \in 1..Len(entries) : e = entries[i]
        BY <1>3, ToSetIs
    <2> QED
        BY <1>3, <2>1
<1>5. /\ stack \in Nat /\ Base <= stack /\ stack + StackSize <= Limit
      /\ stack % FrameSize = 0
    BY <1>2, <1>4, RegBounds DEF Regs, InArea
<1>6. /\ ArgBytes \in Nat \ {0} /\ ArgRoom \in Nat
      /\ ArgBytes <= ArgRoom /\ ArgRoom % 16 = 0
    BY ArgsTake DEF LoadInv, LoadTypes
<1>7. /\ StackSize \in Nat /\ StackSize % FrameSize = 0 /\ Word \in Nat
      /\ Limit \in Nat /\ Limit < Word /\ Base \in Nat
    BY StackPages, LoadingAssumption, VMEAssumption
<1>8. stack % 16 = 0 /\ StackSize % 16 = 0
    BY <1>5, <1>7, PageOf16
<1>9. /\ at \in Nat /\ stack <= at /\ at + ArgBytes <= stack + StackSize
      /\ at < Word /\ Base <= at
    BY <1>5, <1>6, <1>7
<1>10. at % 16 = 0
    BY <1>5, <1>6, <1>7, <1>8, <1>9
<1> HIDE DEF at
<1>11. at % Word = at
    BY <1>7, <1>9
<1>12. Mapped(at, ArgBytes)
    BY <1>2, <1>3, <1>6, <1>9, PieceMapped
<1>13. ~ (at % Word < Base)
    BY <1>7, <1>9, <1>11
<1>14. mode' = "user"
    BY <1>1, <1>11, <1>12, <1>13 DEF Write
<1> QED
    BY <1>1, <1>5, <1>9, <1>10, <1>11, <1>14

\* load_args keeps the invariant.
LEMMA LoadArgsKeeps ==
    ASSUME LoadInv, LoadArgs
    PROVE  LoadInv'
<1>1. /\ mode = "args" /\ UNCHANGED <<vme, headers, argv, stack, loaded>>
      /\ mode' = Write((stack + StackSize - 16 - ArgRoom) % Word, ArgBytes, "user")
    BY Zenon DEF LoadArgs
<1>2. mode' \in {"user", "dead", "kernel written"}
    BY <1>1, WriteEnds
<1>3. /\ wrapped' = wrapped
      /\ avail' = avail /\ entries' = entries /\ free_entries' = free_entries
      /\ headers' = headers /\ argv' = argv /\ stack' = stack /\ loaded' = loaded
    BY <1>1 DEF vme
<1>4. VInv'
    BY <1>3 DEF LoadInv, VInv, AreaBounds, Lists, Tiles
<1>5. LoadTypes'
    BY <1>3 DEF LoadInv, LoadTypes
<1>6. Modes' /\ AtSegment' /\ KernelOnly' /\ NoEsp'
    BY <1>2 DEF Modes, AtSegment, KernelOnly, NoEsp
<1>7. SegmentsKept' /\ StackThere'
    BY <1>1, <1>3 DEF LoadInv, SegmentsKept, StackThere, Kept
<1>8. ArgsInStack'
    <2>1. ArgBytes' = ArgBytes /\ ArgRoom' = ArgRoom
        BY <1>3, ArgsStay
    <2>2. ASSUME stack # 0, ArgRoom + 16 <= StackSize
          PROVE  /\ mode' = "user" /\ esp' % 16 = 0
                 /\ stack <= esp' /\ esp' + ArgBytes <= stack + StackSize
                 /\ \A h \in loaded : Bytes(h) \cap esp'..(esp' + ArgBytes - 1) = {}
        <3>1. /\ mode' = "user" /\ esp' % 16 = 0
              /\ esp' \in Nat /\ stack \in Nat
              /\ stack <= esp' /\ esp' + ArgBytes <= stack + StackSize
            BY <2>2, LoadArgsFit
        <3>2. ArgBytes \in Nat /\ StackSize \in Nat
            BY ArgsTake, StackPages DEF LoadInv, LoadTypes
        <3>3. ASSUME NEW h \in loaded, NEW va \in Bytes(h),
                     va \in esp'..(esp' + ArgBytes - 1)
              PROVE  FALSE
            <4>1. ~ (stack <= va /\ va < stack + StackSize)
                BY <1>1, <2>2, <3>3 DEF LoadInv, StackThere
            <4>2. PICK x \in Nat, num \in Nat, s \in Nat, t \in Nat :
                        x = esp' /\ num = ArgBytes /\ s = stack /\ t = StackSize
                BY <3>1, <3>2
            <4>3. va \in x..(x + num - 1)
                BY <3>3, <4>2
            <4>4. s <= x /\ x + num <= s + t
                BY <3>1, <4>2
            <4>5. ~ (s <= va /\ va < s + t)
                BY <4>1, <4>2
            <4> QED
                BY <4>3, <4>4, <4>5
        <3> QED
            BY <3>1, <3>3
    <2> QED
        BY <1>3, <2>1, <2>2 DEF ArgsInStack, Bytes, ZeroAt, ZeroLen
<1> QED
    BY <1>3, <1>4, <1>5, <1>6, <1>7, <1>8 DEF LoadInv

\* A system call of the running program that leaves the kernel's regions.
LEMMA CallKeeps ==
    ASSUME LoadInv, VInv', ~wrapped', mode = "user",
           \A e \in ToSet(entries) : ~ e.user => e \in ToSet(entries'),
           UNCHANGED <<mode, loading>>
    PROVE  LoadInv'
<1>1. /\ mode' = mode /\ UNCHANGED loading
      /\ headers' = headers /\ argv' = argv /\ stack' = stack /\ esp' = esp
      /\ loaded' = loaded
    BY DEF loading
<1>2. SegmentsKept' /\ StackThere'
    BY <1>1, LoadedStays DEF LoadInv
<1>3. Modes' /\ AtSegment' /\ KernelOnly' /\ NoEsp'
    BY <1>1 DEF Modes, AtSegment, KernelOnly, NoEsp
<1>4. LoadTypes'
    BY <1>1 DEF LoadInv, LoadTypes
<1>5. ArgBytes' = ArgBytes /\ ArgRoom' = ArgRoom
    BY <1>1, ArgsStay
<1>6. ArgsInStack'
    BY <1>1, <1>5 DEF LoadInv, ArgsInStack, Bytes, ZeroAt, ZeroLen
<1> QED
    BY <1>2, <1>3, <1>4, <1>6 DEF LoadInv

\* mmap of the program.
LEMMA MmapKeeps ==
    ASSUME LoadInv, NEW size \in Sizes, Mmap(size), ~wrapped'
    PROVE  LoadInv' /\ size \in Uint32 /\ Add(size, TRUE)
<1>1. mode = "user" /\ Add(size, TRUE) /\ UNCHANGED <<mode, loading>>
    BY Zenon DEF Mmap
<1>2. size \in Uint32 /\ TRUE \in BOOLEAN
    BY VMEAssumption DEF Uint32
<1>3. VInv' /\ \A e \in ToSet(entries) : e \in ToSet(entries')
    BY <1>1, <1>2, AddKept DEF LoadInv
<1>4. LoadInv'
    BY <1>1, <1>3, CallKeeps
<1> QED
    BY <1>1, <1>2, <1>4

\* munmap of the program.
LEMMA UnmapKeeps ==
    ASSUME LoadInv, NEW va \in Probes, Unmap(va)
    PROVE  /\ LoadInv'
           /\ \E e \in ToSet(entries) : ToSet(entries') = ToSet(entries) \ {e}
<1>1. mode = "user" /\ Munmap(va, TRUE) /\ UNCHANGED <<mode, loading>>
    BY Zenon DEF Unmap
<1>7. ~wrapped'
    BY <1>1, Zenon DEF Munmap, LoadInv
<1>2. va \in Int /\ TRUE \in BOOLEAN
    BY DEF Probes
<1>3. VInv' /\ \E e \in ToSet(entries) : /\ ToSet(entries') = ToSet(entries) \ {e}
                                         /\ TRUE => e.user
    BY <1>1, <1>2, MunmapKeeps DEF LoadInv
<1>4. PICK e \in ToSet(entries) : ToSet(entries') = ToSet(entries) \ {e} /\ e.user
    BY <1>3
<1>5. \A x \in ToSet(entries) : ~ x.user => x \in ToSet(entries')
    BY <1>4
<1>6. LoadInv'
    BY <1>1, <1>3, <1>5, <1>7, CallKeeps
<1> QED
    BY <1>4, <1>6

\* In the beginning nothing is mapped and nothing loaded.
LEMMA InitHolds == Init => LoadInv /\ ToSet(entries) = {}
<1> SUFFICES ASSUME Init
             PROVE  LoadInv /\ ToSet(entries) = {}
    OBVIOUS
<1>1. /\ avail = Base /\ entries = <<>> /\ free_entries = <<>> /\ wrapped = FALSE
      /\ mode = "boot" /\ headers = <<>> /\ argv = <<>> /\ esp = 0 /\ loaded = {}
    BY DEF Init, VMEInit
<1>2. VInv /\ ToSet(entries) = {}
    BY <1>1, EmptyArea
<1>3. Modes /\ AtSegment /\ KernelOnly /\ SegmentsKept /\ StackThere /\ NoEsp
    BY <1>1 DEF Modes, AtSegment, KernelOnly, SegmentsKept, StackThere, NoEsp
<1>4. ArgsInStack
    BY <1>1 DEF ArgsInStack
<1>5. LoadTypes
    BY <1>1 DEF LoadTypes
<1> QED
    BY <1>1, <1>2, <1>3, <1>4, <1>5 DEF LoadInv

\* A step that changes nothing.
LEMMA StutterKeeps ==
    ASSUME LoadInv, UNCHANGED vars
    PROVE  LoadInv'
<1>1. /\ wrapped' = wrapped
      /\ avail' = avail /\ entries' = entries /\ free_entries' = free_entries
      /\ mode' = mode /\ headers' = headers /\ argv' = argv /\ stack' = stack
      /\ esp' = esp /\ loaded' = loaded
    BY DEF vars, vme, loading
<1>2. VInv'
    BY <1>1 DEF LoadInv, VInv, AreaBounds, Lists, Tiles
<1>3. Modes' /\ LoadTypes' /\ AtSegment' /\ KernelOnly' /\ NoEsp'
    BY <1>1 DEF LoadInv, Modes, LoadTypes, AtSegment, KernelOnly, NoEsp
<1>4. SegmentsKept' /\ StackThere'
    BY <1>1 DEF LoadInv, SegmentsKept, StackThere, Kept
<1>5. ArgBytes' = ArgBytes /\ ArgRoom' = ArgRoom
    BY <1>1, ArgsStay
<1>6. ArgsInStack'
    BY <1>1, <1>5 DEF LoadInv, ArgsInStack, Bytes, ZeroAt, ZeroLen
<1> QED
    BY <1>1, <1>2, <1>3, <1>4, <1>6 DEF LoadInv

\* Every step keeps the invariant, unless it makes a region that goes around
\* the end of the addresses.
LEMMA NextKeeps == LoadInv /\ [Next]_vars => wrapped' \/ LoadInv'
<1> SUFFICES ASSUME LoadInv, [Next]_vars, ~wrapped'
             PROVE  LoadInv'
    OBVIOUS
<1>1. ASSUME NEW f \in Programs, NEW a \in ArgLists, Exec(f, a)
      PROVE  LoadInv'
    BY <1>1, ExecKeeps
<1>2. CASE SegmentSkip
    BY <1>2, SegmentSkipKeeps
<1>3. CASE SegmentPanics
    BY <1>3, SegmentPanicsKeeps
<1>4. CASE SegmentGap
    BY <1>4, SegmentGapKeeps
<1>5. CASE SegmentMmap
    BY <1>5, SegmentMmapKeeps
<1>6. CASE SegmentRead
    BY <1>6, SegmentReadKeeps
<1>7. CASE Stack
    BY <1>7, StackKeeps
<1>8. CASE LoadArgs
    BY <1>8, LoadArgsKeeps
<1>9. ASSUME NEW size \in Sizes, Mmap(size)
      PROVE  LoadInv'
    BY <1>9, MmapKeeps
<1>10. ASSUME NEW va \in Probes, Unmap(va)
       PROVE  LoadInv'
    BY <1>10, UnmapKeeps
<1>11. CASE UNCHANGED vars
    BY <1>11, StutterKeeps
<1> QED
    BY <1>1, <1>2, <1>3, <1>4, <1>5, <1>6, <1>7, <1>8, <1>9, <1>10, <1>11 DEF Next

\* After such a step only execl is left, which begins with an empty area.
LEMMA WrappedEnds ==
    ASSUME wrapped, [Next]_vars
    PROVE  wrapped' \/ (LoadInv' /\ ToSet(entries') = {})
<1>1. CASE \E f \in Programs, a \in ArgLists : Exec(f, a)
    BY <1>1, ExecKeeps
<1>2. CASE UNCHANGED vars
    BY <1>2 DEF vars, vme
<1> QED
    BY <1>1, <1>2, Zenon DEF Next

\* The invariant of execl, of loading and of the program's calls of mmap and
\* munmap: until a region goes around the end of the addresses, and again from
\* the next execl on, every address, not of two in a page only, is in one
\* region, and what was loaded is where it was put.
THEOREM Loads == Spec => [](wrapped \/ LoadInv)
<1>1. Init => wrapped \/ LoadInv
    BY InitHolds
<1>2. (wrapped \/ LoadInv) /\ [Next]_vars => (wrapped \/ LoadInv)'
    BY NextKeeps, WrappedEnds
<1> QED
    BY <1>1, <1>2, PTL DEF Spec

-----------------------------------------------------------------------------
(* What follows from it *)

\* The number of regions that have an address.
LEMMA CoveringIs ==
    ASSUME NEW S, NEW l \in Seq(S), NEW va, Once(l, va)
    PROVE  Cardinality(Covering(l, va)) = IF Some(l, va) THEN 1 ELSE 0
<1>1. DOMAIN l = 1..Len(l)
    OBVIOUS
<1>2. CASE Some(l, va)
    <2>1. PICK i \in 1..Len(l) : Covers(l[i], va)
        BY <1>2 DEF Some
    <2>2. Covering(l, va) = {i}
        BY <1>1, <2>1 DEF Covering, Once
    <2>3. Cardinality({i}) = 1
        BY FS_Singleton
    <2> QED
        BY <1>2, <2>2, <2>3
<1>3. CASE ~ Some(l, va)
    <2>1. Covering(l, va) = {}
        BY <1>1, <1>3 DEF Covering, Some
    <2>2. Cardinality({}) = 0
        BY FS_EmptySet
    <2> QED
        BY <1>3, <2>1, <2>2
<1> QED
    BY <1>2, <1>3

\* mmap and munmap tile the area: below avail every address is in exactly
\* one region, mapped or free, above it in none, and what munmap gave back
\* piece by piece coallescing() has made one piece.
THEOREM AreaTiled == Spec => []RegionsTile
<1>1. ASSUME LoadInv
      PROVE  RegionsTile
    <2>1. AreaBounds /\ Lists /\ Tiles
        BY <1>1 DEF LoadInv, VInv
    <2>2. entries \in Seq(Regs) /\ free_entries \in Seq(Frees) /\ Apart(free_entries)
        BY <2>1 DEF Lists
    <2>3. ASSUME NEW va \in Probes
          PROVE  Cardinality(Covering(entries, va))
                    + Cardinality(Covering(free_entries, va))
                        = IF va < avail THEN 1 ELSE 0
        <3>1. va \in Int /\ Base <= va
            BY VMEAssumption DEF Probes
        <3>2. Once(entries, va) /\ Once(free_entries, va)
            BY <2>1, <2>2, <3>1, ApartOnce DEF Tiles
        <3>3. /\ Cardinality(Covering(entries, va)) = IF Some(entries, va) THEN 1 ELSE 0
              /\ Cardinality(Covering(free_entries, va))
                    = IF Some(free_entries, va) THEN 1 ELSE 0
            BY <2>2, <3>2, CoveringIs
        <3>4. /\ ~ (Some(entries, va) /\ Some(free_entries, va))
              /\ (Some(entries, va) \/ Some(free_entries, va)) <=> va < avail
            BY <2>1, <3>1 DEF Tiles
        <3> QED
            BY <3>3, <3>4
    <2>4. ASSUME NEW i \in 2..Len(free_entries)
          PROVE  Hi(free_entries[i - 1]) < free_entries[i].start
        <3>1. /\ i - 1 \in 1..Len(free_entries) /\ i \in 1..Len(free_entries)
              /\ i - 1 < i
            BY <2>2
        <3> QED
            BY <2>2, <3>1 DEF Apart
    <2> QED
        BY <2>3, <2>4 DEF RegionsTile, Hi
<1>2. wrapped \/ LoadInv => RegionsTile
    BY <1>1 DEF RegionsTile
<1> QED
    BY <1>2, Loads, PTL

\* The pages of the program and of its stack are in regions that its own
\* munmap does not remove, wherever the calls of mmap in ELF::load and execl
\* put them.
THEOREM ProgramKept == Spec => []ProgramStays
<1>1. ASSUME LoadInv
      PROVE  ProgramStays
    <2>1. entries \in Seq(Regs) /\ DOMAIN entries = 1..Len(entries)
        BY <1>1 DEF LoadInv, VInv, Lists
    <2>2. ASSUME NEW va, Kept(va)
          PROVE  \E i \in {j \in DOMAIN entries : ~ entries[j].user} :
                        Covers(entries[i], va)
        <3>1. PICK e \in ToSet(entries) : ~ e.user /\ Covers(e, va)
            BY <2>2 DEF Kept
        <3>2. PICK i \in 1..Len(entries) : e = entries[i]
            BY <2>1, ToSetIs
        <3> QED
            BY <2>1, <3>1, <3>2
    <2>3. ASSUME mode = "user", NEW h \in loaded, NEW va \in Bytes(h)
          PROVE  Kept(va)
        BY <1>1, <2>3 DEF LoadInv, SegmentsKept
    <2>4. ASSUME mode = "user", NEW va \in Probes \cap stack..(stack + StackSize - 1)
          PROVE  Kept(va)
        <3>1. va \in Int /\ Base <= va
            BY VMEAssumption DEF Probes
        <3>2. stack # 0
            <4>1. SUFFICES ASSUME stack = 0
                           PROVE  FALSE
                OBVIOUS
            <4>2. va \in 0..(0 + StackSize - 1)
                BY <2>4, <4>1
            <4> QED
                BY <3>1, <4>2, LoadingAssumption, VMEAssumption
        <3>3. PICK e \in ToSet(entries) : /\ ~ e.user /\ e.start = stack
                                          /\ Hi(e) = stack + StackSize
            BY <1>1, <2>4, <3>2 DEF LoadInv, StackThere
        <3>4. PICK i \in 1..Len(entries) : e = entries[i]
            BY <2>1, ToSetIs
        <3>5. stack \in Nat
            BY <2>1, <3>3, <3>4, RegBounds
        <3>6. StackSize \in Nat
            BY StackPages
        <3>7. stack <= va /\ va < stack + StackSize
            BY <2>4, <3>5, <3>6
        <3>8. Covers(e, va)
            BY <3>3, <3>7, CoversIs
        <3> QED
            BY <3>3, <3>8 DEF Kept
    <2> QED
        BY <2>2, <2>3, <2>4 DEF ProgramStays
<1>2. wrapped \/ LoadInv => ProgramStays
    BY <1>1 DEF ProgramStays
<1> QED
    BY <1>2, Loads, PTL

\* load_args: if there is a stack and the arguments take no more than a
\* quarter of it they lie in it and beside every segment, and the assertion
\* userEsp % 16 == 0 holds.
THEOREM ArgsPlaced == Spec => []ArgsInStack
<1>1. wrapped \/ LoadInv => ArgsInStack
    BY DEF LoadInv, ArgsInStack
<1> QED
    BY <1>1, Loads, PTL

-----------------------------------------------------------------------------
(* The promise of module Regions *)

\* What mmap adds is a region as module Regions promises it, or was there.
LEMMA AddMaps ==
    ASSUME VInv, NEW size \in Uint32, NEW user \in BOOLEAN, Add(size, user),
           ~wrapped, ~wrapped'
    PROVE  Abstract!Map \/ ToSet(entries') = ToSet(entries)
<1>1. CASE UNCHANGED vme
    BY <1>1 DEF vme
<1>2. ASSUME NEW t, Gains(t), t \notin ToSet(entries)
      PROVE  Abstract!Map
    <2>1. /\ t \in Regs
          /\ \A va \in Int : ~ (Some(entries, va) /\ Covers(t, va))
          /\ ToSet(entries') = ToSet(entries) \union {t}
        BY <1>2 DEF Gains
    <2>2. /\ t.start \in Nat /\ t.pages \in Nat /\ Hi(t) \in Nat
          /\ Base <= t.start /\ t.start <= Hi(t) /\ Hi(t) <= Limit
          /\ t \in [start : Nat, pages : Nat, user : BOOLEAN]
        BY <2>1, RegBounds DEF Regs
    <2>3. Abstract!End(t) = Hi(t)
        BY DEF Abstract!End, Hi
    <2>4. /\ Base \in Nat /\ Limit \in Nat /\ FrameSize \in Nat \ {0}
        BY VMEAssumption
    <2>5. t.pages \in 0..((Limit - Base) \div FrameSize)
        <3>1. t.pages * FrameSize \in Nat /\ Hi(t) = t.start + t.pages * FrameSize
            BY <2>2, PagesTake DEF Hi
        <3>2. PICK num \in Nat : num = t.pages * FrameSize
            BY <3>1
        <3>3. num <= Limit - Base
            BY <2>2, <2>4, <3>1, <3>2
        <3>4. /\ Limit - Base \in Int
              /\ (Limit - Base) \div FrameSize \in Int
              /\ Limit - Base < ((Limit - Base) \div FrameSize) * FrameSize + FrameSize
            BY <2>4, PageOf
        <3>5. PICK q \in Int : q = (Limit - Base) \div FrameSize
            BY <3>4
        <3>6. (q + 1) * FrameSize = q * FrameSize + FrameSize /\ q * FrameSize \in Int
            BY <2>4
        <3>7. num < (q + 1) * FrameSize
            BY <2>4, <3>3, <3>4, <3>5, <3>6
        <3>8. t.pages < q + 1
            BY <2>2, <3>2, <3>7, PagesOrder
        <3> QED
            BY <2>2, <3>5, <3>8
    <2>6. t \in Abstract!Region
        BY <2>2, <2>4, <2>5 DEF Abstract!Region
    <2>7. ASSUME NEW s \in ToSet(entries)
          PROVE  Abstract!Addresses(t) \cap Abstract!Addresses(s) = {}
        <3>1. entries \in Seq(Regs)
            BY DEF VInv, Lists
        <3>2. PICK i \in 1..Len(entries) : s = entries[i]
            BY <3>1, ToSetIs
        <3>3. s.start \in Nat /\ Hi(s) \in Nat
            BY <3>1, <3>2, RegBounds
        <3>4. /\ Abstract!Addresses(s) = s.start..(Hi(s) - 1)
              /\ Abstract!Addresses(t) = t.start..(Hi(t) - 1)
            BY DEF Abstract!Addresses, Abstract!End, Hi
        <3>5. ASSUME NEW va, va \in s.start..(Hi(s) - 1), va \in t.start..(Hi(t) - 1)
              PROVE  FALSE
            <4>1. /\ va \in Int /\ s.start <= va /\ va < Hi(s)
                  /\ t.start <= va /\ va < Hi(t)
                BY <2>2, <3>3, <3>5
            <4>2. Covers(s, va) /\ Covers(t, va)
                BY <4>1, CoversIs
            <4>3. Some(entries, va)
                BY <3>2, <4>2 DEF Some
            <4> QED
                BY <2>1, <4>1, <4>2, <4>3
        <3> QED
            BY <3>4, <3>5
    <2>8. t \in ToSet(entries') \ ToSet(entries)
        BY <1>2, <2>1
    <2> QED
        BY <2>1, <2>2, <2>3, <2>6, <2>7, <2>8 DEF Abstract!Map
<1>3. ASSUME NEW t, Gains(t), t \in ToSet(entries)
      PROVE  ToSet(entries') = ToSet(entries)
    BY <1>3 DEF Gains
<1> QED
    BY <1>1, <1>2, <1>3, AddKeeps

\* A step of a process is a step of module Regions, or changes no region.
LEMMA StepMaps ==
    ASSUME LoadInv, [Next]_vars, ~wrapped'
    PROVE  Abstract!Next \/ ToSet(entries') = ToSet(entries)
<1>0. VInv /\ ~wrapped
    BY DEF LoadInv
<1>1. ASSUME NEW f \in Programs, NEW a \in ArgLists, Exec(f, a)
      PROVE  Abstract!Next
    <2>1. ToSet(entries') = {}
        BY <1>1, ExecKeeps
    <2> QED
        BY <2>1 DEF Abstract!Next, Abstract!Clear
<1>2. ASSUME NEW size \in Uint32, NEW user \in BOOLEAN, Add(size, user)
      PROVE  Abstract!Next \/ ToSet(entries') = ToSet(entries)
    BY <1>0, <1>2, AddMaps DEF Abstract!Next
<1>3. CASE SegmentSkip \/ SegmentPanics \/ SegmentRead \/ LoadArgs \/ UNCHANGED vars
    <2>1. UNCHANGED vme
        BY <1>3, Zenon DEF SegmentSkip, SegmentPanics, SegmentRead, LoadArgs, vars
    <2> QED
        BY <2>1 DEF vme
<1>4. CASE SegmentGap
    <2>1. UNCHANGED vme \/ \E size \in Uint32 : Add(size, FALSE)
        BY <1>4, SegmentGapKeeps
    <2>2. FALSE \in BOOLEAN /\ (UNCHANGED vme => entries' = entries)
        BY DEF vme
    <2> QED
        BY <1>2, <2>1, <2>2
<1>5. CASE SegmentMmap
    <2>1. \E size \in Uint32 : Add(size, FALSE)
        BY <1>5, SegmentMmapKeeps
    <2>2. FALSE \in BOOLEAN
        OBVIOUS
    <2> QED
        BY <1>2, <2>1, <2>2
<1>6. CASE Stack
    <2>1. Add(StackSize, FALSE) /\ FALSE \in BOOLEAN
        BY <1>6, StackKeeps
    <2> QED
        BY <1>2, <2>1, StackPages
<1>7. ASSUME NEW size \in Sizes, Mmap(size)
      PROVE  Abstract!Next \/ ToSet(entries') = ToSet(entries)
    <2>1. size \in Uint32 /\ Add(size, TRUE) /\ TRUE \in BOOLEAN
        BY <1>7, MmapKeeps
    <2> QED
        BY <1>2, <2>1
<1>8. ASSUME NEW va \in Probes, Unmap(va)
      PROVE  Abstract!Next
    <2>1. \E e \in ToSet(entries) : ToSet(entries') = ToSet(entries) \ {e}
        BY <1>8, UnmapKeeps
    <2> QED
        BY <1>0, <2>1 DEF Abstract!Next, Abstract!Unmap
<1> QED
    BY <1>1, <1>3, <1>4, <1>5, <1>6, <1>7, <1>8 DEF Next

\* A region that goes around the end of the addresses breaks the promise, and
\* the next execl makes it again.
LEMMA NextMaps ==
    (wrapped \/ LoadInv) /\ [Next]_vars
        => [Abstract!Next]_<<ToSet(entries), ~wrapped>>
<1> SUFFICES ASSUME wrapped \/ LoadInv, [Next]_vars
             PROVE  \/ Abstract!Next
                    \/ ToSet(entries') = ToSet(entries) /\ (~wrapped)' = (~wrapped)
    OBVIOUS
<1>1. CASE wrapped'
    BY <1>1 DEF Abstract!Next, Abstract!Break
<1>2. CASE wrapped /\ ~wrapped'
    <2>1. ToSet(entries') = {}
        BY <1>2, WrappedEnds
    <2> QED
        BY <1>2, <2>1 DEF Abstract!Next, Abstract!Clear
<1>3. CASE LoadInv /\ ~wrapped'
    BY <1>3, StepMaps DEF LoadInv
<1> QED
    BY <1>1, <1>2, <1>3

\* mmap, munmap and execl implement module Regions: a new region lies in the
\* area and overlaps no other, and the others stay, unless a size takes avail
\* around the end of the addresses; from the next execl on it holds again.
THEOREM RegionsImplemented == Spec => AddressSpace
<1>1. Init => Abstract!Init
    BY InitHolds DEF Abstract!Init, LoadInv
<1> QED
    BY <1>1, NextMaps, Loads, PTL DEF Spec, AddressSpace, Abstract!Spec

-----------------------------------------------------------------------------
(* Reading a file.  The reference lists the leaves of the trees, the code   *)
(* computes the way to one: both are shown to name the same path.           *)

\* Quotient and remainder, for any divisor.
LEMMA DivModIs ==
    ASSUME NEW d \in Nat \ {0}, NEW a \in Nat
    PROVE  /\ a \div d \in Nat /\ a % d \in 0..(d - 1)
           /\ a = d * (a \div d) + (a % d)
OBVIOUS

\* Both are natural numbers.
LEMMA DivModNat ==
    \A d \in Nat \ {0} : \A a \in Nat : a \div d \in Nat /\ a % d \in Nat
OBVIOUS

\* There is only one pair of them.
LEMMA DivModOnly ==
    \A d \in Nat \ {0} : \A q \in Nat : \A m \in 0..(d - 1) :
        (d * q + m) \div d = q /\ (d * q + m) % d = m
OBVIOUS

\* A product is smaller only with a smaller factor.
LEMMA Smaller ==
    ASSUME NEW d \in Nat, NEW a \in Nat, NEW b \in Nat, d * a < b * d
    PROVE  a < b
<1>1. CASE a >= b
    <2>1. PICK e \in Nat : a = b + e
        <3>1. a - b \in Nat /\ a = b + (a - b)
            BY <1>1
        <3> QED
            BY <3>1
    <2>2. d * (b + e) = d * b + d * e /\ d * b = b * d
        OBVIOUS
    <2>3. d * e \in Nat /\ b * d \in Nat
        OBVIOUS
    <2> QED
        BY <2>1, <2>2, <2>3
<1> QED
    BY <1>1

\* What is smaller than the divisor.
LEMMA DivModSmall ==
    \A d \in Nat \ {0} : \A m \in 0..(d - 1) : m \div d = 0 /\ m % d = m
OBVIOUS

\* The row and the column of a position in a table of k rows of r.
LEMMA RowIs ==
    ASSUME NEW r \in Nat \ {0}, NEW k \in Nat, NEW j \in 1..(k * r)
    PROVE  /\ (j - 1) \div r \in 0..(k - 1)
           /\ (j - 1) % r \in 0..(r - 1)
<1>1. k * r \in Nat /\ j - 1 \in Nat /\ j - 1 < k * r
    OBVIOUS
<1>2. PICK q \in Nat, m \in 0..(r - 1) :
            /\ j - 1 = r * q + m
            /\ q = (j - 1) \div r /\ m = (j - 1) % r
    BY <1>1, DivModIs
<1>3. q < k
    <2>1. CASE q >= k
        <3>1. r * q >= r * k
            BY <2>1
        <3> QED
            BY <1>1, <1>2, <3>1
    <2> QED
        BY <2>1
<1> QED
    BY <1>2, <1>3

\* The function by which FlattenSeq is defined exists.
LEMMA FlattenExists ==
    ASSUME NEW s, NEW m \in Nat
    PROVE  \E f : f = [i \in 1..m |-> IF i = 1 THEN s[i] ELSE f[i - 1] \o s[i]]
<1> DEFINE Defined(x) ==
        \E f : f = [i \in 1..x |-> IF i = 1 THEN s[i] ELSE f[i - 1] \o s[i]]
           T == {x \in Nat : ~ Defined(x)}
<1> SUFFICES ASSUME m \in T
             PROVE  FALSE
    OBVIOUS
<1>1. PICK x \in T : \A y \in T : x <= y
    BY LeastNumber
<1>2. x \in Nat
    OBVIOUS
<1>3. CASE x = 0
    <2>1. PICK f : f = [i \in 1..0 |-> s[i]]
        OBVIOUS
    <2>2. f = [i \in 1..0 |-> IF i = 1 THEN s[i] ELSE f[i - 1] \o s[i]]
        BY <2>1
    <2> QED
        BY <1>3, <2>2
<1>4. CASE x # 0
    <2>1. x - 1 \in Nat /\ ~ (x <= x - 1)
        BY <1>2, <1>4
    <2>2. x - 1 \notin T
        BY <1>1, <2>1, Zenon
    <2>3. PICK g : g = [i \in 1..(x - 1) |->
                            IF i = 1 THEN s[i] ELSE g[i - 1] \o s[i]]
        BY <2>1, <2>2
    <2>4. PICK f : f = [i \in 1..x |->
                            IF i = 1 THEN s[i] ELSE g[i - 1] \o s[i]]
        OBVIOUS
    <2>5. ASSUME NEW i \in 1..(x - 1)
          PROVE  f[i] = g[i]
        <3>1. i \in 1..x
            BY <1>2
        <3>2. f[i] = IF i = 1 THEN s[i] ELSE g[i - 1] \o s[i]
            BY <2>4, <3>1
        <3>3. g[i] = IF i = 1 THEN s[i] ELSE g[i - 1] \o s[i]
            BY <2>3
        <3> QED
            BY <3>2, <3>3
    <2>6. ASSUME NEW i \in 1..x
          PROVE  f[i] = IF i = 1 THEN s[i] ELSE f[i - 1] \o s[i]
        <3>1. i # 1 => i - 1 \in 1..(x - 1)
            BY <1>2
        <3>2. i # 1 => f[i - 1] = g[i - 1]
            BY <2>5, <3>1
        <3>3. f[i] = IF i = 1 THEN s[i] ELSE g[i - 1] \o s[i]
            BY <2>4
        <3> QED
            BY <3>2, <3>3
    <2>7. f = [i \in 1..x |-> IF i = 1 THEN s[i] ELSE f[i - 1] \o s[i]]
        BY <2>4, <2>6
    <2> QED
        BY <2>7
<1> QED
    BY <1>3, <1>4

\* FlattenSeq appends the sequences one by one.
LEMMA FlattenSteps ==
    ASSUME NEW s, Len(s) \in Nat \ {0}
    PROVE  \E f : /\ f = [i \in 1..Len(s) |->
                            IF i = 1 THEN s[i] ELSE f[i - 1] \o s[i]]
                  /\ FlattenSeq(s) = f[Len(s)]
<1> DEFINE flatten == CHOOSE f : f = [i \in 1..Len(s) |->
                            IF i = 1 THEN s[i] ELSE f[i - 1] \o s[i]]
<1>1. flatten = [i \in 1..Len(s) |->
                            IF i = 1 THEN s[i] ELSE flatten[i - 1] \o s[i]]
    <2>1. \E f : f = [i \in 1..Len(s) |->
                            IF i = 1 THEN s[i] ELSE f[i - 1] \o s[i]]
        BY FlattenExists
    <2> QED
        BY <2>1
<1>2. FlattenSeq(s) = flatten[Len(s)]
    BY DEF FlattenSeq
<1> QED
    BY <1>1, <1>2

\* The positions in row number k + 1 of a table with rows of r.
LEMMA LastRow ==
    ASSUME NEW r \in Nat \ {0}, NEW k \in Nat
    PROVE  /\ k * r \in Nat /\ (k + 1) * r = k * r + r
           /\ \A j \in 1..((k + 1) * r) :
                j > k * r => (j - 1) \div r = k /\ (j - 1) % r = j - 1 - k * r
<1>1. /\ k * r \in Nat /\ (k + 1) * r = k * r + r /\ (k + 1) * r \in Nat
    OBVIOUS
<1>2. ASSUME NEW j \in 1..(k * r + r), j > k * r
      PROVE  (j - 1) \div r = k /\ (j - 1) % r = j - 1 - k * r
    <2>1. PICK p, m : p = j - 1 /\ m = j - 1 - k * r
        OBVIOUS
    <2>2. m \in 0..(r - 1) /\ p = r * k + m
        BY <1>1, <1>2, <2>1
    <2>3. p \div r = k /\ p % r = m
        BY <2>2, DivModOnly
    <2> QED
        BY <2>1, <2>3
<1> QED
    BY <1>1, <1>2

\* The blocks that the blocks of t refer to: those of the first, those of the
\* second, and so on.
LEMMA BelowIs ==
    ASSUME NEW S, Nat \subseteq S, NEW t \in Seq(Seq(S)), Len(t) # 0
    PROVE  /\ Below(t) \in Seq(Seq(S))
           /\ Len(Below(t)) = Len(t) * RefsPerBlock
           /\ \A j \in 1..(Len(t) * RefsPerBlock) :
                Below(t)[j] = Append(t[((j - 1) \div RefsPerBlock) + 1],
                                     (j - 1) % RefsPerBlock)
<1> DEFINE r == RefsPerBlock
           row(k) == [i \in 1..r |-> Append(t[k], i - 1)]
           s == [k \in DOMAIN t |-> row(k)]
           Row(j) == Append(t[((j - 1) \div r) + 1], (j - 1) % r)
<1>1. r \in Nat \ {0} /\ Len(t) \in Nat \ {0}
    BY FileReadAssumption
<1>2. ASSUME NEW k \in 1..Len(t)
      PROVE  /\ row(k) \in Seq(Seq(S)) /\ Len(row(k)) = r
             /\ \A i \in 1..r : row(k)[i] = Append(t[k], i - 1)
    <2>1. \A i \in 1..r : Append(t[k], i - 1) \in Seq(S)
        BY <1>1
    <2> QED
        BY <1>1, <2>1
<1> HIDE DEF row, r
<1>3. Len(s) = Len(t) /\ \A k \in 1..Len(t) : s[k] = row(k)
    <2>1. s = [k \in 1..Len(t) |-> row(k)]
        OBVIOUS
    <2>2. s \in Seq({row(k) : k \in 1..Len(t)})
        BY <1>1, <2>1
    <2> QED
        BY <1>1, <2>1, <2>2
<1> HIDE DEF s
<1>4. PICK f : /\ f = [i \in 1..Len(s) |-> IF i = 1 THEN s[i] ELSE f[i - 1] \o s[i]]
               /\ FlattenSeq(s) = f[Len(s)]
    BY <1>1, <1>3, FlattenSteps
<1> DEFINE Good(k) == /\ f[k] \in Seq(Seq(S)) /\ Len(f[k]) = k * r
                      /\ \A j \in 1..(k * r) : f[k][j] = Row(j)
           T == {k \in Nat : k \in 1..Len(t) /\ ~ Good(k)}
<1>5. f[1] = row(1)
      /\ \A k \in 1..Len(t) : k # 1 => f[k] = f[k - 1] \o row(k)
    <2>1. \A k \in 1..Len(t) : f[k] = IF k = 1 THEN s[k] ELSE f[k - 1] \o s[k]
        BY <1>3, <1>4
    <2>2. 1 \in 1..Len(t)
        BY <1>1
    <2> QED
        BY <1>3, <2>1, <2>2
<1>6. T = {}
    <2>1. SUFFICES ASSUME T # {}
                   PROVE  FALSE
        OBVIOUS
    <2>2. PICK k \in T : \A y \in T : k <= y
        BY <2>1, LeastNumber
    <2>3. k \in 1..Len(t) /\ ~ Good(k)
        OBVIOUS
    <2>4. k # 1
        <3>1. ASSUME NEW j \in 1..r
              PROVE  (j - 1) \div r = 0 /\ (j - 1) % r = j - 1
            <4>1. PICK p : p = j - 1
                OBVIOUS
            <4>2. p \in 0..(r - 1)
                BY <1>1, <4>1
            <4>3. p \div r = 0 /\ p % r = p
                BY <1>1, <4>2, DivModSmall
            <4> QED
                BY <4>1, <4>3
        <3>2. 1 \in 1..Len(t) /\ 1 * r = r /\ 0 + 1 = 1
            BY <1>1
        <3>3. \A j \in 1..r : row(1)[j] = Append(t[1], j - 1)
            BY <1>2, <3>2
        <3>4. \A j \in 1..r : row(1)[j] = Row(j)
            BY <3>1, <3>2, <3>3
        <3>5. Good(1)
            BY <1>2, <1>5, <3>2, <3>4
        <3> QED
            BY <2>3, <3>5
    <2>5. k - 1 \in 1..Len(t) /\ k - 1 \in Nat /\ ~ (k <= k - 1) /\ (k - 1) + 1 = k
        BY <1>1, <2>3, <2>4
    <2>6. k - 1 \notin T
        BY <2>2, <2>5, Zenon
    <2>7. Good(k - 1)
        BY <2>5, <2>6
    <2>8. PICK q \in Nat : q = k - 1
        BY <2>5
    <2>9. /\ f[q] \in Seq(Seq(S)) /\ Len(f[q]) = q * r /\ q + 1 = k
          /\ \A j \in 1..(q * r) : f[q][j] = Row(j)
        BY <2>5, <2>7, <2>8
    <2>10. f[k] = f[q] \o row(k)
        BY <1>5, <2>3, <2>4, <2>8
    <2>11. /\ q * r \in Nat /\ k * r = q * r + r
           /\ \A j \in 1..(k * r) :
                j > q * r => (j - 1) \div r = q /\ (j - 1) % r = j - 1 - q * r
        BY <1>1, <2>9, LastRow
    <2>12. PICK w \in Nat : w = q * r
        BY <2>11
    <2>13. /\ f[k] \in Seq(Seq(S)) /\ Len(f[k]) = w + r
           /\ \A j \in 1..(w + r) :
                f[k][j] = IF j <= w THEN f[q][j] ELSE row(k)[j - w]
        <3>1. PICK a, b : a = f[q] /\ b = row(k)
            OBVIOUS
        <3>2. /\ a \in Seq(Seq(S)) /\ Len(a) = w
              /\ b \in Seq(Seq(S)) /\ Len(b) = r
            BY <1>2, <2>3, <2>9, <2>12, <3>1
        <3>3. /\ a \o b \in Seq(Seq(S)) /\ Len(a \o b) = w + r
              /\ \A j \in 1..(w + r) : (a \o b)[j] = IF j <= w THEN a[j] ELSE b[j - w]
            <4> HIDE DEF Good, T
            <4>1. /\ a \o b \in Seq(Seq(S)) /\ Len(a \o b) = Len(a) + Len(b)
                  /\ \A j \in 1..(Len(a) + Len(b)) :
                        (a \o b)[j] = IF j <= Len(a) THEN a[j] ELSE b[j - Len(a)]
                BY <3>2, Appended
            <4> QED
                BY <3>2, <4>1
        <3> QED
            BY <2>10, <3>1, <3>3
    <2>14. ASSUME NEW j \in 1..(w + r)
           PROVE  f[k][j] = Row(j)
        <3>1. CASE j <= w
            <4>1. j \in 1..(q * r)
                BY <2>12, <3>1
            <4>2. f[q][j] = Row(j)
                BY <2>9, <4>1
            <4> QED
                BY <2>13, <3>1, <4>2
        <3>2. CASE ~ (j <= w)
            <4>1. j \in 1..(k * r) /\ j > q * r
                <5>1. k * r = w + r /\ q * r = w
                    BY <2>11, <2>12
                <5>2. j \in Int /\ j > w
                    BY <3>2
                <5> QED
                    BY <5>1, <5>2
            <4>2. (j - 1) \div r = q /\ (j - 1) % r = j - 1 - w
                BY <2>11, <2>12, <4>1
            <4>3. j - w \in 1..r /\ (j - w) - 1 = j - 1 - w
                BY <1>1, <3>2
            <4>4. f[k][j] = Append(t[k], j - 1 - w)
                BY <1>2, <2>3, <2>13, <3>2, <4>3
            <4> QED
                BY <2>9, <4>2, <4>4
        <3> QED
            BY <3>1, <3>2
    <2>15. Good(k)
        BY <2>11, <2>12, <2>13, <2>14
    <2> QED
        BY <2>3, <2>15
<1>7. Good(Len(t))
    <2>1. Len(t) \in Nat /\ Len(t) \in 1..Len(t)
        BY <1>1
    <2> QED
        BY <1>6, <2>1
<1>8. Below(t) = FlattenSeq(s)
    BY DEF Below, s, row, r
<1> QED
    BY <1>3, <1>4, <1>7, <1>8 DEF r

\* Three levels are all there are.
LEMMA UnderIs ==
    ASSUME NEW s
    PROVE  /\ Under(s, 1) = Below(s)
           /\ Under(s, 2) = Below(Below(s))
           /\ Under(s, 3) = Below(Below(Below(s)))
<1> DEFINE Level(g, depth) ==
        g = [d \in 0..depth |-> IF d = 0 THEN s ELSE Below(g[d - 1])]
<1>1. ASSUME NEW depth \in 1..3, NEW g, Level(g, depth)
      PROVE  g[depth] = IF depth = 1 THEN Below(s)
                        ELSE IF depth = 2 THEN Below(Below(s))
                        ELSE Below(Below(Below(s)))
    <2>1. \A d \in 0..depth : g[d] = IF d = 0 THEN s ELSE Below(g[d - 1])
        BY <1>1
    <2>2. g[0] = s /\ g[1] = Below(g[0])
        BY <2>1
    <2>3. depth >= 2 => g[2] = Below(g[1])
        BY <2>1
    <2>4. depth = 3 => g[3] = Below(g[2])
        BY <2>1
    <2> QED
        BY <2>2, <2>3, <2>4
<1>2. ASSUME NEW depth \in 1..3
      PROVE  \E g : Level(g, depth)
    <2>1. PICK g : g = [d \in 0..depth |->
                            IF d = 0 THEN s
                            ELSE IF d = 1 THEN Below(s)
                            ELSE IF d = 2 THEN Below(Below(s))
                            ELSE Below(Below(Below(s)))]
        OBVIOUS
    <2>2. ASSUME NEW d \in 0..depth
          PROVE  g[d] = IF d = 0 THEN s ELSE Below(g[d - 1])
        <3>1. d \in {0, 1, 2, 3} /\ (d # 0 => d - 1 \in 0..depth)
            OBVIOUS
        <3> QED
            BY <2>1, <3>1
    <2> QED
        BY <2>1, <2>2
<1>3. ASSUME NEW depth \in 1..3
      PROVE  Under(s, depth) = IF depth = 1 THEN Below(s)
                               ELSE IF depth = 2 THEN Below(Below(s))
                               ELSE Below(Below(Below(s)))
    <2> DEFINE level == CHOOSE g : Level(g, depth)
    <2>1. Level(level, depth)
        BY <1>2
    <2>2. Under(s, depth) = level[depth]
        BY DEF Under
    <2> HIDE DEF level, Level
    <2> QED
        BY <1>1, <2>1, <2>2
<1>4. 1 \in 1..3 /\ 2 \in 1..3 /\ 3 \in 1..3
    OBVIOUS
<1> QED
    BY <1>3, <1>4

\* What a path is made of.
Steps == Nat \union {"direct", "indirect_1", "indirect_2", "indirect_3"}

\* A sequence with one element more.
LEMMA Grown ==
    ASSUME NEW a \in Seq(Steps), NEW y \in Steps, NEW b \in Seq(Steps),
           Len(b) = Len(a) + 1, b[Len(b)] = y, \A i \in 1..Len(a) : b[i] = a[i]
    PROVE  Append(a, y) = b
<1>1. /\ Append(a, y) \in Seq(Steps) /\ Len(Append(a, y)) = Len(a) + 1
      /\ \A i \in 1..(Len(a) + 1) :
            Append(a, y)[i] = IF i <= Len(a) THEN a[i] ELSE y
    OBVIOUS
<1>2. ASSUME NEW i \in 1..(Len(a) + 1)
      PROVE  Append(a, y)[i] = b[i]
    BY <1>1
<1> QED
    BY <1>1, <1>2, SeqEqual

\* The path of a block the i-node refers to through one block of references,
LEMMA PathGrows1 ==
    ASSUME NEW x \in Steps, NEW p \in Steps
    PROVE  Append(<<x>>, p) = <<x, p>>
<1>1. PICK a, b : a = <<x>> /\ b = <<x, p>>
    OBVIOUS
<1>2. /\ a \in Seq(Steps) /\ b \in Seq(Steps) /\ Len(a) = 1 /\ Len(b) = 2
      /\ b[2] = p /\ \A i \in 1..1 : b[i] = a[i]
    BY <1>1
<1>3. /\ Len(b) = Len(a) + 1 /\ b[Len(b)] = p
      /\ \A i \in 1..Len(a) : b[i] = a[i]
    BY <1>2
<1>4. Append(a, p) = b
    BY <1>2, <1>3, Grown, Zenon
<1> QED
    BY <1>1, <1>4

\* through two,
LEMMA PathGrows2 ==
    ASSUME NEW x \in Steps, NEW p \in Steps, NEW q \in Steps
    PROVE  Append(<<x, p>>, q) = <<x, p, q>>
<1>1. PICK a, b : a = <<x, p>> /\ b = <<x, p, q>>
    OBVIOUS
<1>2. /\ a \in Seq(Steps) /\ b \in Seq(Steps) /\ Len(a) = 2 /\ Len(b) = 3
      /\ b[3] = q /\ \A i \in 1..2 : b[i] = a[i]
    BY <1>1
<1>3. /\ Len(b) = Len(a) + 1 /\ b[Len(b)] = q
      /\ \A i \in 1..Len(a) : b[i] = a[i]
    BY <1>2
<1>4. Append(a, q) = b
    BY <1>2, <1>3, Grown, Zenon
<1> QED
    BY <1>1, <1>4

\* and through three.
LEMMA PathGrows3 ==
    ASSUME NEW x \in Steps, NEW p \in Steps, NEW q \in Steps, NEW o \in Steps
    PROVE  Append(<<x, p, q>>, o) = <<x, p, q, o>>
<1>1. PICK a, b : a = <<x, p, q>> /\ b = <<x, p, q, o>>
    OBVIOUS
<1>2. /\ a \in Seq(Steps) /\ b \in Seq(Steps) /\ Len(a) = 3 /\ Len(b) = 4
      /\ b[4] = o /\ \A i \in 1..3 : b[i] = a[i]
    BY <1>1
<1>3. /\ Len(b) = Len(a) + 1 /\ b[Len(b)] = o
      /\ \A i \in 1..Len(a) : b[i] = a[i]
    BY <1>2
<1>4. Append(a, o) = b
    BY <1>2, <1>3, Grown, Zenon
<1> QED
    BY <1>1, <1>4

\* The leaves one, two and three levels under one reference of the i-node,
\* in terms of their number.
LEMMA LevelsAre ==
    ASSUME NEW x \in Steps
    PROVE  LET r == RefsPerBlock
               one == Below(<< <<x>> >>)
               two == Below(one)
               three == Below(two)
           IN  /\ one \in Seq(Seq(Steps)) /\ Len(one) = r
               /\ \A j \in 1..r : one[j] = <<x, j - 1>>
               /\ two \in Seq(Seq(Steps)) /\ Len(two) = r * r
               /\ \A j \in 1..(r * r) : two[j] = <<x, (j - 1) \div r, (j - 1) % r>>
               /\ three \in Seq(Seq(Steps)) /\ Len(three) = r * r * r
               /\ \A j \in 1..(r * r * r) :
                    three[j] = <<x, ((j - 1) \div r) \div r, ((j - 1) \div r) % r,
                                 (j - 1) % r>>
<1> DEFINE r == RefsPerBlock
           top == << <<x>> >>
           one == Below(top)
           two == Below(one)
           three == Below(two)
<1>1. r \in Nat \ {0} /\ r * r \in Nat \ {0} /\ r * r * r \in Nat \ {0} /\ 1 * r = r
    BY FileReadAssumption
<1>2. Nat \subseteq Steps /\ top \in Seq(Seq(Steps)) /\ Len(top) = 1
    BY DEF Steps
<1> HIDE DEF r, top, one, two, three
<1>3. /\ one \in Seq(Seq(Steps)) /\ Len(one) = r
      /\ \A j \in 1..r : one[j] = Append(top[((j - 1) \div r) + 1], (j - 1) % r)
    <2>1. /\ one \in Seq(Seq(Steps)) /\ Len(one) = Len(top) * r
          /\ \A j \in 1..(Len(top) * r) :
                one[j] = Append(top[((j - 1) \div r) + 1], (j - 1) % r)
        <3>1. Nat \subseteq Steps /\ top \in Seq(Seq(Steps)) /\ Len(top) # 0
            BY <1>2
        <3> QED
            BY <3>1, BelowIs DEF one, r
    <2>2. Len(top) * r = r
        BY <1>1, <1>2
    <2> QED
        BY <2>1, <2>2
<1>4. ASSUME NEW j \in 1..r
      PROVE  one[j] = <<x, j - 1>>
    <2>1. j - 1 \in 0..(r - 1)
        BY <1>1
    <2>2. (j - 1) \div r = 0 /\ (j - 1) % r = j - 1
        BY <1>1, <2>1, DivModSmall
    <2>3. one[j] = Append(top[0 + 1], j - 1)
        BY <1>3, <2>2
    <2>4. top[0 + 1] = <<x>> /\ j - 1 \in Steps
        BY <2>1 DEF top, Steps
    <2> QED
        BY <2>3, <2>4, PathGrows1
<1>5. /\ two \in Seq(Seq(Steps)) /\ Len(two) = r * r
      /\ \A j \in 1..(r * r) : two[j] = Append(one[((j - 1) \div r) + 1], (j - 1) % r)
    BY <1>1, <1>2, <1>3, BelowIs DEF two, r
<1>6. ASSUME NEW j \in 1..(r * r)
      PROVE  two[j] = <<x, (j - 1) \div r, (j - 1) % r>>
    <2>1. (j - 1) \div r \in 0..(r - 1) /\ (j - 1) % r \in 0..(r - 1)
        BY <1>1, RowIs
    <2>2. PICK p, q : p = (j - 1) \div r /\ q = (j - 1) % r
        OBVIOUS
    <2>3. p + 1 \in 1..r /\ (p + 1) - 1 = p
        BY <1>1, <2>1, <2>2
    <2>4. one[p + 1] = <<x, p>>
        BY <1>4, <2>3
    <2>5. two[j] = Append(<<x, p>>, q)
        BY <1>5, <2>2, <2>4
    <2>6. two[j] = <<x, p, q>>
        <3>1. p \in Steps /\ q \in Steps
            BY <2>1, <2>2 DEF Steps
        <3> QED
            BY <2>5, <3>1, PathGrows2
    <2> QED
        BY <2>2, <2>6
<1>7. /\ three \in Seq(Seq(Steps)) /\ Len(three) = r * r * r
      /\ \A j \in 1..(r * r * r) :
            three[j] = Append(two[((j - 1) \div r) + 1], (j - 1) % r)
    BY <1>1, <1>2, <1>5, BelowIs DEF three, r
<1>8. ASSUME NEW j \in 1..(r * r * r)
      PROVE  three[j] = <<x, ((j - 1) \div r) \div r, ((j - 1) \div r) % r, (j - 1) % r>>
    <2>1. PICK w \in Nat : w = r * r
        BY <1>1
    <2>2. j \in 1..(w * r)
        BY <2>1
    <2>3. (j - 1) \div r \in 0..(w - 1) /\ (j - 1) % r \in 0..(r - 1)
        BY <1>1, <2>2, RowIs
    <2>4. PICK p, q : p = (j - 1) \div r /\ q = (j - 1) % r
        OBVIOUS
    <2>5. p + 1 \in 1..w /\ (p + 1) - 1 = p
        BY <2>3, <2>4
    <2>6. two[p + 1] = <<x, p \div r, p % r>>
        BY <1>6, <2>1, <2>5
    <2>7. three[j] = Append(<<x, p \div r, p % r>>, q)
        BY <1>7, <2>4, <2>6
    <2>8. three[j] = <<x, p \div r, p % r, q>>
        <3>1. p \div r \in Steps /\ p % r \in Steps /\ q \in Steps
            <4>1. p \in Nat /\ q \in Nat
                BY <2>3, <2>4
            <4> QED
                BY <1>1, <4>1, DivModIs DEF Steps
        <3>2. PICK d, e : d = p \div r /\ e = p % r
            OBVIOUS
        <3>3. Append(<<x, d, e>>, q) = <<x, d, e, q>>
            BY <3>1, <3>2, PathGrows3
        <3> QED
            BY <2>7, <3>2, <3>3
    <2> QED
        BY <2>4, <2>8
<1> QED
    BY <1>3, <1>4, <1>5, <1>6, <1>7, <1>8 DEF r, top, one, two, three

\* Leaf number lbn: the list of them is cut where the branches of
\* Node::read_block are.
LEMMA LeafIs ==
    ASSUME NEW lbn \in 0..(MaxBlocks - 1)
    PROVE  LET r == RefsPerBlock
               l1 == lbn - Direct
               l2 == l1 - r
               l3 == l2 - r * r
               t == l3 \div r
           IN  /\ lbn < Direct => Leaves[lbn + 1] = <<"direct", lbn>>
               /\ lbn >= Direct /\ l1 < r => Leaves[lbn + 1] = <<"indirect_1", l1>>
               /\ l1 >= r /\ l2 < r * r =>
                    Leaves[lbn + 1] = <<"indirect_2", l2 \div r, l2 % r>>
               /\ l2 >= r * r =>
                    Leaves[lbn + 1] = <<"indirect_3", t \div r, t % r, l3 % r>>
<1> DEFINE zero == [i \in 1..Direct |-> <<"direct", i - 1>>]
           one == Below(<< <<"indirect_1">> >>)
           two == Below(Below(<< <<"indirect_2">> >>))
           three == Below(Below(Below(<< <<"indirect_3">> >>)))
<1>1. PICK r, w, c : r = RefsPerBlock /\ w = r * r /\ c = r * r * r
    OBVIOUS
<1>2. /\ r \in Nat \ {0} /\ w \in Nat \ {0} /\ c \in Nat \ {0} /\ Direct \in Nat
      /\ MaxBlocks = Direct + r + w + c
    BY <1>1, FileReadAssumption DEF MaxBlocks
<1>3. /\ zero \in Seq(Seq(Steps)) /\ Len(zero) = Direct
      /\ \A j \in 1..Direct : zero[j] = <<"direct", j - 1>>
    <2>1. \A i \in 1..Direct : <<"direct", i - 1>> \in Seq(Steps)
        BY <1>2 DEF Steps
    <2> QED
        BY <1>2, <2>1
<1>4. /\ "indirect_1" \in Steps /\ "indirect_2" \in Steps /\ "indirect_3" \in Steps
    BY DEF Steps
<1>5. /\ one \in Seq(Seq(Steps)) /\ Len(one) = r
      /\ \A j \in 1..r : one[j] = <<"indirect_1", j - 1>>
    BY <1>1, <1>4, LevelsAre
<1>6. /\ two \in Seq(Seq(Steps)) /\ Len(two) = w
      /\ \A j \in 1..w : two[j] = <<"indirect_2", (j - 1) \div r, (j - 1) % r>>
    BY <1>1, <1>4, LevelsAre
<1>7. /\ three \in Seq(Seq(Steps)) /\ Len(three) = c
      /\ \A j \in 1..c : three[j] = <<"indirect_3", ((j - 1) \div r) \div r,
                                      ((j - 1) \div r) % r, (j - 1) % r>>
    BY <1>1, <1>4, LevelsAre
<1>8. Leaves = ((zero \o one) \o two) \o three
    BY UnderIs DEF Leaves
<1> HIDE DEF zero, one, two, three
<1>9. PICK a : a = zero \o one
    OBVIOUS
<1>10. /\ a \in Seq(Seq(Steps)) /\ Len(a) = Direct + r
       /\ \A j \in 1..(Direct + r) : a[j] = IF j <= Direct THEN zero[j] ELSE one[j - Direct]
    <2>1. /\ a \in Seq(Seq(Steps)) /\ Len(a) = Len(zero) + Len(one)
          /\ \A j \in 1..(Len(zero) + Len(one)) :
                a[j] = IF j <= Len(zero) THEN zero[j] ELSE one[j - Len(zero)]
        BY <1>3, <1>5, <1>9, Appended
    <2>2. Len(zero) = Direct /\ Len(one) = r
        BY <1>3, <1>5
    <2> QED
        BY <2>1, <2>2
<1>11. PICK b : b = a \o two
    OBVIOUS
<1>12. /\ b \in Seq(Seq(Steps)) /\ Len(b) = Direct + r + w
       /\ \A j \in 1..(Direct + r + w) :
            b[j] = IF j <= Direct + r THEN a[j] ELSE two[j - (Direct + r)]
    <2>1. /\ b \in Seq(Seq(Steps)) /\ Len(b) = Len(a) + Len(two)
          /\ \A j \in 1..(Len(a) + Len(two)) :
                b[j] = IF j <= Len(a) THEN a[j] ELSE two[j - Len(a)]
        BY <1>6, <1>10, <1>11, Appended
    <2>2. Len(a) = Direct + r /\ Len(two) = w
        BY <1>6, <1>10
    <2> QED
        BY <2>1, <2>2
<1>13. /\ Leaves = b \o three
       /\ \A j \in 1..(Direct + r + w + c) :
            Leaves[j] = IF j <= Direct + r + w THEN b[j] ELSE three[j - (Direct + r + w)]
    <2>1. Leaves = b \o three
        BY <1>8, <1>9, <1>11
    <2>2. \A j \in 1..(Len(b) + Len(three)) :
            Leaves[j] = IF j <= Len(b) THEN b[j] ELSE three[j - Len(b)]
        BY <1>7, <1>12, <2>1, Appended
    <2>3. Len(b) = Direct + r + w /\ Len(three) = c
        BY <1>7, <1>12
    <2> QED
        BY <2>1, <2>2, <2>3
<1>14. lbn + 1 \in 1..(Direct + r + w + c) /\ lbn \in Nat
    BY <1>2
<1>15. lbn < Direct => Leaves[lbn + 1] = <<"direct", lbn>>
    <2>1. SUFFICES ASSUME lbn < Direct
                   PROVE  Leaves[lbn + 1] = <<"direct", lbn>>
        OBVIOUS
    <2>2. /\ lbn + 1 \in 1..Direct /\ lbn + 1 \in 1..(Direct + r)
          /\ lbn + 1 \in 1..(Direct + r + w) /\ (lbn + 1) - 1 = lbn
        BY <1>2, <2>1
    <2>3. PICK y : y = lbn + 1
        OBVIOUS
    <2>4. /\ y <= Direct /\ y <= Direct + r /\ y <= Direct + r + w
          /\ y \in 1..(Direct + r) /\ y \in 1..(Direct + r + w)
          /\ y \in 1..(Direct + r + w + c)
        BY <1>2, <1>14, <2>1, <2>2, <2>3
    <2>5. Leaves[y] = b[y]
        BY <1>13, <2>4
    <2>6. b[y] = a[y] /\ a[y] = zero[y]
        BY <1>10, <1>12, <2>4
    <2>7. zero[lbn + 1] = <<"direct", lbn>>
        BY <1>3, <2>2
    <2> QED
        BY <2>3, <2>5, <2>6, <2>7
<1>16. ASSUME lbn >= Direct, lbn - Direct < r
       PROVE  Leaves[lbn + 1] = <<"indirect_1", lbn - Direct>>
    <2>1. PICK j \in 1..r : j = lbn + 1 - Direct
        BY <1>2, <1>16
    <2>2. /\ lbn + 1 \in 1..(Direct + r) /\ lbn + 1 \in 1..(Direct + r + w)
          /\ ~ (lbn + 1 <= Direct) /\ j - 1 = lbn - Direct
        BY <1>2, <1>16, <2>1
    <2>3. PICK y : y = lbn + 1
        OBVIOUS
    <2>4. /\ ~ (y <= Direct) /\ y <= Direct + r /\ y <= Direct + r + w
          /\ y \in 1..(Direct + r) /\ y \in 1..(Direct + r + w)
          /\ y \in 1..(Direct + r + w + c) /\ y - Direct = j
        BY <1>2, <1>14, <2>1, <2>2, <2>3
    <2>5. Leaves[y] = b[y]
        BY <1>13, <2>4
    <2>6. b[y] = a[y] /\ a[y] = one[j]
        BY <1>10, <1>12, <2>4
    <2>7. one[j] = <<"indirect_1", lbn - Direct>>
        BY <1>5, <2>2
    <2> QED
        BY <2>3, <2>5, <2>6, <2>7
<1>17. ASSUME NEW l, l = lbn - Direct - r, l >= 0, l < w
       PROVE  Leaves[lbn + 1] = <<"indirect_2", l \div r, l % r>>
    <2>1. PICK j \in 1..w : j = lbn + 1 - (Direct + r)
        BY <1>2, <1>17
    <2>2. /\ lbn + 1 \in 1..(Direct + r + w)
          /\ ~ (lbn + 1 <= Direct + r) /\ j - 1 = l
        BY <1>2, <1>17, <2>1
    <2>3. PICK y : y = lbn + 1
        OBVIOUS
    <2>4. /\ y \in 1..(Direct + r + w + c) /\ y <= Direct + r + w
          /\ y \in 1..(Direct + r + w) /\ ~ (y <= Direct + r) /\ y - (Direct + r) = j
        BY <1>2, <1>14, <2>1, <2>2, <2>3
    <2>5. Leaves[y] = b[y]
        BY <1>13, <2>4
    <2>6. b[y] = two[j]
        BY <1>12, <2>4
    <2> QED
        BY <1>6, <2>2, <2>3, <2>5, <2>6
<1>18. ASSUME NEW l, l = lbn - Direct - r - w, l >= 0
       PROVE  Leaves[lbn + 1] = <<"indirect_3", (l \div r) \div r, (l \div r) % r, l % r>>
    <2>1. PICK j \in 1..c : j = lbn + 1 - (Direct + r + w)
        BY <1>2, <1>18
    <2>2. ~ (lbn + 1 <= Direct + r + w) /\ j - 1 = l
        BY <1>2, <1>18, <2>1
    <2>3. PICK y : y = lbn + 1
        OBVIOUS
    <2>4. /\ y \in 1..(Direct + r + w + c) /\ ~ (y <= Direct + r + w)
          /\ y - (Direct + r + w) = j
        BY <1>2, <1>14, <2>1, <2>2, <2>3
    <2>5. Leaves[y] = three[j]
        BY <1>13, <2>4
    <2> QED
        BY <1>7, <2>2, <2>3, <2>5
<1>19. ASSUME lbn - Direct >= r, lbn - Direct - r < w
       PROVE  Leaves[lbn + 1] = <<"indirect_2", (lbn - Direct - r) \div r,
                                  (lbn - Direct - r) % r>>
    <2>1. lbn - Direct - r >= 0
        BY <1>2, <1>19
    <2> QED
        BY <1>17, <1>19, <2>1
<1>20. ASSUME lbn - Direct - r >= w
       PROVE  LET l == lbn - Direct - r - w
              IN  Leaves[lbn + 1] = <<"indirect_3", (l \div r) \div r, (l \div r) % r, l % r>>
    <2>1. lbn - Direct - r - w >= 0
        BY <1>2, <1>20
    <2> QED
        BY <1>18, <1>20, <2>1
<1> QED
    BY <1>1, <1>15, <1>16, <1>19, <1>20

\* follow() from a reference that may be 0 is the reference one step further.
LEMMA FollowIs ==
    ASSUME NEW p \in Seq(Steps), p # << >>, NEW i \in Steps
    PROVE  Follow(Ref(p), i) = Ref(Append(p, i))
<1>1. /\ Append(p, i) \in Seq(Steps) /\ Len(Append(p, i)) = Len(p) + 1 /\ Len(p) \in Nat
      /\ \A k \in 1..Len(p) : Append(p, i)[k] = p[k]
    OBVIOUS
<1>2. ASSUME NEW k \in 1..Len(p)
      PROVE  SubSeq(Append(p, i), 1, k) = SubSeq(p, 1, k)
    <2>1. PICK a, b : a = SubSeq(Append(p, i), 1, k) /\ b = SubSeq(p, 1, k)
        OBVIOUS
    <2>2. /\ a \in Seq(Steps) /\ Len(a) = k
          /\ \A x \in 1..k : a[x] = Append(p, i)[x]
        BY <1>1, <2>1
    <2>3. /\ b \in Seq(Steps) /\ Len(b) = k
          /\ \A x \in 1..k : b[x] = p[x]
        BY <2>1
    <2>4. \A x \in 1..k : a[x] = b[x]
        BY <1>1, <2>2, <2>3
    <2>5. a = b
        BY <2>2, <2>3, <2>4, SeqEqual
    <2> QED
        BY <2>1, <2>5
<1>3. CASE \E k \in 1..Len(p) : SubSeq(p, 1, k) \in holes
    <2>1. Ref(p) = Hole
        BY <1>3 DEF Ref
    <2>2. \E k \in 1..Len(Append(p, i)) : SubSeq(Append(p, i), 1, k) \in holes
        <3>1. PICK k \in 1..Len(p) : SubSeq(p, 1, k) \in holes
            BY <1>3
        <3>2. k \in 1..Len(Append(p, i))
            BY <1>1
        <3> QED
            BY <1>2, <3>1, <3>2
    <2>3. Ref(Append(p, i)) = Hole
        BY <2>2 DEF Ref
    <2> QED
        BY <2>1, <2>3 DEF Follow
<1>4. CASE ~ \E k \in 1..Len(p) : SubSeq(p, 1, k) \in holes
    <2>1. Ref(p) = p
        BY <1>4 DEF Ref
    <2> QED
        BY <2>1 DEF Follow, Hole
<1> QED
    BY <1>3, <1>4

\* Node::read_block finds the leaf.
LEMMA PbnIs ==
    ASSUME NEW lbn \in 0..(MaxBlocks - 1)
    PROVE  Pbn(lbn) = Ref(Leaves[lbn + 1])
<1>1. PICK r, w : r = RefsPerBlock /\ w = r * r
    OBVIOUS
<1>2. PICK l1, l2, l3 : l1 = lbn - Direct /\ l2 = l1 - r /\ l3 = l2 - w
    OBVIOUS
<1>3. PICK t : t = l3 \div r
    OBVIOUS
<1>4. /\ r \in Nat \ {0} /\ w \in Nat /\ Direct \in Nat /\ lbn \in Nat
      /\ l1 \in Int /\ l2 \in Int /\ l3 \in Int
    BY <1>1, <1>2, FileReadAssumption
<1>5. /\ lbn < Direct => Leaves[lbn + 1] = <<"direct", lbn>>
      /\ lbn >= Direct /\ l1 < r => Leaves[lbn + 1] = <<"indirect_1", l1>>
      /\ l1 >= r /\ l2 < w => Leaves[lbn + 1] = <<"indirect_2", l2 \div r, l2 % r>>
      /\ l2 >= w => Leaves[lbn + 1] = <<"indirect_3", t \div r, t % r, l3 % r>>
    BY <1>1, <1>2, <1>3, LeafIs
<1>6. Pbn(lbn) =
        CASE lbn < Direct -> Ref(<<"direct", lbn>>)
          [] lbn >= Direct /\ l1 < r -> Follow(Ref(<<"indirect_1">>), l1)
          [] l1 >= r /\ l2 < w ->
                Follow(Follow(Ref(<<"indirect_2">>), l2 \div r), l2 % r)
          [] OTHER ->
                Follow(Follow(Follow(Ref(<<"indirect_3">>), t \div r), t % r), l3 % r)
    BY <1>1, <1>2, <1>3 DEF Pbn
<1>7. ASSUME NEW x \in {"indirect_1", "indirect_2", "indirect_3"},
             NEW a \in Nat, NEW b \in Nat, NEW c \in Nat
      PROVE  /\ Follow(Ref(<<x>>), a) = Ref(<<x, a>>)
             /\ Follow(Follow(Ref(<<x>>), a), b) = Ref(<<x, a, b>>)
             /\ Follow(Follow(Follow(Ref(<<x>>), a), b), c) = Ref(<<x, a, b, c>>)
    <2>1. x \in Steps /\ a \in Steps /\ b \in Steps /\ c \in Steps
        BY DEF Steps
    <2>2. /\ <<x>> \in Seq(Steps) /\ <<x>> # << >>
          /\ <<x, a>> \in Seq(Steps) /\ <<x, a>> # << >>
          /\ <<x, a, b>> \in Seq(Steps) /\ <<x, a, b>> # << >>
        BY <2>1
    <2>3. /\ Append(<<x>>, a) = <<x, a>>
          /\ Append(<<x, a>>, b) = <<x, a, b>>
          /\ Append(<<x, a, b>>, c) = <<x, a, b, c>>
        <3>1. Append(<<x>>, a) = <<x, a>>
            BY <2>1, PathGrows1
        <3>2. Append(<<x, a>>, b) = <<x, a, b>>
            BY <2>1, PathGrows2
        <3>3. Append(<<x, a, b>>, c) = <<x, a, b, c>>
            BY <2>1, PathGrows3
        <3> QED
            BY <3>1, <3>2, <3>3
    <2>4. Follow(Ref(<<x>>), a) = Ref(<<x, a>>)
        BY <2>1, <2>2, <2>3, FollowIs
    <2>5. Follow(Ref(<<x, a>>), b) = Ref(<<x, a, b>>)
        BY <2>1, <2>2, <2>3, FollowIs
    <2>6. Follow(Ref(<<x, a, b>>), c) = Ref(<<x, a, b, c>>)
        BY <2>1, <2>2, <2>3, FollowIs
    <2> QED
        BY <2>4, <2>5, <2>6
<1>8. CASE lbn < Direct
    <2>1. Pbn(lbn) = Ref(<<"direct", lbn>>)
        BY <1>2, <1>4, <1>6, <1>8
    <2> QED
        BY <1>5, <1>8, <2>1
<1>9. CASE lbn >= Direct /\ l1 < r
    <2>1. l1 \in Nat /\ ~ (lbn < Direct)
        BY <1>2, <1>4, <1>9
    <2>2. Pbn(lbn) = Follow(Ref(<<"indirect_1">>), l1)
        BY <1>2, <1>4, <1>6, <1>9, <2>1
    <2>3. Follow(Ref(<<"indirect_1">>), l1) = Ref(<<"indirect_1", l1>>)
        BY <1>7, <2>1
    <2> QED
        BY <1>5, <1>9, <2>2, <2>3
<1>10. CASE l1 >= r /\ l2 < w
    <2>1. l2 \in Nat /\ ~ (lbn < Direct) /\ ~ (l1 < r)
        BY <1>2, <1>4, <1>10
    <2>2. l2 \div r \in Nat /\ l2 % r \in Nat
        <3>1. PICK x \in Nat, d \in Nat \ {0} : x = l2 /\ d = r
            BY <1>4, <2>1
        <3>2. x \div d \in Nat /\ x % d \in Nat
            BY DivModNat
        <3> QED
            BY <3>1, <3>2
    <2>3. Pbn(lbn) = Follow(Follow(Ref(<<"indirect_2">>), l2 \div r), l2 % r)
        BY <1>6, <1>10, <2>1
    <2>4. PICK a, b : a = l2 \div r /\ b = l2 % r
        OBVIOUS
    <2>5. Follow(Follow(Ref(<<"indirect_2">>), a), b) = Ref(<<"indirect_2", a, b>>)
        BY <1>7, <2>2, <2>4
    <2> QED
        BY <1>5, <1>10, <2>3, <2>4, <2>5
<1>11. CASE l2 >= w
    <2>1. /\ l3 \in Nat /\ ~ (lbn < Direct) /\ ~ (l1 < r) /\ ~ (l2 < w)
        BY <1>2, <1>4, <1>11
    <2>2. t \in Nat /\ l3 % r \in Nat
        <3>1. PICK x \in Nat, d \in Nat \ {0} : x = l3 /\ d = r
            BY <1>4, <2>1
        <3>2. x \div d \in Nat /\ x % d \in Nat
            BY DivModNat
        <3> QED
            BY <1>3, <3>1, <3>2
    <2>3. t \div r \in Nat /\ t % r \in Nat
        <3>1. PICK x \in Nat, d \in Nat \ {0} : x = t /\ d = r
            BY <1>4, <2>2
        <3>2. x \div d \in Nat /\ x % d \in Nat
            BY DivModNat
        <3> QED
            BY <3>1, <3>2
    <2>4. Pbn(lbn) = Follow(Follow(Follow(Ref(<<"indirect_3">>), t \div r), t % r), l3 % r)
        BY <1>6, <2>1
    <2>5. PICK a, b, c : a = t \div r /\ b = t % r /\ c = l3 % r
        OBVIOUS
    <2>6. Follow(Follow(Follow(Ref(<<"indirect_3">>), a), b), c)
            = Ref(<<"indirect_3", a, b, c>>)
        BY <1>7, <2>2, <2>3, <2>5
    <2> QED
        BY <1>5, <1>11, <2>4, <2>5, <2>6
<1>12. lbn < Direct \/ (lbn >= Direct /\ l1 < r) \/ (l1 >= r /\ l2 < w) \/ l2 >= w
    BY <1>2, <1>4
<1> QED
    BY <1>8, <1>9, <1>10, <1>11, <1>12

\* The bytes of a block are those of the file.
LEMMA BytesAre ==
    ASSUME NEW at \in Nat, NEW k \in 1..(BlockSize - (at % BlockSize)),
           at \div BlockSize < MaxBlocks
    PROVE  ReadBlock(at \div BlockSize)[(at % BlockSize) + k] = Contents(at + k - 1)
<1>1. PICK lbn, m : lbn = at \div BlockSize /\ m = at % BlockSize
    OBVIOUS
<1>2. /\ BlockSize \in Nat \ {0} /\ lbn \in Nat /\ m \in 0..(BlockSize - 1)
      /\ at = BlockSize * lbn + m
    BY <1>1, FileReadAssumption, DivModIs
<1>3. PICK e : e = m + (k - 1)
    OBVIOUS
<1>4. e \in 0..(BlockSize - 1) /\ m + k \in 1..BlockSize /\ (m + k) - 1 = e
    BY <1>1, <1>2, <1>3
<1>5. at + k - 1 = BlockSize * lbn + e
    BY <1>2, <1>3
<1>6. (at + k - 1) \div BlockSize = lbn /\ (at + k - 1) % BlockSize = e
    BY <1>2, <1>4, <1>5, DivModOnly
<1>7. MaxBlocks \in Nat
    BY FileReadAssumption DEF MaxBlocks
<1>8. lbn \in 0..(MaxBlocks - 1)
    BY <1>1, <1>2, <1>7
<1>9. Pbn(lbn) = Ref(Leaves[lbn + 1])
    BY <1>8, PbnIs
<1>10. PICK leaf : leaf = Leaves[lbn + 1]
    OBVIOUS
<1>11. Ref(leaf) = Hole \/ Ref(leaf) = leaf
    BY DEF Ref
<1>12. ReadBlock(lbn)[m + k] = IF Pbn(lbn) = Hole THEN <<Hole, 0>> ELSE <<Pbn(lbn), e>>
    BY <1>4 DEF ReadBlock
<1>13. Contents(at + k - 1) = IF Ref(leaf) = Hole THEN <<Hole, 0>> ELSE <<leaf, e>>
    BY <1>6, <1>10 DEF Contents
<1> QED
    BY <1>1, <1>9, <1>10, <1>11, <1>12, <1>13

-----------------------------------------------------------------------------

\* What read_all has done so far: the bytes from `from` up to offset are in
\* the buffer, in order.
Progressed ==
    /\ from \in Nat /\ want \in Nat /\ total_count \in 0..want
    /\ offset = from + total_count /\ n = want - total_count
    /\ total_count > 0 => offset <= sz
    /\ buffer = [i \in 1..total_count |-> Contents(from + i - 1)]

ReadInv == sz \in FileSizes /\ Progressed /\ ReadAllExact

\* A turn of the loop keeps that, however it cuts the request at the ends of
\* the block and of the file.
LEMMA StepProgresses ==
    ASSUME ReadInv, ReadStep
    PROVE  ReadInv'
<1>1. /\ sz \in Nat /\ sz <= MaxBlocks * BlockSize /\ BlockSize \in Nat \ {0}
      /\ from \in Nat /\ want \in Nat /\ total_count \in 0..want
      /\ MaxBlocks \in Nat
    <2>1. MaxBlocks \in Nat /\ MaxBlocks * BlockSize \in Nat
        BY FileReadAssumption DEF MaxBlocks
    <2> QED
        BY <2>1, FileReadAssumption DEF ReadInv, Progressed
<1>2. PICK cnt, first : cnt = ReadCount(offset, n) /\ first = offset % BlockSize
    OBVIOUS
<1>3. /\ ~ returned /\ n > 0 /\ ~ Stops(cnt)
      /\ buffer' = buffer \o SubSeq(ReadBlock(offset \div BlockSize), first + 1, first + cnt)
      /\ total_count' = total_count + cnt
      /\ offset' = offset + cnt /\ n' = n - cnt
      /\ UNCHANGED <<sz, holes, from, want, returned, result>>
    BY <1>2 DEF ReadStep, file
<1>4. /\ offset = from + total_count /\ n = want - total_count
      /\ offset \in Nat /\ n \in Nat
    BY <1>1 DEF ReadInv, Progressed
<1>21. offset < sz /\ cnt = ActualN(offset, n)
    BY <1>1, <1>2, <1>3, <1>4 DEF ReadCount, Stops
<1>5. first \in 0..(BlockSize - 1) /\ offset \div BlockSize \in Nat
    BY <1>1, <1>2, <1>4, DivModIs
<1>6. /\ cnt \in 1..(BlockSize - first) /\ cnt <= n /\ offset + cnt <= sz
    <2>1. PICK left : left = sz - offset
        OBVIOUS
    <2>2. PICK k : k = IF n < left THEN n ELSE left
        OBVIOUS
    <2>3. PICK inBlock : inBlock = BlockSize - first
        OBVIOUS
    <2>4. cnt = IF inBlock < k THEN inBlock ELSE k
        BY <1>2, <1>21, <2>1, <2>2, <2>3 DEF ActualN
    <2>5. left \in Nat \ {0} /\ inBlock \in Nat \ {0}
        BY <1>1, <1>21, <1>4, <1>5, <2>1, <2>3
    <2>6. k \in Nat \ {0} /\ k <= n /\ k <= left
        BY <1>3, <1>4, <2>2, <2>5
    <2>7. cnt \in Nat \ {0} /\ cnt <= k /\ cnt <= inBlock
        BY <2>4, <2>5, <2>6
    <2> QED
        BY <1>1, <1>4, <1>5, <2>1, <2>3, <2>5, <2>6, <2>7
<1>7. offset \div BlockSize < MaxBlocks
    <2>1. PICK q \in Nat : q = offset \div BlockSize
        BY <1>5
    <2>2. offset = BlockSize * q + first
        BY <1>1, <1>2, <1>4, <2>1, DivModIs
    <2>3. PICK x \in Nat, y \in Nat : x = BlockSize * q /\ y = MaxBlocks * BlockSize
        BY <1>1, <2>1
    <2>4. x < y
        <3>1. offset = x + first
            BY <2>2, <2>3
        <3>2. sz <= y
            BY <1>1, <2>3
        <3>3. sz \in Nat /\ offset < sz /\ first \in Nat
            BY <1>1, <1>21, <1>5
        <3> QED
            BY <3>1, <3>2, <3>3
    <2>5. q < MaxBlocks
        BY <1>1, <2>1, <2>3, <2>4, Smaller
    <2> QED
        BY <2>1, <2>5
<1>8. PICK B : B = {Contents(i) : i \in Nat} \union
                        {ReadBlock(offset \div BlockSize)[i] : i \in 1..BlockSize}
    OBVIOUS
<1>9. PICK blk : blk = ReadBlock(offset \div BlockSize)
    OBVIOUS
<1>10. blk \in Seq(B) /\ Len(blk) = BlockSize
    <2>1. blk = [i \in 1..BlockSize |-> blk[i]]
        BY <1>9 DEF ReadBlock
    <2>2. \A i \in 1..BlockSize : blk[i] \in B
        BY <1>8, <1>9
    <2>3. blk \in [1..BlockSize -> B]
        BY <2>1, <2>2
    <2> QED
        BY <1>1, <2>3
<1>11. PICK piece : piece = SubSeq(blk, first + 1, first + cnt)
    OBVIOUS
<1>12. /\ piece \in Seq(B) /\ Len(piece) = cnt
       /\ \A i \in 1..cnt : piece[i] = blk[first + i]
    <2>1. first + 1 \in 1..(Len(blk) + 1) /\ first + cnt \in 0..Len(blk)
        BY <1>1, <1>5, <1>6, <1>10
    <2>2. first + 1 <= (first + cnt) + 1 /\ (first + cnt) - (first + 1) + 1 = cnt
          /\ \A i \in 1..cnt : (first + 1) + i - 1 = first + i
        BY <1>1, <1>5, <1>6
    <2>3. /\ piece \in Seq(B) /\ Len(piece) = (first + cnt) - (first + 1) + 1
          /\ \A i \in 1..((first + cnt) - (first + 1) + 1) :
                piece[i] = blk[(first + 1) + i - 1]
        BY <1>10, <1>11, <2>1, <2>2, PieceIs
    <2> QED
        BY <2>2, <2>3
<1>13. \A i \in 1..cnt : piece[i] = Contents(offset + i - 1)
    <2>1. ASSUME NEW i \in 1..cnt
          PROVE  piece[i] = Contents(offset + i - 1)
        <3>1. i \in 1..(BlockSize - (offset % BlockSize))
            BY <1>1, <1>2, <1>5, <1>6
        <3>2. blk[first + i] = Contents(offset + i - 1)
            BY <1>2, <1>4, <1>7, <1>9, <3>1, BytesAre
        <3> QED
            BY <1>12, <3>2
    <2> QED
        BY <2>1
<1>14. /\ buffer \in Seq(B) /\ Len(buffer) = total_count
       /\ \A i \in 1..total_count : buffer[i] = Contents(from + i - 1)
    <2>1. buffer = [i \in 1..total_count |-> Contents(from + i - 1)]
        BY DEF ReadInv, Progressed
    <2>2. \A i \in 1..total_count : from + i - 1 \in Nat
        BY <1>1
    <2> QED
        BY <1>1, <1>8, <2>1, <2>2
<1>15. /\ buffer' \in Seq(B) /\ Len(buffer') = total_count + cnt
       /\ \A i \in 1..(total_count + cnt) :
            buffer'[i] = IF i <= total_count THEN buffer[i] ELSE piece[i - total_count]
    <2>1. PICK now : now = buffer \o piece
        OBVIOUS
    <2>2. PICK old : old = buffer
        OBVIOUS
    <2>3. /\ now \in Seq(B) /\ Len(now) = Len(old) + Len(piece)
          /\ \A j \in 1..(Len(old) + Len(piece)) :
                now[j] = IF j <= Len(old) THEN old[j] ELSE piece[j - Len(old)]
        BY <1>12, <1>14, <2>1, <2>2, Appended
    <2>4. Len(old) = total_count /\ Len(piece) = cnt
        BY <1>12, <1>14, <2>2
    <2>5. buffer' = now
        BY <1>3, <1>9, <1>11, <2>1
    <2> QED
        BY <2>2, <2>3, <2>4, <2>5
<1>16. \A i \in 1..(total_count + cnt) : buffer'[i] = Contents(from + i - 1)
    <2>1. ASSUME NEW i \in 1..(total_count + cnt)
          PROVE  buffer'[i] = Contents(from + i - 1)
        <3>1. CASE i <= total_count
            <4>1. i \in 1..total_count
                BY <1>1, <1>6, <3>1
            <4> QED
                BY <1>14, <1>15, <3>1, <4>1
        <3>2. CASE ~ (i <= total_count)
            <4>1. PICK x : x = i - total_count
                OBVIOUS
            <4>2. x \in 1..cnt /\ offset + x - 1 = from + i - 1
                BY <1>1, <1>4, <1>6, <3>2, <4>1
            <4>3. piece[x] = Contents(offset + x - 1)
                BY <1>13, <4>2
            <4> QED
                BY <1>15, <3>2, <4>1, <4>2, <4>3
        <3> QED
            BY <3>1, <3>2
    <2> QED
        BY <2>1
<1>17. buffer' = [i \in 1..(total_count + cnt) |-> Contents(from + i - 1)]
    BY <1>15, <1>16
<1>18. \A i : Contents(i)' = Contents(i)
    BY <1>3 DEF Contents, Ref
<1>19. Progressed'
    <2>1. /\ total_count' \in 0..want' /\ offset' = from' + total_count'
          /\ n' = want' - total_count' /\ offset' <= sz'
        BY <1>1, <1>3, <1>4, <1>6
    <2>2. buffer' = [i \in 1..total_count' |-> Contents(from + i - 1)]
        BY <1>3, <1>17
    <2> QED
        BY <1>1, <1>3, <1>18, <2>1, <2>2 DEF Progressed
<1>20. ReadAllExact'
    BY <1>3 DEF ReadAllExact
<1> QED
    BY <1>3, <1>19, <1>20 DEF ReadInv

\* The end of the loop: all that was asked for, the end of the file, or a
\* place behind it.
LEMMA DoneExact ==
    ASSUME ReadInv, ReadDone \/ ReadStops
    PROVE  ReadInv'
<1>1. /\ returned' = TRUE
      /\ UNCHANGED <<sz, holes, from, want, offset, n, total_count, buffer>>
    BY DEF ReadDone, ReadStops, file
<1>2. \A i : Contents(i)' = Contents(i)
    BY <1>1 DEF Contents, Ref
<1>3. Progressed'
    BY <1>1, <1>2 DEF ReadInv, Progressed
<1>4. /\ from \in Nat /\ want \in Nat /\ total_count \in 0..want /\ sz \in Nat
      /\ offset = from + total_count /\ n = want - total_count
      /\ offset \in Nat /\ n \in Nat
      /\ total_count > 0 => offset <= sz
      /\ buffer = [i \in 1..total_count |-> Contents(from + i - 1)]
    <2>1. MaxBlocks * BlockSize \in Nat
        BY FileReadAssumption DEF MaxBlocks
    <2> QED
        BY <2>1, FileReadAssumption DEF ReadInv, Progressed
<1>5. \/ n = 0 /\ result' = total_count
      \/ n > 0 /\ offset = sz /\ result' = total_count
      \/ n > 0 /\ offset > sz /\ result' = -1
    <2>1. CASE ReadDone
        BY <2>1 DEF ReadDone
    <2>2. CASE ReadStops
        <3>1. PICK cnt : cnt = ReadCount(offset, n)
            OBVIOUS
        <3>2. n > 0 /\ Stops(cnt) /\ result' = IF cnt < 0 THEN cnt ELSE total_count
            BY <2>2, <3>1 DEF ReadStops
        <3>3. CASE offset < sz
            <4>1. cnt = ActualN(offset, n)
                BY <1>4, <3>1, <3>3 DEF ReadCount
            <4>2. cnt \in Nat \ {0}
                <5>1. offset % BlockSize \in 0..(BlockSize - 1)
                    BY <1>4, FileReadAssumption, DivModIs
                <5>2. PICK inBlock \in Nat \ {0} : inBlock = BlockSize - (offset % BlockSize)
                    BY <5>1, FileReadAssumption
                <5>3. PICK left \in Nat \ {0} : left = sz - offset
                    BY <1>4, <3>3
                <5> QED
                    BY <1>4, <3>2, <4>1, <5>2, <5>3 DEF ActualN
            <4> QED
                BY <3>2, <4>2 DEF Stops
        <3>4. CASE offset = sz
            BY <1>4, <3>1, <3>2, <3>4 DEF ReadCount
        <3>5. CASE offset > sz
            BY <1>4, <3>1, <3>2, <3>5 DEF ReadCount
        <3> QED
            BY <1>4, <3>3, <3>4, <3>5
    <2> QED
        BY <2>1, <2>2
<1>6. CASE n > 0 /\ offset > sz /\ result' = -1
    <2>1. from > sz /\ want # 0
        BY <1>4, <1>6
    <2>2. ReadAllExact'
        BY <1>1, <1>6, <2>1 DEF ReadAllExact
    <2> QED
        BY <1>1, <1>3, <2>2 DEF ReadInv
<1>7. CASE (n = 0 \/ offset = sz) /\ result' = total_count
    <2>1. from > sz => total_count = 0 /\ want = 0
        BY <1>4, <1>7
    <2>2. from <= sz => total_count = IF want < sz - from THEN want ELSE sz - from
        BY <1>4, <1>7
    <2>3. ReadAllExact'
        BY <1>1, <1>2, <1>4, <1>7, <2>1, <2>2 DEF ReadAllExact
    <2> QED
        BY <1>1, <1>3, <2>3 DEF ReadInv
<1> QED
    BY <1>5, <1>6, <1>7

\* A call begins with nothing read; one that reads nothing is over.
LEMMA BeginsExact ==
    ASSUME ReadInv, ReadCall \/ ReadForgotten
    PROVE  ReadInv'
<1>1. PICK at \in Nat, k \in Nat :
            ReadBegins(at, k) /\ (returned' = FALSE \/ (at = 0 /\ k = 0))
    <2>1. CASE ReadCall
        BY <2>1, FileReadAssumption DEF ReadCall
    <2>2. CASE ReadForgotten
        <3>1. ReadBegins(0, 0)
            BY <2>2 DEF ReadForgotten
        <3>2. 0 \in Nat
            OBVIOUS
        <3> QED
            BY <3>1, <3>2
    <2> QED
        BY <2>1, <2>2
<1>2. /\ from' = at /\ want' = k /\ offset' = at /\ n' = k
      /\ total_count' = 0 /\ buffer' = << >> /\ result' = 0
      /\ sz' = sz /\ holes' = holes
    BY <1>1 DEF ReadBegins
<1>3. buffer' = [i \in 1..0 |-> Contents(from + i - 1)']
    BY <1>2
<1>4. Progressed'
    BY <1>1, <1>2, <1>3 DEF Progressed
<1>5. sz \in Nat
    <2>1. MaxBlocks * BlockSize \in Nat
        BY FileReadAssumption DEF MaxBlocks
    <2> QED
        BY <2>1, FileReadAssumption DEF ReadInv
<1>6. ReadAllExact'
    <2>1. CASE returned' = FALSE
        BY <2>1 DEF ReadAllExact
    <2>2. CASE at = 0 /\ k = 0
        <3>1. ~ (from' > sz') /\ 0 = IF want' < sz' - from' THEN want' ELSE sz' - from'
            BY <1>2, <1>5, <2>2
        <3> QED
            BY <1>2, <1>3, <3>1 DEF ReadAllExact
    <2> QED
        BY <1>1, <2>1, <2>2
<1> QED
    BY <1>2, <1>4, <1>6 DEF ReadInv

\* What a call does to the variables of read_all: a turn of its loop, a new
\* read_all, none any more, or nothing.
LEMMA CallReads ==
    ASSUME [FilesNext]_filesVars
    PROVE  ReadNext \/ ReadCall \/ ReadForgotten \/ UNCHANGED reading
<1>1. CASE UNCHANGED filesVars
    BY <1>1 DEF filesVars
<1>2. CASE \E c \in {"open", "chdir"}, p \in Names : CallFind(c, p)
    BY <1>2 DEF CallFind
<1>3. CASE FindLoop
    <2>1. CASE FindEnds \/ FindFails
        BY <2>1 DEF FindEnds, FindFails, Find
    <2>2. CASE FindRoot
        BY <2>2 DEF FindRoot, Advance
    <2>3. CASE \E k \in DOMAIN Nodes : FindNext(k)
        BY <2>3 DEF FindNext, Advance
    <2>4. CASE \E k \in DOMAIN Nodes, garbage \in Garbage : FindLink(k, garbage)
        BY <2>4 DEF FindLink, Advance
    <2> QED
        BY <1>3, <2>1, <2>2, <2>3, <2>4 DEF FindLoop
<1>4. CASE Chdir
    BY <1>4 DEF Chdir
<1>5. CASE OpenAndRead
    BY <1>5 DEF OpenAndRead
<1> QED
    BY <1>1, <1>2, <1>3, <1>4, <1>5 DEF FilesNext, Progress

\* ReadAllExact, for every size of the blocks and the file, every set of
\* holes, every offset and every length: read_all returns
\* min(n, size_in_bytes - offset) bytes, as block_io.h says, each of them the
\* one the trees of the i-node have at its place.
THEOREM BytesExact == FilesSpec => []ReadAllExact
<1>1. FilesInit => ReadInv
    <2>1. SUFFICES ASSUME ReadInit
                   PROVE  ReadInv
        BY DEF FilesInit
    <2>2. /\ sz \in FileSizes /\ sz \in Nat
          /\ from = 0 /\ want = 0 /\ offset = 0 /\ n = 0 /\ total_count = 0
          /\ buffer = << >> /\ result = 0
        <3>1. MaxBlocks * BlockSize \in Nat
            BY FileReadAssumption DEF MaxBlocks
        <3> QED
            BY <2>1, <3>1, FileReadAssumption DEF ReadInit
    <2>3. buffer = [i \in 1..0 |-> Contents(from + i - 1)]
        BY <2>2
    <2>4. Progressed
        BY <2>2, <2>3 DEF Progressed
    <2>5. ~ (from > sz) /\ 0 = IF want < sz - from THEN want ELSE sz - from
        BY <2>2
    <2>6. ReadAllExact
        BY <2>2, <2>3, <2>5 DEF ReadAllExact
    <2> QED
        BY <2>2, <2>4, <2>6 DEF ReadInv
<1>2. ReadInv /\ [FilesNext]_filesVars => ReadInv'
    <2>1. ASSUME ReadInv, UNCHANGED reading
          PROVE  ReadInv'
        <3>1. UNCHANGED <<sz, holes, from, want, offset, n, total_count, buffer, returned,
                          result>>
            BY <2>1 DEF reading, file
        <3>2. \A i : Contents(i)' = Contents(i)
            BY <3>1 DEF Contents, Ref
        <3> QED
            BY <2>1, <3>1, <3>2 DEF ReadInv, Progressed, ReadAllExact
    <2> QED
        BY <2>1, CallReads, StepProgresses, DoneExact, BeginsExact DEF ReadNext
<1>3. ReadInv => ReadAllExact
    BY DEF ReadInv
<1> QED
    BY <1>1, <1>2, <1>3, PTL DEF FilesSpec

-----------------------------------------------------------------------------
(* Paths *)

\* Numbers up to num, one by one.
LEMMA OneByOne ==
    ASSUME NEW num \in Nat, NEW S, 0 \in S,
           \A k \in 1..num : k - 1 \in S => k \in S
    PROVE  \A k \in 0..num : k \in S
<1> DEFINE T == {k \in 0..num : k \notin S}
<1> SUFFICES ASSUME T # {}
             PROVE  FALSE
    OBVIOUS
<1>1. T \subseteq Nat
    OBVIOUS
<1>2. PICK x \in T : \A y \in T : x <= y
    BY <1>1, LeastNumber
<1>3. x \in 1..num /\ x - 1 \in 0..num /\ ~ (x <= x - 1)
    OBVIOUS
<1>4. x - 1 \notin T
    BY <1>2, <1>3
<1> QED
    BY <1>3, <1>4

\* The functions G[1] to G[num] keep a value in V, and applied to a one after
\* the other they give f.
Stay(G, num, V) == \A k \in 1..num, v \in V : G[k][v] \in V
Iterated(f, num, a, G) == f[0] = a /\ \A k \in 1..num : f[k] = G[k][f[k - 1]]

\* A function can be defined value by value.
LEMMA Iterates ==
    ASSUME NEW num \in Nat, NEW V, NEW a \in V, NEW G, Stay(G, num, V)
    PROVE  \E f \in [0..num -> V] : Iterated(f, num, a, G)
<1> DEFINE Fits(f, x) ==
                /\ f \in [0..x -> V] /\ f[0] = a
                /\ \A k \in 1..x : f[k] = G[k][f[k - 1]]
           S == {x \in 0..num : \E f : Fits(f, x)}
<1>1. 0 \in S
    <2>1. PICK f : f = [k \in 0..0 |-> a]
        OBVIOUS
    <2>2. Fits(f, 0)
        BY <2>1
    <2> QED
        BY <2>2
<1>2. ASSUME NEW x \in 1..num, x - 1 \in S
      PROVE  x \in S
    <2>1. PICK g : Fits(g, x - 1)
        BY <1>2
    <2>2. PICK f : f = [k \in 0..x |-> IF k = x THEN G[x][g[x - 1]] ELSE g[k]]
        OBVIOUS
    <2>3. x - 1 \in 0..(x - 1) /\ \A k \in 0..x : k = x \/ k \in 0..(x - 1)
        OBVIOUS
    <2>4. g[x - 1] \in V
        BY <2>1, <2>3
    <2>5. G[x][g[x - 1]] \in V
        BY <2>4 DEF Stay
    <2>6. f \in [0..x -> V]
        BY <2>1, <2>2, <2>3, <2>5
    <2>7. f[x] = G[x][g[x - 1]] /\ \A k \in 0..(x - 1) : f[k] = g[k]
        BY <2>2
    <2>8. ASSUME NEW k \in 1..x
          PROVE  f[k] = G[k][f[k - 1]]
        <3>1. k - 1 \in 0..(x - 1) /\ (k = x \/ k \in 1..(x - 1))
            OBVIOUS
        <3>2. f[k - 1] = g[k - 1]
            BY <2>7, <3>1
        <3>3. CASE k = x
            BY <2>7, <3>2, <3>3
        <3>4. CASE k \in 1..(x - 1)
            <4>1. f[k] = g[k] /\ g[k] = G[k][g[k - 1]]
                BY <2>1, <2>7, <3>4
            <4> QED
                BY <3>2, <4>1
        <3> QED
            BY <3>1, <3>3, <3>4
    <2>9. Fits(f, x)
        BY <2>1, <2>6, <2>7, <2>8
    <2> QED
        BY <2>9
<1> HIDE DEF S
<1>3. \A x \in 0..num : x \in S
    BY <1>1, <1>2, OneByOne
<1>4. num \in S
    BY <1>3
<1>5. PICK f : Fits(f, num)
    BY <1>4 DEF S
<1> QED
    BY <1>5 DEF Iterated

\* Paths with a slash nowhere but in front.
Clean == {v \in Seq(Words) : \A i \in 1..Len(v) : i > 1 => v[i] # "/"}

\* Names may follow.
LEMMA CleanGrows ==
    ASSUME NEW v \in Clean, NEW x \in Words, x # "/"
    PROVE  Append(v, x) \in Clean
<1>1. v \in Seq(Words)
    BY DEF Clean
<1>2. /\ Append(v, x) \in Seq(Words) /\ Len(Append(v, x)) = Len(v) + 1
      /\ Append(v, x)[Len(v) + 1] = x
      /\ \A i \in 1..Len(v) : Append(v, x)[i] = v[i]
    BY <1>1
<1>3. ASSUME NEW i \in 1..Len(Append(v, x)), i > 1
      PROVE  Append(v, x)[i] # "/"
    <2>1. i = Len(v) + 1 \/ i \in 1..Len(v)
        BY <1>1, <1>2
    <2> QED
        BY <1>2, <1>3, <2>1 DEF Clean
<1> QED
    BY <1>2, <1>3 DEF Clean

\* The states of the parser, and their end.
LEMMA ParseSteps ==
    ASSUME NEW raw \in Seq(Words)
    PROVE  \E f \in [0..Len(raw) -> Clean] :
                /\ \A i \in 1..Len(raw) :
                        f[i] = IF raw[i] = "/" THEN f[i - 1] ELSE Append(f[i - 1], raw[i])
                /\ Parse(raw) = f[Len(raw)]
<1> DEFINE front == IF raw # <<>> /\ Head(raw) = "/" THEN <<"/">> ELSE <<>>
           Is(f) == f = [i \in 0..Len(raw) |->
                            IF i = 0 THEN front
                            ELSE IF raw[i] = "/" THEN f[i - 1]
                            ELSE Append(f[i - 1], raw[i])]
<1>1. front \in Clean
    <2>1. "/" \in Words
        BY NodesAssumption
    <2>2. <<"/">> \in Seq(Words) /\ Len(<<"/">>) = 1
        BY <2>1
    <2> QED
        BY <2>2 DEF Clean
<1>2. PICK num \in Nat : num = Len(raw)
    OBVIOUS
<1>3. \E f \in [0..num -> Clean] : Is(f)
    <2>1. PICK G : G = [k \in 1..num |-> [v \in Clean |->
                            IF raw[k] = "/" THEN v ELSE Append(v, raw[k])]]
        OBVIOUS
    <2>2. ASSUME NEW k \in 1..num, NEW v \in Clean
          PROVE  G[k][v] \in Clean
        <3>1. raw[k] \in Words
            BY <1>2
        <3>2. G[k][v] = IF raw[k] = "/" THEN v ELSE Append(v, raw[k])
            BY <2>1
        <3> QED
            BY <3>1, <3>2, CleanGrows
    <2>3. PICK b \in Clean : b = front
        BY <1>1
    <2>4. Stay(G, num, Clean)
        BY <2>2 DEF Stay
    <2>5. PICK f \in [0..num -> Clean] : Iterated(f, num, b, G)
        BY <2>4, Iterates
    <2>6. ASSUME NEW i \in 0..num
          PROVE  f[i] = IF i = 0 THEN b
                        ELSE IF raw[i] = "/" THEN f[i - 1]
                        ELSE Append(f[i - 1], raw[i])
        <3>1. i # 0 => i \in 1..num /\ i - 1 \in 0..num
            OBVIOUS
        <3>2. i # 0 => f[i - 1] \in Clean
            BY <3>1
        <3> QED
            BY <2>1, <2>5, <3>1, <3>2 DEF Iterated
    <2>7. Is(f)
        BY <1>2, <2>3, <2>6
    <2> QED
        BY <2>7
<1>4. \E f : Is(f)
    BY <1>3
<1>5. \E f : Is(f) /\ Parse(raw) = f[Len(raw)]
    BY <1>4, Zenon DEF Parse
<1>6. PICK f : Is(f) /\ Parse(raw) = f[Len(raw)]
    BY <1>5
<1>7. PICK h \in [0..num -> Clean] : Is(h)
    BY <1>3
<1> HIDE DEF front
<1>8. \A i \in 0..num : i \in {j \in 0..num : f[j] = h[j]}
    <2> DEFINE S == {j \in 0..num : f[j] = h[j]}
    <2>1. 0 \in S
        BY <1>2, <1>6, <1>7
    <2>2. ASSUME NEW k \in 1..num, k - 1 \in S
          PROVE  k \in S
        <3>1. k \in 0..num /\ k # 0 /\ f[k - 1] = h[k - 1]
            BY <2>2
        <3>2. f[k] = IF raw[k] = "/" THEN f[k - 1] ELSE Append(f[k - 1], raw[k])
            BY <1>2, <1>6, <3>1
        <3>3. h[k] = IF raw[k] = "/" THEN h[k - 1] ELSE Append(h[k - 1], raw[k])
            BY <1>2, <1>7, <3>1
        <3>4. f[k] = h[k]
            BY <3>1, <3>2, <3>3
        <3> QED
            BY <3>1, <3>4
    <2> HIDE DEF S
    <2>3. \A i \in 0..num : i \in S
        BY <2>1, <2>2, OneByOne
    <2> QED
        BY <2>3 DEF S
<1>9. /\ \A i \in 1..num : h[i] = IF raw[i] = "/" THEN h[i - 1] ELSE Append(h[i - 1], raw[i])
      /\ Parse(raw) = h[num]
    <2>1. ASSUME NEW i \in 1..num
          PROVE  h[i] = IF raw[i] = "/" THEN h[i - 1] ELSE Append(h[i - 1], raw[i])
        <3>1. i \in 0..num /\ i # 0
            OBVIOUS
        <3> QED
            BY <1>2, <1>7, <3>1
    <2>2. Parse(raw) = h[num]
        BY <1>2, <1>6, <1>8
    <2> QED
        BY <2>1, <2>2
<1> QED
    BY <1>2, <1>9

\* What the parser makes of a path.
LEMMA ParseClean ==
    ASSUME NEW raw \in Seq(Words)
    PROVE  Parse(raw) \in Clean
<1>1. PICK f \in [0..Len(raw) -> Clean] : Parse(raw) = f[Len(raw)]
    BY ParseSteps
<1>2. Len(raw) \in 0..Len(raw)
    OBVIOUS
<1> QED
    BY <1>1, <1>2

\* The entries of a directory: for every name one node, or none.
Listing(l) ==
    /\ l \in Seq(Words \X Nat)
    /\ \A i \in 1..Len(l) :
        IF l[i][1] = "" THEN l[i][2] = 0
        ELSE /\ l[i][2] \in DOMAIN Nodes
             /\ l[i][1] # "/"
             /\ \A j \in 1..Len(l) : l[j][1] = l[i][1] => j = i

\* Every directory has such entries.
LEMMA DirLists ==
    ASSUME NEW k \in DOMAIN Nodes, is_dir(k)
    PROVE  Listing(Nodes[k].entries)
<1>1. PICK l : l = Nodes[k].entries
    OBVIOUS
<1>2. /\ l \in Seq(Words \X Nat)
      /\ \A i \in DOMAIN l :
            IF l[i][1] = "" THEN l[i][2] = 0
            ELSE /\ l[i][2] \in DOMAIN Nodes
                 /\ l[i][1] # "/"
                 /\ \A j \in DOMAIN l : l[j][1] = l[i][1] => j = i
    BY <1>1, NodesAssumption
<1>3. DOMAIN l = 1..Len(l)
    BY <1>2, LenProperties
<1> QED
    BY <1>1, <1>2, <1>3 DEF Listing

\* The node of an entry.
LEMMA EntryNode ==
    ASSUME NEW l, Listing(l), NEW i \in 1..Len(l)
    PROVE  /\ l[i][2] \in {0} \cup DOMAIN Nodes /\ l[i][2] \in Nat
           /\ get_node(l[i][2]) = l[i][2]
           /\ \A j \in 1..Len(l) : l[j][1] = l[i][1] => l[j][2] = l[i][2]
<1>1. l[i][2] \in {0} \cup DOMAIN Nodes
    BY DEF Listing
<1>2. l[i][2] \in Nat
    <2>1. DOMAIN Nodes \subseteq Nat
        BY NodesAssumption
    <2> QED
        BY <1>1, <2>1
<1>3. get_node(l[i][2]) = l[i][2]
    <2>1. CASE l[i][2] = 0
        BY <2>1 DEF get_node
    <2>2. CASE l[i][2] \in DOMAIN Nodes
        BY <2>2, NodesAssumption
    <2> QED
        BY <1>1, <2>1, <2>2
<1>4. ASSUME NEW j \in 1..Len(l), l[j][1] = l[i][1]
      PROVE  l[j][2] = l[i][2]
    <2>1. CASE l[i][1] = ""
        BY <1>4, <2>1 DEF Listing
    <2>2. CASE l[i][1] # ""
        <3>1. j = i
            BY <1>4, <2>2 DEF Listing
        <3> QED
            BY <3>1
    <2> QED
        BY <2>1, <2>2
<1> QED
    BY <1>1, <1>2, <1>3, <1>4

\* A directory has the node of an entry with a name under that name.
LEMMA ChildIs ==
    ASSUME NEW k \in DOMAIN Nodes, is_dir(k), NEW x, NEW l, l = Nodes[k].entries
    PROVE  /\ (\A i \in 1..Len(l) : l[i][1] # x) => Child(k, x) = 0
           /\ \A i \in 1..Len(l) : l[i][1] = x => Child(k, x) = l[i][2]
<1>1. Listing(l)
    BY DirLists
<1>2. PICK hits : hits = {e \in ToSet(l) : e[1] = x}
    OBVIOUS
<1>3. Child(k, x) = IF hits = {} THEN 0 ELSE (CHOOSE e \in hits : TRUE)[2]
    BY <1>2 DEF Child
<1>4. DOMAIN l = 1..Len(l)
    BY <1>1, LenProperties DEF Listing
<1>5. \A e \in hits : \E i \in 1..Len(l) : e = l[i] /\ l[i][1] = x
    BY <1>2, <1>4 DEF ToSet
<1>6. ASSUME \A i \in 1..Len(l) : l[i][1] # x
      PROVE  Child(k, x) = 0
    <2>1. hits = {}
        BY <1>5, <1>6
    <2> QED
        BY <1>3, <2>1
<1>7. ASSUME NEW i \in 1..Len(l), l[i][1] = x
      PROVE  Child(k, x) = l[i][2]
    <2>1. l[i] \in hits
        BY <1>2, <1>4, <1>7 DEF ToSet
    <2>2. PICK e \in hits : e = CHOOSE h \in hits : TRUE
        BY <2>1
    <2>3. PICK j \in 1..Len(l) : e = l[j] /\ l[j][1] = x
        BY <1>5
    <2>4. l[j][2] = l[i][2]
        BY <1>1, <1>7, <2>3, EntryNode
    <2>5. Child(k, x) = e[2]
        BY <1>3, <2>1, <2>2
    <2> QED
        BY <2>3, <2>4, <2>5
<1> QED
    BY <1>6, <1>7

\* A name stands for a node or for none.
LEMMA ChildNode ==
    ASSUME NEW k, NEW x
    PROVE  /\ Child(k, x) \in {0} \cup DOMAIN Nodes /\ Child(k, x) \in Nat
           /\ ~ (k \in DOMAIN Nodes /\ is_dir(k)) => Child(k, x) = 0
<1>1. CASE ~ (k \in DOMAIN Nodes /\ is_dir(k))
    <2>1. Child(k, x) = 0
        BY <1>1 DEF Child
    <2> QED
        BY <2>1
<1>2. CASE k \in DOMAIN Nodes /\ is_dir(k)
    <2>1. PICK l : l = Nodes[k].entries
        OBVIOUS
    <2>2. Listing(l)
        BY <1>2, <2>1, DirLists
    <2>3. CASE \A i \in 1..Len(l) : l[i][1] # x
        <3>1. Child(k, x) = 0
            BY <1>2, <2>1, <2>3, ChildIs
        <3> QED
            BY <1>2, <3>1
    <2>4. ASSUME NEW i \in 1..Len(l), l[i][1] = x
          PROVE  /\ Child(k, x) \in {0} \cup DOMAIN Nodes /\ Child(k, x) \in Nat
        <3>1. Child(k, x) = l[i][2]
            BY <1>2, <2>1, <2>4, ChildIs
        <3> QED
            BY <2>2, <2>4, <3>1, EntryNode
    <2> QED
        BY <1>2, <2>3, <2>4
<1> QED
    BY <1>1, <1>2

\* find_one finds what the directory has under the name.
LEMMA FindOneIs ==
    ASSUME NEW k \in DOMAIN Nodes, is_dir(k), NEW x
    PROVE  find_one(k, x) = Child(k, x)
<1>1. PICK l : l = Nodes[k].entries
    OBVIOUS
<1>2. Listing(l)
    BY <1>1, DirLists
<1>3. PICK I : I = {i \in 1..Len(l) : l[i][1] = x}
    OBVIOUS
<1>4. PICK at : at = IF I # {} THEN Min(I) ELSE 0
    OBVIOUS
<1>5. find_one(k, x) = IF at = 0 THEN 0 ELSE get_node(l[at][2])
    <2>1. at = SelectInSeq(l, LAMBDA e : e[1] = x)
        BY <1>3, <1>4, Zenon DEF SelectInSeq
    <2> QED
        BY <1>1, <2>1, Zenon DEF find_one
<1>6. CASE I = {}
    <2>1. \A i \in 1..Len(l) : l[i][1] # x
        BY <1>3, <1>6
    <2> QED
        BY <1>1, <1>4, <1>5, <1>6, <2>1, ChildIs
<1>7. CASE I # {}
    <2>1. I \subseteq Nat
        BY <1>3
    <2>2. at \in I
        BY <1>4, <1>7, <2>1, MinIs
    <2>3. at \in 1..Len(l) /\ l[at][1] = x /\ at # 0
        BY <1>3, <2>2
    <2>4. get_node(l[at][2]) = l[at][2]
        BY <1>2, <2>3, EntryNode
    <2>5. Child(k, x) = l[at][2]
        BY <1>1, <2>3, ChildIs
    <2> QED
        BY <1>5, <2>3, <2>4, <2>5
<1> QED
    BY <1>6, <1>7

\* What paths may mean.
Meanings == [Nat -> [Seq(Words) -> Nat]]

\* A component leads to a node, or to none.
LEMMA OnIs ==
    ASSUME NEW g \in Meanings, NEW k \in Nat, NEW x
    PROVE  On(g, k, x) \in Nat
<1>1. PICK m \in Nat : m = Child(k, x)
    BY ChildNode
<1>2. On(g, k, x) = IF x = "/" THEN root
                    ELSE IF m # 0 /\ is_symlink(m) THEN g[k][Parse(Nodes[m].target)]
                    ELSE m
    BY <1>1 DEF On
<1>3. root \in Nat
    BY DEF root
<1>4. ASSUME m # 0, is_symlink(m)
      PROVE  g[k][Parse(Nodes[m].target)] \in Nat
    <2>1. m \in DOMAIN Nodes
        BY <1>1, <1>4, ChildNode
    <2>2. Nodes[m].target \in Seq(Words)
        BY <1>4, <2>1, NodesAssumption
    <2>3. Parse(Nodes[m].target) \in Seq(Words)
        BY <2>2, ParseClean DEF Clean
    <2> QED
        BY <2>3 DEF Meanings
<1> QED
    BY <1>2, <1>3, <1>4

\* w goes along p from node k, where paths inside links mean g.
Goes(w, g, k, p) ==
    /\ w \in [0..Len(p) -> Nat] /\ w[0] = k
    /\ \A i \in 1..Len(p) : w[i] = On(g, w[i - 1], p[i])

\* A path leads along nodes to its end.
LEMMA AlongIs ==
    ASSUME NEW g \in Meanings, NEW k \in Nat, NEW p \in Seq(Words)
    PROVE  \E w : Goes(w, g, k, p) /\ Along(g, k, p) = w[Len(p)]
<1> DEFINE Is(f) == f = [i \in 0..Len(p) |-> IF i = 0 THEN k ELSE On(g, f[i - 1], p[i])]
<1>1. PICK num \in Nat : num = Len(p)
    OBVIOUS
<1>2. \E f \in [0..num -> Nat] : Is(f)
    <2>1. PICK G : G = [i \in 1..num |-> [v \in Nat |-> On(g, v, p[i])]]
        OBVIOUS
    <2>2. ASSUME NEW i \in 1..num, NEW v \in Nat
          PROVE  G[i][v] \in Nat
        BY <2>1, OnIs
    <2>3. Stay(G, num, Nat)
        BY <2>2 DEF Stay
    <2>4. PICK f \in [0..num -> Nat] : Iterated(f, num, k, G)
        BY <2>3, Iterates
    <2>5. ASSUME NEW i \in 0..num
          PROVE  f[i] = IF i = 0 THEN k ELSE On(g, f[i - 1], p[i])
        <3>1. i # 0 => i \in 1..num /\ i - 1 \in 0..num
            OBVIOUS
        <3>2. i # 0 => f[i - 1] \in Nat
            BY <3>1
        <3> QED
            BY <2>1, <2>4, <3>1, <3>2 DEF Iterated
    <2>6. Is(f)
        BY <1>1, <2>5
    <2> QED
        BY <2>6
<1>3. \E f : Is(f) /\ Along(g, k, p) = f[Len(p)]
    BY <1>2, Zenon DEF Along
<1>4. PICK f : Is(f) /\ Along(g, k, p) = f[Len(p)]
    BY <1>3
<1>5. \A i \in 0..num : i \in {j \in 0..num : f[j] \in Nat}
    <2> DEFINE S == {j \in 0..num : f[j] \in Nat}
    <2>1. 0 \in S
        BY <1>1, <1>4
    <2>2. ASSUME NEW i \in 1..num, i - 1 \in S
          PROVE  i \in S
        <3>1. i \in 0..num /\ i # 0 /\ f[i - 1] \in Nat
            BY <2>2
        <3>2. f[i] = On(g, f[i - 1], p[i])
            BY <1>1, <1>4, <3>1
        <3> QED
            BY <3>1, <3>2, OnIs
    <2> HIDE DEF S
    <2>3. \A i \in 0..num : i \in S
        BY <2>1, <2>2, OneByOne
    <2> QED
        BY <2>3 DEF S
<1>6. f \in [0..num -> Nat] /\ f[0] = k
    BY <1>1, <1>4, <1>5
<1>7. ASSUME NEW i \in 1..num
      PROVE  f[i] = On(g, f[i - 1], p[i])
    <2>1. i \in 0..num /\ i # 0
        OBVIOUS
    <2> QED
        BY <1>1, <1>4, <2>1
<1>8. Goes(f, g, k, p)
    BY <1>1, <1>6, <1>7 DEF Goes
<1> QED
    BY <1>4, <1>8

\* And to a node or to none.
LEMMA AlongNat ==
    ASSUME NEW g \in Meanings, NEW k \in Nat, NEW p \in Seq(Words)
    PROVE  Along(g, k, p) \in Nat
<1>1. PICK w : Goes(w, g, k, p) /\ Along(g, k, p) = w[Len(p)]
    BY AlongIs
<1>2. Len(p) \in 0..Len(p)
    OBVIOUS
<1> QED
    BY <1>1, <1>2 DEF Goes

\* What paths mean inside d links is given by what they mean inside one more.
LEMMA MeaningIs ==
    /\ \A d \in 0..MaxLinks : Meaning[d] \in Meanings
    /\ \A d \in 1..MaxLinks, k \in Nat, p \in Seq(Words) :
            Meaning[d][k][p] = Along(Meaning[d - 1], k, p)
<1> DEFINE Value(g, d) == [k \in Nat |-> [p \in Seq(Words) |->
                                IF d = 0 THEN 0 ELSE Along(g, k, p)]]
           Is(f) == f = [d \in 0..MaxLinks |->
                            [k \in Nat |-> [p \in Seq(Words) |->
                                IF d = 0 THEN 0 ELSE Along(f[d - 1], k, p)]]]
<1>1. MaxLinks \in Nat
    BY NodesAssumption
<1>2. ASSUME NEW g \in Meanings, NEW d \in 0..MaxLinks
      PROVE  Value(g, d) \in Meanings
    <2>1. \A k \in Nat, p \in Seq(Words) : (IF d = 0 THEN 0 ELSE Along(g, k, p)) \in Nat
        BY AlongNat
    <2> QED
        BY <2>1 DEF Meanings
<1>3. PICK zero \in Meanings : zero = [k \in Nat |-> [p \in Seq(Words) |-> 0]]
    BY DEF Meanings
<1>4. \E f : Is(f)
    <2>1. PICK G : G = [d \in 1..MaxLinks |-> [v \in Meanings |-> Value(v, d)]]
        OBVIOUS
    <2>2. ASSUME NEW d \in 1..MaxLinks, NEW v \in Meanings
          PROVE  G[d][v] = Value(v, d) /\ G[d][v] \in Meanings
        <3>1. d \in 0..MaxLinks
            BY <1>1
        <3>2. Value(v, d) \in Meanings
            BY <1>2, <3>1
        <3>3. G[d][v] = Value(v, d)
            BY <2>1
        <3> QED
            BY <3>2, <3>3
    <2>3. Stay(G, MaxLinks, Meanings)
        BY <2>2 DEF Stay
    <2>4. PICK f \in [0..MaxLinks -> Meanings] : Iterated(f, MaxLinks, zero, G)
        BY <1>1, <2>3, Iterates
    <2>5. ASSUME NEW d \in 0..MaxLinks
          PROVE  f[d] = Value(f[d - 1], d)
        <3>1. CASE d = 0
            BY <1>3, <2>4, <3>1 DEF Iterated
        <3>2. CASE d # 0
            <4>1. d \in 1..MaxLinks /\ d - 1 \in 0..MaxLinks
                BY <1>1, <3>2
            <4>2. f[d - 1] \in Meanings /\ f[d] = G[d][f[d - 1]]
                BY <2>4, <4>1 DEF Iterated
            <4> QED
                BY <2>2, <4>1, <4>2
        <3> QED
            BY <3>1, <3>2
    <2>6. Is(f)
        BY <2>5
    <2> QED
        BY <2>6
<1>5. Is(Meaning)
    BY <1>4, Zenon DEF Meaning
<1>6. \A d \in 0..MaxLinks : Meaning[d] = Value(Meaning[d - 1], d)
    BY <1>5
<1>7. \A d \in 0..MaxLinks : d \in {e \in 0..MaxLinks : Meaning[e] \in Meanings}
    <2> DEFINE S == {e \in 0..MaxLinks : Meaning[e] \in Meanings}
    <2>1. 0 \in S
        <3>1. 0 \in 0..MaxLinks
            BY <1>1
        <3>2. Meaning[0] = Value(Meaning[0 - 1], 0)
            BY <1>6, <3>1
        <3>3. Meaning[0] = zero
            BY <1>3, <3>2
        <3> QED
            BY <3>1, <3>3
    <2>2. ASSUME NEW d \in 1..MaxLinks, d - 1 \in S
          PROVE  d \in S
        <3>1. d \in 0..MaxLinks /\ Meaning[d - 1] \in Meanings
            BY <1>1, <2>2
        <3> QED
            BY <1>2, <1>6, <3>1
    <2> HIDE DEF S
    <2>3. \A d \in 0..MaxLinks : d \in S
        BY <1>1, <2>1, <2>2, OneByOne
    <2> QED
        BY <2>3 DEF S
<1>8. ASSUME NEW d \in 1..MaxLinks, NEW k \in Nat, NEW p \in Seq(Words)
      PROVE  Meaning[d][k][p] = Along(Meaning[d - 1], k, p)
    <2>1. d \in 0..MaxLinks /\ d # 0
        BY <1>1
    <2>2. Meaning[d] = Value(Meaning[d - 1], d)
        BY <1>6, <2>1
    <2> QED
        BY <2>1, <2>2
<1> QED
    BY <1>7, <1>8

\* The last component is found, but not followed.
Final(k, x) == IF x = "/" THEN root ELSE Child(k, x)

\* t goes along p from node k to its end, with links on the way that mean what
\* they mean inside at most ds[i] links of MaxLinks, low or more.
Trail(t, ds, p, k, goal, low) ==
    /\ t \in [0..Len(p) -> Nat] /\ ds \in [1..Len(p) -> 1..MaxLinks]
    /\ t[0] = k /\ t[Len(p)] = goal
    /\ \A i \in 1..Len(p) : ds[i] >= low
    /\ \A i \in 1..Len(p) :
            t[i] = IF i = Len(p) THEN Final(t[i - 1], p[i])
                   ELSE On(Meaning[ds[i] - 1], t[i - 1], p[i])

Leads(p, k, goal, low) == \E t, ds : Trail(t, ds, p, k, goal, low)

\* A path leads to its target.
LEMMA Begins ==
    ASSUME NEW p \in Seq(Words), NEW k \in Nat
    PROVE  Leads(p, k, Target(k, p), MaxLinks)
<1>0. MaxLinks \in Nat /\ MaxLinks \in 1..MaxLinks
    <2>1. MaxLinks \in Nat \ {0}
        BY NodesAssumption
    <2> QED
        BY <2>1
<1>1. CASE p = <<>>
    <2>1. Len(p) = 0 /\ Target(k, p) = k
        BY <1>1 DEF Target
    <2>2. PICK t, ds : t = [i \in 0..0 |-> k] /\ ds = [i \in 1..0 |-> MaxLinks]
        OBVIOUS
    <2>3. Trail(t, ds, p, k, k, MaxLinks)
        BY <2>1, <2>2 DEF Trail
    <2> QED
        BY <2>1, <2>3 DEF Leads
<1>2. CASE p # <<>>
    <2>1. PICK num \in Nat : num = Len(p) /\ num # 0
        BY <1>2
    <2>2. PICK q \in Seq(Words) :
                q = Front(p) /\ Len(q) = num - 1 /\ \A i \in 1..(num - 1) : q[i] = p[i]
        <3>1. 1 \in 1..(Len(p) + 1) /\ num - 1 \in 0..Len(p) /\ 1 <= (num - 1) + 1
            BY <2>1
        <3>2. /\ SubSeq(p, 1, num - 1) \in Seq(Words)
              /\ Len(SubSeq(p, 1, num - 1)) = (num - 1) - 1 + 1
              /\ \A i \in 1..((num - 1) - 1 + 1) : SubSeq(p, 1, num - 1)[i] = p[1 + i - 1]
            BY <3>1, PieceIs
        <3>3. /\ SubSeq(p, 1, num - 1) = Front(p)
              /\ (num - 1) - 1 + 1 = num - 1 /\ \A i \in 1..(num - 1) : 1 + i - 1 = i
            BY <2>1 DEF Front
        <3> QED
            BY <3>2, <3>3
    <2>3. Meaning[MaxLinks - 1] \in Meanings /\ Meaning[MaxLinks][k][q] = Along(Meaning[MaxLinks - 1], k, q)
        <3>1. MaxLinks - 1 \in 0..MaxLinks
            BY <1>0
        <3> QED
            BY <1>0, <3>1, MeaningIs
    <2>4. PICK w : Goes(w, Meaning[MaxLinks - 1], k, q) /\ Meaning[MaxLinks][k][q] = w[num - 1]
        BY <2>2, <2>3, AlongIs
    <2>5. /\ w \in [0..(num - 1) -> Nat] /\ w[0] = k
          /\ \A i \in 1..(num - 1) : w[i] = On(Meaning[MaxLinks - 1], w[i - 1], p[i])
        BY <2>2, <2>4 DEF Goes
    <2>6. Target(k, p) = Final(w[num - 1], p[num])
        BY <1>2, <2>1, <2>2, <2>4 DEF Target, Final, Last
    <2>7. PICK goal \in Nat : goal = Target(k, p)
        <3>1. root \in Nat
            BY DEF root
        <3> QED
            BY <2>6, <3>1, ChildNode DEF Final
    <2>8. PICK t, ds : /\ t = [i \in 0..num |-> IF i = num THEN goal ELSE w[i]]
                       /\ ds = [i \in 1..num |-> MaxLinks]
        OBVIOUS
    <2>9. /\ \A i \in 0..num : i = num \/ i \in 0..(num - 1)
          /\ num \in 0..num /\ 0 \in 0..num /\ \A i \in 1..num : i - 1 \in 0..(num - 1)
        BY <2>1
    <2>10. t \in [0..num -> Nat]
        BY <2>5, <2>8, <2>9
    <2>11. t[num] = goal /\ \A i \in 0..(num - 1) : t[i] = w[i]
        BY <2>8
    <2>12. ds \in [1..num -> 1..MaxLinks] /\ \A i \in 1..num : ds[i] >= MaxLinks /\ ds[i] = MaxLinks
        BY <1>0, <2>8
    <2>13. t[0] = k
        BY <2>1, <2>5, <2>11
    <2>14. ASSUME NEW i \in 1..num
           PROVE  t[i] = IF i = num THEN Final(t[i - 1], p[i])
                         ELSE On(Meaning[ds[i] - 1], t[i - 1], p[i])
        <3>1. t[i - 1] = w[i - 1]
            BY <2>9, <2>11
        <3>2. CASE i = num
            BY <2>6, <2>7, <2>11, <3>1, <3>2
        <3>3. CASE i # num
            <4>1. i \in 1..(num - 1) /\ i \in 0..(num - 1)
                BY <3>3
            <4>2. t[i] = w[i] /\ w[i] = On(Meaning[MaxLinks - 1], w[i - 1], p[i])
                BY <2>5, <2>11, <4>1
            <4> QED
                BY <2>12, <3>1, <3>3, <4>2
        <3> QED
            BY <3>2, <3>3
    <2>15. Trail(t, ds, p, k, goal, MaxLinks)
        BY <2>1, <2>10, <2>11, <2>12, <2>13, <2>14 DEF Trail
    <2> QED
        BY <2>7, <2>15 DEF Leads
<1> QED
    BY <1>1, <1>2

\* The end of a path that is used up.
LEMMA Ends ==
    ASSUME NEW k, NEW goal, NEW low, Leads(<<>>, k, goal, low)
    PROVE  k = goal
<1>1. PICK t, ds : Trail(t, ds, <<>>, k, goal, low)
    BY DEF Leads
<1>2. Len(<<>>) = 0
    OBVIOUS
<1> QED
    BY <1>1, <1>2 DEF Trail

\* The first component leads to node m, whatever it may mean to follow links.
LEMMA Advances ==
    ASSUME NEW p \in Seq(Words), p # <<>>, NEW k, NEW goal,
           NEW low \in Int, NEW lower \in Int, lower <= low, NEW m,
           m = Final(k, Head(p)),
           Tail(p) # <<>> => \A g : On(g, k, Head(p)) = m,
           Leads(p, k, goal, low)
    PROVE  Leads(Tail(p), m, goal, lower)
<1>1. PICK t, ds : Trail(t, ds, p, k, goal, low)
    BY DEF Leads
<1>2. PICK num \in Nat : num = Len(p) /\ num # 0
    OBVIOUS
<1>3. PICK q \in Seq(Words) :
            /\ q = Tail(p) /\ Len(q) = num - 1
            /\ \A i \in 1..(num - 1) : q[i] = p[i + 1]
    <2>1. /\ Tail(p) \in Seq(Words) /\ Len(Tail(p)) = Len(p) - 1
          /\ \A i \in 1..Len(Tail(p)) : Tail(p)[i] = p[i + 1]
        BY HeadTailProperties
    <2> QED
        BY <1>2, <2>1
<1>4. Head(p) = p[1]
    OBVIOUS
<1>5. /\ t \in [0..num -> Nat] /\ ds \in [1..num -> 1..MaxLinks]
      /\ t[0] = k /\ t[num] = goal
      /\ \A i \in 1..num : ds[i] >= low
      /\ \A i \in 1..num :
            t[i] = IF i = num THEN Final(t[i - 1], p[i])
                   ELSE On(Meaning[ds[i] - 1], t[i - 1], p[i])
    BY <1>1, <1>2 DEF Trail
<1>6. t[1] = m
    <2>1. 1 \in 1..num /\ t[1 - 1] = k
        BY <1>2, <1>5
    <2>2. t[1] = IF 1 = num THEN Final(k, p[1]) ELSE On(Meaning[ds[1] - 1], k, p[1])
        BY <1>5, <2>1
    <2>3. 1 # num => Tail(p) # <<>>
        <3>1. q = <<>> => Len(q) = 0
            OBVIOUS
        <3>2. 1 # num => Len(q) # 0
            BY <1>2, <1>3
        <3> QED
            BY <1>3, <3>1, <3>2
    <2> QED
        BY <1>4, <2>2, <2>3
<1>7. PICK u, es : /\ u = [i \in 0..(num - 1) |-> t[i + 1]]
                   /\ es = [i \in 1..(num - 1) |-> ds[i + 1]]
    OBVIOUS
<1>8. /\ u \in [0..(num - 1) -> Nat] /\ es \in [1..(num - 1) -> 1..MaxLinks]
      /\ u[0] = m /\ u[num - 1] = goal
    BY <1>2, <1>5, <1>6, <1>7
<1>9. \A i \in 1..(num - 1) : es[i] >= lower
    <2>1. MaxLinks \in Nat
        BY NodesAssumption
    <2>2. ASSUME NEW i \in 1..(num - 1)
          PROVE  es[i] >= lower
        <3>1. i + 1 \in 1..num
            BY <1>2
        <3>2. ds[i + 1] \in 1..MaxLinks /\ ds[i + 1] >= low
            BY <1>5, <3>1
        <3>3. es[i] = ds[i + 1]
            BY <1>7
        <3>4. PICK e \in Int : e = ds[i + 1] /\ e >= low
            BY <2>1, <3>2
        <3>5. e >= lower
            BY <3>4
        <3> QED
            BY <3>3, <3>4, <3>5
    <2> QED
        BY <2>2
<1>10. ASSUME NEW i \in 1..(num - 1)
       PROVE  u[i] = IF i = num - 1 THEN Final(u[i - 1], q[i])
                     ELSE On(Meaning[es[i] - 1], u[i - 1], q[i])
    <2>1. i + 1 \in 1..num /\ (i + 1) - 1 = i /\ (i + 1 = num <=> i = num - 1)
        BY <1>2
    <2>2. u[i] = t[i + 1] /\ u[i - 1] = t[i] /\ es[i] = ds[i + 1] /\ q[i] = p[i + 1]
        BY <1>2, <1>3, <1>7
    <2>3. t[i + 1] = IF i + 1 = num THEN Final(t[i], p[i + 1])
                     ELSE On(Meaning[ds[i + 1] - 1], t[i], p[i + 1])
        BY <1>5, <2>1
    <2> QED
        BY <2>1, <2>2, <2>3
<1>11. Trail(u, es, q, m, goal, lower)
    BY <1>3, <1>8, <1>9, <1>10 DEF Trail
<1> QED
    BY <1>3, <1>11 DEF Leads

\* Where the first component leads to no node, neither does the path.
LEMMA Misses ==
    ASSUME NEW p \in Clean, p # <<>>, Head(p) # "/",
           NEW k, NEW goal, NEW low, Child(k, Head(p)) = 0, Leads(p, k, goal, low)
    PROVE  goal = 0
<1>1. PICK t, ds : Trail(t, ds, p, k, goal, low)
    BY DEF Leads
<1>2. PICK num \in Nat : num = Len(p) /\ num # 0
    BY DEF Clean
<1>3. Head(p) = p[1] /\ \A i \in 1..num : i > 1 => p[i] # "/"
    BY <1>2 DEF Clean
<1>4. /\ t[0] = k /\ t[num] = goal
      /\ \A i \in 1..num :
            t[i] = IF i = num THEN Final(t[i - 1], p[i])
                   ELSE On(Meaning[ds[i] - 1], t[i - 1], p[i])
    BY <1>1, <1>2 DEF Trail
<1>5. ASSUME NEW i \in 1..num, Child(t[i - 1], p[i]) = 0, p[i] # "/"
      PROVE  t[i] = 0
    BY <1>4, <1>5 DEF Final, On
<1>6. ~ (0 \in DOMAIN Nodes)
    BY NodesAssumption
<1> DEFINE S == {i \in 0..num : i = 0 \/ t[i] = 0}
<1>7. 0 \in S
    OBVIOUS
<1>8. ASSUME NEW i \in 1..num, i - 1 \in S
      PROVE  i \in S
    <2>1. i \in 0..num
        OBVIOUS
    <2>2. CASE i = 1
        <3>1. Child(t[i - 1], p[i]) = 0 /\ p[i] # "/"
            BY <1>3, <1>4, <2>2
        <3> QED
            BY <1>5, <2>1, <3>1
    <2>3. CASE i # 1
        <3>1. i > 1 /\ t[i - 1] = 0
            BY <1>8, <2>3
        <3>2. Child(t[i - 1], p[i]) = 0 /\ p[i] # "/"
            BY <1>3, <1>6, <3>1, ChildNode
        <3> QED
            BY <1>5, <2>1, <3>2
    <2> QED
        BY <2>2, <2>3
<1> HIDE DEF S
<1>9. \A i \in 0..num : i \in S
    BY <1>7, <1>8, OneByOne
<1>10. num \in S
    BY <1>9
<1> QED
    BY <1>2, <1>4, <1>10 DEF S

\* s is q and then p, without the first component of p.
Fronted(s, q, p) ==
    /\ s \in Clean /\ Len(q) \in Nat
    /\ Len(s) = Len(q) + Len(p) - 1
    /\ \A i \in 1..Len(q) : s[i] = q[i]
    /\ \A i \in (Len(q) + 1)..(Len(q) + Len(p) - 1) : s[i] = p[i - Len(q) + 1]

\* A path in front of what is left.
LEMMA InFront ==
    ASSUME NEW q \in Clean, NEW p \in Clean, p # <<>>
    PROVE  Fronted(q \o Tail(p), q, p)
<1>1. q \in Seq(Words) /\ p \in Seq(Words)
    BY DEF Clean
<1>2. PICK r \in Seq(Words) : /\ r = Tail(p) /\ Len(r) = Len(p) - 1
                              /\ \A i \in 1..Len(r) : r[i] = p[i + 1]
    BY <1>1, HeadTailProperties
<1>3. PICK s \in Seq(Words) :
            /\ s = q \o r /\ Len(s) = Len(q) + Len(r)
            /\ \A i \in 1..Len(s) : s[i] = IF i <= Len(q) THEN q[i] ELSE r[i - Len(q)]
    <2>1. /\ q \o r \in Seq(Words) /\ Len(q \o r) = Len(q) + Len(r)
          /\ \A i \in 1..(Len(q) + Len(r)) :
                (q \o r)[i] = IF i <= Len(q) THEN q[i] ELSE r[i - Len(q)]
        BY <1>1, ConcatProperties
    <2> QED
        BY <2>1
<1>4. Len(q) \in Nat /\ Len(p) \in Nat /\ Len(r) \in Nat
    BY <1>1
<1>5. \A i \in 1..Len(q) : s[i] = q[i]
    BY <1>3, <1>4
<1>6. ASSUME NEW i \in (Len(q) + 1)..(Len(q) + Len(p) - 1)
      PROVE  s[i] = p[i - Len(q) + 1]
    <2>1. i \in 1..Len(s) /\ ~ (i <= Len(q)) /\ i - Len(q) \in 1..Len(r)
        BY <1>2, <1>3, <1>4
    <2> QED
        BY <1>2, <1>3, <2>1
<1>7. ASSUME NEW i \in 1..Len(s), i > 1
      PROVE  s[i] # "/"
    <2>1. CASE i \in 1..Len(q)
        BY <1>5, <1>7, <2>1 DEF Clean
    <2>2. CASE i \in (Len(q) + 1)..(Len(q) + Len(p) - 1)
        <3>1. i - Len(q) + 1 \in 1..Len(p) /\ i - Len(q) + 1 > 1
            BY <1>4, <2>2
        <3> QED
            BY <1>6, <2>2, <3>1 DEF Clean
    <2> QED
        BY <1>2, <1>3, <1>4, <2>1, <2>2
<1>8. s \in Clean
    BY <1>7 DEF Clean
<1>9. Fronted(s, q, p)
    BY <1>2, <1>3, <1>4, <1>5, <1>6, <1>8 DEF Fronted
<1> QED
    BY <1>2, <1>3, <1>9

\* A link on the way: its path in front of what is left leads to the same end,
\* with a link less to follow.
LEMMA Splices ==
    ASSUME NEW p \in Clean, p # <<>>, Tail(p) # <<>>, Head(p) # "/", NEW k \in Nat, NEW goal,
           NEW m, m = Child(k, Head(p)), m # 0, is_symlink(m),
           NEW q, q = Parse(Nodes[m].target),
           NEW low \in Nat, low > 1, Leads(p, k, goal, low)
    PROVE  Leads(q \o Tail(p), k, goal, low - 1)
<1>1. PICK t, ds : Trail(t, ds, p, k, goal, low)
    BY DEF Leads
<1>2. PICK num \in Nat : num = Len(p) /\ num > 1
    <2>1. p \in Seq(Words)
        BY DEF Clean
    <2>2. Len(p) \in Nat /\ Len(p) # 0
        BY <2>1
    <2>3. Len(Tail(p)) = Len(p) - 1 /\ Tail(p) \in Seq(Words)
        BY <2>1, HeadTailProperties
    <2>4. Len(Tail(p)) # 0
        BY <2>3
    <2>5. Len(p) > 1
        BY <2>2, <2>3, <2>4
    <2> QED
        BY <2>2, <2>5
<1>3. Head(p) = p[1]
    BY DEF Clean
<1>4. q \in Clean /\ q \in Seq(Words)
    <2>1. m \in DOMAIN Nodes
        BY ChildNode
    <2>2. Nodes[m].target \in Seq(Words)
        BY <2>1, NodesAssumption
    <2> QED
        BY <2>2, ParseClean DEF Clean
<1>5. PICK len \in Nat : len = Len(q)
    BY <1>4
<1>6. PICK s :
            /\ s = q \o Tail(p) /\ Len(s) = len + num - 1
            /\ \A i \in 1..len : s[i] = q[i]
            /\ \A i \in (len + 1)..(len + num - 1) : s[i] = p[i - len + 1]
    <2>1. PICK s : s = q \o Tail(p) /\ Fronted(s, q, p)
        BY <1>4, InFront
    <2>2. /\ Len(s) = len + num - 1
          /\ \A i \in 1..len : s[i] = q[i]
          /\ \A i \in (len + 1)..(len + num - 1) : s[i] = p[i - len + 1]
        BY <1>2, <1>5, <2>1 DEF Fronted
    <2> QED
        BY <2>1, <2>2, Zenon
<1>7. /\ t \in [0..num -> Nat] /\ ds \in [1..num -> 1..MaxLinks]
      /\ t[0] = k /\ t[num] = goal
      /\ \A i \in 1..num : ds[i] >= low
      /\ \A i \in 1..num :
            t[i] = IF i = num THEN Final(t[i - 1], p[i])
                   ELSE On(Meaning[ds[i] - 1], t[i - 1], p[i])
    BY <1>1, <1>2 DEF Trail
<1>8. MaxLinks \in Nat
    BY NodesAssumption
<1>9. PICK d \in 1..MaxLinks : d = ds[1] - 1 /\ d >= low - 1
    <2>1. 1 \in 1..num
        BY <1>2
    <2>2. PICK e \in 1..MaxLinks : e = ds[1] /\ e >= low
        BY <1>7, <2>1
    <2>3. e - 1 \in 1..MaxLinks /\ e - 1 >= low - 1
        BY <1>8, <2>2
    <2> QED
        BY <2>2, <2>3
<1>10. t[1] = Meaning[d][k][q]
    <2>1. 1 \in 1..num /\ 1 # num /\ 1 - 1 = 0
        BY <1>2
    <2>2. t[1] = On(Meaning[ds[1] - 1], t[1 - 1], p[1])
        BY <1>7, <2>1
    <2>3. t[1] = On(Meaning[d], k, p[1])
        BY <1>7, <1>9, <2>1, <2>2
    <2> QED
        BY <1>3, <2>3 DEF On
<1>11. PICK w : Goes(w, Meaning[d - 1], k, q) /\ t[1] = w[len]
    <2>1. Meaning[d - 1] \in Meanings /\ Meaning[d][k][q] = Along(Meaning[d - 1], k, q)
        <3>1. d - 1 \in 0..MaxLinks
            BY <1>8
        <3> QED
            BY <1>4, <3>1, MeaningIs
    <2>2. PICK g \in Meanings : g = Meaning[d - 1] /\ t[1] = Along(g, k, q)
        BY <1>10, <2>1
    <2>3. PICK w : Goes(w, g, k, q) /\ Along(g, k, q) = w[Len(q)]
        BY <1>4, AlongIs
    <2> QED
        BY <1>5, <2>2, <2>3
<1>12. /\ w \in [0..len -> Nat] /\ w[0] = k
       /\ \A i \in 1..len : w[i] = On(Meaning[d - 1], w[i - 1], q[i])
    BY <1>5, <1>11 DEF Goes
<1>13. PICK all \in Nat : all = len + num - 1 /\ all > len
    <2>1. len + num - 1 \in Nat /\ len + num - 1 > len
        BY <1>2
    <2> QED
        BY <2>1
<1>14. PICK u, es : /\ u = [i \in 0..all |-> IF i <= len THEN w[i] ELSE t[i - len + 1]]
                    /\ es = [i \in 1..all |-> IF i <= len THEN d ELSE ds[i - len + 1]]
    OBVIOUS
<1>15. \A i \in 0..len : u[i] = w[i]
    BY <1>13, <1>14
<1>16. \A i \in len..all : u[i] = t[i - len + 1]
    <2>1. ASSUME NEW i \in len..all
          PROVE  u[i] = t[i - len + 1]
        <3>1. i \in 0..all /\ (i <= len => i = len)
            BY <1>13
        <3>2. len - len + 1 = 1
            OBVIOUS
        <3> QED
            BY <1>11, <1>14, <3>1, <3>2
    <2> QED
        BY <2>1
<1>17. u \in [0..all -> Nat]
    <2>1. ASSUME NEW i \in 0..all
          PROVE  u[i] \in Nat
        <3>1. CASE i \in 0..len
            BY <1>12, <1>15, <3>1
        <3>2. CASE i \in len..all
            <4>1. i - len + 1 \in 0..num
                BY <1>13, <3>2
            <4> QED
                BY <1>7, <1>16, <3>2, <4>1
        <3> QED
            BY <1>13, <3>1, <3>2
    <2> QED
        BY <1>14, <2>1
<1>18. /\ \A i \in 1..len : es[i] = d
       /\ \A i \in (len + 1)..all : es[i] = ds[i - len + 1]
    <2>1. /\ \A i \in 1..len : i \in 1..all /\ i <= len
          /\ \A i \in (len + 1)..all : i \in 1..all /\ ~ (i <= len)
        BY <1>13
    <2> QED
        BY <1>14, <2>1
<1>19. ASSUME NEW i \in 1..all
       PROVE  es[i] \in 1..MaxLinks /\ es[i] >= low - 1
    <2>1. CASE i \in 1..len
        BY <1>9, <1>18, <2>1
    <2>2. CASE i \in (len + 1)..all
        <3>1. i - len + 1 \in 1..num
            BY <1>13, <2>2
        <3>2. PICK e \in 1..MaxLinks : e = ds[i - len + 1] /\ e >= low
            BY <1>7, <3>1
        <3> QED
            BY <1>8, <1>18, <2>2, <3>2
    <2> QED
        BY <1>13, <2>1, <2>2
<1>20. es \in [1..all -> 1..MaxLinks]
    BY <1>14, <1>19
<1>21. u[0] = k /\ u[all] = goal
    <2>1. 0 \in 0..len /\ all \in len..all /\ all - len + 1 = num
        BY <1>13
    <2> QED
        BY <1>7, <1>12, <1>15, <1>16, <2>1
<1>22. ASSUME NEW i \in 1..all
       PROVE  u[i] = IF i = all THEN Final(u[i - 1], s[i])
                     ELSE On(Meaning[es[i] - 1], u[i - 1], s[i])
    <2>1. CASE i \in 1..len
        <3>1. i \in 0..len /\ i - 1 \in 0..len /\ i # all
            BY <1>13, <2>1
        <3>2. u[i] = w[i] /\ u[i - 1] = w[i - 1] /\ es[i] = d /\ s[i] = q[i]
            BY <1>6, <1>15, <1>18, <2>1, <3>1
        <3> QED
            BY <1>12, <2>1, <3>1, <3>2
    <2>2. CASE i \in (len + 1)..all
        <3>1. PICK j \in 1..num : j = i - len + 1
            BY <1>13, <2>2
        <3>2. /\ i \in len..all /\ i - 1 \in len..all /\ (i - 1) - len + 1 = j - 1
              /\ (i = all <=> j = num) /\ i \in (len + 1)..(len + num - 1)
            BY <1>13, <2>2, <3>1
        <3>3. u[i] = t[j] /\ u[i - 1] = t[j - 1] /\ es[i] = ds[j] /\ s[i] = p[j]
            <4>1. s[i] = p[j]
                BY <1>6, <3>1, <3>2
            <4>2. es[i] = ds[j]
                BY <1>18, <2>2, <3>1
            <4>3. u[i] = t[j] /\ u[i - 1] = t[(i - 1) - len + 1]
                BY <1>16, <3>1, <3>2
            <4> QED
                BY <3>2, <4>1, <4>2, <4>3
        <3> QED
            BY <1>7, <3>1, <3>2, <3>3
    <2> QED
        BY <1>13, <2>1, <2>2
<1>23. Trail(u, es, s, k, goal, low - 1)
    <2>1. Len(s) = all
        BY <1>6, <1>13
    <2> QED
        BY <1>17, <1>19, <1>20, <1>21, <1>22, <2>1 DEF Trail
<1> QED
    BY <1>6, <1>23 DEF Leads

\* The node that find() is to come to.
Goal == Target(IF cwd = 0 THEN root ELSE cwd, Parse(name))

FindTypes ==
    /\ cwd \in {0} \cup DOMAIN Nodes /\ count \in Nat
    /\ name \in Seq(Words) /\ path \in Clean
    /\ found \in BOOLEAN /\ garbled \in BOOLEAN
    /\ call = "none" => ~ found /\ ~ garbled /\ count = 0
    /\ Finding => node \in DOMAIN Nodes
    /\ found => node \in {0} \cup DOMAIN Nodes

\* While find() has links left, the rest of the path leads from its node to
\* where the whole path leads.
OnTheWay ==
    Finding /\ ~ garbled /\ (count < MaxLinks \/ path = <<>>)
        => Leads(path, node, Goal, MaxLinks - count)

FindInv == FindTypes /\ OnTheWay /\ FindCorrect

\* Facts about the constants.
LEMMA NodesAre ==
    /\ DOMAIN Nodes \subseteq Nat /\ 0 \notin DOMAIN Nodes
    /\ root \in DOMAIN Nodes
    /\ Names \subseteq Seq(Words)
    /\ MaxLinks \in Nat /\ MaxLinks # 0
BY NodesAssumption

\* find() returns, with the node or without one.
LEMMA FindKeeps ==
    ASSUME FindInv, NEW k \in {0} \cup DOMAIN Nodes, Finding, Find(k),
           garbled \/ k = Goal \/ (k = 0 /\ count >= MaxLinks)
    PROVE  FindInv'
<1>1. /\ node' = k /\ found' = TRUE
      /\ UNCHANGED <<cwd, call, name, path, count, garbled>>
    BY DEF Find
<1>2. FindTypes'
    BY <1>1 DEF FindInv, FindTypes, Finding
<1>3. ~ Finding'
    BY <1>1 DEF Finding
<1>4. FindCorrect'
    BY <1>1 DEF FindCorrect, Goal
<1> QED
    BY <1>2, <1>3, <1>4 DEF FindInv, OnTheWay

\* The path is used up.
LEMMA FindEndsKeeps ==
    ASSUME FindInv, FindEnds
    PROVE  FindInv'
<1>1. Finding /\ path = <<>> /\ Find(node)
    BY DEF FindEnds
<1>2. garbled \/ node = Goal
    <2>1. SUFFICES ASSUME ~ garbled
                   PROVE  node = Goal
        OBVIOUS
    <2>2. Leads(<<>>, node, Goal, MaxLinks - count)
        BY <1>1, <2>1 DEF FindInv, OnTheWay
    <2> QED
        BY <2>2, Ends
<1>3. node \in {0} \cup DOMAIN Nodes
    BY <1>1 DEF FindInv, FindTypes
<1> QED
    BY <1>1, <1>2, <1>3, FindKeeps

\* Too many links, no directory or no such name.
LEMMA FindFailsKeeps ==
    ASSUME FindInv, FindFails
    PROVE  FindInv'
<1>1. /\ Finding /\ path # <<>> /\ Find(0) /\ node \in DOMAIN Nodes
      /\ path \in Clean /\ count \in Nat /\ garbled \in BOOLEAN
    BY DEF FindFails, FindInv, FindTypes
<1>2. CASE count >= MaxLinks \/ garbled
    <2>1. 0 \in {0} \cup DOMAIN Nodes
        OBVIOUS
    <2> QED
        BY <1>1, <1>2, <2>1, FindKeeps
<1>3. CASE count < MaxLinks /\ ~ garbled
    <2>1. Head(path) # "/" /\ (is_dir(node) => find_one(node, Head(path)) = 0)
        BY <1>3 DEF FindFails
    <2>2. Child(node, Head(path)) = 0
        BY <1>1, <2>1, ChildNode, FindOneIs
    <2>3. Leads(path, node, Goal, MaxLinks - count)
        BY <1>1, <1>3 DEF FindInv, OnTheWay
    <2>4. Goal = 0
        BY <1>1, <2>1, <2>2, <2>3, Misses
    <2>5. 0 \in {0} \cup DOMAIN Nodes
        OBVIOUS
    <2> QED
        BY <1>1, <1>3, <2>4, <2>5, FindKeeps
<1> QED
    BY <1>1, <1>2, <1>3, NodesAre

\* What is left behind the first component.
LEMMA TailKeeps ==
    ASSUME NEW p \in Clean, p # <<>>
    PROVE  Tail(p) \in Clean
<1>1. p \in Seq(Words)
    BY DEF Clean
<1>2. PICK r \in Seq(Words) : /\ r = Tail(p) /\ Len(r) = Len(p) - 1
                              /\ \A i \in 1..Len(r) : r[i] = p[i + 1]
    BY <1>1, HeadTailProperties
<1>3. Len(p) \in Nat /\ Len(r) \in Nat
    BY <1>1
<1>4. ASSUME NEW i \in 1..Len(r), i > 1
      PROVE  r[i] # "/"
    <2>1. i + 1 \in 1..Len(p) /\ i + 1 > 1
        BY <1>2, <1>3
    <2> QED
        BY <1>2, <2>1 DEF Clean
<1>5. r \in Clean
    BY <1>4 DEF Clean
<1> QED
    BY <1>2, <1>5

\* The loop goes on from a node.
LEMMA AdvanceKeeps ==
    ASSUME FindInv, Finding, NEW rest \in Clean, NEW to \in DOMAIN Nodes,
           NEW links \in Nat, Advance(rest, to, links), garbled' \in BOOLEAN,
           ~ garbled' /\ (links < MaxLinks \/ rest = <<>>)
                => Leads(rest, to, Goal, MaxLinks - links)
    PROVE  FindInv'
<1>1. /\ path' = rest /\ node' = to /\ count' = links
      /\ UNCHANGED <<cwd, call, name, found>>
    BY DEF Advance
<1>2. ~ found /\ call # "none"
    BY DEF Finding
<1>3. FindTypes'
    BY <1>1, <1>2 DEF FindInv, FindTypes, Finding
<1>4. Goal' = Goal
    BY <1>1 DEF Goal
<1>5. OnTheWay'
    BY <1>1, <1>4 DEF OnTheWay
<1>6. FindCorrect'
    BY <1>1, <1>2 DEF FindCorrect
<1> QED
    BY <1>3, <1>5, <1>6 DEF FindInv

\* A component that is not a link on the way.
LEMMA ComponentKeeps ==
    ASSUME FindInv, Finding, path # <<>>, count < MaxLinks,
           NEW to \in DOMAIN Nodes, NEW links \in Nat, links >= count,
           Advance(Tail(path), to, links), UNCHANGED garbled,
           to = Final(node, Head(path)),
           Tail(path) # <<>> => \A g : On(g, node, Head(path)) = to
    PROVE  FindInv'
<1>1. /\ path \in Clean /\ path \in Seq(Words) /\ Tail(path) \in Clean
      /\ garbled' \in BOOLEAN /\ count \in Nat /\ MaxLinks \in Nat
    BY TailKeeps, NodesAre DEF FindInv, FindTypes, Clean
<1>2. ASSUME ~ garbled'
      PROVE  Leads(Tail(path), to, Goal, MaxLinks - links)
    <2>1. Leads(path, node, Goal, MaxLinks - count)
        BY <1>2 DEF FindInv, OnTheWay
    <2>2. PICK low \in Int, lower \in Int :
                low = MaxLinks - count /\ lower = MaxLinks - links /\ lower <= low
        BY <1>1
    <2> QED
        BY <1>1, <2>1, <2>2, Advances
<1> QED
    BY <1>1, <1>2, AdvanceKeeps

\* A slash in front.
LEMMA FindRootKeeps ==
    ASSUME FindInv, FindRoot
    PROVE  FindInv'
<1>1. /\ Finding /\ path # <<>> /\ count < MaxLinks /\ Head(path) = "/"
      /\ Advance(Tail(path), root, count) /\ UNCHANGED garbled
    BY DEF FindRoot
<1>2. root = Final(node, Head(path)) /\ \A g : On(g, node, Head(path)) = root
    BY <1>1 DEF Final, On
<1>3. count \in Nat /\ count >= count /\ root \in DOMAIN Nodes
    BY NodesAre DEF FindInv, FindTypes
<1> QED
    BY <1>1, <1>2, <1>3, ComponentKeeps

\* The node of the first name is the one the directory has under it.
LEMMA StepIs ==
    ASSUME FindInv, NEW k \in DOMAIN Nodes, Step(k)
    PROVE  /\ Finding /\ path # <<>> /\ count < MaxLinks /\ node \in DOMAIN Nodes
           /\ Head(path) # "/"
           /\ k = Child(node, Head(path)) /\ k # 0
<1>1. /\ Finding /\ path # <<>> /\ count < MaxLinks
      /\ Head(path) # "/" /\ is_dir(node)
      /\ k = find_one(node, Head(path)) /\ k # 0
    BY DEF Step
<1>2. node \in DOMAIN Nodes
    BY <1>1 DEF FindInv, FindTypes
<1>3. k = Child(node, Head(path))
    BY <1>1, <1>2, FindOneIs
<1> QED
    BY <1>1, <1>2, <1>3

\* A file, a directory, or a link at the end.
LEMMA FindNextKeeps ==
    ASSUME FindInv, NEW k \in DOMAIN Nodes, FindNext(k)
    PROVE  FindInv'
<1>1. /\ Finding /\ path # <<>> /\ count < MaxLinks /\ node \in DOMAIN Nodes
      /\ Head(path) # "/"
      /\ k = Child(node, Head(path)) /\ k # 0
    BY StepIs DEF FindNext
<1>2. /\ ~ is_symlink(k) \/ Tail(path) = <<>>
      /\ UNCHANGED garbled
    BY DEF FindNext
<1>3. PICK links : /\ links = IF is_symlink(k) THEN count + 1 ELSE count
                   /\ Advance(Tail(path), k, links)
    BY DEF FindNext
<1>4. links \in Nat /\ links >= count
    BY <1>3 DEF FindInv, FindTypes
<1>5. k = Final(node, Head(path))
    BY <1>1 DEF Final
<1>6. Tail(path) # <<>> => \A g : On(g, node, Head(path)) = k
    BY <1>1, <1>2 DEF On
<1> QED
    BY <1>1, <1>2, <1>3, <1>4, <1>5, <1>6, ComponentKeeps

\* What get_symbol reads.
LEMMA SymbolIs ==
    ASSUME NEW k \in DOMAIN Nodes, is_symlink(k), NEW garbage \in Garbage
    PROVE  /\ get_symbol(k, garbage) \in Clean
           /\ garbage = <<>> => get_symbol(k, garbage) = Parse(Nodes[k].target)
<1>1. PICK l \in Seq(Words) : l = Nodes[k].target
    BY NodesAssumption
<1>2. garbage \in Seq(Words)
    BY NodesAssumption
<1>3. PICK r \in Seq(Words) : /\ get_symbol(k, garbage) = Parse(r \o garbage)
                              /\ garbage = <<>> => r = l
    <2>1. CASE l = <<>> \/ Last(l) = "/" \/ garbage = <<>> \/ Head(garbage) = "/"
        BY <1>1, <2>1 DEF get_symbol
    <2>2. CASE ~ (l = <<>> \/ Last(l) = "/" \/ garbage = <<>> \/ Head(garbage) = "/")
        <3>1. 1 \in 1..(Len(l) + 1) /\ Len(l) - 1 \in 0..Len(l) /\ 1 <= (Len(l) - 1) + 1
            BY <2>2
        <3>2. Front(l) \in Seq(Words)
            BY <3>1, PieceIs DEF Front
        <3> QED
            BY <1>1, <2>2, <3>2 DEF get_symbol
    <2> QED
        BY <2>1, <2>2
<1>4. r \o garbage \in Seq(Words) /\ (garbage = <<>> => r \o garbage = l)
    BY <1>2, <1>3
<1> QED
    BY <1>1, <1>3, <1>4, ParseClean

\* A link on the way.
LEMMA FindLinkKeeps ==
    ASSUME FindInv, NEW k \in DOMAIN Nodes, NEW garbage \in Garbage, FindLink(k, garbage)
    PROVE  FindInv'
<1>1. /\ Finding /\ path # <<>> /\ count < MaxLinks /\ node \in DOMAIN Nodes
      /\ Head(path) # "/"
      /\ k = Child(node, Head(path)) /\ k # 0
    BY StepIs DEF FindLink
<1>2. is_symlink(k) /\ Tail(path) # <<>> /\ garbled' = (garbled \/ garbage # <<>>)
    BY DEF FindLink
<1>3. PICK q \in Clean : q = get_symbol(k, garbage)
    BY <1>2, SymbolIs
<1>4. PICK rest \in Clean : rest = q \o Tail(path) /\ Fronted(rest, q, path)
    <2>1. Fronted(q \o Tail(path), q, path)
        BY <1>1, InFront DEF FindInv, FindTypes
    <2>2. q \o Tail(path) \in Clean
        BY <2>1 DEF Fronted
    <2> QED
        BY <2>1, <2>2
<1>5. Advance(rest, node, count + 1)
    BY <1>3, <1>4 DEF FindLink, merge_symbolic_link
<1>6. /\ path \in Clean /\ path \in Seq(Words)
      /\ count \in Nat /\ count + 1 \in Nat /\ node \in Nat
      /\ garbled \in BOOLEAN /\ MaxLinks \in Nat
    BY <1>1, NodesAre DEF FindInv, FindTypes, Clean
<1>7. /\ Len(q) \in Nat /\ Len(path) \in Nat /\ Len(rest) = Len(q) + Len(path) - 1
      /\ \A i \in 1..Len(q) : rest[i] = q[i]
      /\ \A i \in (Len(q) + 1)..(Len(q) + Len(path) - 1) : rest[i] = path[i - Len(q) + 1]
    <2>1. Len(path) \in Nat
        BY <1>6
    <2> QED
        BY <1>4, <2>1 DEF Fronted
<1>8. Len(path) # 0 /\ Head(path) = path[1]
    BY <1>1, <1>6
<1>9. ASSUME ~ garbled', count + 1 < MaxLinks \/ rest = <<>>
      PROVE  Leads(rest, node, Goal, MaxLinks - (count + 1))
    <2>1. ~ garbled /\ garbage = <<>>
        BY <1>2, <1>9
    <2>2. q = Parse(Nodes[k].target)
        BY <1>2, <1>3, <2>1, SymbolIs
    <2>3. count + 1 < MaxLinks
        <3>1. rest # <<>>
            <4>1. Len(Tail(path)) = Len(path) - 1 /\ Tail(path) \in Seq(Words)
                BY <1>1, <1>6, HeadTailProperties
            <4>2. Len(Tail(path)) # 0
                BY <1>2, <4>1
            <4>3. Len(rest) # 0
                BY <1>7, <1>8, <4>1, <4>2
            <4> QED
                BY <4>3
        <3> QED
            BY <1>9, <3>1
    <2>4. PICK low \in Nat : low = MaxLinks - count /\ low > 1 /\ low - 1 = MaxLinks - (count + 1)
        <3>1. /\ MaxLinks - count \in Nat /\ MaxLinks - count > 1
              /\ (MaxLinks - count) - 1 = MaxLinks - (count + 1)
            BY <1>6, <2>3
        <3> QED
            BY <3>1
    <2>5. Leads(path, node, Goal, low)
        BY <1>1, <2>1, <2>4 DEF FindInv, OnTheWay
    <2>6. Leads(q \o Tail(path), node, Goal, low - 1)
        BY <1>1, <1>2, <1>6, <2>2, <2>4, <2>5, Splices
    <2> QED
        BY <1>4, <2>4, <2>6
<1>10. garbled' \in BOOLEAN
    BY <1>2, <1>6
<1> QED
    BY <1>1, <1>5, <1>6, <1>9, <1>10, AdvanceKeeps

\* A call begins at the root or at the cwd.
LEMMA CallFindKeeps ==
    ASSUME FindInv, NEW c \in {"open", "chdir"}, NEW p \in Names, CallFind(c, p)
    PROVE  FindInv'
<1>1. /\ call = "none" /\ call' = c /\ name' = p /\ path' = Parse(p)
      /\ node' = IF cwd = 0 THEN root ELSE cwd
      /\ cwd' = IF cwd = 0 /\ c = "open" THEN root ELSE cwd
      /\ UNCHANGED <<count, garbled, found>>
    BY DEF CallFind
<1>2. /\ cwd \in {0} \cup DOMAIN Nodes
      /\ ~ found /\ ~ garbled /\ count = 0 /\ found \in BOOLEAN /\ garbled \in BOOLEAN
    BY <1>1 DEF FindInv, FindTypes
<1>3. p \in Seq(Words) /\ Parse(p) \in Clean /\ Parse(p) \in Seq(Words)
    BY NodesAre, ParseClean DEF Clean
<1>4. PICK k \in DOMAIN Nodes : k = IF cwd = 0 THEN root ELSE cwd
    BY <1>2, NodesAre
<1>5. cwd' \in {0} \cup DOMAIN Nodes /\ k = IF cwd' = 0 THEN root ELSE cwd'
    BY <1>1, <1>2, <1>4, NodesAre
<1>6. FindTypes'
    BY <1>1, <1>2, <1>3, <1>4, <1>5 DEF FindTypes, Finding
<1>7. OnTheWay'
    <2>1. k \in Nat /\ MaxLinks \in Nat
        BY NodesAre
    <2>2. Leads(Parse(p), k, Target(k, Parse(p)), MaxLinks)
        BY <1>3, <2>1, Begins
    <2>3. Goal' = Target(k, Parse(p))
        BY <1>1, <1>5 DEF Goal
    <2>4. node' = k /\ path' = Parse(p) /\ MaxLinks - count' = MaxLinks
        BY <1>1, <1>2, <1>4, <2>1
    <2> QED
        BY <2>2, <2>3, <2>4 DEF OnTheWay
<1>8. FindCorrect'
    BY <1>1, <1>2 DEF FindCorrect
<1> QED
    BY <1>6, <1>7, <1>8 DEF FindInv

\* The call is over, and what find() returned may be the new cwd.
LEMMA ResetKeeps ==
    ASSUME FindInv, Reset, cwd' \in {0} \cup DOMAIN Nodes
    PROVE  FindInv'
<1>1. /\ call' = "none" /\ name' = <<>> /\ path' = <<>> /\ count' = 0
      /\ garbled' = FALSE /\ found' = FALSE
    BY DEF Reset
<1>2. <<>> \in Seq(Words) /\ <<>> \in Clean
    BY DEF Clean
<1>3. FindTypes'
    BY <1>1, <1>2 DEF FindTypes, Finding
<1>4. ~ Finding' /\ ~ found'
    BY <1>1 DEF Finding
<1> QED
    BY <1>3, <1>4 DEF FindInv, OnTheWay, FindCorrect

\* A read of the file, or nothing, leaves find() alone.
LEMMA FindStutters ==
    ASSUME FindInv, UNCHANGED <<cwd, finding>>
    PROVE  FindInv'
<1>1. UNCHANGED <<cwd, call, name, path, node, count, garbled, found>>
    BY DEF finding
<1>2. Goal' = Goal /\ Finding' = Finding
    BY <1>1 DEF Goal, Finding
<1>3. FindTypes'
    BY <1>1, <1>2 DEF FindInv, FindTypes
<1>4. OnTheWay'
    BY <1>1, <1>2 DEF FindInv, OnTheWay
<1>5. FindCorrect'
    BY <1>1 DEF FindInv, FindCorrect
<1> QED
    BY <1>3, <1>4, <1>5 DEF FindInv

\* FindCorrect, for every file system within NodesAssumption, every path and
\* every number of links that find() may follow: rewriting the path link by
\* link, it comes to the node the path means, and when it returns none for a
\* path that means one, it has met MaxLinks links.  A call that has read garbage
\* behind a link, whatever there may be, is promised nothing.
THEOREM FindsTheNode == FilesSpec => []FindCorrect
<1>1. FilesInit => FindInv
    <2>1. SUFFICES ASSUME FilesInit
                   PROVE  FindInv
        OBVIOUS
    <2>2. /\ cwd = 0 /\ call = "none" /\ name = <<>> /\ path = <<>> /\ count = 0
          /\ garbled = FALSE /\ found = FALSE
        BY <2>1 DEF FilesInit
    <2>3. <<>> \in Seq(Words) /\ <<>> \in Clean
        BY DEF Clean
    <2>4. FindTypes
        BY <2>2, <2>3 DEF FindTypes, Finding
    <2>5. ~ Finding /\ ~ found
        BY <2>2 DEF Finding
    <2> QED
        BY <2>4, <2>5 DEF FindInv, OnTheWay, FindCorrect
<1>2. FindInv /\ [FilesNext]_filesVars => FindInv'
    <2>1. SUFFICES ASSUME FindInv, [FilesNext]_filesVars
                   PROVE  FindInv'
        OBVIOUS
    <2>2. CASE UNCHANGED filesVars
        BY <2>1, <2>2, FindStutters DEF filesVars
    <2>3. CASE \E c \in {"open", "chdir"}, p \in Names : CallFind(c, p)
        BY <2>1, <2>3, CallFindKeeps
    <2>4. CASE FindLoop
        BY <2>1, <2>4, FindEndsKeeps, FindFailsKeeps, FindRootKeeps, FindNextKeeps,
           FindLinkKeeps DEF FindLoop
    <2>5. CASE Chdir
        <3>1. found /\ cwd' = (IF node = 0 THEN cwd ELSE node) /\ Reset
            BY <2>5 DEF Chdir
        <3>2. cwd' \in {0} \cup DOMAIN Nodes
            BY <2>1, <3>1 DEF FindInv, FindTypes
        <3> QED
            BY <2>1, <3>1, <3>2, ResetKeeps
    <2>6. CASE OpenAndRead
        <3>1. cwd' = cwd /\ Reset
            BY <2>6 DEF OpenAndRead
        <3>2. cwd' \in {0} \cup DOMAIN Nodes
            BY <2>1, <3>1 DEF FindInv, FindTypes
        <3> QED
            BY <2>1, <3>1, <3>2, ResetKeeps
    <2>7. CASE ReadNext /\ UNCHANGED <<cwd, finding>>
        BY <2>1, <2>7, FindStutters
    <2> QED
        BY <2>1, <2>2, <2>3, <2>4, <2>5, <2>6, <2>7 DEF FilesNext, Progress
<1>3. FindInv => FindCorrect
    BY DEF FindInv
<1> QED
    BY <1>1, <1>2, <1>3, PTL DEF FilesSpec

=============================================================================
