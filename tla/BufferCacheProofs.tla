------------------------- MODULE BufferCacheProofs --------------------------
(***************************************************************************)
(* Proofs about module BufferCache, and so about the driver of module Ide, *)
(* for any number of readers, any set of blocks and any size of the cache: *)
(* a read gets the bytes it asked for, and the cache keeps to its limit.   *)
(***************************************************************************)
EXTENDS BufferCache, Sums, SequenceTheorems

\* A block that holds the bytes of the sector it is filed under.
Honest == {[id |-> b, data |-> b] : b \in Nat}

InDriver == {"prepare", "command", "check", "busy", "drq", "delay"}
HasBytes == {"delay", "count", "full", "evict", "add", "touch"}

ReaderTypes ==
    /\ pc \in [Readers -> {"idle", "ide"} \union InDriver \union HasBytes]
    /\ sector \in [Readers -> Nat]
    /\ buffer \in [Readers -> Nat \union {None}]
    /\ lba \in Nat

\* In particular every block in a list is what it is filed under.
ListTypes == indices \in [Indices -> Seq(Honest)]

GlobalTypes ==
    /\ prev \in [Indices -> Indices \union {None}]
    /\ first \in Indices \union {None}
    /\ last \in Indices \union {None}
    /\ next \in [Indices -> Indices \union {None}]

NumberTypes == count \in Nat /\ missed \in Nat

\* Who talks to the drive holds its lock.
Holder == \A r \in Readers : pc[r] \in InDriver => lock = r

\* From the command on the registers name the sector that is read.
Registers ==
    \A r \in Readers : pc[r] \in {"command", "check", "busy", "drq"} => lba = sector[r]

\* Who has come past the transfer, or has found its block, has its bytes.
Bytes == \A r \in Readers : pc[r] \in HasBytes => buffer[r] = sector[r]

\* Who evicts has seen an oldest index.
Oldest == \A r \in Readers : pc[r] = "evict" => last \in Indices

Adding == {r \in Readers : pc[r] = "add"}
Lens == [i \in Indices |-> Len(indices[i])]

\* The blocks in the lists, and those that readers are about to put there,
\* were counted, up to the limit; beyond it each found its room, or missed.
Counted ==
    Sum(Lens, Indices) + Cardinality(Adding)
        <= (IF count < Size THEN count ELSE Size - 1) + missed

IndInv == /\ ReaderTypes /\ ListTypes /\ GlobalTypes /\ NumberTypes
          /\ Holder /\ Registers /\ Bytes /\ Oldest /\ Counted

-----------------------------------------------------------------------------
(* The constants, the counts and the lists *)

\* There is a list for every block.
LEMMA Constants ==
    /\ Size \in Nat \ {0} /\ 0 \in Indices /\ IsFiniteSet(Indices)
    /\ \A b \in Nat : b % Size \in Indices
    /\ None \notin Indices
<1>1. Size \in Nat /\ Size > 0
    <2>1. Cardinality(Readers) \in Nat
        BY BufferCacheAssumption, FS_CardinalityType
    <2> QED
        BY <2>1, BufferCacheAssumption
<1>2. IsFiniteSet(Indices)
    BY <1>1, FS_Interval DEF Indices
<1>3. \A b \in Nat : b % Size \in Indices
    BY <1>1 DEF Indices
<1> QED
    BY <1>1, <1>2, <1>3, BufferCacheAssumption DEF Indices

\* How many are about to add a block, when a reader moves.
LEMMA AddingMoves ==
    ASSUME ReaderTypes, NEW r \in Readers, NEW where,
           pc' = [pc EXCEPT ![r] = where]
    PROVE  /\ Cardinality(Adding) \in Nat
           /\ pc[r] # "add" /\ where = "add" =>
                  Cardinality(Adding') = Cardinality(Adding) + 1
           /\ pc[r] = "add" /\ where # "add" =>
                  Cardinality(Adding') = Cardinality(Adding) - 1
           /\ pc[r] # "add" /\ where # "add" => Adding' = Adding
<1>1. IsFiniteSet(Adding) /\ Cardinality(Adding) \in Nat
    BY BufferCacheAssumption, FS_Subset, FS_CardinalityType DEF Adding
<1>2. \A q \in Readers : pc'[q] = IF q = r THEN where ELSE pc[q]
    BY DEF ReaderTypes
<1>3. CASE pc[r] # "add" /\ where = "add"
    <2>1. Adding' = Adding \union {r} /\ r \notin Adding
        BY <1>2, <1>3 DEF Adding
    <2> QED
        BY <1>1, <1>3, <2>1, FS_AddElement
<1>4. CASE pc[r] = "add" /\ where # "add"
    <2>1. Adding' = Adding \ {r} /\ r \in Adding
        BY <1>2, <1>4 DEF Adding
    <2> QED
        BY <1>1, <1>4, <2>1, FS_RemoveElement
<1>5. CASE pc[r] # "add" /\ where # "add"
    <2>1. Adding' = Adding
        BY <1>2, <1>5 DEF Adding
    <2> QED
        BY <1>1, <1>5, <2>1
<1> QED
    BY <1>1, <1>3, <1>4, <1>5

\* How many blocks there are, when one list changes.
LEMMA LensMove ==
    ASSUME ListTypes, NEW i \in Indices, NEW list \in Seq(Honest),
           indices' = [indices EXCEPT ![i] = list]
    PROVE  /\ ListTypes'
           /\ Sum(Lens, Indices) \in Nat
           /\ Sum(Lens', Indices) =
                  Sum(Lens, Indices) + (Len(list) - Len(indices[i]))
<1>1. ListTypes'
    BY DEF ListTypes
<1>2. Lens \in [Indices -> Nat] /\ Lens' \in [Indices -> Nat]
    BY <1>1, LenProperties DEF Lens, ListTypes
<1>3. /\ Lens[i] = Len(indices[i]) /\ Lens'[i] = Len(list)
      /\ \A j \in Indices : j # i => Lens'[j] = Lens[j]
    BY DEF Lens, ListTypes
<1>4. Sum(Lens', Indices) = Sum(Lens, Indices) + (Lens'[i] - Lens[i])
    <2>1. PICK f, g : f = Lens /\ g = Lens'
        OBVIOUS
    <2>2. /\ f \in [Indices -> Nat] /\ g \in [Indices -> Nat]
          /\ \A j \in Indices : j # i => g[j] = f[j]
        BY <1>2, <1>3, <2>1
    <2>3. Sum(g, Indices) = Sum(f, Indices) + (g[i] - f[i])
        <3>1. IsFiniteSet(Indices)
            BY Constants
        <3> QED
            BY <2>2, <3>1, SumChange
    <2> QED
        BY <2>1, <2>3
<1>5. Sum(Lens, Indices) \in Nat
    BY <1>2, SumNat, Constants
<1> QED
    BY <1>1, <1>3, <1>4, <1>5

\* The block that extract() finds is the one that was asked for.
LEMMA FindFinds ==
    ASSUME NEW list \in Seq(Honest), NEW b \in Nat, Find(list, b) # 0
    PROVE  /\ Find(list, b) \in 1..Len(list)
           /\ list[Find(list, b)] = [id |-> b, data |-> b]
<1>1. PICK I : I = {i \in 1..Len(list) : list[i].id = b}
    OBVIOUS
<1>2. I # {} /\ Find(list, b) = Min(I)
    BY <1>1 DEF Find, SelectInSeq
<1>3. I \subseteq Nat /\ \A i \in I : i \in 1..Len(list) /\ list[i].id = b
    BY <1>1
<1>4. PICK x \in I : \A y \in I : x <= y
    BY <1>2, <1>3, LeastNumber
<1>5. Min(I) \in I
    BY <1>4 DEF Min
<1>6. PICK k \in 1..Len(list) : k = Find(list, b) /\ list[k].id = b
    BY <1>2, <1>3, <1>5
<1>7. list[k] \in Honest
    BY ElementOfSeq
<1>8. list[k] = [id |-> b, data |-> b]
    BY <1>6, <1>7 DEF Honest
<1> QED
    BY <1>6, <1>8

\* extract() takes one block out, remove() the last one, add() puts one in.
LEMMA ListOps ==
    ASSUME NEW list \in Seq(Honest)
    PROVE  /\ \A k \in 1..Len(list) : /\ Extract(list, k) \in Seq(Honest)
                                      /\ Len(Extract(list, k)) = Len(list) - 1
           /\ list # <<>> => /\ RemoveLast(list) \in Seq(Honest)
                             /\ Len(RemoveLast(list)) = Len(list) - 1
           /\ \A block \in Honest : /\ AddFirst(list, block) \in Seq(Honest)
                                    /\ Len(AddFirst(list, block)) = Len(list) + 1
<1>1. Len(list) \in Nat
    OBVIOUS
<1>2. ASSUME NEW k \in 1..Len(list)
      PROVE  /\ Extract(list, k) \in Seq(Honest)
             /\ Len(Extract(list, k)) = Len(list) - 1
    <2>1. PICK head, tail : head = SubSeq(list, 1, k - 1) /\ tail = SubSeq(list, k + 1, Len(list))
        OBVIOUS
    <2>2. /\ head \in Seq(Honest) /\ Len(head) = k - 1
          /\ tail \in Seq(Honest) /\ Len(tail) = Len(list) - k
        BY <1>1, <1>2, <2>1, SubSeqProperties
    <2>3. head \o tail \in Seq(Honest) /\ Len(head \o tail) = Len(list) - 1
        BY <1>1, <1>2, <2>2, ConcatProperties
    <2> QED
        BY <2>1, <2>3 DEF Extract, RemoveAt
<1>3. ASSUME list # <<>>
      PROVE  /\ RemoveLast(list) \in Seq(Honest)
             /\ Len(RemoveLast(list)) = Len(list) - 1
    <2>1. Len(list) > 0
        BY <1>1, <1>3, EmptySeq
    <2> QED
        <3>0. PICK m \in Int : m = Len(list) - 1
            BY <1>1
        <3>1. \A j \in 1..m : list[j] \in Honest
            BY <1>1, <3>0, ElementOfSeq
        <3>2. /\ SubSeq(list, 1, m) \in Seq(Honest)
              /\ Len(SubSeq(list, 1, m)) = IF 1 <= m THEN m - 1 + 1 ELSE 0
            BY <3>1, SubSeqProperties
        <3>3. Len(SubSeq(list, 1, m)) = m
            BY <1>1, <2>1, <3>0, <3>2
        <3> QED
            BY <3>0, <3>2, <3>3 DEF RemoveLast, Front
<1>4. ASSUME NEW block \in Honest
      PROVE  /\ AddFirst(list, block) \in Seq(Honest)
             /\ Len(AddFirst(list, block)) = Len(list) + 1
    BY <1>1 DEF AddFirst
<1> QED
    BY <1>2, <1>3, <1>4

-----------------------------------------------------------------------------
(* The steps *)

\* An empty cache.
LEMMA InitInv ==
    ASSUME Init
    PROVE  IndInv
<1>1. ReaderTypes /\ Holder /\ Registers /\ Bytes /\ Oldest
    BY DEF Init, IdeInit, ReaderTypes, Holder, Registers, Bytes, Oldest, InDriver,
       HasBytes
<1>2. ListTypes /\ \A i \in Indices : Len(indices[i]) = 0
    BY EmptySeq DEF Init, ListTypes
<1>3. GlobalTypes /\ NumberTypes
    BY DEF Init, GlobalTypes, NumberTypes
<1>4. Counted
    <2>1. PICK f : f = Lens
        OBVIOUS
    <2>2. f \in [Indices -> Nat] /\ \A i \in Indices : f[i] = 0
        BY <1>2, <2>1 DEF Lens
    <2>3. IsFiniteSet(Indices)
        BY Constants
    <2>4. Sum(f, Indices) = 0
        BY <2>2, <2>3, SumOfZeros
    <2>5. Adding = {}
        BY DEF Init, IdeInit, Adding
    <2>6. Cardinality(Adding) = 0
        BY <2>5, FS_EmptySet
    <2> QED
        BY <2>1, <2>4, <2>6, Constants DEF Counted, Init
<1> QED
    BY <1>1, <1>2, <1>3, <1>4 DEF IndInv

\* A step that leaves the cache alone, and by which nobody comes to add or
\* to evict, or from there.
LEMMA Elsewhere ==
    ASSUME IndInv, UNCHANGED cache, Adding' = Adding,
           \A r \in Readers : pc'[r] = "evict" => pc[r] = "evict"
    PROVE  ListTypes' /\ GlobalTypes' /\ NumberTypes' /\ Oldest' /\ Counted'
<1>1. UNCHANGED <<indices, next, prev, first, last, count, missed>>
    BY DEF cache, global
<1>2. Lens' = Lens
    BY <1>1 DEF Lens
<1>3. ListTypes' /\ GlobalTypes' /\ NumberTypes' /\ Oldest'
    BY <1>1 DEF IndInv, ListTypes, GlobalTypes, NumberTypes, Oldest
<1>4. Counted'
    BY <1>1, <1>2 DEF IndInv, Counted
<1> QED
    BY <1>3, <1>4

\* A step inside the driver, whose lock keeps the registers for one reader.
LEMMA DriverInv ==
    ASSUME IndInv, NEW r \in Readers, ReadSector(r), UNCHANGED cache
    PROVE  IndInv'
<1>0. ReaderTypes /\ Holder /\ Registers /\ Bytes
    BY DEF IndInv
<1>1. CASE DriveError(r)
    <2>1. UNCHANGED <<pc, sector, buffer, lock, lba>>
        BY <1>1 DEF DriveError
    <2>2. Adding' = Adding
        BY <2>1 DEF Adding
    <2>3. ListTypes' /\ GlobalTypes' /\ NumberTypes' /\ Oldest' /\ Counted'
        BY <2>1, <2>2, Elsewhere
    <2> QED
        BY <1>0, <2>1, <2>3 DEF IndInv, ReaderTypes, Holder, Registers, Bytes
<1>2. CASE ~DriveError(r)
    <2>1. PICK where \in InDriver \union {"count"} :
            /\ pc' = [pc EXCEPT ![r] = where]
            /\ pc[r] \in {"ide"} \union InDriver
            /\ where # "prepare" => pc[r] \in InDriver
            /\ UNCHANGED sector
        BY <1>2 DEF ReadSector, IdeLock, Prepare, Command, Check, NotBusy, Transfer,
           IdeReturn, At, Goto, InDriver, ide
    <2>2. \A q \in Readers : pc'[q] = IF q = r THEN where ELSE pc[q]
        BY <1>0, <2>1 DEF ReaderTypes
    <2>3. Adding' = Adding
        BY <1>0, <2>1, AddingMoves DEF InDriver
    <2>4. ListTypes' /\ GlobalTypes' /\ NumberTypes' /\ Oldest' /\ Counted'
        BY <2>1, <2>2, <2>3, Elsewhere DEF InDriver
    <2>5. \A q \in Readers : sector[q] \in Nat
        BY <1>0 DEF ReaderTypes
    <2>6. ASSUME pc[r] \in InDriver
          PROVE  \A q \in Readers : q # r => pc[q] \notin InDriver
        BY <1>0, <2>6 DEF Holder
    <2>7. CASE IdeLock(r)
        <3>1. /\ lock = None /\ lock' = r /\ where = "prepare"
              /\ UNCHANGED <<buffer, lba>>
            BY <1>0, <2>2, <2>7 DEF IdeLock, Goto, ReaderTypes
        <3>2. \A q \in Readers : pc[q] \notin InDriver
            BY <1>0, <3>1, BufferCacheAssumption DEF Holder
        <3>3. Holder' /\ Registers' /\ Bytes' /\ ReaderTypes'
            BY <1>0, <2>1, <2>2, <3>1, <3>2
               DEF Holder, Registers, Bytes, ReaderTypes, InDriver, HasBytes
        <3> QED
            BY <2>4, <3>3 DEF IndInv
    <2>8. CASE Prepare(r)
        <3>1. /\ pc[r] = "prepare" /\ where = "command" /\ lba' = sector[r]
              /\ UNCHANGED <<buffer, lock>>
            BY <1>0, <2>2, <2>8 DEF Prepare, At, Goto, ReaderTypes
        <3>2. ReaderTypes' /\ Holder' /\ Bytes'
            BY <1>0, <2>1, <2>2, <2>5, <3>1
               DEF Holder, Bytes, ReaderTypes, InDriver, HasBytes
        <3>3. Registers'
            BY <2>1, <2>2, <2>6, <3>1 DEF Registers, InDriver
        <3> QED
            BY <2>4, <3>2, <3>3 DEF IndInv
    <2>9. CASE Command(r) \/ Check(r) \/ NotBusy(r)
        <3>1. /\ pc[r] \in {"command", "check", "busy"}
              /\ where \in {"check", "busy", "drq"}
              /\ UNCHANGED <<buffer, lock, lba>>
            BY <1>0, <2>2, <2>9 DEF Command, Check, NotBusy, At, Goto, ReaderTypes, ide
        <3>2. ReaderTypes' /\ Holder' /\ Registers' /\ Bytes'
            BY <1>0, <2>1, <2>2, <3>1
               DEF Holder, Registers, Bytes, ReaderTypes, InDriver, HasBytes
        <3> QED
            BY <2>4, <3>2 DEF IndInv
    <2>10. CASE Transfer(r)
        <3>1. /\ pc[r] = "drq" /\ where = "delay"
              /\ buffer' = [buffer EXCEPT ![r] = lba]
              /\ UNCHANGED <<lock, lba>>
            BY <1>0, <2>2, <2>10 DEF Transfer, At, Goto, ReaderTypes
        <3>2. \A q \in Readers : buffer'[q] = IF q = r THEN sector[r] ELSE buffer[q]
            BY <1>0, <3>1 DEF Registers, ReaderTypes
        <3>3. ReaderTypes' /\ Holder' /\ Registers'
            BY <1>0, <2>1, <2>2, <3>1
               DEF Holder, Registers, ReaderTypes, InDriver, HasBytes
        <3>4. Bytes'
            BY <1>0, <2>1, <2>2, <3>2 DEF Bytes
        <3> QED
            BY <2>4, <3>3, <3>4 DEF IndInv
    <2>11. CASE IdeReturn(r)
        <3>1. /\ pc[r] = "delay" /\ where = "count"
              /\ UNCHANGED <<buffer, lba>>
            BY <1>0, <2>2, <2>11 DEF IdeReturn, At, Goto, ReaderTypes
        <3>2. ReaderTypes' /\ Registers' /\ Bytes'
            BY <1>0, <2>1, <2>2, <3>1
               DEF Registers, Bytes, ReaderTypes, InDriver, HasBytes
        <3>3. Holder'
            BY <2>1, <2>2, <2>6, <3>1 DEF Holder, InDriver
        <3> QED
            BY <2>4, <3>2, <3>3 DEF IndInv
    <2> QED
        BY <1>2, <2>7, <2>8, <2>9, <2>10, <2>11 DEF ReadSector
<1> QED
    BY <1>1, <1>2

\* The drive finishes or fails.
LEMMA DriveInv ==
    ASSUME IndInv, UNCHANGED <<pc, sector, buffer, lock, lba>>, UNCHANGED cache
    PROVE  IndInv'
<1>1. Adding' = Adding
    BY DEF Adding
<1>2. ListTypes' /\ GlobalTypes' /\ NumberTypes' /\ Oldest' /\ Counted'
    BY <1>1, Elsewhere
<1> QED
    BY <1>2 DEF IndInv, ReaderTypes, Holder, Registers, Bytes

\* A reader that has its bytes moves on in the cache.
LEMMA MovesInCache ==
    ASSUME IndInv, NEW r \in Readers, NEW where \in {"full", "evict", "add", "touch"},
           pc[r] \in {"count", "full", "evict", "add"},
           pc' = [pc EXCEPT ![r] = where], UNCHANGED ide
    PROVE  /\ ReaderTypes' /\ Holder' /\ Registers' /\ Bytes'
           /\ \A q \in Readers : pc'[q] = IF q = r THEN where ELSE pc[q]
<1>0. ReaderTypes /\ Holder /\ Registers /\ Bytes
    BY DEF IndInv
<1>1. \A q \in Readers : pc'[q] = IF q = r THEN where ELSE pc[q]
    BY <1>0 DEF ReaderTypes
<1>2. UNCHANGED <<sector, buffer, lock, lba>>
    BY DEF ide
<1> QED
    BY <1>0, <1>1, <1>2 DEF ReaderTypes, Holder, Registers, Bytes, InDriver, HasBytes

\* A miss is counted.
LEMMA CountInv ==
    ASSUME IndInv, NEW r \in Readers, Count(r)
    PROVE  IndInv'
<1>0. ReaderTypes /\ ListTypes /\ GlobalTypes /\ NumberTypes /\ Oldest /\ Counted
    BY DEF IndInv
<1>1. PICK where \in {"full", "add"} :
        /\ pc' = [pc EXCEPT ![r] = where]
        /\ where = "add" => count + 1 < Size
    <2>1. count \in Nat /\ Size \in Nat
        BY <1>0, Constants DEF NumberTypes
    <2>2. CASE count + 1 >= Size
        BY <2>2 DEF Count, Goto
    <2>3. CASE ~ (count + 1 >= Size)
        <3>1. count + 1 < Size
            BY <2>1, <2>3
        <3> QED
            BY <2>3, <3>1 DEF Count, Goto
    <2> QED
        BY <2>2, <2>3
<1>2. /\ pc[r] = "count" /\ count' = count + 1 /\ UNCHANGED ide
      /\ UNCHANGED <<indices, next, prev, first, last, missed>>
    BY DEF Count, At, global
<1>3. /\ ReaderTypes' /\ Holder' /\ Registers' /\ Bytes'
      /\ \A q \in Readers : pc'[q] = IF q = r THEN where ELSE pc[q]
    <2>1. /\ where \in {"full", "evict", "add", "touch"}
          /\ pc[r] \in {"count", "full", "evict", "add"}
        BY <1>2
    <2> QED
        BY <1>1, <1>2, <2>1, MovesInCache, Zenon
<1>4. ListTypes' /\ GlobalTypes' /\ NumberTypes' /\ Oldest'
    BY <1>0, <1>1, <1>2, <1>3 DEF ListTypes, GlobalTypes, NumberTypes, Oldest
<1>5. Counted'
    <2>1. PICK s \in Nat : s = Sum(Lens, Indices)
        BY <1>0, Constants, SumNat, LenProperties DEF Lens, ListTypes
    <2>2. Lens' = Lens
        BY <1>2 DEF Lens
    <2>3. PICK a \in Nat : a = Cardinality(Adding)
        BY <1>0, <1>1, AddingMoves
    <2>4. Cardinality(Adding') = IF where = "add" THEN a + 1 ELSE a
        BY <1>0, <1>1, <1>2, <2>3, AddingMoves
    <2>5. count \in Nat /\ Size \in Nat /\ missed \in Nat
        BY <1>0, Constants DEF NumberTypes
    <2>6. s + a <= (IF count < Size THEN count ELSE Size - 1) + missed
        BY <1>0, <2>1, <2>3 DEF Counted
    <2>7. s + (IF where = "add" THEN a + 1 ELSE a)
            <= (IF count + 1 < Size THEN count + 1 ELSE Size - 1) + missed
        BY <1>1, <2>5, <2>6
    <2>8. s + Cardinality(Adding')
            <= (IF count' < Size THEN count' ELSE Size - 1) + missed'
        BY <1>2, <2>4, <2>7
    <2> QED
        BY <2>1, <2>2, <2>8 DEF Counted
<1> QED
    BY <1>3, <1>4, <1>5 DEF IndInv

\* The reader that finds the cache full has seen the oldest index.
LEMMA FullInv ==
    ASSUME IndInv, NEW r \in Readers, Full(r)
    PROVE  IndInv'
<1>0. ReaderTypes /\ ListTypes /\ GlobalTypes /\ NumberTypes /\ Oldest /\ Counted
    BY DEF IndInv
<1>1. /\ pc[r] = "full" /\ pc' = [pc EXCEPT ![r] = "evict"] /\ UNCHANGED ide
      /\ last # None
      /\ UNCHANGED <<indices, next, prev, first, last, count, missed>>
    BY DEF Full, At, Goto, global
<1>2. /\ ReaderTypes' /\ Holder' /\ Registers' /\ Bytes'
      /\ \A q \in Readers : pc'[q] = IF q = r THEN "evict" ELSE pc[q]
    BY <1>1, MovesInCache
<1>3. ListTypes' /\ GlobalTypes' /\ NumberTypes' /\ Oldest'
    BY <1>0, <1>1, <1>2 DEF ListTypes, GlobalTypes, NumberTypes, Oldest
<1>4. Adding' = Adding /\ Lens' = Lens
    <2>1. "full" # "add" /\ "evict" # "add"
        OBVIOUS
    <2>2. Adding' = Adding
        BY <1>0, <1>1, <2>1, AddingMoves, Zenon
    <2> QED
        BY <1>1, <2>2 DEF Lens
<1>5. Counted'
    BY <1>0, <1>1, <1>4 DEF Counted
<1> QED
    BY <1>2, <1>3, <1>5 DEF IndInv

\* The oldest block goes, or none is found.
LEMMA EvictInv ==
    ASSUME IndInv, NEW r \in Readers, Evict(r)
    PROVE  IndInv'
<1>0. ReaderTypes /\ ListTypes /\ GlobalTypes /\ NumberTypes /\ Oldest /\ Counted
    BY DEF IndInv
<1>1. /\ pc[r] = "evict" /\ pc' = [pc EXCEPT ![r] = "add"] /\ UNCHANGED ide
      /\ last' = prev[last] /\ prev[last] # None
      /\ next' = [next EXCEPT ![prev[last]] = None]
      /\ count' = Size
      /\ UNCHANGED <<prev, first>>
    BY DEF Evict, At, Goto
<1>2. last \in Indices /\ prev[last] \in Indices
    BY <1>0, <1>1 DEF Oldest, GlobalTypes
<1>3. /\ ReaderTypes' /\ Holder' /\ Registers' /\ Bytes'
      /\ \A q \in Readers : pc'[q] = IF q = r THEN "add" ELSE pc[q]
    BY <1>1, MovesInCache
<1>4. GlobalTypes' /\ Oldest'
    BY <1>0, <1>1, <1>2 DEF GlobalTypes, Oldest
<1>5. PICK s, a : s = Sum(Lens, Indices) /\ a = Cardinality(Adding)
    OBVIOUS
<1>6. a \in Nat /\ Cardinality(Adding') = a + 1
    BY <1>0, <1>1, <1>5, AddingMoves
<1>7. count \in Nat /\ Size \in Nat /\ missed \in Nat
    BY <1>0, Constants DEF NumberTypes
<1>8. s + a <= (IF count < Size THEN count ELSE Size - 1) + missed
    BY <1>0, <1>5 DEF Counted
<1>9. /\ ListTypes' /\ s \in Nat
      /\ \/ missed' = missed + 1 /\ Sum(Lens', Indices) = s
         \/ missed' = missed /\ Sum(Lens', Indices) = s - 1
    <2>1. CASE indices[last] = <<>>
        <3>1. missed' = missed + 1 /\ indices' = indices
            BY <2>1 DEF Evict
        <3>2. Lens' = Lens
            BY <3>1 DEF Lens
        <3>3. s \in Nat
            BY <1>0, <1>5, Constants, SumNat, LenProperties DEF Lens, ListTypes
        <3> QED
            BY <1>0, <1>5, <3>1, <3>2, <3>3 DEF ListTypes
    <2>2. CASE indices[last] # <<>>
        <3>1. PICK list : list = RemoveLast(indices[last])
            OBVIOUS
        <3>2. missed' = missed /\ indices' = [indices EXCEPT ![last] = list]
            BY <2>2, <3>1 DEF Evict
        <3>3. indices[last] \in Seq(Honest)
            BY <1>0, <1>2 DEF ListTypes
        <3>4. list \in Seq(Honest) /\ Len(list) = Len(indices[last]) - 1
            BY <2>2, <3>1, <3>3, ListOps
        <3>5. /\ ListTypes' /\ Sum(Lens, Indices) \in Nat
              /\ Sum(Lens', Indices) =
                    Sum(Lens, Indices) + (Len(list) - Len(indices[last]))
            BY <1>0, <1>2, <3>2, <3>4, LensMove
        <3>6. Len(indices[last]) \in Nat
            BY <3>3
        <3>7. Sum(Lens', Indices) = s - 1 /\ s \in Nat
            BY <1>5, <3>4, <3>5, <3>6
        <3> QED
            BY <3>2, <3>5, <3>7
    <2> QED
        BY <2>1, <2>2
<1>10. NumberTypes'
    BY <1>1, <1>7, <1>9 DEF NumberTypes
<1>11. Counted'
    <2>1. Sum(Lens', Indices) + (a + 1) <= (Size - 1) + missed'
        <3>1. s + a <= (Size - 1) + missed
            BY <1>6, <1>7, <1>8, <1>9
        <3> QED
            BY <1>6, <1>7, <1>9, <3>1
    <2>2. ~ (count' < Size)
        BY <1>1, <1>7
    <2> QED
        BY <1>6, <2>1, <2>2 DEF Counted
<1> QED
    BY <1>3, <1>4, <1>9, <1>10, <1>11 DEF IndInv

\* The block goes into its list.
LEMMA AddInv ==
    ASSUME IndInv, NEW r \in Readers, Add(r)
    PROVE  IndInv'
<1>0. /\ ReaderTypes /\ ListTypes /\ GlobalTypes /\ NumberTypes /\ Oldest /\ Counted
      /\ Bytes
    BY DEF IndInv
<1>1. PICK list : list = AddFirst(indices[Index(r)],
                                  [id |-> sector[r], data |-> buffer[r]])
    OBVIOUS
<1>2. /\ pc[r] = "add" /\ pc' = [pc EXCEPT ![r] = "touch"] /\ UNCHANGED ide
      /\ indices' = [indices EXCEPT ![Index(r)] = list]
      /\ UNCHANGED <<next, prev, first, last, count, missed>>
    BY <1>1 DEF Add, At, Goto, global
<1>3. /\ ReaderTypes' /\ Holder' /\ Registers' /\ Bytes'
      /\ \A q \in Readers : pc'[q] = IF q = r THEN "touch" ELSE pc[q]
    BY <1>2, MovesInCache
<1>4. GlobalTypes' /\ NumberTypes' /\ Oldest'
    BY <1>0, <1>2, <1>3 DEF GlobalTypes, NumberTypes, Oldest
<1>5. Index(r) \in Indices /\ sector[r] \in Nat /\ buffer[r] = sector[r]
    BY <1>0, <1>2, Constants DEF Index, ReaderTypes, Bytes, HasBytes
<1>6. [id |-> sector[r], data |-> buffer[r]] \in Honest
    BY <1>5 DEF Honest
<1>7. indices[Index(r)] \in Seq(Honest)
    BY <1>0, <1>5 DEF ListTypes
<1>8. /\ list \in Seq(Honest) /\ Len(indices[Index(r)]) \in Nat
      /\ Len(list) = Len(indices[Index(r)]) + 1
    <2>1. PICK old \in Seq(Honest) : old = indices[Index(r)]
        BY <1>7
    <2>2. PICK block \in Honest : block = [id |-> sector[r], data |-> buffer[r]]
        BY <1>6
    <2>3. /\ AddFirst(old, block) \in Seq(Honest)
          /\ Len(AddFirst(old, block)) = Len(old) + 1
        BY ListOps
    <2>4. Len(old) \in Nat
        OBVIOUS
    <2> QED
        BY <1>1, <2>1, <2>2, <2>3, <2>4
<1>9. /\ ListTypes' /\ Sum(Lens, Indices) \in Nat
      /\ Sum(Lens', Indices) =
            Sum(Lens, Indices) + (Len(list) - Len(indices[Index(r)]))
    BY <1>0, <1>2, <1>5, <1>8, LensMove
<1>10. /\ Cardinality(Adding) \in Nat
       /\ Cardinality(Adding') = Cardinality(Adding) - 1
    <2>1. "touch" # "add"
        OBVIOUS
    <2> QED
        BY <1>0, <1>2, <2>1, AddingMoves, Zenon
<1>11. Sum(Lens', Indices) + Cardinality(Adding')
         = Sum(Lens, Indices) + Cardinality(Adding)
    BY <1>8, <1>9, <1>10
<1>12. Counted'
    BY <1>0, <1>2, <1>11 DEF Counted
<1> QED
    BY <1>3, <1>4, <1>9, <1>12 DEF IndInv

\* The index goes in front, and the reader is done.
LEMMA TouchInv ==
    ASSUME IndInv, NEW r \in Readers, Touch(r)
    PROVE  IndInv'
<1>0. /\ ReaderTypes /\ ListTypes /\ GlobalTypes /\ NumberTypes /\ Oldest /\ Counted
      /\ Holder /\ Registers /\ Bytes
    BY DEF IndInv
<1>1. /\ pc[r] = "touch" /\ pc' = [pc EXCEPT ![r] = "idle"]
      /\ buffer' = [buffer EXCEPT ![r] = None]
      /\ UNCHANGED <<sector, lock, lba, indices, count, missed>>
    BY DEF Touch, At, Goto
<1>2. \A q \in Readers : /\ pc'[q] = IF q = r THEN "idle" ELSE pc[q]
                         /\ buffer'[q] = IF q = r THEN None ELSE buffer[q]
    BY <1>0, <1>1 DEF ReaderTypes
<1>3. ReaderTypes' /\ Holder' /\ Registers' /\ Bytes'
    BY <1>0, <1>1, <1>2 DEF ReaderTypes, Holder, Registers, Bytes, InDriver, HasBytes
<1>4. PICK g \in Indices : g = Index(r)
    BY <1>0, Constants DEF Index, ReaderTypes
<1>5. PICK next1, prev1, prev2 :
        /\ next1 = IF prev[g] # None THEN [next EXCEPT ![prev[g]] = next[g]] ELSE next
        /\ prev1 = IF prev[g] # None /\ next1[g] # None
                   THEN [prev EXCEPT ![next1[g]] = prev[g]] ELSE prev
        /\ prev2 = [prev1 EXCEPT ![g] = None]
    OBVIOUS
<1>6. /\ next' = [next1 EXCEPT ![g] = first]
      /\ prev' = IF first = None THEN prev2 ELSE [prev2 EXCEPT ![first] = g]
      /\ first' = g
      /\ last' = IF last = None THEN g ELSE last
    BY <1>4, <1>5 DEF Touch
<1>7. /\ next1 \in [Indices -> Indices \union {None}]
      /\ prev1 \in [Indices -> Indices \union {None}]
      /\ prev2 \in [Indices -> Indices \union {None}]
    BY <1>0, <1>5 DEF GlobalTypes
<1>8. GlobalTypes'
    BY <1>0, <1>6, <1>7 DEF GlobalTypes
<1>9. Oldest'
    BY <1>0, <1>2, <1>6, Constants DEF Oldest
<1>10. ListTypes' /\ NumberTypes' /\ Lens' = Lens
    BY <1>0, <1>1 DEF ListTypes, NumberTypes, Lens
<1>11. Adding' = Adding
    BY <1>1, <1>2 DEF Adding
<1>12. Counted'
    BY <1>0, <1>1, <1>10, <1>11 DEF Counted
<1> QED
    BY <1>3, <1>8, <1>9, <1>10, <1>12 DEF IndInv

\* A read begins: the block is found in its list and taken out, or not.
LEMMA ReadBlockInv ==
    ASSUME IndInv, NEW r \in Readers, NEW b \in Blocks, ReadBlock(r, b)
    PROVE  IndInv'
<1>0. /\ ReaderTypes /\ ListTypes /\ GlobalTypes /\ NumberTypes /\ Oldest /\ Counted
      /\ Holder /\ Registers /\ Bytes
    BY DEF IndInv
<1>1. PICK i \in Indices : i = b % Size
    BY Constants, BufferCacheAssumption
<1>2. PICK k : k = Find(indices[i], b)
    OBVIOUS
<1>3. b \in Nat /\ indices[i] \in Seq(Honest)
    BY <1>0, BufferCacheAssumption DEF ListTypes
<1>4. /\ pc[r] = "idle" /\ sector' = [sector EXCEPT ![r] = b]
      /\ UNCHANGED <<lock, lba, next, prev, first, last, count, missed>>
    BY DEF ReadBlock, At, global
<1>5. \A q \in Readers : sector'[q] = IF q = r THEN b ELSE sector[q]
    BY <1>0, <1>4 DEF ReaderTypes
<1>6. GlobalTypes' /\ NumberTypes'
    BY <1>0, <1>4 DEF GlobalTypes, NumberTypes
<1>7. CASE k = 0
    <2>1. pc' = [pc EXCEPT ![r] = "ide"] /\ UNCHANGED <<buffer, indices>>
        BY <1>1, <1>2, <1>7 DEF ReadBlock, Goto
    <2>2. \A q \in Readers : pc'[q] = IF q = r THEN "ide" ELSE pc[q]
        BY <1>0, <2>1 DEF ReaderTypes
    <2>3. ReaderTypes' /\ Holder' /\ Registers' /\ Bytes' /\ Oldest'
        BY <1>0, <1>3, <1>4, <1>5, <2>1, <2>2
           DEF ReaderTypes, Holder, Registers, Bytes, Oldest, InDriver, HasBytes
    <2>4. ListTypes' /\ Lens' = Lens /\ Adding' = Adding
        BY <1>0, <1>4, <2>1, <2>2 DEF ListTypes, Lens, Adding
    <2>5. Counted'
        BY <1>0, <1>4, <2>4 DEF Counted
    <2> QED
        BY <1>6, <2>3, <2>4, <2>5 DEF IndInv
<1>8. CASE k # 0
    <2>1. k \in 1..Len(indices[i]) /\ indices[i][k] = [id |-> b, data |-> b]
        BY <1>2, <1>3, <1>8, FindFinds
    <2>2. PICK list : list = Extract(indices[i], k)
        OBVIOUS
    <2>3. /\ pc' = [pc EXCEPT ![r] = "add"]
          /\ buffer' = [buffer EXCEPT ![r] = indices[i][k].data]
          /\ indices' = [indices EXCEPT ![i] = list]
        BY <1>1, <1>2, <1>8, <2>2 DEF ReadBlock, Goto
    <2>4. \A q \in Readers : /\ pc'[q] = IF q = r THEN "add" ELSE pc[q]
                             /\ buffer'[q] = IF q = r THEN b ELSE buffer[q]
        BY <1>0, <2>1, <2>3 DEF ReaderTypes
    <2>5. buffer' \in [Readers -> Nat \union {None}]
        BY <1>0, <1>3, <2>1, <2>3 DEF ReaderTypes
    <2>6. ReaderTypes' /\ Holder' /\ Registers' /\ Bytes' /\ Oldest'
        BY <1>0, <1>3, <1>4, <1>5, <2>3, <2>4, <2>5
           DEF ReaderTypes, Holder, Registers, Bytes, Oldest, InDriver, HasBytes
    <2>7. list \in Seq(Honest) /\ Len(list) = Len(indices[i]) - 1
        BY <1>3, <2>1, <2>2, ListOps
    <2>8. /\ ListTypes' /\ Sum(Lens, Indices) \in Nat
          /\ Sum(Lens', Indices) =
                Sum(Lens, Indices) + (Len(list) - Len(indices[i]))
        BY <1>0, <2>3, <2>7, LensMove
    <2>9. /\ Cardinality(Adding) \in Nat
          /\ Cardinality(Adding') = Cardinality(Adding) + 1
        <3>1. pc[r] # "add"
            BY <1>4
        <3> QED
            BY <1>0, <2>3, <3>1, AddingMoves, Zenon
    <2>10. Len(indices[i]) \in Nat
        BY <1>3
    <2>11. Sum(Lens', Indices) + Cardinality(Adding')
             = Sum(Lens, Indices) + Cardinality(Adding)
        BY <2>7, <2>8, <2>9, <2>10
    <2>12. Counted'
        BY <1>0, <1>4, <2>11 DEF Counted
    <2> QED
        BY <1>6, <2>6, <2>8, <2>12 DEF IndInv
<1> QED
    BY <1>7, <1>8

\* Every step keeps the invariant.
LEMMA NextInv ==
    ASSUME IndInv, [Next]_vars
    PROVE  IndInv'
<1>1. CASE UNCHANGED vars
    BY <1>1, DriveInv DEF vars, ide
<1>2. CASE DriveStep /\ UNCHANGED <<cache, reads>>
    BY <1>2, DriveInv DEF DriveStep
<1>3. ASSUME NEW r \in Readers, NEW b \in Blocks, ReadBlock(r, b)
      PROVE  IndInv'
    BY <1>3, ReadBlockInv
<1>4. ASSUME NEW r \in Readers, Reader(r)
      PROVE  IndInv'
    <2>1. CASE ReadSector(r) /\ UNCHANGED <<cache, reads>>
        BY <2>1, DriverInv
    <2>2. CASE EvictPanics(r)
        BY <2>2, DriveInv DEF EvictPanics, Panic
    <2> QED
        BY <1>4, <2>1, <2>2, CountInv, FullInv, EvictInv, AddInv, TouchInv DEF Reader
<1> QED
    BY <1>1, <1>2, <1>3, <1>4 DEF Next

\* The invariant of the cache and its driver.
LEMMA Invariance == Spec => []IndInv
<1>1. Init => IndInv
    BY InitInv
<1>2. IndInv /\ [Next]_vars => IndInv'
    BY NextInv
<1> QED
    BY <1>1, <1>2, PTL DEF Spec

\* ReadsItsBlock, for any readers, blocks and size: whoever shares the
\* registers of the drive, and whatever is evicted and read again meanwhile,
\* read_block of buffer_cache.h copies the bytes of the block asked for.
THEOREM RightBytes == Spec => []ReadsItsBlock
<1>1. IndInv => ReadsItsBlock
    BY DEF IndInv, Bytes, HasBytes, ReadsItsBlock
<1> QED
    BY <1>1, Invariance, PTL

\* CacheBounded, for any readers, blocks and size: only an eviction that
\* found the oldest list empty lets the cache of buffer_cache.h grow beyond
\* its limit, and each of them by one block.
THEOREM StaysBounded == Spec => []CacheBounded
<1>1. IndInv => CacheBounded
    <2> SUFFICES ASSUME IndInv
                 PROVE  CacheBounded
        OBVIOUS
    <2>1. PICK f : f = Lens
        OBVIOUS
    <2>2. f \in [Indices -> Nat] /\ \A i \in Indices : f[i] = Len(indices[i])
        BY <2>1, LenProperties DEF Lens, IndInv, ListTypes
    <2>3. PICK it : Adds(it, SUBSET Indices, f) /\ Sum(f, Indices) = it[Indices]
        BY SumIsFold, Constants
    <2>4. \A g : Adds(g, SUBSET Indices, f) =>
                g = [s \in SUBSET Indices |->
                        IF s = {} THEN 0
                        ELSE Len(indices[CHOOSE x \in s : TRUE])
                             + g[s \ {CHOOSE x \in s : TRUE}]]
        BY <2>2 DEF Adds, Pick
    <2>5. \A g : g = [s \in SUBSET Indices |->
                        IF s = {} THEN 0
                        ELSE Len(indices[CHOOSE x \in s : TRUE])
                             + g[s \ {CHOOSE x \in s : TRUE}]]
                 => Adds(g, SUBSET Indices, f)
        BY <2>2 DEF Adds, Pick
    <2>6. DOMAIN indices = Indices
        BY DEF IndInv, ListTypes
    <2>7. PICK g : /\ Adds(g, SUBSET Indices, f)
                   /\ FoldFunction(LAMBDA list, n : Len(list) + n, 0, indices) = g[Indices]
        BY <2>3, <2>4, <2>5, <2>6 DEF FoldFunction, FoldFunctionOnSet, MapThenFoldSet
    <2>8. g[Indices] = it[Indices] + (f[0] - f[0]) /\ it[Indices] \in Nat /\ f[0] \in Nat
        <3>1. 0 \in Indices /\ IsFiniteSet(Indices) /\ Indices \in SUBSET Indices
            BY Constants
        <3>2. it[Indices] \in Nat
            BY <2>2, <2>3, <3>1, FoldNat
        <3>3. PICK h \in [Indices -> Nat] : h = f
            BY <2>2
        <3>4. /\ f \in [Indices -> Nat] /\ Adds(it, SUBSET Indices, f)
              /\ Adds(g, SUBSET Indices, h)
              /\ \A x \in Indices : x # 0 => h[x] = f[x]
            BY <2>2, <2>3, <2>7, <3>3
        <3>5. g[Indices] = it[Indices] + (h[0] - f[0])
            BY <3>1, <3>4, FoldChange
        <3> QED
            BY <2>2, <3>1, <3>2, <3>3, <3>5
    <2>9. PICK a \in Nat : a = Cardinality(Adding)
        BY BufferCacheAssumption, FS_Subset, FS_CardinalityType DEF Adding
    <2>10. count \in Nat /\ missed \in Nat /\ Size \in Nat
        BY Constants DEF IndInv, NumberTypes
    <2>11. it[Indices] + a <= (IF count < Size THEN count ELSE Size - 1) + missed
        BY <2>1, <2>3, <2>9 DEF IndInv, Counted
    <2>12. it[Indices] <= Size - 1 + missed
        BY <2>8, <2>10, <2>11
    <2>13. g[Indices] <= Size - 1 + missed
        BY <2>8, <2>12
    <2> QED
        BY <2>7, <2>13 DEF CacheBounded
<1> QED
    BY <1>1, Invariance, PTL

=============================================================================
