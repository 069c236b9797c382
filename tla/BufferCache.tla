---------------------------- MODULE BufferCache -----------------------------
(***************************************************************************)
(* The cache of disk blocks, kernel/buffer_cache.h, over the driver of     *)
(* module Ide.  A block lives in the list of its index; a read takes the   *)
(* block out of the list, copies it and puts it back in front.  A global   *)
(* list of the indices, in the order they were used, says where to evict.  *)
(*                                                                         *)
(* A BlockList is a sequence of the blocks from `first` to `last`; each of *)
(* its operations runs under its own lock and calls nothing, so it is one  *)
(* step.  The global list is modelled pointer by pointer: an index stays   *)
(* alive with its BlockList, so a weak pointer to it can be promoted       *)
(* exactly when it was set.                                                *)
(***************************************************************************)
EXTENDS Ide, Sequences, SequencesExt

CONSTANTS
    Size,      \* the number of lists, and of blocks kept: 997 in the code
    Blocks,    \* the blocks that are read
    MaxReads   \* bound: the reads that are begun

ASSUME BufferCacheAssumption ==
    /\ IsFiniteSet(Readers)
    /\ Size \in Nat /\ Cardinality(Readers) < Size
    /\ Blocks \subseteq Nat
    /\ MaxReads \in Nat
    /\ None \notin Nat /\ None \notin Readers

Indices == 0..(Size - 1)

VARIABLES
    indices,   \* the blocks in every list, with the sector they really hold
    next, prev,    \* GlobalIndex::next and prev, None for nullptr
    first, last,   \* global_index_first, global_index_last
    gil,       \* global_index_lock: its holder or None
    count,     \* BufferCache::count
    reads,     \* the reads begun so far
    missed     \* history: evictions that found an empty list

global == <<next, prev, first, last>>
cache == <<indices, global, gil, count, missed>>
vars == <<pc, ide, cache, reads>>

Init ==
    /\ IdeInit
    /\ indices = [i \in Indices |-> <<>>]
    /\ next = [i \in Indices |-> None]
    /\ prev = [i \in Indices |-> None]
    /\ first = None
    /\ last = None
    /\ gil = None
    /\ count = 0
    /\ reads = 0
    /\ missed = 0

Index(r) == sector[r] % Size

-----------------------------------------------------------------------------
(* BlockList *)

\* Where extract() finds the block; 0: nowhere.
Find(list, b) == SelectInSeq(list, LAMBDA block : block.id = b)

\* extract() of the block it has found.
Extract(list, k) == RemoveAt(list, k)

\* remove() of the last block of a list that has one.
RemoveLast(list) == Front(list)

\* add(): in front.
AddFirst(list, block) == <<block>> \o list

-----------------------------------------------------------------------------
(* read_block *)

Panic == panicked' = TRUE /\ UNCHANGED <<pc, sector, buffer, lock, lba, drive>>

\* extract(): a block that is found leaves its list, and is not read from
\* the drive.
ReadBlock(r, b) ==
    LET i == b % Size
        k == Find(indices[i], b)
    IN  /\ At(r, "idle")
        /\ reads < MaxReads
        /\ reads' = reads + 1
        /\ sector' = [sector EXCEPT ![r] = b]
        /\ IF k = 0
           THEN Goto(r, "ide") /\ UNCHANGED <<buffer, indices>>
           ELSE /\ Goto(r, "add")
                /\ buffer' = [buffer EXCEPT ![r] = indices[i][k].data]
                /\ indices' = [indices EXCEPT ![i] = Extract(@, k)]
        /\ UNCHANGED <<lock, lba, drive, panicked, global, gil, count, missed>>

\* count.add_fetch(1)
Count(r) ==
    /\ At(r, "count")
    /\ count' = count + 1
    /\ Goto(r, IF count + 1 >= Size THEN "full" ELSE "add")
    /\ UNCHANGED <<ide, indices, global, gil, missed, reads>>

\* The assertion that there is an oldest index, which holds as there are
\* fewer readers than lists, and global_index_lock.
Full(r) ==
    /\ At(r, "full")
    /\ last # None
    /\ gil = None
    /\ gil' = r
    /\ Goto(r, "evict")
    /\ UNCHANGED <<ide, indices, global, count, missed, reads>>

\* Bug: the list of the oldest index keeps its block.
EvictKeepsBlock(r) ==
    /\ At(r, "evict")
    /\ prev[last] # None
    /\ last' = prev[last]
    /\ next' = [next EXCEPT ![prev[last]] = None]
    /\ count' = Size
    /\ gil' = None
    /\ Goto(r, "add")
    /\ UNCHANGED <<ide, prev, first, reads, indices, missed>>

\* The oldest index leaves the global list and the oldest block its list.
Evict(r) ==
    /\ At(r, "evict")
    /\ prev[last] # None
    /\ last' = prev[last]
    /\ next' = [next EXCEPT ![prev[last]] = None]
    /\ IF indices[last] = <<>>
       THEN missed' = missed + 1 /\ indices' = indices
       ELSE indices' = [indices EXCEPT ![last] = RemoveLast(@)] /\ missed' = missed
    /\ count' = Size
    /\ gil' = None
    /\ Goto(r, "add")
    /\ UNCHANGED <<ide, prev, first, reads>>

\* The second assertion: the oldest index has a predecessor.
EvictPanics(r) ==
    /\ At(r, "evict")
    /\ prev[last] = None
    /\ Panic
    /\ UNCHANGED <<cache, reads>>

\* The block goes in front of its list.
Add(r) ==
    /\ At(r, "add")
    /\ indices' = [indices EXCEPT ![Index(r)] =
                    AddFirst(@, [id |-> sector[r], data |-> buffer[r]])]
    /\ Goto(r, "touch")
    /\ UNCHANGED <<ide, global, gil, count, missed, reads>>

\* The index of the list goes in front of the global list: out of its place,
\* if it has a predecessor, and back in at the head.  One that is the head
\* already has none, and becomes its own neighbour.
Touch(r) ==
    LET g == Index(r)
        linked == prev[g] # None
        next1 == IF linked THEN [next EXCEPT ![prev[g]] = next[g]] ELSE next
        prev1 == IF linked /\ next1[g] # None
                 THEN [prev EXCEPT ![next1[g]] = prev[g]] ELSE prev
        prev2 == [prev1 EXCEPT ![g] = None]
    IN  /\ At(r, "touch")
        /\ gil = None
        /\ next' = [next1 EXCEPT ![g] = first]
        /\ prev' = IF first = None THEN prev2 ELSE [prev2 EXCEPT ![first] = g]
        /\ first' = g
        /\ last' = IF last = None THEN g ELSE last
        /\ buffer' = [buffer EXCEPT ![r] = None]
        /\ Goto(r, "idle")
        /\ UNCHANGED <<sector, lock, lba, drive, panicked, indices, gil, count,
                       missed, reads>>

-----------------------------------------------------------------------------

\* A thread goes on with the read it has begun.
Reader(r) ==
    \/ ReadSector(r) /\ UNCHANGED <<cache, reads>>
    \/ Count(r) \/ Full(r) \/ Evict(r) \/ EvictPanics(r)
    \/ Add(r) \/ Touch(r)

Next == \/ \E r \in Readers : \/ \E b \in Blocks : ReadBlock(r, b)
                              \/ Reader(r)
        \/ DriveStep /\ UNCHANGED <<cache, reads>>

\* The scheduler runs every ready thread, a BlockingLock is a semaphore that
\* wakes its waiters in order, and the drive answers.
Spec == /\ Init /\ [][Next]_vars
        /\ \A r \in Readers : WF_vars(Reader(r))
        /\ WF_vars(DriveStep /\ UNCHANGED <<cache, reads>>)

-----------------------------------------------------------------------------

\* Whatever threads share the registers of the drive, evict and read the same
\* blocks at the same time, a read gets the bytes of the block it asked for.
ReadsItsBlock ==
    \A r \in Readers : pc[r] \in {"add", "touch"} => buffer[r] = sector[r]

\* Each miss beyond the limit makes room for its own block, however reads and
\* evictions interleave: only an eviction that found the oldest list empty,
\* because a reader had its block in its hands, lets the cache grow.
CacheBounded ==
    FoldFunction(LAMBDA list, n : Len(list) + n, 0, indices)
        <= Size - 1 + missed

\* A read ends, unless the machine stops or the drive has failed: then its
\* reader waits for DRQ forever, and everybody else for the lock it holds.
ReadsEnd ==
    \A r \in Readers :
        pc[r] # "idle" ~> (pc[r] = "idle" \/ panicked \/ drive = "error")

\* buffer_cache.h:171, ASSERT(!(global_index_last->prev.promote() == nullptr)):
\* when a block has to be evicted the oldest index is not the only one.
OldestHasPredecessor ==
    \A r \in Readers : pc[r] = "evict" => prev[last] # None

=============================================================================
