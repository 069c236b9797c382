-------------------------------- MODULE VME ---------------------------------
(***************************************************************************)
(* The regions of an address space, kernel/vme.h and kernel/vme.cc: a list *)
(* of mapped regions and a list of free ones, both ordered by address, and *)
(* the address from which on nothing was given out yet.  The lists are     *)
(* sequences.  Every operation runs under the lock of the VME, or belongs  *)
(* to the only thread of a process, and is one step.  Module Loading says  *)
(* when they happen.                                                       *)
(***************************************************************************)
EXTENDS Integers, Sequences, SequencesExt

CONSTANTS
    Base,        \* the first address of the area
    Limit,       \* VME::limit
    FrameSize,   \* PhysMem::FRAME_SIZE
    Word,        \* 2^32, scaled down
    Sizes,       \* the sizes mmap is called with, in bytes
    MaxEntries   \* bound: the regions that exist when the user calls mmap

ASSUME VMEAssumption ==
    /\ FrameSize \in Nat \ {0}
    /\ Limit \in Nat /\ Limit % FrameSize = 0
    /\ Base \in 1..Limit /\ Base % FrameSize = 0
    /\ Word \in Nat /\ Limit < Word
    /\ Sizes \subseteq 0..(Word - 1)
    /\ MaxEntries \in Nat

VARIABLES
    avail,         \* VME::avail
    entries,       \* VME::entries
    free_entries,  \* VME::free_entries
    wrapped        \* history: a region was made that goes around the end of the
                   \* addresses

vme == <<avail, entries, free_entries, wrapped>>

Entry(start, pages, user) == [start |-> start, pages |-> pages, user |-> user]
FreeEntry(start, pages) == [start |-> start, pages |-> pages]

\* The address behind a region, mapped or free, as a word.
End(r) == (r.start + r.pages * FrameSize) % Word

\* insert_entry_sorted, and the insertion of insert_free_space: in front of
\* the first region that does not start before the new one.
InsertSorted(list, r) ==
    LET at == SelectInSeq(list, LAMBDA s : s.start >= r.start)
    IN  InsertAt(list, IF at = 0 THEN Len(list) + 1 ELSE at, r)

\* Bug: neighbours stay separate.
CoalescingNot(list) == list

\* One step of coallescing(): a free region that begins where the last one
\* ends becomes a part of that one.
Join(done, r) ==
    IF done # <<>> /\ End(done[Len(done)]) = r.start
    THEN [done EXCEPT ![Len(done)].pages = @ + r.pages]
    ELSE Append(done, r)

\* coallescing(), from left to right.
Coalescing(list) ==
    LET joined[k \in 0..Len(list)] ==
            IF k = 0 THEN <<>> ELSE Join(joined[k - 1], list[k])
    IN  joined[Len(list)]

InsertFreeSpace(list, start, pages) ==
    Coalescing(InsertSorted(list, FreeEntry(start, pages)))

-----------------------------------------------------------------------------

\* The private area of a new process.
VMEInit == /\ avail = Base
           /\ entries = <<>>
           /\ free_entries = <<>>
           /\ wrapped = FALSE

RequiredPages(size) == ((size + FrameSize - 1) % Word) \div FrameSize

\* The first free region that is large enough; 0: there is none.
FirstFit(pages) == SelectInSeq(free_entries, LAMBDA r : r.pages >= pages)

\* Take pages from the front of free region i, which leaves the list when
\* nothing of it remains.
Shrink(i, pages) ==
    LET r == free_entries[i] IN
    IF r.pages = pages THEN RemoveAt(free_entries, i)
    ELSE [free_entries EXCEPT ![i] = FreeEntry(r.start + pages * FrameSize,
                                               r.pages - pages)]

\* add_entry, in a free region ...
AddReuses(size, user) ==
    LET pages == RequiredPages(size)
        i == FirstFit(pages)
    IN  /\ i # 0
        /\ entries' = InsertSorted(entries,
                                   Entry(free_entries[i].start, pages, user))
        /\ free_entries' = Shrink(i, pages)
        /\ UNCHANGED <<avail, wrapped>>

\* Bug: the end of the area is not looked at.
AddGrowsUnchecked(size, user) ==
    LET pages == RequiredPages(size) IN
    /\ FirstFit(pages) = 0
    /\ entries' = InsertSorted(entries, Entry(avail, pages, user))
    /\ avail' = (avail + pages * FrameSize) % Word
    /\ wrapped' = (avail + pages * FrameSize >= Word)
    /\ UNCHANGED free_entries

\* ... or at avail: the sum is a word, and a size that takes it around the end
\* of the addresses passes the comparison with the limit ...
AddGrows(size, user) ==
    LET pages == RequiredPages(size) IN
    /\ FirstFit(pages) = 0
    /\ (avail + size) % Word <= Limit
    /\ entries' = InsertSorted(entries, Entry(avail, pages, user))
    /\ avail' = (avail + pages * FrameSize) % Word
    /\ wrapped' = (avail + pages * FrameSize >= Word)
    /\ UNCHANGED free_entries

\* ... or not at all: it returns 0.
AddFails(size) ==
    /\ FirstFit(RequiredPages(size)) = 0
    /\ (avail + size) % Word > Limit
    /\ UNCHANGED vme

\* naive_mmap
Add(size, user) == AddReuses(size, user) \/ AddGrows(size, user) \/ AddFails(size)

\* Bug: munmap gives back one page, whatever the size of the region.
MunmapOnePage(va, user) ==
    LET i == SelectInSeq(entries, LAMBDA e : /\ e.start <= va /\ va < End(e)
                                             /\ user => e.user)
    IN  /\ i # 0
        /\ entries' = RemoveAt(entries, i)
        /\ free_entries' = InsertFreeSpace(free_entries, entries[i].start, 1)
        /\ UNCHANGED <<avail, wrapped>>

\* Bug: the user may remove any region.
MunmapAny(va, user) ==
    LET i == SelectInSeq(entries, LAMBDA e : e.start <= va /\ va < End(e))
    IN  /\ i # 0
        /\ entries' = RemoveAt(entries, i)
        /\ free_entries' = InsertFreeSpace(free_entries, entries[i].start,
                                           entries[i].pages)
        /\ UNCHANGED <<avail, wrapped>>

\* naive_munmap and remove_entry: a user may remove the regions of the user
\* only; where nothing is found nothing happens.
Munmap(va, user) ==
    LET i == SelectInSeq(entries, LAMBDA e : /\ e.start <= va /\ va < End(e)
                                             /\ user => e.user)
    IN  /\ i # 0
        /\ entries' = RemoveAt(entries, i)
        /\ free_entries' = InsertFreeSpace(free_entries, entries[i].start,
                                           entries[i].pages)
        /\ UNCHANGED <<avail, wrapped>>

-----------------------------------------------------------------------------

\* The first and the last address of every page stand for all of them.
Probes == {va \in Base..Limit : va % FrameSize \in {0, FrameSize - 1}}

Covers(r, va) == r.start <= va /\ va < r.start + r.pages * FrameSize
Covering(list, va) == {i \in DOMAIN list : Covers(list[i], va)}

\* As long as no region has gone around the end of the addresses (vme.cc,
\* avail + size > limit, is no guard against that), below avail every address
\* belongs to exactly one region, mapped or free,
\* so that a page fault finds one entry and nothing is lost to later calls;
\* above it to none.  Free regions are in order and never touch: what munmap
\* gave back piece by piece can be used in one piece.
RegionsTile ==
    ~wrapped =>
        /\ \A va \in Probes :
                Cardinality(Covering(entries, va)) + Cardinality(Covering(free_entries, va))
                    = IF va < avail THEN 1 ELSE 0
        /\ \A i \in 2..Len(free_entries) :
                LET r == free_entries[i - 1] IN
                r.start + r.pages * FrameSize < free_entries[i].start

Abstract == INSTANCE Regions WITH mapped <- ToSet(entries), promised <- ~wrapped

\* mmap, munmap and exec keep the promise of module Regions: a new region
\* lies within the bounds and overlaps no other, and the others stay, until
\* a size takes avail around the end of the addresses; and from execl on again.
AddressSpace == Abstract!Spec

=============================================================================
