------------------------------- MODULE Memory -------------------------------
(***************************************************************************)
(* Physical frames, page tables and page faults: kernel/physmem.cc,        *)
(* kernel/vmm.cc, the destructor of a VMEEntry (kernel/vme.cc) and that of *)
(* a TCB (kernel/threads.cc), with the calls that create, copy and clear   *)
(* an address space: mmap, munmap, fork, execl and exit (kernel/sys.cc).   *)
(*                                                                         *)
(* A page is a virtual page number of the private area or of the area all  *)
(* processes share, a frame a number; 0 stands for an entry that is not    *)
(* present.  Where a region is put is the promise of module Regions.  The  *)
(* mappings of the kernel, and the page tables of the shared area, are     *)
(* made once by global_init and stay; they are not in the model.           *)
(***************************************************************************)
EXTENDS Integers, FiniteSets

CONSTANTS
    Procs,          \* the threads that run a process, one each
    First,          \* the one that kernelInit starts
    NPages,         \* pages of the private area
    PagesPerTable,  \* entries of a page table, 1024 in the code
    SharedPages,    \* pages of the shared area
    RegionSizes,    \* sizes of the regions, in pages
    GlobalFrames,   \* frames that global_init takes
    NFrames,        \* frames of the machine
    MaxCalls        \* bound: the calls of mmap, munmap, execl and fork

ASSUME MemoryAssumption ==
    /\ First \in Procs
    /\ NPages \in Nat \ {0} /\ PagesPerTable \in Nat \ {0}
    /\ RegionSizes \subseteq 1..NPages
    /\ GlobalFrames \in Nat /\ NFrames \in Nat /\ GlobalFrames < NFrames
    /\ MaxCalls \in Nat

Pages == 0..(NPages - 1)
PDI(v) == v \div PagesPerTable
NTables == PDI(NPages - 1) + 1
Tables == 0..(NTables - 1)

VARIABLES
    firstFree,  \* the frames in the list that begins at firstFree: one is
                \* zeroed when it is given out, so that which of them comes
                \* first makes no difference, and one that is freed twice
                \* was in two places before
    avail,      \* PhysMem::avail: the first frame never given out
    pd,         \* TCB::pd
    pt,         \* the page table a directory entry holds
    page,       \* the frame an entry of a page table holds
    regions,    \* TCB::vme
    shared,     \* the frame of a shared page
    shared_vme, \* the shared pages that belong to a region
    lock,       \* shared_vme_lock: "free", "held", or held by a thread that
                \* is no more
    pc,         \* where a thread is
    va,         \* the shared page its fault is about
    new_page,   \* the frame that the file is read into
    child,      \* the child, if any, whose TCB::vme the StrongPtrs child_vme of
                \* fork and vme of thread() point to as well
    child_vme,  \* the regions of a VME that only those StrongPtrs keep: its
                \* TCB has let go of it
    calls,      \* the calls made so far
    halted,     \* "no", "panic", or "clobbered": a free frame was written,
                \* and with it the list; what follows is not looked at
    lost        \* history: the frames of pages nobody can free any more

frames == <<firstFree, avail>>
space  == <<pd, pt, page, regions>>
area   == <<shared, shared_vme, lock>>
thread == <<pc, va, new_page>>
forks  == <<child, child_vme>>
rest   == <<halted, lost>>
vars   == <<frames, space, area, thread, forks, calls, rest>>

\* A region.  Whether there is a file behind it is left open.
Region == [first : Pages, pages : RegionSizes]
Of(r) == r.first..(r.first + r.pages - 1)
Covered(rs) == UNION {Of(r) : r \in rs}

-----------------------------------------------------------------------------
(* PhysMem *)

\* The number of members of S up to x, and the one that is number k.
Rank(S, x) == Cardinality({y \in S : y <= x})
Nth(S, k) == CHOOSE x \in S : Rank(S, x) = k

\* What alloc_frame can still return: the frames of the list, then those from
\* avail on.  The lowest comes first.
Supply == firstFree \union avail..NFrames
Frame(k) == Nth(Supply, k)

\* k calls of alloc_frame, which return Frame(1) to Frame(k).
AllocFrames(k) ==
    /\ k <= Cardinality(Supply)
    /\ firstFree' = {f \in firstFree : f > Frame(k)}
    /\ avail' = IF Frame(k) < avail THEN avail ELSE Frame(k) + 1

\* dealloc_frame of the frames in S.
DeallocFrames(S) ==
    /\ firstFree' = firstFree \union S
    /\ avail' = avail

\* "no more frames"
Panic(k) ==
    /\ k > Cardinality(Supply)
    /\ halted' = "panic"
    /\ UNCHANGED <<frames, space, area, thread, forks, lost, calls>>

-----------------------------------------------------------------------------

At(p, where) == halted = "no" /\ pc[p] = where
Call(p) == At(p, "user") /\ calls < MaxCalls /\ calls' = calls + 1
Goto(p, where) == pc' = [pc EXCEPT ![p] = where]

NoPages == [v \in Pages |-> 0]
NoTables == [t \in Tables |-> 0]

\* PhysMem::init, when global_init has taken its frames and the first process
\* its directory.
PhysMemInit == /\ firstFree = {}
               /\ avail = 1 + GlobalFrames + 1

Init ==
    /\ PhysMemInit
    /\ pd = [p \in Procs |-> IF p = First THEN GlobalFrames + 1 ELSE 0]
    /\ pt = [p \in Procs |-> NoTables]
    /\ page = [p \in Procs |-> NoPages]
    /\ regions = [p \in Procs |-> {}]
    /\ shared = [v \in SharedPages |-> 0]
    /\ shared_vme = {}
    /\ lock = "free"
    /\ pc = [p \in Procs |-> IF p = First THEN "user" ELSE "none"]
    /\ va = [p \in Procs |-> 0]
    /\ new_page = [p \in Procs |-> 0]
    /\ child = [p \in Procs |-> {}]
    /\ child_vme = [p \in Procs |-> {}]
    /\ calls = 0
    /\ halted = "no"
    /\ lost = {}

\* The frames that the entries of dir for the pages of the regions rs hold.
FramesOf(dir, rs) == {dir[v] : v \in Pages \cap Covered(rs)} \ {0}

\* remove_mapping for all of these pages.
RemoveMappings(dir, rs) == [v \in Pages |-> IF v \in Covered(rs) THEN 0 ELSE dir[v]]

\* The frames of the page tables.
TablesOf(p) == {pt[p][t] : t \in Tables} \ {0}

-----------------------------------------------------------------------------
(* Calls of a process *)

\* naive_mmap; VME::add_entry finds a place that is in no region.
Mmap(p, r) ==
    /\ Call(p)
    /\ Of(r) \subseteq Pages
    /\ Of(r) \cap Covered(regions[p]) = {}
    /\ regions' = [regions EXCEPT ![p] = @ \union {r}]
    /\ UNCHANGED <<frames, pd, pt, page, area, thread, forks, rest>>

MmapShared(p, v) ==
    /\ Call(p)
    /\ v \notin shared_vme
    /\ shared_vme' = shared_vme \union {v}
    /\ UNCHANGED <<frames, space, shared, lock, thread, forks, rest>>

\* Bug: one page more than the region has is unmapped.
MunmapOneMore(p, r) ==
    LET more == {[r EXCEPT !.pages = @ + 1]} IN
    /\ Call(p) /\ r \in regions[p]
    /\ regions' = [regions EXCEPT ![p] = @ \ {r}]
    /\ page' = [page EXCEPT ![p] = RemoveMappings(@, more)]
    /\ DeallocFrames(FramesOf(page[p], more))
    /\ UNCHANGED <<pd, pt, area, thread, forks, rest>>

\* naive_munmap: the VMEEntry is destroyed, and takes its pages along.
Munmap(p, r) ==
    /\ Call(p) /\ r \in regions[p]
    /\ regions' = [regions EXCEPT ![p] = @ \ {r}]
    /\ page' = [page EXCEPT ![p] = RemoveMappings(@, {r})]
    /\ DeallocFrames(FramesOf(page[p], {r}))
    /\ UNCHANGED <<pd, pt, area, thread, forks, rest>>

\* fork and thread() keep the VME of c alive.
Held(c) == \E p \in Procs : c \in child[p]

\* TCB::vme of d is given up.  The entries are destroyed with the last
\* StrongPtr: now, if there is no other.
LetGo(d) ==
    /\ child' = [p \in Procs |-> child[p] \ {d}]
    /\ child_vme' = [p \in Procs |-> IF d \in child[p] THEN regions[d] ELSE child_vme[p]]

\* The regions that go down with TCB::vme of d.
Going(d) == IF Held(d) THEN {} ELSE regions[d]

Framed(dir) == {dir[v] : v \in Pages} \ {0}

\* execl clears the address space, first the regions with their pages and
\* then the page tables.  When the fork that made p has not returned the
\* regions stay, and the page tables go with the pages still in them.  What
\* execl loads is the subject of module Loading.
Exec(p) ==
    /\ Call(p)
    /\ LetGo(p)
    /\ regions' = [regions EXCEPT ![p] = {}]
    /\ page' = [page EXCEPT ![p] = NoPages]
    /\ pt' = [pt EXCEPT ![p] = NoTables]
    /\ DeallocFrames(FramesOf(page[p], Going(p)) \union TablesOf(p))
    /\ lost' = lost \union Framed(RemoveMappings(page[p], Going(p)))
    /\ UNCHANGED <<pd, area, thread, halted>>

\* What fork allocates, numbered: new_page_directory, and in
\* copy_page_directory a table for every table and a page for every page.
Dir == 0
Table(t) == 1 + t
Page(v) == 1 + NTables + v
Copies(p) == {Dir} \union {Table(t) : t \in {u \in Tables : pt[p][u] # 0}}
                   \union {Page(v) : v \in {u \in Pages : page[p][u] # 0}}

\* The frame a copy is put into, 0 where there is nothing to copy.
CopyOf(p, x) ==
    IF x \in Copies(p) THEN Frame(Rank(Copies(p), x)) ELSE 0

\* VME::duplicate: entries of its own with the same pages.
Duplicate(rs) == {[first |-> r.first, pages |-> r.pages] : r \in rs}

\* Bug: the child's page table is given the parent's pages.
ForkSharesPages(p, c) ==
    /\ Call(p) /\ pc[c] = "none"
    /\ AllocFrames(Cardinality(Copies(p)))
    /\ pd' = [pd EXCEPT ![c] = CopyOf(p, Dir)]
    /\ pt' = [pt EXCEPT ![c] = [t \in Tables |-> CopyOf(p, Table(t))]]
    /\ page' = [page EXCEPT ![c] = page[p]]
    /\ regions' = [regions EXCEPT ![c] = Duplicate(regions[p])]
    /\ pc' = [pc EXCEPT ![c] = "user", ![p] = "forked"]
    /\ child' = [child EXCEPT ![p] = {c}]
    /\ UNCHANGED <<area, va, new_page, child_vme, rest>>

\* fork up to the end of ready_queue.add: the child can run on another core,
\* and the StrongPtrs of fork and thread() are still there.
Fork(p, c) ==
    /\ Call(p) /\ pc[c] = "none"
    /\ AllocFrames(Cardinality(Copies(p)))
    /\ pd' = [pd EXCEPT ![c] = CopyOf(p, Dir)]
    /\ pt' = [pt EXCEPT ![c] = [t \in Tables |-> CopyOf(p, Table(t))]]
    /\ page' = [page EXCEPT ![c] = [v \in Pages |-> CopyOf(p, Page(v))]]
    /\ regions' = [regions EXCEPT ![c] = Duplicate(regions[p])]
    /\ pc' = [pc EXCEPT ![c] = "user", ![p] = "forked"]
    /\ child' = [child EXCEPT ![p] = {c}]
    /\ UNCHANGED <<area, va, new_page, child_vme, rest>>

\* thread() and fork return.  If the child has given up its VME by now the
\* entries are destroyed here, and CR3 is the parent's.
ForkReturns(p) ==
    /\ At(p, "forked")
    /\ page' = [page EXCEPT ![p] = RemoveMappings(@, child_vme[p])]
    /\ DeallocFrames(FramesOf(page[p], child_vme[p]))
    /\ child' = [child EXCEPT ![p] = {}]
    /\ child_vme' = [child_vme EXCEPT ![p] = {}]
    /\ Goto(p, "user")
    /\ UNCHANGED <<pd, pt, regions, area, va, new_page, calls, rest>>

ForkPanics(p) ==
    /\ At(p, "user") /\ \E c \in Procs : pc[c] = "none"
    /\ Panic(Cardinality(Copies(p)))

Exit(p) ==
    /\ At(p, "user")
    /\ Goto(p, "dead")
    /\ UNCHANGED <<frames, space, area, va, new_page, forks, calls, rest>>

\* The destructor of the TCB of d, from the pages in the directory that CR3
\* holds, `dir`, to the page tables and the directory of d itself.
Deleted(d, dir) ==
    /\ LetGo(d)
    /\ DeallocFrames(FramesOf(dir, Going(d)) \union TablesOf(d) \union {pd[d]})
    /\ lost' = lost \union Framed(page[d])
    /\ pd' = [pd EXCEPT ![d] = 0]
    /\ pt' = [pt EXCEPT ![d] = NoTables]
    /\ regions' = [regions EXCEPT ![d] = {}]
    /\ Goto(d, "none")
    /\ UNCHANGED <<area, va, new_page, halted, calls>>

\* The reaper has pages of its own in the private area, that is none.
Reap(d) ==
    /\ At(d, "dead")
    /\ Deleted(d, NoPages)
    /\ page' = [page EXCEPT ![d] = NoPages]

\* reap() in a process: in thread(), that is in fork, in stop(), and in
\* yield() while it waits for the drive.  CR3 is that process's.
ReapBy(p, d) ==
    /\ At(p, "user") \/ At(p, "fill")
    /\ At(d, "dead")
    /\ Deleted(d, page[p])
    /\ page' = [page EXCEPT ![d] = NoPages,
                            ![p] = RemoveMappings(@, Going(d))]

-----------------------------------------------------------------------------
(* vmm_pageFault *)

\* A page of no region, and of none that could be: exit(-1).
FaultExits(p, v) ==
    /\ At(p, "user")
    /\ v \notin Covered(regions[p])
    /\ Goto(p, "dead")
    /\ UNCHANGED <<frames, space, area, va, new_page, forks, calls, rest>>

\* The page, and the page table if there is none.
Need(p, v) == IF pt[p][PDI(v)] = 0 THEN 2 ELSE 1

\* The rest of the handler: to the user, or on to the file.
Mapped(p, file) ==
    /\ Goto(p, IF file THEN "fill" ELSE "user")
    /\ va' = [va EXCEPT ![p] = 0]
    /\ new_page' = [new_page EXCEPT ![p] = IF file THEN Frame(1) ELSE 0]

\* add_mapping of the page allocated first.
AddMapping(p, v) ==
    /\ page' = [page EXCEPT ![p][v] = Frame(1)]
    /\ pt' = IF Need(p, v) = 1 THEN pt ELSE [pt EXCEPT ![p][PDI(v)] = Frame(2)]

Fault(p, v, file) ==
    /\ At(p, "user")
    /\ v \in Covered(regions[p]) /\ page[p][v] = 0
    /\ AllocFrames(Need(p, v))
    /\ AddMapping(p, v)
    /\ Mapped(p, file)
    /\ UNCHANGED <<pd, regions, area, forks, calls, rest>>

FaultPanics(p, v) ==
    /\ At(p, "user")
    /\ v \in Covered(regions[p]) /\ page[p][v] = 0
    /\ Panic(Need(p, v))

\* The file is read into the frame, by its physical address: whose frame it
\* is by then nobody asks.
Fill(p) ==
    /\ At(p, "fill")
    /\ halted' = IF new_page[p] \in firstFree THEN "clobbered" ELSE "no"
    /\ Goto(p, "user")
    /\ new_page' = [new_page EXCEPT ![p] = 0]
    /\ UNCHANGED <<frames, space, area, va, forks, lost, calls>>

check_VPN(v) == shared[v] # 0

SharedFault(p, v) ==
    /\ At(p, "user")
    /\ ~check_VPN(v)
    /\ Goto(p, "lock")
    /\ va' = [va EXCEPT ![p] = v]
    /\ UNCHANGED <<frames, space, area, new_page, forks, calls, rest>>

Lock(p) ==
    /\ At(p, "lock")
    /\ lock = "free"
    /\ lock' = "held"
    /\ Goto(p, "shared")
    /\ UNCHANGED <<frames, space, shared, shared_vme, va, new_page, forks, calls, rest>>

\* Another process has mapped the page in the meantime.
SharedThere(p) ==
    /\ At(p, "shared")
    /\ check_VPN(va[p])
    /\ lock' = "free"
    /\ Goto(p, "user")
    /\ va' = [va EXCEPT ![p] = 0]
    /\ UNCHANGED <<frames, space, shared, shared_vme, new_page, forks, calls, rest>>

\* No region: exit(-1), and nobody unlocks.
SharedExits(p) ==
    /\ At(p, "shared")
    /\ ~check_VPN(va[p]) /\ va[p] \notin shared_vme
    /\ lock' = "abandoned"
    /\ Goto(p, "dead")
    /\ va' = [va EXCEPT ![p] = 0]
    /\ UNCHANGED <<frames, space, shared, shared_vme, new_page, forks, calls, rest>>

\* Bug: the page table is not looked at again under the lock.
SharedMapsAgain(p, file) ==
    /\ At(p, "shared")
    /\ va[p] \in shared_vme
    /\ AllocFrames(1)
    /\ shared' = [shared EXCEPT ![va[p]] = Frame(1)]
    /\ lock' = "free"
    /\ Mapped(p, file)
    /\ UNCHANGED <<space, shared_vme, forks, calls, rest>>

\* Bug: the lock is not given back.
SharedMapsKeepsLock(p, file) ==
    /\ At(p, "shared")
    /\ ~check_VPN(va[p]) /\ va[p] \in shared_vme
    /\ AllocFrames(1)
    /\ shared' = [shared EXCEPT ![va[p]] = Frame(1)]
    /\ Mapped(p, file)
    /\ UNCHANGED <<space, shared_vme, lock, forks, calls, rest>>

\* The page is mapped, for all, before its file is read.
SharedMaps(p, file) ==
    /\ At(p, "shared")
    /\ ~check_VPN(va[p]) /\ va[p] \in shared_vme
    /\ AllocFrames(1)
    /\ shared' = [shared EXCEPT ![va[p]] = Frame(1)]
    /\ lock' = "free"
    /\ Mapped(p, file)
    /\ UNCHANGED <<space, shared_vme, forks, calls, rest>>

SharedPanics(p) ==
    /\ At(p, "shared")
    /\ ~check_VPN(va[p]) /\ va[p] \in shared_vme
    /\ Panic(1)

-----------------------------------------------------------------------------

UnderLock(p) ==
    \/ SharedThere(p) \/ SharedExits(p) \/ SharedPanics(p)
    \/ \E file \in BOOLEAN : SharedMaps(p, file)

Step(p) ==
    \/ \E r \in Region : Mmap(p, r) \/ Munmap(p, r)
    \/ Exec(p) \/ Exit(p) \/ ForkPanics(p) \/ ForkReturns(p) \/ Fill(p)
    \/ \E c \in Procs : Fork(p, c) \/ ReapBy(p, c)
    \/ \E v \in Pages : \/ FaultExits(p, v) \/ FaultPanics(p, v)
                         \/ \E file \in BOOLEAN : Fault(p, v, file)
    \/ \E v \in SharedPages : SharedFault(p, v) \/ MmapShared(p, v)
    \/ Lock(p) \/ UnderLock(p) \/ Reap(p)

Next == \E p \in Procs : Step(p)

\* The scheduler runs every ready thread, and a BlockingLock is passed on in
\* the order of the threads that wait for it.
Spec == /\ Init /\ [][Next]_vars
        /\ \A p \in Procs : SF_vars(Lock(p)) /\ WF_vars(UnderLock(p))

-----------------------------------------------------------------------------

\* In how many places a frame is kept: in the list of free frames, as a
\* directory, as a page table, as a page of a process, as a shared page.
Uses(f) ==
    LET in(g) == Cardinality({x \in DOMAIN g : g[x] = f}) IN
    Cardinality({f} \cap firstFree) + in(pd) + in(shared)
        + Cardinality({x \in Procs \X Tables : pt[x[1]][x[2]] = f})
        + Cardinality({x \in Procs \X Pages : page[x[1]][x[2]] = f})

\* Every frame that was given out is in exactly one place, in whatever order
\* munmap, exec, fork, faults and exits happen, although the destructors of one
\* process run in another one's address space: no two processes have a page in
\* the same frame, and none has one that is free.  The only frames that are
\* nowhere are the pages a process had when it ended, or when it called execl
\* before the fork that made it had returned.
FrameInOnePlace ==
    \A f \in 1..NFrames :
        Uses(f) = IF GlobalFrames < f /\ f < avail /\ f \notin lost THEN 1 ELSE 0

\* A process keeps its pages: one goes only when the process unmaps its region
\* or replaces its address space, or is reaped; when it reaps a process with a
\* region at the same address itself; and when it returns from a fork whose
\* child has already given up the address space it was made with, in which
\* there was a region at the same address.
KeepsPages ==
    [][\A p \in Procs, v \in Pages :
        page[p][v] # 0 /\ page'[p][v] # page[p][v] =>
            \/ v \notin Covered(regions'[p])
            \/ \E d \in Procs : /\ pc[d] = "dead" /\ pc'[d] = "none"
                                /\ v \in Covered(regions[d])
            \/ /\ pc[p] = "forked" /\ pc'[p] = "user"
               /\ v \in Covered(child_vme[p])]_vars

\* A fault in the shared area ends, unless the machine has stopped or a
\* thread has died with the lock.
SharedFaultEnds ==
    \A p \in Procs :
        pc[p] \in {"lock", "shared"} ~>
            \/ pc[p] \notin {"lock", "shared"}
            \/ halted # "no" \/ lock = "abandoned"

=============================================================================
