# A TLA+ verification project for the OS-bad-apple kernel

The repository is a small multiprocessor kernel for x86 (`src/kernel`) with a
few user programs (`src/my-test.dir/sbin`). This directory models its parts in
TLA+, checks them with TLC on small instances and proves the most important
properties with TLAPS for every instance. `PROJECT.json` maps each definition
to the source lines it stands for, and lists the runs, the hazards, the
findings and the theorems.

To check a run: `tlc -config X.cfg Module`. To check the proofs: `tlapm M.tla`
for `Sums` and every module whose name ends in `Proofs`.

## 1. Inventory

### The parts of the system

| Part | Source | State | Operations | Correct when |
|---|---|---|---|---|
| Threads | `threads.h`, `threads.cc`, `context.S`, end of `init.cc` | per core: `active_thread`, `help_requests`, `sleep_queues`, `tss.esp0`, interrupt flag; global: `ready_queue`, `reaper_queue` | `thread`, `yield`, `sleep`, `stop`, `block`, `reap`, the `helper` loop, the reaper thread | a TCB has one holder; nobody is lost or runs twice; nobody runs after `stop`; ready threads run; stopped threads are freed |
| Sleep queue | `threads.cc` `SleepQueue` | list ordered by `at_jiffies` | `add`, `remove` | woken at the right time, in order |
| Timer | `pit.cc` | `jiffies` | `apitHandler` | counts on core 0 |
| Semaphore | `semaphore.h` | `n`, `waiting` | `up`, `down` | no lost wake-up |
| Reaper's queue | `blocking_queue.h` | queue and semaphore | `add`, `remove`, `remove_all` | the reaper never sleeps over a stopped thread |
| Spin lock | `atomic.h` | `taken`, `was` | `lock`, `unlock`, `disable`, `restore` | exclusion; the holder is not interrupted; each caller's flag comes back |
| Queue | `queue.h` | `first`, `last`, `next` links | `add`, `add_front`, `remove`, `remove_all`, `isEmpty` | first in, first out, also seen without the lock |
| Shared pointers | `shared.h` | counts, `obj` | `add_strong`, `drop_strong`, `add_weak`, `drop_weak`, `promote_weak` | alive while held, freed once, after the last handle |
| Heaps | `heap.cc`, `sbin/heap.c` | words with tags, free list | `malloc`, `free`, `realloc` | blocks tile the heap, list exact, merged, contents kept |
| Sync library | `blocking_lock.h`, `barrier.h`, `promise.h`, `bb.h` | semaphores | `lock`, `sync`, `set`/`get`, `put`/`get` | follows from the semaphore |
| Physical frames | `physmem.cc` | free list of frames | `alloc_frame`, `dealloc_frame` | a frame has one owner |
| Address spaces | `vme.cc`, `vmm.cc` | lists of regions and of free space, page tables | `add_entry`, `remove_entry`, `duplicate`, page fault, `mmap`, `munmap` | regions are disjoint; a fault maps the right contents; fork copies |
| Processes | `processes.cc`, `sys.cc` | descriptor, child and semaphore tables | the system calls of `sys.h` | descriptors resolve to what was opened; `wait` gets the exit code |
| Buffer cache | `buffer_cache.h` | lists per index, a global list | `read_block` | a hit returns the block; the bound holds |
| Files | `block_io.cc`, `ext2.cc`, `path.h`, `ide.cc` | inodes, block maps | `read`, `read_all`, `find` | bytes of the right block; look-up ends |
| Programs | `elf.cc`, `kernel.cc` | - | `ELF::load`, `load_args` | segments checked; argument block well formed |
| Boot, console, formatting | `mbr.S`, `machine.S`, `idt.cc`, `smp.cc`, `debug.cc`, `vga.cc`, `u8250.cc`, `snprintf.cc` | device registers | - | not modelled |

### How they interact

* A thread never switches to another thread. It leaves a lambda on its own
  stack, points `help_requests[core]` at it and switches to the core's helper,
  which runs the lambda: it moves the TCB to a queue. From then on any core may
  resume, and another may delete, the thread on whose stack the lambda lives.
* `Semaphore::down` checks the count, releases the spin lock, blocks, and
  checks again in the helper. `up` removes a waiter under the lock and makes it
  ready after the lock.
* Stopped TCBs go to a `BlockingQueue`; the reaper thread takes them one by
  one with its semaphore, and every `yield`, `sleep`, `stop` and `thread` takes
  them all without the semaphore.
* All queues but the sleep queues are protected by spin locks, which disable
  interrupts. Sleep queues belong to a core. The heap, address spaces, the
  cache and the drive are protected by blocking locks, made of semaphores.
* PCBs, files and VME entries are shared through `StrongPtr` and `WeakPtr`.

### What is hard here

The interleavings of the cores in the hand-over of a TCB, the check-block-check
of `down`, tokens and TCBs of the reaper's queue going out of step, decisions
made under a lock and carried out after it (`shared.h`, `vmm.cc`, `sys.cc`),
arithmetic that wraps (`jiffies`, `avail + size`), hand-made linked structures
(`queue.h`, `heap.cc`, `buffer_cache.h`), and progress without preemption.
`PROJECT.json` has the list, one line of code each, under `hazards`.

## 2. Plan

Done, in this order: `Threads` (with `SleepQueue`); `SpinLock`; `LinkedQueue` on
top of it (implements `Fifo`); `SharedPtr`; `Heap` and `UserHeap`; `VME`
(implements `Regions`) with `Loading`; `Memory`; `Processes`; `OpenFiles`;
`FileRead` with `Ext2`; `BufferCache` with `Ide`.

| Composition | What meets |
|---|---|
| `LinkedQueue` extends `SpinLock` | pointer writes and the lock that excludes them |
| `UserHeap` extends `Heap` | two allocators, one set of tags |
| `Loading` extends `VME` | `execl`, `ELF::load`, `load_args` and the program's own calls on one list of regions |
| `Ext2` extends `FileRead` | look-up of a path, then reads of the file found |
| `BufferCache` extends `Ide` | cache and driver of the same threads |

Proofs, in this order: the invariants and action properties of `Threads`, the
lock and the queue with its refinement of `Fifo`, `Processes`, `SharedPtr`,
`BufferCache`, `OpenFiles`, `VME` and `Loading` with the refinement of
`Regions`, `Memory`, `FileRead`, `Heap` and `UserHeap`, `Ext2` (section 5).

Left, in order of importance:

1. The calls `sem`, `up` and `down`, and contents of pages in `Memory`.
2. `AbstractThreads`, a scheduler without cores and helpers, which `Threads`
   implements.

## 3. Modules

### Threads, SleepQueue, MCThreads

One core executes either a thread (`cpu[c]` is its TCB, `pc` says where it is)
or its helper (`cpu[c] = NoTCB`, `hpc[c]` says where). A step is one section
under one spin lock with the work around it that only the executing core sees.

| Code | Model |
|---|---|
| `State::active_thread`, `help_requests`, `ready_queue`, `sleep_queues`, `reaper_queue` | variables of the same names; the reaper's queue is `reaper_data` and semaphore `ReaperSem` |
| stack pointer of a core, `tss[id].esp0` | `cpu`, `esp0` |
| interrupt flag of a core; the copies that `context_switch` leaves on a thread's stack and on that of the helper | `interrupts`; `eflags`, `helper_eflags` |
| a TCB in a local variable between two queues, or the one on whose stack the request is that the helper carries out | `hand` |
| request object on the stack | `call[t]` |
| `kernelInit` from `sti()` on | `Boot` |
| `apitHandler` | `Tick` |
| loop of `helper()` | `HelperWakeup` (one turn of `wakeup()`), `HelperNoRequest`, `HelperTakes`, `HelperPick`, `HelperIdle`, `HelperDispatch` (`cli`, `active_thread`, `esp0`), `HelperSwitch` (`context_switch`), `HelperResume` |
| lambdas of `yield`, `sleep`, `down`, `stop` | `HelperYield`, `HelperSleep`, `HelperDownTakes`/`HelperDownWaits`, `HelperStop` then `HelperUp`, each a `DoIt` |
| `yield`, `sleep`, `stop`, `thread` | `CallX` (the `remove_all()` of `reap()`), `ReapDelete` for every TCB, then `YieldReturns`/`YieldBlocks`, `SleepBlocks`, `StopBlocks`, `ThreadAllocates` and `ThreadAdds` |
| `State::block` up to `Interrupts::restore` | `Block` |
| the rest of it: `help_requests[id]` and `context_switch` | `SwitchToHelper` |
| `Semaphore::down`, `up` by a thread | `DownTakes`, `DownBlocks`, `UpWakes`/`UpCounts`, `ThreadAdds` |
| reaper thread | `ReaperDown`, `ReaperRemoves`, `ReaperFindsNothing`, `ReaperDeletes` |

The windows between the steps of a hand-over are there for the other cores and
for the timer: between `cli` and the switch of the helper, and, in `block()`,
between `Interrupts::restore` and the switch. A context switch saves the flag of
the side that leaves and restores that of the side that comes; no step writes it
by hand but `cli`, `sti` and the creation of a thread.

The helper keeps its reference to the request, and so to the stack it lies on,
in `hand` from `HelperTakes` to the step of the lambda that puts the TCB into a
queue (`Published`). The lambdas use nothing they captured after that, and
`AtMostOneQueue`, which counts `hand` as a holder, is what breaks if they did.

`place` is a history variable: who holds the TCB. No action reads it in a guard
except to know which TCBs the heap can still allocate.

Abstractions: `delete` of a TCB gives its memory back and nothing else (page
tables and the PCB belong to the address space and process components; the
branch of `reap()` for a parent in state WAITING is dead, as nothing assigns
`PCB::state`). The heap's own lock, which `thread()` and `delete` take, is not
modelled here: a thread that waits for it blocks like in any other `down`.
Preemption is compiled out in `apitHandler` (`#if 0`).

### SpinLock

`SpinLock::lock`, `unlock`, `Interrupts::disable`, `restore`, one shared access
per step. `SetFlag` is the code around the lock (`cli`, `sti`). `flag` is a
history variable: the flag that code set.

### LinkedQueue, Fifo

`queue.h`, one memory write per step, behind the lock of `SpinLock`: a core that
holds the lock does the writes of one call, and the exclusion is what the
exchange and the interrupt flag give. `Fifo` is the promise: a sequence and
atomic operations. The refinement mapping takes the list that is reachable from
`first`, so it also covers `isEmpty`, which reads `first` without the lock.
`owner` says to whom a node belongs, so that two cores never get the same one.
The queues of `Threads` are the sequences of `Fifo`.

### SharedPtr

One object, its `Intermediate`, and threads that copy, promote and drop
handles. What is under the lock is one step; the deletions behind `unlock()`
are steps of their own, and `todo` says which of them a thread still has to
take. Once the code uses a deleted `Intermediate` it is
undefined, and the thread goes to "undefined" and is not followed further.

### Heap, UserHeap

`heap.cc` word by word: tags, links, `malloc` and `free`, each under the heap's
blocking lock and so one step. The caller fills a block it got with a pattern,
since the links in it are the caller's to overwrite. `owned` records what
callers hold; `free` is only called with those. `Fitting` is the set of blocks
`malloc` compares, which `countDown` bounds, and `Best` the one it takes. Requests
are at most `Word - 4`, since `bytes + 3` would wrap for the last three.

`UserHeap` adds the heap of `sbin/heap.c`, whose `malloc` takes the first block
that fits, which is `Malloc` with a `countDown` of 1, and `realloc`: a new block,
the copy (`Copied`, of `Kept` bytes, which may be more than the old block has for
its owner), and the old block freed, also where there is no new one. The variable
`user` says which of the two a behaviour is about.

### VME, Regions, Loading, MCLoading

`vme.cc`: the list of regions and the list of free space of one area, with
`avail` and `limit`. An area belongs to one process or is under the shared lock,
so each call is one step. `Regions` is the promise: a set of disjoint regions, of
which mmap adds one where there is room, munmap removes one and `execl` clears
all. A call may break the promise (`Break`, `promised`), and then only `Clear`
makes it good. `Coalescing` is the loop of `coalesce` over the list of free space, as a
recursive function, with `Join` for one turn of it.

Sizes are any words: those of a program's mmap, and those in the headers of its
file. `required_pages` and the sum `avail + size` that `add_entry` compares with
the limit (`vme.cc:147`) are words too, and wrap. `wrapped` is a history variable:
a size took `avail` around the end of the addresses, which that comparison lets
pass. From there on regions overlap, the promise is broken (`promised` is
`~wrapped`), and what the process does until its next `execl`, which begins with
an empty area, is not followed. The assumptions hold of the constants in the
code: the area begins and ends at a page, and the stack is smaller than what is
below the area and than what is between its limit and the last address.

`Loading` calls these operations in the order of the code.

| Code | Model |
|---|---|
| `execl` up to `ELF::load`; the start of `kernelMain` | `Exec` with `ReadHeader` |
| turns of the loop of `ELF::load` | `SegmentSkip`, `SegmentPanics`, or `SegmentGap`, `SegmentMmap`, `SegmentRead` |
| `naive_mmap(stack_size...)` | `Stack` |
| `load_args` | `LoadArgs`, with the pointer arithmetic on words in `ArgRoom` |
| `naive_mmap`, `naive_unmap` of a program | `Mmap`, `Unmap` |

A program header has the fields the loader uses, `offset` as the number of bytes
the file holds of the segment (`held`, at most `filesz`). `filesz` may be larger
than `memsz`: `ZeroLen` is the argument of `bzero` as a word, counted down as the
signed number that `machine.S` takes it for, and `ZeroAt` where it begins.

A write to an address without a region ends the process ("dead"), as the page
fault handler does; one below the area hits the kernel ("kernel written"). The
regions that processes share, behind `Limit`, are not in this module, and a write
there counts as one without a region.

### Memory

Frames, page directories, page tables and faults of several processes. `page`
and `pt` are what `copy_page_directory`, `add_mapping` and `remove_mapping` read
and write; `firstFree` and `avail` are those of `PhysMem`. A call of a process is
one step, except for a fault in the shared area, which waits for
`shared_vme_lock` (`SharedFault`, `Lock`, then one of `SharedThere`,
`SharedExits`, `SharedMaps`, `SharedPanics`), and for a fault on a file, which
waits for the drive (`Fault` or `SharedMaps`, then `Fill`). `Deleted` is the
destructor of a TCB, with the directory that CR3 holds as a parameter: that of
the reaper in `Reap`, that of the process that called `reap()` in `ReapBy`.

`Fork` is `fork` up to the end of `ready_queue.add`. The child may run, load another
program, end and be deleted while the parent is still in `fork`, where `child_vme`
(`sys.cc:122`) and the parameter `vme` of `thread()` (`threads.h:222`) keep the
child's `VME` alive: `child` says whose. When the child's TCB gives its `VME` up
first (`LetGo`, by `execl` or deletion), its regions go to `child_vme`, and
`ForkReturns`, the end of `fork`, destroys them in the page directory of the parent.

`firstFree` is the set of the frames in the free list, of which the lowest is
given out first: a frame is zeroed when it is given out, so that it does not
matter which one it is. The frames a fork needs are numbered (`Rank`, `Nth`). A
frame that is freed twice was in two places before, and that is what
`FrameInOnePlace` excludes.
`lost` is a history variable: the pages a process had when it was reaped.

### Processes

`fork`, `exit`, `wait`, and `close` of children and of descriptor 0. The promise
between a child and its parent is modelled by its semaphore and its value, each
access a step. The search loop of `PCB::duplicate` reads `children[PCB_ARR_SIZE]`;
the member behind `children` is `fdt` (`processes.h:37-38`), so that it reads
`fdt[0]`, and that is what `ChildIdx` says. `parent`, `code`, `status` and
`disowned` are history variables.

### OpenFiles

The descriptor table and the `OpenFile` objects in it, which `fork` shares
without a lock. A transfer, and the load and the store of `offset +=`, are three
steps. The offset of a console is kept out, as nothing depends on it. Three
history variables say what `PositionKept` is about: `total` is the last seek of a
file plus all bytes read since, `overlapped` has the files on which two calls were
in progress at once, `disturbed` those that were sought during a call, and those
to whose offset the -1 of a failed call was added.

### FileRead, Ext2, MCExt2

`FileRead` is `BlockIO::read` and `read_all` over `Node::read_block`. A block of
the disk is named by the path of references that leads to it, and the contents
of a byte are the block it is in and its position there, so that two bytes are
equal only if they are the same byte of the disk. The reference, `Contents`,
enumerates the leaves of the i-node's trees in order and does no arithmetic on
block numbers. A file has no more than `MaxBlocks` blocks: behind them `read_block`
fails its assertion `d2 < refs_per_block` (`ext2.cc:252`).

`Ext2` adds the way to a node: group descriptors and i-node tables by their
offsets on the disk, `find_one`, the parser of `Path`, and `find`, which rewrites
the path link by link. The reference never rewrites a path: `Along` goes from
node to node, one per component, and `Meaning`, a recursive function of the
number of links that may still be followed, gives a link on the way what its own
path means. `NodesAssumption` is what `mkfs` guarantees: i-nodes are where the
descriptors say, the names in a directory differ and stand for i-nodes, and
entries without a name for none. The buffer a link is read into is not
terminated, so that the parser goes on into whatever the stack holds:
`get_symbol` takes any member of `Garbage`, a sequence of names and slashes, with
no restriction. It may be more components, or continue the last name of the link,
to one that exists or to none. `garbled` is a history variable: this look-up has
read some. `CallFind` is the start of `open` and `chdir`; a file that was opened is then read (`ReadCall`), or
given up (`ReadForgotten`).

### Ide, BufferCache

`Ide` is the driver: the lock, the wait for the drive, the registers, the
command, the wait for DRQ and the transfer, each a step; the drive may answer at
any time or fail. `BufferCache` is `read_block`: `extract`, the read, the count,
the eviction and the global list of indices, whose `next` and `prev` are modelled
pointer by pointer, with the assertions of the eviction. A block in a list
carries the sector it really holds.

## 4. Runs

| Run | Shows |
|---|---|
| `threads` | The eight safety and action properties of the threads, `PreemptionSafe` among them: wherever an interrupt may come in, the current thread is the one on whose stack the core is. 2 cores, reaper, main and two further TCBs, the reaper's and one user semaphore, sleeps of 0 and 2 jiffies, 2 ticks, main makes two calls and every other thread one before it stops. About 1.65 million states. |
| `threads_live` | `ReadyRuns`, `SleepersWake`, `StoppedFreed` under the fair specification, with threads that may yield forever; one further TCB, the reaper's semaphore, one tick. |
| `locked_queue` | The spin lock excludes, its holder takes no interrupts, the flags are restored and a spinner takes interrupts; behind it `LinkedQueue` implements `Fifo`. |
| `shared_ptr` | An object lives while it has a strong handle, the `Intermediate` while it has any, it is deleted once, nothing leaks, nothing is resurrected. |
| `heap` | Tags tile the heap, the free list is exact, neighbours are merged, owned blocks keep what was written, for both heaps. |
| `address_space` | Regions and free space tile the area, free space is merged, `VME` implements `Regions`, until a size wraps around the end of the addresses and again from the next `execl` on; a program and its stack stay mapped while it runs, the arguments lie in the stack. |
| `memory` | No frame is in two places or freed in use; none is forgotten but the pages of ended processes; a process loses pages only in the ways `KeepsPages` names; shared faults end. |
| `processes` | `wait` reports what that child called `exit` with; a parent that waits returns once the child has called `exit`. |
| `open_files` | The offset of a file is its last seek plus all that was read since, by whichever of the processes that share it, while their calls do not overlap; and never more than that when they do. |
| `files` | `find` comes to the node the path means, or gives up only for too many links, unless it has read garbage behind a link, for which nothing is promised; `read_all` returns exactly the bytes of the file, zeros in the holes; both end. |
| `buffer_cache` | A read gets the bytes of its own block; the cache grows only where an eviction finds nothing; reads end unless the machine stops or the drive has failed. |
| `cache_assert` | Expected violation, see findings. |

### Bounds and why they are enough

* `threads`: two cores are needed for every race in the code, and each hand-over
  has two parties; the third party that could matter (a core that deletes the
  thread) is one of the two. Four TCBs let the reaper, a parent, and two
  children be in different queues, and a stopped TCB be allocated again. The
  proofs remove the bounds for all safety properties. `MaxCalls` bounds the
  calls of a TCB over its memory's life, not its steps; `MaxJiffies` the ticks;
  `Word` is larger than any sum in these runs. `threads_live` has one sleep, one
  tick and no user semaphore, since the yields are not bounded there
  (`YieldCost` is 0).
* `locked_queue`: two cores and two nodes, started with either owner, give
  lists of none, one and two nodes, so that every branch of every operation meets
  a core that spins, is interrupted, or reads `first` without the lock.
* `shared_ptr`: three handles of each kind and three threads give one that
  drops last, one that copies or promotes and one that drops a weak handle.
* `heap`: 24 words with blocks of 4, 5 and 7 words give up to five blocks,
  remainders of every size around the limit of four words, and merges to the
  left, to the right, to both sides and to none. `Candidates` is 2 so that the
  cut after the first candidates happens; the code has 20.
* `address_space`: an area of sixteen pages of 32 bytes from 1024 on, in addresses
  of 12 bits, a stack of eight pages; programs of one and two segments in either
  order, aligned or not, some too large, some that go around the end of the
  addresses, some with more contents than room for them or with less in the file
  than the header says, and one that is no program; argument lists up to more
  than a quarter of the stack; requests of 0, 1, 33, 90, 3000 and 4090 bytes. 3000
  takes `avail` around the end of the addresses once something else is mapped;
  4090 passes the comparison and makes a region of no pages. `MaxEntries` bounds
  the regions that exist when mmap is called (empty ones take no room).
* `memory`: two processes, three private pages in two page tables, one shared
  page and eight frames, so that frames run out in the middle of a fault and of a
  fork; three calls of mmap, munmap, `execl` or fork, faults and exits without
  a bound.
* `processes`: three PCBs are a parent with two children or a chain of three;
  tables of two slots. A PCB is not used again, so the run ends when all have
  stopped.
* `open_files`: two processes, the three console files and one more, a file of
  three bytes read two at a time, so that the second read is short and the third
  gets nothing; seeks into it and behind it; offsets below 5, the word. `MaxFiles`
  bounds the files that are opened, `MaxTotal` the bytes that were read of one
  when another read begins; a process may stop.
* `files`: two groups of i-nodes, three directories, links up, down, absolute,
  with a slash at the end and in a circle, and a deleted entry; blocks of two
  bytes, two references per block and two direct ones give sixteen blocks, which
  use all four kinds of references; offsets on and next to every border.
  `Garbage` is nothing, `/..`, or what makes the last name of a link one that no
  directory has, or the name of a file that there is.
  `MaxLinks` is 4 where the code has 100.
* `buffer_cache`: two readers, three lists, four blocks of which two share a
  list, and five reads, so that both readers miss the same block, evict, and
  evict a list that is empty. `Size` is larger than the number of readers, as
  997 is in the code.

### Fairness

* `WF` for every core in `Threads`: a processor keeps executing. A thread gives
  up its core only by a call, as there is no preemption, so liveness speaks of
  threads that make boundedly many calls other than `yield`, and then stop or
  yield forever.
* `SF` for `Tick`: the local APIC keeps the interrupt pending while the core has
  interrupts disabled and delivers it when they are enabled again.
* `LinkedQueue`: `WF` only for cores inside `lock()`. The holder may keep the lock
  forever and the spinner must still take interrupts.
* `Processes`: `WF` for what a thread has begun in `exit` and `wait`: the
  scheduler runs every ready thread and a semaphore wakes its waiter, which is
  what `ReadyRuns` and `NoLostWakeup` show of `Threads`. No process has to call
  anything.
* `Ext2`: `WF` of the one thread in a call, whose disk reads return.
* `Memory`: `WF` for a thread that has `shared_vme_lock`, and `SF` for taking it:
  a `BlockingLock` is a semaphore, whose waiters queue up. Nothing is assumed
  of the calls of a process.
* `BufferCache`: `WF` for a thread inside `read_block` and for the drive, which
  answers. The reads are bounded, so that the lock is not taken by others forever.

`SleepersWake` has a premise: the core of the sleeper comes back to its helper
again and again. It does not hold without it. A thread that yields forever on an
otherwise idle core keeps that core (`yield` returns without visiting the helper
when the ready queue is empty, so `wakeup()` is not called): `ide.cc` polls that
way, for as long as the drive takes. This is the hazard at `ide.cc:92`.

## 5. Proofs

Eight modules hold theorems. Each is about every value of the constants that
the assumptions of its module admit, and every step relation is the one the
runs check. The inductive invariants were model-checked first, with the
constants of the runs; of the one of `Ext2` TLC cannot evaluate `OnTheWay`, which
says that there are two functions, and the run checks what follows from it.

| Theorem | States | Module |
|---|---|---|
| `TypeCorrect`, `AtMostOne`, `WakeupsKept` | `TypeOK`, `AtMostOneQueue`, `NoLostWakeup` of `Threads` | `ThreadsProofs` |
| `Consistent`, `Preemption` | `CoreConsistent`, `PreemptionSafe` of `Threads` | `ThreadsProofs` |
| `NobodyLost`, `TokensSuffice` | `NoThreadLost`, `ReaperTokens` of `Threads` | `ThreadsProofs` |
| `NobodySkipped` | action property `NoDueSleeperSkipped` of `Threads` | `ThreadsProofs` |
| `Exclusion`, `Uninterrupted`, `Restored` | `MutualExclusion`, `HolderUninterrupted`, `FlagRestored` of `SpinLock` | `PrimitivesProofs` |
| `IsFifo`, `QueueIsGuarded` | `LinkedQueue` implements `Fifo`, and keeps the three properties of its lock | `PrimitivesProofs` |
| `HeldObjectLives`, `DeletedOnce`, `NoLeak`, `NoneComesBack` | `ObjAliveWhileHeld`, `IntermediateDeletedOnce`, `NothingLeaks`, action property `NoResurrection` of `SharedPtr` | `PrimitivesProofs` |
| `HeapInvariance`, `BlocksTile`, `ListExact`, `OwnersSafe` | the inductive invariant of both heaps; `Tiled`, `FreeListExact`, `OwnedIntact` of `UserHeap` | `PrimitivesProofs` |
| `Loads`, `AreaTiled`, `ProgramKept`, `ArgsPlaced` | the inductive invariant of `Loading`; `RegionsTile`, `ProgramStays`, `ArgsInStack` | `LoadingProofs` |
| `RegionsImplemented` | `AddressSpace`: the lists of `VME`, with all calls of `Loading`, implement `Regions` | `LoadingProofs` |
| `BytesExact` | `ReadAllExact` of `FileRead`, under the specification of `Ext2` | `LoadingProofs` |
| `FindsTheNode` | `FindCorrect` of `Ext2` | `LoadingProofs` |
| `MemoryInvariance`, `OneOwner`, `PagesKept` | the inductive invariant of `Memory`; `FrameInOnePlace`, action property `KeepsPages` | `MemoryProofs` |
| `RightBytes`, `StaysBounded` | `ReadsItsBlock`, `CacheBounded` of `BufferCache` | `BufferCacheProofs` |
| `ExitStatusReported` | `WaitReportsExit` of `Processes` | `ProcessesProofs` |
| `KeepsPosition` | `PositionKept` of `OpenFiles` | `OpenFilesProofs` |

With these every invariant and every action property that a passing run checks
is proved, for every value of the constants. So are both refinements.

### Threads: ThreadsProofs

From `ConstantsAssumption` only: any finite set of cores, any TCBs and
semaphores.

`AtMostOneQueue` is not inductive: that a TCB is in one queue does not say that
the step that adds it took it out of another place. The inductive invariant
`IndInv` ties every holder to the history variable: `CorePlaces` (running,
requested and held TCBs), `QueuePlaces` (each queue is free of duplicates and
all its entries have its place), `HandFilled` and `DoomedFilled` (whoever will
add, switch to or delete a TCB, or is carrying out its request, has one), `HelperSaved` (the helper of a core
that runs a thread is saved at the end of its loop), `ReaperRuns` (the reaper
never stops and is never deleted), `BootAlone` (there is no main thread before
the last core has booted). As `place` is a function, two holders of one TCB
would be two places. There is one lemma per action; the lemmas
`ReadyQueueGains`, `WaitingQueueLoses` and so on say how each queue changes,
and those about `InsertPosition` and `InsertBefore` that `SleepQueue::add` keeps
a permutation. `NoLostWakeup` is then proved from `SemaphoreStep`, the five ways
in which a step may change a semaphore.

Each further property needs something on top of `IndInv`.
* `CoreConsistent` and `PreemptionSafe`: `CoreFlags` (`active_thread` and `esp0` at
  every point of the two hand-overs, and where interrupts are off, among them that
  the flags saved on a thread's stack have them on), `SwitchRuns` (a thread in the
  middle of `block()` executes), `StoppedAway` (a thread that called `stop` waits for
  its helper, is in its hands, waits for its deletion or for nothing) and
  `BootBeforeStop`.
* `NoThreadLost`: `IndInv` says that every holder agrees with `place`; the
  converse, that the place of a TCB really holds it (`AllSit`), needs that nobody
  overwrites the only reference: `HandEmpty`, `RequestFirst` (a request is taken
  up before the core runs anything else) and `ReapingRuns` (who has TCBs to
  delete keeps its core until it has deleted them).
* `ReaperTokens`: `ReaperAlone`, that only the reaper waits on its semaphore and
  looks into the queue when it returns, so that a token in its hands is not lost
  (`Pending` tells a reaper that has still to be queued from one that was woken);
  and the change of the cardinality of the helpers that are about to call `up`.
* The sleep queues are ordered (`SleepOrdered`): `SleepQueue::add` inserts before
  the first later one, and `at_jiffies` of a queued thread does not change.

### SpinLock and LinkedQueue: PrimitivesProofs

For the lock, the strengthening `LockInv` (`Owned`, `Flags`, `Saved`) says what
the shared field `was` and the local variables mean at every point of `lock` and
`unlock`, for any set of cores.

For the queue, `QueueAssumption`: the nodes are a finite set, and the null
pointer is no node and no core. `Chain`, the refinement mapping, is defined by
recursion on the position; `IsList` says without recursion that a sequence is
what is reached from `first`, and `WalkIs` that `Chain` is then this sequence.
`ListAppend`, `ListPrepend`, `ListTail` and `ListElsewhere` say what each pointer
write does to the list. The invariant `QueueInv` adds to the list who may write
(`Places`: only the holder of the lock), that a node about to be added is still
its core's own (`Own`), and what `last` is between the two writes of a call
(`Written`, `Sound`). Four writes, one for each operation, are steps of `Fifo`;
all others leave the list and the owners as they are. The fairness of
`QueueSpec` is not used.

### SharedPtr: PrimitivesProofs, Sums

For any finite set of threads and any number of handles. `PtrInv`: the two
counts are the sums of the handles of all threads (`Counted`), nothing is
deleted while there is a StrongPtr (`Untouched`), who has decided to delete the
Intermediate was the last and is the only one (`LastDecides`), and without
handles what is not deleted is somebody's to delete (`SomeoneDeletes`). The sums
are folds of the community modules; `Sums` proves from their definition that
such a fold exists, that it is a number, and how it changes with one value. The
induction this takes is an argument by a least counterexample, for this fold
only.

### Heap and UserHeap: PrimitivesProofs

From `HeapAssumption`: any number of words from eight on, any requests that do not
wrap, any number of candidates.

The three properties walk over the heap, and a walk is no invariant: where it
goes depends on every word. The invariant `HeapInv` says instead that there are
a set of headers `S` and a sequence `l` such that `S` cuts the words into blocks
with equal tags at both ends (`Cut`), `l` is the doubly linked list of available
blocks of `S` (`Links`, with `Nth` for what is next to the k-th, `Once`), every
available block is in it and no two are neighbours (`Whole`), and every owner has
a taken block of `S` with its words in it (`Owns`). An available block has four
words, so the links of one are never the tags or links of another (`Spread`).

Each helper has a lemma that says what it does to `S` and `l`: `UnlinkChain` and
`PushChain` for `remove` and `makeAvail`, `SplitListed` and `TakeListed` for the two
ends of `malloc`, `JoinListed` for the merge with a neighbour, `InsideListed` for
writes of an owner. `CutAgain` is what they share: new tags at the borders of
merged or split blocks cut the same words again. `CarveSound`, `MergeSound`,
`FillSound`, `CopySound` and `FreeSound` put them together for the calls. At the
end `BlocksAre` and `FreeListIs` show that the walk over the sizes meets exactly
`S`, and the one over the links `l`; both walks are recursive functions of the
position, and the argument is by a least counterexample.

### VME and Loading: LoadingProofs

From `VMEAssumption` and `LoadingAssumption`: any area, and any programs, arguments
and sizes whose numbers are words. What is claimed, is claimed until a size takes
`avail` around the end of the addresses: `Loads` is `wrapped \/ LoadInv`. Where the
sums wrap and `avail` does not (a size that is rounded up to no pages), the
properties are shown to hold.

`RegionsTile` counts regions; the invariant says the same pointwise. `VInv` is
`AreaBounds`, `Lists` (regions of whole pages inside the area, and free ones that
are ordered and do not touch, `Apart`) and `Tiles`: every address is in at most one
region, in none that is also free, and in one of either kind exactly if it is
between `Base` and `avail`. The lemmas on first fit, sorted insertion, removal and
coalescing say how each changes the addresses that a list covers; for
`Coalescing`, which is recursive, by a least counterexample.

`ProgramStays` needs to know where loading is. `LoadInv` adds that the headers are
those of a file (`LoadTypes`, `AtSegment`), that until the program runs every
region is one the user cannot unmap (`KernelOnly`), that the segments that were
read are in such regions (`SegmentsKept`), and so is the stack, beside them
(`StackThere`). Arguments that need no more than a quarter of the stack end above
its start and below its end, whatever their lengths (`ArgsInStack`).

`RegionsImplemented`: `Exec` clears the regions, `Add` adds one that overlaps none
(`Gains`), fails, or breaks the promise, `Unmap` removes one, and no other step
touches them.

### FileRead: LoadingProofs

From `FileReadAssumption`: any block size, number of references, file with its
holes, offset and length. `ReadInv` says that in every turn of the loop of
`read_all` the buffer holds the bytes from the start of the request on
(`Progressed`). A turn adds the right bytes because `Pbn` follows, for every block
number, the path of the leaf with that number; the lemmas number the leaves of
trees of one, two and three levels by quotient and remainder, for which the
library's `FlattenSeq` is shown to be the concatenation of parts of equal length.

### Ext2: LoadingProofs

From `NodesAssumption`: any file system, any paths, any garbage and any number of
links that `find` may follow. `FindInv` says that what is left of the path leads from the
node `find` has come to, to the node the whole path means (`OnTheWay`): there is a
trail of nodes along it, each of which follows from the one before, with links
that may still be followed at least as often as `find` has links left. Where a
path is used up the trail is one node, the answer; where a name is missing all
that follows in the trail is 0, because `/` is nowhere but in front of a path
(`Clean`); and where a link is replaced by its path, the trail that gave the link
its meaning is put into the old one (`Splices`), a level deeper, which is why the
count of links is part of the statement. Of a look-up that has read garbage
(`garbled`) nothing is claimed but that it ends, which is a run's. The recursive functions `Parse`, `Along` and `Meaning`
are shown to exist, and what they compute, by one lemma on functions that are
defined value by value (`Iterates`), which rests on the least counterexample.

### Memory: MemoryProofs

From `MemoryAssumption`: any processes, sizes and number of frames.

A place that can hold a frame is a slot: the directory, a table or a page of a
process, or a shared page; `Content` is the frame in it. `FrameInOnePlace` is
inductive only with `Empty` (what is no process has no directory, no tables and
no pages) and `Disjoint` (its regions do not overlap, so that unmapping one does
not take the pages of another). `Places` says that a held frame was given out and
is not free (`Bounds`, `HeldNotFree`), that no two slots hold the same one
(`HeldOnce`), and that none is forgotten but the ones in `lost` (`NoneForgotten`).
`AllocKeeps` covers everything that takes frames, the copies of a fork included,
whose numbers in the set of free frames are all different (`Rank`, `Nth`);
`FreeKeeps` and `ClearKeeps` everything that gives frames back, `Deleted` in the
directory of another process included. What `ForkReturns` destroys is the case of
`Munmap` with regions that are not the parent's own: `Disjoint` does not speak of
`child_vme`, and `KeepsPages` has a case of its own for the pages that go this way.

### BufferCache: BufferCacheProofs

For any finite set of readers, `None` not among them. `ReadsItsBlock` needs that
every block in a list holds what it is filed under (`ListTypes`), that who talks
to the drive has its lock (`Holder`) and that from the command on the registers
name its sector (`Registers`). `CacheBounded` needs `Counted`: the blocks in
lists and those that readers are about to add are together no more than the
count up to the limit, and the misses of the eviction. That the assertions of
the eviction do not fail is not claimed, since they do (section 6).

### Processes and OpenFiles: ProcessesProofs, OpenFilesProofs

`WaitReportsExit`: a promise in the table of a process is that of its own child
(`OwnChildren`), the value is stored before the semaphore is raised
(`RaisedLast`), and who has come past `down` waits for a child that is through
(`WaitsForChild`).

`PositionKept`: between the load and the store of `offset +=` the new offset is in
two local variables. `Sound` says for each file what they hold: nobody has loaded
more than the total, and a file on whose calls there was no overlap has one
transfer at most, which has loaded the offset as it is and whose sum is below
`Word`. `Word` must be a number larger than the size of a file.

### Only model-checked

* Liveness (`ReadyRuns`, `SleepersWake`, `StoppedFreed`, `SpinnerInterruptible`,
  `ReadsEnd`, `SharedFaultEnds`, `ReadEnds`, `FindReturns`, `WaitersReturn`):
  fairness and ENABLED are out of the prover's reach.

## 6. Findings

* `buffer_cache.h:171`: an index that moves to the front of the global list stays
  its last one as well. When the oldest index is used again and the next read
  misses, it has no predecessor and the assertion of the eviction fails
  (`cache_assert`).

Seen while modelling, without a run of their own:

* `shared.h:56`: `drop_strong` goes on using the `Intermediate` after it released
  the lock. One thread drops the last `StrongPtr` while one `WeakPtr` exists, and
  stops behind `unlock()`; another drops the `WeakPtr`, finds both counts at zero
  (`shared.h:89`) and deletes the `Intermediate`; the first then reads
  `ptr->obj` in its ASSERT and writes it. This is action `Undefined` of
  `SharedPtr`.
* `processes.cc:24`: the search for a child slot looks one past the array, at
  `fdt[0]`. With descriptor 0 open it ends at slot 0 at once, so the second child
  of a process takes the place of the first, which cannot be waited for any more;
  a process that closed descriptor 0 fails the ASSERT of `processes.cc:31` when
  it forks (`ForkPanics` in `Processes`).
* `vme.cc:27`, `threads.cc:40`: the pages of a dead process are removed from the
  page directory of whoever deletes its TCB. Those of the dead process are
  never freed (`lost` in `Memory`), and a process that reaps loses its own
  pages at the same addresses, which come back zeroed at the next fault. The
  same happens at the end of `fork`: its own StrongPtrs (`sys.cc:122`,
  `threads.h:222`) are the last ones if the child has ended and been deleted, or
  has called `execl`, by the time they are dropped, and then the parent's pages
  go (`KeepsPages` names both cases).
* `vmm.cc:246`: if that happens while a page fault waits for its file, the file
  is read into a frame on the free list, and overwrites the link in it
  (`halted = "clobbered"` in `Memory`).
* `vmm.cc:227`: a fault on a shared address without a region ends the process
  with `shared_vme_lock` held, and every later fault in the shared area waits
  forever (`lock = "abandoned"`, the exception in `SharedFaultEnds`).
* `vmm.cc:214`: a fault on a shared page that is present returns at once; a
  user's write to the read-only page of the APIC faults again and again.
  Protection bits are not modelled.
* `vmm.cc:235`: a shared page is mapped before its file is read, so another process
  may see zeros.
* `vme.cc:124`, `vme.cc:147`: both sums wrap for large sizes. mmap then returns
  a region without pages, or takes `avail` around the end of the addresses, and
  regions overlap from then on (`wrapped` in `VME`; what is shown of an address
  space, is shown until then). In the shared area, whose limit is the last
  address, the sum is never larger than the limit.
* `elf.cc:29`: the sum in the check of a segment wraps, so that one that goes
  around the end of the addresses passes, and its `memsz` is given to mmap.
* `elf.cc:44`: nothing compares `filesz` with `memsz`. Contents that are longer than
  the segment are written behind it, where the process dies or the next region
  begins; the length given to `bzero` is then a wrapped difference, for
  which `bzero` does nothing, or, if `filesz` is larger by more than 2^31, zeroes
  up to 2^31 bytes from an address that has wrapped too, and may be in the
  kernel ("kernel written" in `Loading`).
* `sys.cc:185`: the stack of a program that leaves no room for it is at address 0,
  and `load_args` writes to the kernel's pages ("kernel written" in `Loading`).
* `kernel.cc:26`: `userEsp` is a pointer to words, so four times the room for the
  arguments is taken; arguments of more than a quarter of the stack end the
  process or land in a segment (the premise of `ArgsInStack`).
* `sys.cc:46`: a write to a file returns -1, which is added to the offset; so is
  the -1 of a read behind the end at `sys.cc:32` (`disturbed` in `OpenFiles`).
* `sys.cc:32`: parent and child share an offset that nothing locks. When their reads
  overlap, both get the same bytes, and the offset moves by one of the two or by
  both (`overlapped` in `OpenFiles`).
* `sys.cc:74`: `open` of a missing file gives out a descriptor on which `len`
  panics (`LenPanics` in `OpenFiles`).
* `ext2.cc:170`: the target of a symbolic link is parsed without a terminating zero;
  what the stack holds behind it may make a look-up fail, or lead it to another
  file that exists (`garbled` in `Ext2`).
* `ext2.h:279` says that `find` panics if its argument is not a directory; it returns
  a null reference (`ext2.cc:159`, `FindFails` in `Ext2`).
* `ide.cc:84`: a drive that fails after the command leaves its reader waiting for
  DRQ with the lock held, and all others behind it (the exception in `ReadsEnd`).
* `sbin/heap.c:216`: `realloc` frees the old block even if it has no new one.
* `sbin/sys.h` says that `len` is negative and `seek` fails on the console; the code
  returns 0 and sets the offset.
* `threads.cc:75`: `at_jiffies` wraps after 49.7 days and is compared as a plain
  number, so a thread that sleeps across the wrap is woken at once.
* `heap.cc:6` says first-fit; `malloc` takes the smallest of the first twenty
  blocks that fit.

## 7. Not modelled

Boot loader, descriptor tables, APIC programming and SMP start-up: sequential
device programming before the first thread. Console, VGA and formatting
(`snprintf.cc`, `vga.cc`, `sbin/printf.c`, a quarter of the implementation's
lines): output only. The user programs are the environment of the kernel.
`Barrier` and `BoundedBuffer` are used by nothing in the kernel. Of the system
calls, `sem`, `up` and `down` are table look-ups around the semaphore of
`Threads`; the checks of user addresses and the dispatch of the calls are left
out. Page table protection bits, the TLB and the kernel's own mappings are not
part of `Memory`.
