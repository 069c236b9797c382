------------------------------ MODULE Threads -------------------------------
(***************************************************************************)
(* The threads of the kernel: kernel/threads.h, kernel/threads.cc, the     *)
(* semaphore of kernel/semaphore.h they block on, the reaper's blocking    *)
(* queue (kernel/blocking_queue.h), the timer interrupt (kernel/pit.cc)    *)
(* and the end of kernelInit (kernel/init.cc) that starts them.            *)
(*                                                                         *)
(* Every core runs either a thread, on that thread's stack, or its own     *)
(* helper, on the core's boot stack.  A thread gives its core up by        *)
(* leaving a request on its own stack, pointing help_requests[core] at it  *)
(* and switching to the helper, which carries the request out.             *)
(*                                                                         *)
(* One step is one section protected by one spin lock, together with the   *)
(* work before and after it that only the executing core can see.  The     *)
(* spin lock itself is the subject of module SpinLock, the linked lists    *)
(* of module LinkedQueue.                                                  *)
(***************************************************************************)
EXTENDS Integers, Sequences, FiniteSets, SleepQueue

CONSTANTS
    Cores,             \* the processors, kConfig.totalProcs of them
    BootCore,          \* core 0, the one that counts jiffies
    TCBs,              \* the thread control blocks the heap has room for
    Reaper,            \* the TCB the constructor of State creates
    Main,              \* the TCB the last core to boot creates
    NoTCB,             \* nullptr
    Sems,              \* the semaphores
    ReaperSem,         \* the semaphore inside reaper_queue
    InitialN,          \* the argument of every semaphore's constructor
    Seconds,           \* the arguments sleep is called with
    JiffiesPerSecond,  \* Pit::jiffiesPerSecond
    Word,              \* 2^32, scaled down
    MaxJiffies,        \* bound: the timer ticks that are explored
    MaxCalls,          \* bound: the kernel calls each TCB makes before it stops
    YieldCost          \* 0: a yield does not count against MaxCalls; 1: it does

ASSUME ConstantsAssumption ==
    /\ BootCore \in Cores
    /\ IsFiniteSet(Cores)
    /\ Reaper \in TCBs
    /\ Main \in TCBs
    /\ Reaper # Main
    /\ NoTCB \notin TCBs
    /\ ReaperSem \in Sems
    /\ InitialN \in [Sems -> Nat]
    /\ InitialN[ReaperSem] = 0
    /\ Seconds \subseteq Nat
    /\ JiffiesPerSecond \in Nat
    /\ Word \in Nat \ {0}
    /\ MaxJiffies \in Nat
    /\ MaxCalls \in [TCBs -> Nat]
    /\ YieldCost \in {0, 1}

VARIABLES
    cpu,            \* the TCB whose stack a core executes on; NoTCB: the helper
    active_thread,  \* State::active_thread
    help_requests,  \* State::help_requests: the TCB on whose stack the request is
    interrupts,     \* the interrupt flag of every core
    eflags,         \* that flag as context_switch saved it on a thread's stack,
    helper_eflags,  \* and on the stack of a core's helper
    esp0,           \* tss[id].esp0: the TCB whose stack an interrupt switches to
    hpc,            \* where the boot code or the helper of a core is
    hand,           \* the TCB in a local variable of a core, or the one on whose
                    \* stack the request is that its helper carries out
    ready_queue,    \* State::ready_queue
    sleep_queues,   \* State::sleep_queues
    at_jiffies,     \* TCB::at_jiffies
    jiffies,        \* Pit::jiffies
    n,              \* Semaphore::n
    waiting,        \* Semaphore::waiting
    reaper_data,    \* BlockingQueue::data of reaper_queue
    pc,             \* where a thread is
    call,           \* the kernel call a thread is in; its request, once blocked
    reaping,        \* the TCBs a thread took from reaper_queue and must delete
    calls,          \* the kernel calls a TCB may still make (the bound MaxCalls)
    place           \* history: which part of the kernel holds the TCB

flagVars  == <<interrupts, eflags, helper_eflags>>
coreVars  == <<cpu, active_thread, help_requests, flagVars, esp0, hpc, hand>>
queueVars == <<ready_queue, sleep_queues, at_jiffies, n, waiting, reaper_data>>
tcbVars   == <<pc, call, reaping, calls, place>>
vars == <<coreVars, queueVars, tcbVars, jiffies>>

NoCall == [op |-> "none", sem |-> ReaperSem, sec |-> 0]
Call(op, sem, sec) == [op |-> op, sem |-> sem, sec |-> sec]

(***************************************************************************)
(* The values of the history variable `place`: who holds the TCB, and for  *)
(* the parts there are several of, which one.                              *)
(***************************************************************************)
Free         == <<"free", NoTCB>>        \* not allocated
Ready        == <<"ready", NoTCB>>       \* in ready_queue
Reapable     == <<"reapable", NoTCB>>    \* in reaper_queue
OnCpu(c)     == <<"cpu", c>>             \* core c executes on its stack
Requesting(c)== <<"request", c>>         \* help_requests[c] is on its stack
InHand(c)    == <<"hand", c>>            \* in a local variable of core c
Sleeping(c)  == <<"sleeping", c>>        \* in sleep_queues[c]
WaitingOn(s) == <<"waiting", s>>         \* in the waiting queue of s
Doomed(t)    == <<"doomed", t>>          \* about to be deleted by t

-----------------------------------------------------------------------------
(* Boot *)

\* The global constructors have run on the boot core: State::State() created
\* the reaper.  No core has come to the end of kernelInit yet.
Init ==
    /\ cpu = [c \in Cores |-> NoTCB]
    /\ active_thread = [c \in Cores |-> NoTCB]
    /\ help_requests = [c \in Cores |-> NoTCB]
    /\ interrupts = [c \in Cores |-> FALSE]
    /\ eflags = [t \in TCBs |-> TRUE]
    /\ helper_eflags = [c \in Cores |-> FALSE]
    /\ esp0 = [c \in Cores |-> NoTCB]
    /\ hpc = [c \in Cores |-> "boot"]
    /\ hand = [c \in Cores |-> NoTCB]
    /\ ready_queue = <<Reaper>>
    /\ sleep_queues = [c \in Cores |-> <<>>]
    /\ at_jiffies = [t \in TCBs |-> 0]
    /\ jiffies = 0
    /\ n = InitialN
    /\ waiting = [s \in Sems |-> <<>>]
    /\ reaper_data = <<>>
    /\ pc = [t \in TCBs |-> IF t = Reaper THEN "down" ELSE "run"]
    /\ call = [t \in TCBs |-> NoCall]
    /\ reaping = [t \in TCBs |-> <<>>]
    /\ calls = MaxCalls
    /\ place = [t \in TCBs |-> IF t = Reaper THEN Ready ELSE Free]

(***************************************************************************)
(* A core enables interrupts and counts itself in; the last one creates    *)
(* the main thread.  Nothing can have been reaped at that time, so thread()*)
(* comes down to the allocation and ready_queue.add.  stop() turns the     *)
(* core into its helper, since active_thread is nullptr.                   *)
(***************************************************************************)
Boot(c) ==
    /\ hpc[c] = "boot"
    /\ interrupts' = [interrupts EXCEPT ![c] = TRUE]
    /\ hpc' = [hpc EXCEPT ![c] = "wakeup"]
    /\ IF \A d \in Cores \ {c} : hpc[d] # "boot"
       THEN /\ ready_queue' = Append(ready_queue, Main)
            /\ place' = [place EXCEPT ![Main] = Ready]
            /\ eflags' = [eflags EXCEPT ![Main] = TRUE]
       ELSE UNCHANGED <<ready_queue, place, eflags>>
    /\ UNCHANGED <<cpu, active_thread, help_requests, helper_eflags, esp0, hand,
                   sleep_queues, at_jiffies, n, waiting, reaper_data, pc, call,
                   reaping, calls, jiffies>>

-----------------------------------------------------------------------------
(* The timer *)

\* apitHandler: only core 0 counts, and it takes the interrupt only while
\* its interrupts are enabled.  Preemption is compiled out.
Tick ==
    /\ interrupts[BootCore]
    /\ jiffies < MaxJiffies
    /\ jiffies' = (jiffies + 1) % Word
    /\ UNCHANGED <<coreVars, queueVars, tcbVars>>

-----------------------------------------------------------------------------
(* The helper of core c.  It executes on the core's own stack. *)

HelperAt(c, where) == cpu[c] = NoTCB /\ hpc[c] = where

SomeoneDue(c) == Due(sleep_queues[c], at_jiffies, jiffies)

\* Bug: the sti() at the end of the loop is missing.
HelperResumeDisabled(c) ==
    /\ HelperAt(c, "sti")
    /\ hpc' = [hpc EXCEPT ![c] = "wakeup"]
    /\ UNCHANGED <<cpu, active_thread, help_requests, flagVars, esp0, hand,
                   queueVars, tcbVars, jiffies>>

\* The context switch of a blocking thread brought the helper back to the
\* end of its loop.
HelperResume(c) ==
    /\ HelperAt(c, "sti")
    /\ interrupts' = [interrupts EXCEPT ![c] = TRUE]
    /\ hpc' = [hpc EXCEPT ![c] = "wakeup"]
    /\ UNCHANGED <<cpu, active_thread, help_requests, eflags, helper_eflags, esp0,
                   hand, queueVars, tcbVars, jiffies>>

\* One turn of the loop in wakeup(): the sleep queue belongs to the core, so
\* SleepQueue::remove and ready_queue.add are one step for the other cores.
HelperWakeup(c) ==
    /\ HelperAt(c, "wakeup")
    /\ SomeoneDue(c)
    /\ LET t == Head(sleep_queues[c]) IN
        /\ sleep_queues' = [sleep_queues EXCEPT ![c] = Tail(@)]
        /\ ready_queue' = Append(ready_queue, t)
        /\ place' = [place EXCEPT ![t] = Ready]
    /\ UNCHANGED <<coreVars, at_jiffies, n, waiting, reaper_data, pc, call,
                   reaping, calls, jiffies>>

\* wakeup() is over and there is no request: at the head of the loop, or in
\* the inner loop that waits for a thread to run.
HelperNoRequest(c) ==
    /\ HelperAt(c, "wakeup")
    /\ ~SomeoneDue(c)
    /\ help_requests[c] = NoTCB
    /\ hpc' = [hpc EXCEPT ![c] = "pick"]
    /\ UNCHANGED <<cpu, active_thread, help_requests, flagVars, esp0, hand,
                   queueVars, tcbVars, jiffies>>

\* The helper clears the slot of core c and calls doit() of the request.
HelperTakes(c) ==
    /\ HelperAt(c, "wakeup")
    /\ ~SomeoneDue(c)
    /\ help_requests[c] # NoTCB
    /\ help_requests' = [help_requests EXCEPT ![c] = NoTCB]
    /\ hand' = [hand EXCEPT ![c] = help_requests[c]]
    /\ place' = [place EXCEPT ![help_requests[c]] = InHand(c)]
    /\ hpc' = [hpc EXCEPT ![c] = "doit"]
    /\ UNCHANGED <<cpu, active_thread, flagVars, esp0, queueVars, pc, call,
                   reaping, calls, jiffies>>

\* The lambda of the request, a call to `op`.  It ends by giving the TCB, and
\* with it the request, to a queue where another core may find it.
DoIt(c, op, where) ==
    /\ HelperAt(c, "doit")
    /\ call[hand[c]].op = op
    /\ call' = [call EXCEPT ![hand[c]] = NoCall]
    /\ hpc' = [hpc EXCEPT ![c] = where]

\* Bug: the helper still refers to the request it has carried out.
StillReferred(c) == hand' = hand

\* "Safe iff the helper stops looking at it once it gives up control over the
\* tcb" (block()): no lambda uses what it captured after this.
Published(c) == hand' = [hand EXCEPT ![c] = NoTCB]

\* The lambda in yield().
HelperYield(c) ==
    /\ DoIt(c, "yield", "pick")
    /\ ready_queue' = Append(ready_queue, hand[c])
    /\ place' = [place EXCEPT ![hand[c]] = Ready]
    /\ Published(c)
    /\ UNCHANGED <<cpu, active_thread, help_requests, flagVars, esp0, sleep_queues,
                   at_jiffies, n, waiting, reaper_data, pc, reaping, calls,
                   jiffies>>

\* The lambda in sleep().
HelperSleep(c) ==
    /\ DoIt(c, "sleep", "pick")
    /\ LET t == hand[c]
           when == WakeTime(jiffies, JiffiesPerSecond, call[t].sec, Word)
       IN  /\ at_jiffies' = [at_jiffies EXCEPT ![t] = when]
           /\ sleep_queues' = [sleep_queues EXCEPT
                                 ![c] = AddSleeper(@, at_jiffies, t, when)]
           /\ place' = [place EXCEPT ![t] = Sleeping(c)]
    /\ Published(c)
    /\ UNCHANGED <<cpu, active_thread, help_requests, flagVars, esp0, ready_queue,
                   n, waiting, reaper_data, pc, reaping, calls, jiffies>>

\* The lambda in Semaphore::down finds the semaphore positive after all; it
\* makes the thread ready in a step of its own.
HelperDownTakes(c) ==
    /\ DoIt(c, "down", "add")
    /\ LET s == call[hand[c]].sem IN
        /\ n[s] > 0
        /\ n' = [n EXCEPT ![s] = @ - 1]
    /\ UNCHANGED <<cpu, active_thread, help_requests, flagVars, esp0, hand,
                   ready_queue, sleep_queues, at_jiffies, waiting, reaper_data,
                   pc, reaping, calls, place, jiffies>>

Waits(c, s) ==
    /\ waiting' = [waiting EXCEPT ![s] = Append(@, hand[c])]
    /\ place' = [place EXCEPT ![hand[c]] = WaitingOn(s)]
    /\ Published(c)

\* Bug: the lambda trusts the check made before the spin lock was released.
HelperDownNoRecheck(c) ==
    /\ DoIt(c, "down", "pick")
    /\ Waits(c, call[hand[c]].sem)
    /\ UNCHANGED <<cpu, active_thread, help_requests, flagVars, esp0, ready_queue,
                   sleep_queues, at_jiffies, n, reaper_data, pc, reaping, calls,
                   jiffies>>

\* The lambda in Semaphore::down queues the thread.
HelperDownWaits(c) ==
    /\ DoIt(c, "down", "pick")
    /\ n[call[hand[c]].sem] = 0
    /\ Waits(c, call[hand[c]].sem)
    /\ UNCHANGED <<cpu, active_thread, help_requests, flagVars, esp0, ready_queue,
                   sleep_queues, at_jiffies, n, reaper_data, pc, reaping, calls,
                   jiffies>>

\* Bug: the TCB is queued for the reaper but the semaphore is not raised.
HelperStopSilent(c) ==
    /\ DoIt(c, "stop", "pick")
    /\ reaper_data' = Append(reaper_data, hand[c])
    /\ place' = [place EXCEPT ![hand[c]] = Reapable]
    /\ Published(c)
    /\ UNCHANGED <<cpu, active_thread, help_requests, flagVars, esp0, ready_queue,
                   sleep_queues, at_jiffies, n, waiting, pc, reaping, calls,
                   jiffies>>

\* The lambda in stop(): reaper_queue->add(tcb) adds the TCB to the queue,
\* where any core may find it, and then raises the semaphore (HelperUp).
HelperStop(c) ==
    /\ DoIt(c, "stop", "up")
    /\ reaper_data' = Append(reaper_data, hand[c])
    /\ place' = [place EXCEPT ![hand[c]] = Reapable]
    /\ Published(c)
    /\ UNCHANGED <<cpu, active_thread, help_requests, flagVars, esp0, ready_queue,
                   sleep_queues, at_jiffies, n, waiting, pc, reaping, calls,
                   jiffies>>

\* Bug: the first waiter is read but not removed.
UpKeepsWaiter(c, s) ==
    /\ waiting[s] # <<>>
    /\ hand' = [hand EXCEPT ![c] = Head(waiting[s])]
    /\ place' = [place EXCEPT ![Head(waiting[s])] = InHand(c)]
    /\ UNCHANGED <<n, waiting>>

\* Semaphore::up on s, executed on core c; a waiter is taken into `hand`.
UpWakes(c, s) ==
    /\ waiting[s] # <<>>
    /\ waiting' = [waiting EXCEPT ![s] = Tail(@)]
    /\ hand' = [hand EXCEPT ![c] = Head(waiting[s])]
    /\ place' = [place EXCEPT ![Head(waiting[s])] = InHand(c)]
    /\ n' = n

\* Bug: an up() that finds no waiter is forgotten.
UpForgets(s) ==
    /\ waiting[s] = <<>>
    /\ UNCHANGED <<n, waiting, hand, place>>

UpCounts(s) ==
    /\ waiting[s] = <<>>
    /\ n' = [n EXCEPT ![s] = @ + 1]
    /\ UNCHANGED <<waiting, hand, place>>

\* Bug: the waiter up() removed is not added to the ready queue.
HelperUpDropsWaiter(c) ==
    /\ HelperAt(c, "up")
    /\ \/ /\ waiting[ReaperSem] # <<>>
          /\ waiting' = [waiting EXCEPT ![ReaperSem] = Tail(@)]
          /\ UNCHANGED <<n, hand, place>>
       \/ UpCounts(ReaperSem)
    /\ hpc' = [hpc EXCEPT ![c] = "pick"]
    /\ UNCHANGED <<cpu, active_thread, help_requests, flagVars, esp0,
                   ready_queue, sleep_queues, at_jiffies, reaper_data, pc, call,
                   reaping, calls, jiffies>>

HelperUp(c) ==
    /\ HelperAt(c, "up")
    /\ \/ /\ UpWakes(c, ReaperSem)
          /\ hpc' = [hpc EXCEPT ![c] = "add"]
       \/ /\ UpCounts(ReaperSem)
          /\ hpc' = [hpc EXCEPT ![c] = "pick"]
    /\ UNCHANGED <<cpu, active_thread, help_requests, flagVars, esp0,
                   ready_queue, sleep_queues, at_jiffies, reaper_data, pc, call,
                   reaping, calls, jiffies>>

\* ready_queue.add of the TCB in the local variable of core c.
AddReady(c) ==
    /\ ready_queue' = Append(ready_queue, hand[c])
    /\ hand' = [hand EXCEPT ![c] = NoTCB]
    /\ place' = [place EXCEPT ![hand[c]] = Ready]

HelperAdd(c) ==
    /\ HelperAt(c, "add")
    /\ AddReady(c)
    /\ hpc' = [hpc EXCEPT ![c] = "pick"]
    /\ UNCHANGED <<cpu, active_thread, help_requests, flagVars, esp0,
                   sleep_queues, at_jiffies, n, waiting, reaper_data, pc, call,
                   reaping, calls, jiffies>>

\* Bug: the ready queue is a stack.
HelperPickNewest(c) ==
    LET last == Len(ready_queue) IN
    /\ HelperAt(c, "pick")
    /\ ready_queue # <<>>
    /\ ready_queue' = SubSeq(ready_queue, 1, last - 1)
    /\ hand' = [hand EXCEPT ![c] = ready_queue[last]]
    /\ place' = [place EXCEPT ![ready_queue[last]] = InHand(c)]
    /\ hpc' = [hpc EXCEPT ![c] = "dispatch"]
    /\ UNCHANGED <<cpu, active_thread, help_requests, flagVars, esp0,
                   sleep_queues, at_jiffies, n, waiting, reaper_data, pc, call,
                   reaping, calls, jiffies>>

\* ready_queue.remove(); when it returns nullptr the inner loop calls
\* wakeup() again.
HelperPick(c) ==
    /\ HelperAt(c, "pick")
    /\ ready_queue # <<>>
    /\ ready_queue' = Tail(ready_queue)
    /\ hand' = [hand EXCEPT ![c] = Head(ready_queue)]
    /\ place' = [place EXCEPT ![Head(ready_queue)] = InHand(c)]
    /\ hpc' = [hpc EXCEPT ![c] = "dispatch"]
    /\ UNCHANGED <<cpu, active_thread, help_requests, flagVars, esp0,
                   sleep_queues, at_jiffies, n, waiting, reaper_data, pc, call,
                   reaping, calls, jiffies>>

\* Bug: the inner loop of the helper does not call wakeup().
HelperIdleDeaf(c) ==
    /\ HelperAt(c, "pick")
    /\ ready_queue = <<>>
    /\ UNCHANGED vars

HelperIdle(c) ==
    /\ HelperAt(c, "pick")
    /\ ready_queue = <<>>
    /\ hpc' = [hpc EXCEPT ![c] = "wakeup"]
    /\ UNCHANGED <<cpu, active_thread, help_requests, flagVars, esp0, hand,
                   queueVars, tcbVars, jiffies>>

\* Bug: active_thread and esp0 are set with interrupts enabled.
HelperDispatchUnmasked(c) ==
    /\ HelperAt(c, "dispatch")
    /\ active_thread' = [active_thread EXCEPT ![c] = hand[c]]
    /\ esp0' = [esp0 EXCEPT ![c] = hand[c]]
    /\ hpc' = [hpc EXCEPT ![c] = "switch"]
    /\ UNCHANGED <<cpu, help_requests, flagVars, hand, queueVars, tcbVars, jiffies>>

\* cli(), and the core belongs to the thread in its local variable ...
HelperDispatch(c) ==
    /\ HelperAt(c, "dispatch")
    /\ interrupts' = [interrupts EXCEPT ![c] = FALSE]
    /\ active_thread' = [active_thread EXCEPT ![c] = hand[c]]
    /\ esp0' = [esp0 EXCEPT ![c] = hand[c]]
    /\ hpc' = [hpc EXCEPT ![c] = "switch"]
    /\ UNCHANGED <<cpu, help_requests, eflags, helper_eflags, hand, queueVars,
                   tcbVars, jiffies>>

\* ... and context_switch to it: the flags go to the stack of the helper, and
\* those of the thread come from the thread's.
HelperSwitch(c) ==
    /\ HelperAt(c, "switch")
    /\ cpu' = [cpu EXCEPT ![c] = hand[c]]
    /\ helper_eflags' = [helper_eflags EXCEPT ![c] = interrupts[c]]
    /\ interrupts' = [interrupts EXCEPT ![c] = eflags[hand[c]]]
    /\ hand' = [hand EXCEPT ![c] = NoTCB]
    /\ place' = [place EXCEPT ![hand[c]] = OnCpu(c)]
    /\ hpc' = [hpc EXCEPT ![c] = "sti"]
    /\ UNCHANGED <<active_thread, help_requests, eflags, esp0, queueVars, pc, call,
                   reaping, calls, jiffies>>

Helper(c) ==
    \/ HelperResume(c) \/ HelperWakeup(c) \/ HelperNoRequest(c)
    \/ HelperTakes(c) \/ HelperYield(c) \/ HelperSleep(c) \/ HelperDownTakes(c)
    \/ HelperDownWaits(c) \/ HelperStop(c) \/ HelperUp(c) \/ HelperAdd(c)
    \/ HelperPick(c) \/ HelperIdle(c) \/ HelperDispatch(c) \/ HelperSwitch(c)

-----------------------------------------------------------------------------
(* The thread that executes on core c *)

Running(c, where) == cpu[c] # NoTCB /\ pc[cpu[c]] = where

\* State::block up to Interrupts::restore: the thread on core c hands the
\* core over, and leaves its request on its own stack ...
Block(c, request) ==
    /\ active_thread' = [active_thread EXCEPT ![c] = NoTCB]
    /\ call' = [call EXCEPT ![cpu[c]] = request]
    /\ pc' = [pc EXCEPT ![cpu[c]] = "switch"]
    /\ UNCHANGED <<cpu, help_requests, flagVars, esp0, hpc, hand, queueVars,
                   reaping, place, jiffies>>

\* The place where a thread goes on behind its call to block().  In stop()
\* there is only PANIC, the place "stopped"; the reaper waits in remove().
BehindBlock(t) ==
    IF call[t].op = "stop" THEN "stopped" ELSE IF t = Reaper THEN "remove" ELSE "run"

\* ... and, with interrupts as they were, the rest of it: the request is
\* there for the helper, and context_switch goes to the helper.
SwitchToHelper(c) ==
    LET t == cpu[c] IN
    /\ Running(c, "switch")
    /\ help_requests' = [help_requests EXCEPT ![c] = t]
    /\ pc' = [pc EXCEPT ![t] = BehindBlock(t)]
    /\ cpu' = [cpu EXCEPT ![c] = NoTCB]
    /\ eflags' = [eflags EXCEPT ![t] = interrupts[c]]
    /\ interrupts' = [interrupts EXCEPT ![c] = helper_eflags[c]]
    /\ place' = [place EXCEPT ![t] = Requesting(c)]
    /\ UNCHANGED <<active_thread, helper_eflags, esp0, hpc, hand, queueVars, call,
                   reaping, calls, jiffies>>

\* yield, sleep, stop and thread all begin with reap(), and that with
\* reaper_queue->remove_all().  The tokens of the queue's semaphore stay.
Reap(c, op, sec, cost) ==
    LET t == cpu[c] IN
    /\ Running(c, "run")
    /\ t # Reaper
    /\ calls[t] >= cost
    /\ calls' = [calls EXCEPT ![t] = @ - cost]
    /\ call' = [call EXCEPT ![t] = Call(op, ReaperSem, sec)]
    /\ pc' = [pc EXCEPT ![t] = "reaping"]
    /\ reaping' = [reaping EXCEPT ![t] = reaper_data]
    /\ reaper_data' = <<>>
    /\ place' = [u \in TCBs |->
                    IF place[u] = Reapable THEN Doomed(t) ELSE place[u]]
    /\ UNCHANGED <<coreVars, ready_queue, sleep_queues, at_jiffies, n, waiting,
                   jiffies>>

\* The TCBs the heap still has room for, less those already asked for.
Unallocated == {t \in TCBs : place[t] = Free}
Asking == {t \in TCBs : call[t].op = "thread"}

CallYield(c)  == Reap(c, "yield", 0, YieldCost)
CallSleep(c)  == \E sec \in Seconds : Reap(c, "sleep", sec, 1)
CallStop(c)   == Reap(c, "stop", 0, 0)
CallThread(c) == /\ Cardinality(Unallocated) > Cardinality(Asking)
                 /\ Reap(c, "thread", 0, 1)

\* One turn of the loop in reap(): delete p.  The branch for a WAITING
\* parent is never taken, because nothing assigns PCB::state.
ReapDelete(c) ==
    LET t == cpu[c] IN
    /\ Running(c, "reaping")
    /\ reaping[t] # <<>>
    /\ reaping' = [reaping EXCEPT ![t] = Tail(@)]
    /\ place' = [place EXCEPT ![Head(reaping[t])] = Free]
    /\ UNCHANGED <<coreVars, queueVars, pc, call, calls, jiffies>>

\* reap() is over and the thread is in a call to `op`.
Reaped(c, op) == /\ Running(c, "reaping")
                 /\ reaping[cpu[c]] = <<>>
                 /\ call[cpu[c]].op = op

\* yield() finds ready_queue empty.
YieldReturns(c) ==
    /\ Reaped(c, "yield")
    /\ ready_queue = <<>>
    /\ pc' = [pc EXCEPT ![cpu[c]] = "run"]
    /\ call' = [call EXCEPT ![cpu[c]] = NoCall]
    /\ UNCHANGED <<coreVars, queueVars, reaping, calls, place, jiffies>>

YieldBlocks(c) ==
    /\ Reaped(c, "yield")
    /\ ready_queue # <<>>
    /\ Block(c, call[cpu[c]])
    /\ UNCHANGED calls

SleepBlocks(c) ==
    /\ Reaped(c, "sleep")
    /\ Block(c, call[cpu[c]])
    /\ UNCHANGED calls

StopBlocks(c) ==
    /\ Reaped(c, "stop")
    /\ Block(c, call[cpu[c]])
    /\ UNCHANGED calls

\* thread(): new TCBWithWork ...
ThreadAllocates(c) ==
    /\ Reaped(c, "thread")
    /\ \E u \in Unallocated :
        /\ hand' = [hand EXCEPT ![c] = u]
        /\ place' = [place EXCEPT ![u] = InHand(c)]
        /\ at_jiffies' = [at_jiffies EXCEPT ![u] = 0]
        /\ eflags' = [eflags EXCEPT ![u] = TRUE]
        /\ pc' = [pc EXCEPT ![u] = "run", ![cpu[c]] = "add"]
    /\ call' = [call EXCEPT ![cpu[c]] = NoCall]
    /\ UNCHANGED <<cpu, active_thread, help_requests, interrupts, helper_eflags,
                   esp0, hpc, ready_queue, sleep_queues, n, waiting, reaper_data,
                   reaping, calls, jiffies>>

\* ... and ready_queue.add; the end of Semaphore::up, too.
ThreadAdds(c) ==
    /\ Running(c, "add")
    /\ AddReady(c)
    /\ pc' = [pc EXCEPT ![cpu[c]] = "run"]
    /\ UNCHANGED <<cpu, active_thread, help_requests, flagVars, esp0, hpc,
                   sleep_queues, at_jiffies, n, waiting, reaper_data, call,
                   reaping, calls, jiffies>>

\* Bug: down() takes a token without looking whether there is one.
DownTakesUnchecked(c, s, next) ==
    /\ n' = [n EXCEPT ![s] = @ - 1]
    /\ pc' = [pc EXCEPT ![cpu[c]] = next]
    /\ UNCHANGED <<coreVars, ready_queue, sleep_queues, at_jiffies, waiting,
                   reaper_data, call, reaping, place, jiffies>>

\* Semaphore::down, by the thread itself: the fast path ...
DownTakes(c, s, next) ==
    /\ n[s] > 0
    /\ n' = [n EXCEPT ![s] = @ - 1]
    /\ pc' = [pc EXCEPT ![cpu[c]] = next]
    /\ UNCHANGED <<coreVars, ready_queue, sleep_queues, at_jiffies, waiting,
                   reaper_data, call, reaping, place, jiffies>>

\* ... and the call to block(), with the spin lock already released.
DownBlocks(c, s) ==
    /\ n[s] = 0
    /\ Block(c, Call("down", s, 0))

UserCall(c) ==
    /\ Running(c, "run")
    /\ cpu[c] # Reaper
    /\ calls[cpu[c]] > 0
    /\ calls' = [calls EXCEPT ![cpu[c]] = @ - 1]

ThreadDown(c) ==
    \E s \in Sems \ {ReaperSem} :
        /\ UserCall(c)
        /\ DownTakes(c, s, "run") \/ DownBlocks(c, s)

\* Semaphore::up by a thread; a waiter is made ready in a step of its own.
ThreadUp(c) ==
    \E s \in Sems \ {ReaperSem} :
        /\ UserCall(c)
        /\ \/ /\ UpWakes(c, s)
              /\ pc' = [pc EXCEPT ![cpu[c]] = "add"]
           \/ /\ UpCounts(s)
              /\ pc' = pc
        /\ UNCHANGED <<cpu, active_thread, help_requests, flagVars, esp0, hpc,
                       ready_queue, sleep_queues, at_jiffies, reaper_data, call,
                       reaping, jiffies>>

-----------------------------------------------------------------------------
(* The reaper thread: BlockingQueue::remove, delete, forever. *)

ReaperDown(c) ==
    /\ Running(c, "down")
    /\ DownTakes(c, ReaperSem, "remove") \/ DownBlocks(c, ReaperSem)
    /\ calls' = calls

\* data.remove(): nullptr when a reap() has emptied the queue since the
\* token was added.
ReaperRemoves(c) ==
    /\ Running(c, "remove")
    /\ reaper_data # <<>>
    /\ reaping' = [reaping EXCEPT ![cpu[c]] = <<Head(reaper_data)>>]
    /\ reaper_data' = Tail(reaper_data)
    /\ place' = [place EXCEPT ![Head(reaper_data)] = Doomed(cpu[c])]
    /\ pc' = [pc EXCEPT ![cpu[c]] = "delete"]
    /\ UNCHANGED <<coreVars, ready_queue, sleep_queues, at_jiffies, n, waiting,
                   call, calls, jiffies>>

ReaperFindsNothing(c) ==
    /\ Running(c, "remove")
    /\ reaper_data = <<>>
    /\ pc' = [pc EXCEPT ![cpu[c]] = "down"]
    /\ UNCHANGED <<coreVars, queueVars, call, reaping, calls, place, jiffies>>

ReaperDeletes(c) ==
    LET t == cpu[c] IN
    /\ Running(c, "delete")
    /\ reaping' = [reaping EXCEPT ![t] = <<>>]
    /\ place' = [place EXCEPT ![Head(reaping[t])] = Free]
    /\ pc' = [pc EXCEPT ![t] = "down"]
    /\ UNCHANGED <<coreVars, queueVars, call, calls, jiffies>>

Thread(c) ==
    \/ CallYield(c) \/ CallSleep(c) \/ CallStop(c) \/ CallThread(c)
    \/ ReapDelete(c) \/ YieldReturns(c) \/ YieldBlocks(c) \/ SleepBlocks(c)
    \/ StopBlocks(c) \/ SwitchToHelper(c) \/ ThreadAllocates(c)
    \/ ThreadAdds(c) \/ ThreadDown(c) \/ ThreadUp(c) \/ ReaperDown(c)
    \/ ReaperRemoves(c) \/ ReaperFindsNothing(c) \/ ReaperDeletes(c)

-----------------------------------------------------------------------------

Core(c) == Boot(c) \/ Helper(c) \/ Thread(c)

Next == Tick \/ \E c \in Cores : Core(c)

Spec == Init /\ [][Next]_vars

(***************************************************************************)
(* Every core keeps executing instructions, and the timer interrupt, which *)
(* the local APIC holds while interrupts are disabled, is taken in the     *)
(* end.  There is no preemption: that a thread gives its core up is a      *)
(* property of the threads, here of the bound MaxCalls.                    *)
(***************************************************************************)
FairSpec == Spec /\ SF_vars(Tick) /\ \A c \in Cores : WF_vars(Core(c))

-----------------------------------------------------------------------------
(* Types *)

Calls == [op : {"none", "yield", "sleep", "down", "stop", "thread"},
          sem : Sems, sec : Seconds \union {0}]

Places == {Free, Ready, Reapable}
          \union ({"cpu", "request", "hand", "sleeping"} \X Cores)
          \union ({"waiting"} \X Sems)
          \union ({"doomed"} \X TCBs)

CoreTypes ==
    /\ cpu \in [Cores -> TCBs \union {NoTCB}]
    /\ active_thread \in [Cores -> TCBs \union {NoTCB}]
    /\ help_requests \in [Cores -> TCBs \union {NoTCB}]
    /\ interrupts \in [Cores -> BOOLEAN]
    /\ eflags \in [TCBs -> BOOLEAN]
    /\ helper_eflags \in [Cores -> BOOLEAN]
    /\ esp0 \in [Cores -> TCBs \union {NoTCB}]
    /\ hpc \in [Cores -> {"boot", "sti", "wakeup", "doit", "up", "add", "pick",
                          "dispatch", "switch"}]
    /\ hand \in [Cores -> TCBs \union {NoTCB}]

QueueTypes ==
    /\ ready_queue \in Seq(TCBs)
    /\ sleep_queues \in [Cores -> Seq(TCBs)]
    /\ waiting \in [Sems -> Seq(TCBs)]
    /\ reaper_data \in Seq(TCBs)
    /\ reaping \in [TCBs -> Seq(TCBs)]

NumberTypes ==
    /\ at_jiffies \in [TCBs -> 0..(Word - 1)]
    /\ jiffies \in 0..(Word - 1)
    /\ n \in [Sems -> Nat]
    /\ calls \in [TCBs -> Nat]

TCBTypes ==
    /\ pc \in [TCBs -> {"run", "reaping", "add", "switch", "stopped", "down",
                        "remove", "delete"}]
    /\ call \in [TCBs -> Calls]
    /\ place \in [TCBs -> Places]

\* The types of the variables of State, Semaphore, Pit and the TCBs; in
\* particular n, an unsigned number, is never decremented at 0, and whatever
\* is added to a queue is a TCB and not nullptr.
TypeOK == CoreTypes /\ QueueTypes /\ NumberTypes /\ TCBTypes

-----------------------------------------------------------------------------
(* Safety *)

\* Every spot of the kernel that holds a reference to t: an executing core,
\* a pending request, a local variable, or an entry of a queue.
Holders(t) ==
    {<<"cpu", c, 0>> : c \in {c \in Cores : cpu[c] = t}}
    \union {<<"request", c, 0>> : c \in {c \in Cores : help_requests[c] = t}}
    \union {<<"hand", c, 0>> : c \in {c \in Cores : hand[c] = t}}
    \union {<<"ready", NoTCB, i>> :
                i \in {i \in DOMAIN ready_queue : ready_queue[i] = t}}
    \union {<<"reapable", NoTCB, i>> :
                i \in {i \in DOMAIN reaper_data : reaper_data[i] = t}}
    \union (UNION {{<<"sleeping", c, i>> :
                i \in {i \in DOMAIN sleep_queues[c] : sleep_queues[c][i] = t}} :
                    c \in Cores})
    \union (UNION {{<<"waiting", s, i>> :
                i \in {i \in DOMAIN waiting[s] : waiting[s][i] = t}} :
                    s \in Sems})
    \union (UNION {{<<"doomed", u, i>> :
                i \in {i \in DOMAIN reaping[u] : reaping[u][i] = t}} :
                    u \in TCBs})

\* The comment on TCB::next (threads.h), "a TCB can belong to at most one
\* queue", and more: whatever the cores interleave, a TCB is never in two
\* queues, twice in one, nor in a queue while a core still executes on its
\* stack, so no second core resumes a context that has not been saved.
AtMostOneQueue == \A t \in TCBs : \A p, q \in Holders(t) : p = q

\* A TCB that is allocated is held somewhere, so no thread is lost between
\* two queues; one that was deleted is in no queue, no request and no local
\* variable, nor does a helper still carry out its request.
NoThreadLost == \A t \in TCBs : (place[t] # Free) <=> (Holders(t) # {})

\* The assertions of helper() at the head of its loop, of SleepQueue and of
\* thread_entry(), and those on current(): active_thread is the thread the
\* core executes, until it blocks, and nullptr in the helper, until it
\* dispatches; and no thread comes back from the block() in stop(), where the
\* code panics.
CoreConsistent ==
    \A c \in Cores :
        /\ cpu[c] = NoTCB /\ hpc[c] # "switch" => active_thread[c] = NoTCB
        /\ HelperAt(c, "wakeup") => interrupts[c]
        /\ cpu[c] # NoTCB =>
              /\ active_thread[c] = (IF pc[cpu[c]] = "switch" THEN NoTCB
                                     ELSE cpu[c])
              /\ interrupts[c]
              /\ pc[cpu[c]] # "stopped"

\* "setting active_thread enables preemption, need to disable interrupts
\* briefly" (helper()), and "active_thread[id] = nullptr; prevents preemption"
\* (block()): wherever an interrupt may come in and finds a current thread,
\* the core does execute on the stack of that thread, and the interrupts of
\* its user code go to that stack.
PreemptionSafe ==
    \A c \in Cores :
        interrupts[c] /\ active_thread[c] # NoTCB =>
            /\ cpu[c] = active_thread[c]
            /\ esp0[c] = active_thread[c]

\* Semaphore::down releases the spin lock before it blocks and checks again
\* in the helper, so an up() in between is not lost: nobody waits on a
\* semaphore that could be taken, and nobody overtakes a waiter.
NoLostWakeup == \A s \in Sems : n[s] > 0 => waiting[s] = <<>>

\* The reaper has taken a token and has not looked into the queue yet.
ReaperHoldsToken ==
    /\ pc[Reaper] = "remove"
    /\ call[Reaper].op # "down"
    /\ place[Reaper] \in {Ready} \union ({"cpu", "hand"} \X Cores)

\* reap() empties the reaper's queue without taking tokens, so the two
\* disagree; but never so that the reaper could sleep while a stopped thread
\* waits for it: every TCB in the queue has a token, an up() that is still to
\* come, or a reaper that is on its way.
ReaperTokens ==
    Len(reaper_data) <= n[ReaperSem]
                        + Cardinality({c \in Cores : hpc[c] = "up"})
                        + (IF ReaperHoldsToken THEN 1 ELSE 0)

-----------------------------------------------------------------------------
(* Action properties *)

\* wakeup() looks only at the head of the sleep queue.  When it stops, no
\* thread of the queue is due, so the order SleepQueue::add keeps is enough
\* ("the earliest one whose time has come, if any", threads.h).
NoDueSleeperSkipped ==
    [][\A c \in Cores :
         (hpc[c] = "wakeup" /\ hpc'[c] # "wakeup") =>
            \A i \in DOMAIN sleep_queues[c] :
                at_jiffies[sleep_queues[c][i]] > jiffies]_vars

-----------------------------------------------------------------------------
(* Liveness *)

OnSomeCpu(t) == \E c \in Cores : cpu[c] = t

\* A ready thread gets a core, whatever the others do as long as they give
\* theirs up: the ready queue is fair even to threads that yield forever.
ReadyRuns == \A t \in TCBs : (place[t] = Ready) ~> OnSomeCpu(t)

\* A sleeping thread runs again after its time has come (within the ticks
\* that are explored).  Only its own core looks at its queue, so this needs
\* that core to come back to its helper: a thread that yields on an otherwise
\* idle core keeps it for as long as it goes on yielding.  The reaper never
\* sleeps.
SleepersWake ==
    \A c \in Cores, t \in TCBs \ {Reaper} :
        []<>(cpu[c] = NoTCB) =>
            ((place[t] = Sleeping(c) /\ at_jiffies[t] <= MaxJiffies)
                ~> OnSomeCpu(t))

\* A thread that called stop() is deleted in the end, by the reaper or by the
\* reap() of another thread, and its memory can be used again.
StoppedFreed ==
    \A t \in TCBs \ {Reaper} : (call[t].op = "stop") ~> (place[t] = Free)

=============================================================================
