----------------------------- MODULE Processes ------------------------------
(***************************************************************************)
(* The life of processes: fork, exit, wait and close of kernel/sys.cc and  *)
(* PCB::duplicate of kernel/processes.cc, with the Promise of              *)
(* kernel/promise.h through which a parent learns how its child ended.     *)
(*                                                                         *)
(* A process has one thread, which alone uses its tables, so what it does  *)
(* between two accesses to a promise is one step.  The promise of child c  *)
(* is named after c.  Of the file descriptors only number 0 matters here,  *)
(* the others are the subject of module OpenFiles.                         *)
(***************************************************************************)
EXTENDS Naturals, FiniteSets

CONSTANTS
    Procs,    \* the PCBs the heap has room for
    Root,     \* the process the kernel starts with; it has no parent
    None,     \* nullptr
    Size,     \* PCB_ARR_SIZE
    Codes     \* the arguments of exit

ASSUME ProcessesAssumption ==
    /\ Root \in Procs /\ None \notin Procs
    /\ Size \in Nat \ {0}
    /\ Codes \subseteq Nat

Slots == 0..(Size - 1)

VARIABLES
    pc,                 \* where the thread of a process is
    children,           \* PCB::children
    children_promises,  \* PCB::children_promises
    fd0,                \* fdt[0] is not nullptr
    value, n,           \* Promise::value, and the count of Promise::sem
    id,                 \* the argument of wait
    panicked,           \* an ASSERT has stopped the machine
    parent,             \* history: who forked a process
    code,               \* history: what a process called exit with
    status,             \* history: the last child and status wait gave
    disowned            \* history: the children waited for or closed

tables  == <<children, children_promises, fd0>>
promise == <<value, n>>
history == <<parent, code, status, disowned>>
vars == <<pc, tables, promise, id, panicked, history>>

Init ==
    /\ pc = [p \in Procs |-> IF p = Root THEN "run" ELSE "unborn"]
    /\ children = [p \in Procs |-> [i \in Slots |-> None]]
    /\ children_promises = [p \in Procs |-> [i \in Slots |-> None]]
    /\ fd0 = [p \in Procs |-> TRUE]
    /\ value = [p \in Procs |-> 0]
    /\ n = [p \in Procs |-> 0]
    /\ id = [p \in Procs |-> 0]
    /\ panicked = FALSE
    /\ parent = [p \in Procs |-> None]
    /\ code = [p \in Procs |-> None]
    /\ status = [p \in Procs |-> None]
    /\ disowned = {}

At(p, where) == ~panicked /\ pc[p] = where
Goto(p, where) == pc' = [pc EXCEPT ![p] = where]

-----------------------------------------------------------------------------
(* fork *)

\* The loop in PCB::duplicate tests children[PCB_ARR_SIZE], one past the
\* array, in each turn: that is where fdt[0] is.
ChildIdx(p) == IF fd0[p] THEN 0 ELSE Size

Fork(p, c) ==
    /\ At(p, "run") /\ pc[c] = "unborn"
    /\ ChildIdx(p) < Size
    /\ children' = [children EXCEPT ![p][ChildIdx(p)] = c]
    /\ children_promises' = [children_promises EXCEPT ![p][ChildIdx(p)] = c]
    /\ fd0' = [fd0 EXCEPT ![c] = fd0[p]]
    /\ Goto(c, "run")
    /\ parent' = [parent EXCEPT ![c] = p]
    /\ UNCHANGED <<promise, id, panicked, code, status, disowned>>

\* The child is stored past the array, in fdt[0], and the assertion fails.
ForkPanics(p) ==
    /\ At(p, "run") /\ \E c \in Procs : pc[c] = "unborn"
    /\ ChildIdx(p) = Size
    /\ fd0' = [fd0 EXCEPT ![p] = TRUE]
    /\ panicked' = TRUE
    /\ UNCHANGED <<pc, children, children_promises, promise, id, history>>

-----------------------------------------------------------------------------
(* exit: Promise::set, if there is a parent, and stop() *)

\* Bug: the promise is raised without the value.
ExitSetsLate(p, rc) ==
    /\ At(p, "run")
    /\ code' = [code EXCEPT ![p] = rc]
    /\ Goto(p, IF p = Root THEN "stopped" ELSE "up")
    /\ UNCHANGED <<tables, promise, id, panicked, parent, status, disowned>>

Exit(p, rc) ==
    /\ At(p, "run")
    /\ code' = [code EXCEPT ![p] = rc]
    /\ IF p = Root
       THEN Goto(p, "stopped") /\ value' = value
       ELSE Goto(p, "up") /\ value' = [value EXCEPT ![p] = rc]
    /\ UNCHANGED <<tables, n, id, panicked, parent, status, disowned>>

\* Bug: set() does not raise the semaphore.
ExitSilent(p) ==
    /\ At(p, "up")
    /\ Goto(p, "stopped")
    /\ UNCHANGED <<tables, promise, id, panicked, history>>

ExitUp(p) ==
    /\ At(p, "up")
    /\ n' = [n EXCEPT ![p] = @ + 1]
    /\ Goto(p, "stopped")
    /\ UNCHANGED <<tables, value, id, panicked, history>>

-----------------------------------------------------------------------------
(* wait: Promise::get *)

Target(p) == children_promises[p][id[p]]

\* Where the slot is empty wait returns -1.
Wait(p, i) ==
    /\ At(p, "run")
    /\ children_promises[p][i] # None
    /\ id' = [id EXCEPT ![p] = i]
    /\ Goto(p, "down")
    /\ UNCHANGED <<tables, promise, panicked, history>>

WaitDown(p) ==
    /\ At(p, "down")
    /\ n[Target(p)] > 0
    /\ n' = [n EXCEPT ![Target(p)] = @ - 1]
    /\ Goto(p, "get")
    /\ UNCHANGED <<tables, value, id, panicked, history>>

WaitUp(p) ==
    /\ At(p, "get")
    /\ n' = [n EXCEPT ![Target(p)] = @ + 1]
    /\ Goto(p, "status")
    /\ UNCHANGED <<tables, value, id, panicked, history>>

\* Forget child slot i of p.
Clear(p, i) ==
    /\ children' = [children EXCEPT ![p][i] = None]
    /\ children_promises' = [children_promises EXCEPT ![p][i] = None]
    /\ disowned' = (disowned \union {children_promises[p][i]}) \ {None}

WaitReturns(p) ==
    /\ At(p, "status")
    /\ status' = [status EXCEPT ![p] = <<Target(p), value[Target(p)]>>]
    /\ Clear(p, id[p])
    /\ Goto(p, "run")
    /\ UNCHANGED <<fd0, promise, id, panicked, parent, code>>

-----------------------------------------------------------------------------
(* close of a child, and of descriptor 0; open takes the lowest free one. *)

CloseChild(p, i) ==
    /\ At(p, "run")
    /\ Clear(p, i)
    /\ UNCHANGED <<pc, fd0, promise, id, panicked, parent, code, status>>

Close0(p) ==
    /\ At(p, "run")
    /\ fd0' = [fd0 EXCEPT ![p] = FALSE]
    /\ UNCHANGED <<pc, children, children_promises, promise, id, panicked,
                   history>>

Open0(p) ==
    /\ At(p, "run") /\ ~fd0[p]
    /\ fd0' = [fd0 EXCEPT ![p] = TRUE]
    /\ UNCHANGED <<pc, children, children_promises, promise, id, panicked,
                   history>>

-----------------------------------------------------------------------------

Step(p) ==
    \/ \E c \in Procs : Fork(p, c)
    \/ ForkPanics(p)
    \/ \E rc \in Codes : Exit(p, rc)
    \/ ExitUp(p)
    \/ \E i \in Slots : Wait(p, i) \/ CloseChild(p, i)
    \/ WaitDown(p) \/ WaitUp(p) \/ WaitReturns(p)
    \/ Close0(p) \/ Open0(p)

Next == \E p \in Procs : Step(p)

Spec == Init /\ [][Next]_vars

\* What a thread has begun in exit and wait it goes on with: the scheduler
\* runs every ready thread, and a semaphore wakes its waiter.
FairSpec == /\ Spec
            /\ \A p \in Procs : /\ WF_vars(ExitUp(p))
                                /\ WF_vars(WaitDown(p))
                                /\ WF_vars(WaitUp(p))
                                /\ WF_vars(WaitReturns(p))

-----------------------------------------------------------------------------

\* sys.h, "wait for a child, status filled with exit value from child": the
\* status is what that child called exit with, and the child is the caller's
\* own, however the steps of exit and wait interleave.
WaitReportsExit ==
    \A p \in Procs :
        status[p] # None => /\ parent[status[p][1]] = p
                            /\ code[status[p][1]] = status[p][2]

\* A parent that waits for a child returns once that child has called exit.
WaitersReturn ==
    \A p, c \in Procs :
        (/\ pc[p] = "down"
         /\ Target(p) = c
         /\ code[c] # None) ~> (pc[p] = "run" \/ panicked)

=============================================================================
