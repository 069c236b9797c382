---------------------------- MODULE LinkedQueue -----------------------------
(***************************************************************************)
(* Queue of kernel/queue.h: an intrusive singly linked list with a pointer *)
(* to its last element, behind the SpinLock of kernel/atomic.h that module *)
(* SpinLock models and this one extends: the exclusion the list needs is   *)
(* what the exchange and the interrupt flag really give.  One step is one  *)
(* write to memory.                                                        *)
(***************************************************************************)
EXTENDS SpinLock, Sequences, Functions

CONSTANTS Nodes, Nil

ASSUME QueueAssumption == /\ IsFiniteSet(Nodes)
                          /\ Nil \notin Nodes /\ Nil \notin Cores

VARIABLES
    first, last,  \* Queue::first, Queue::last
    next,         \* the field `next` of every node
    op,           \* the write a core is about to do in a call
    arg,          \* the parameter of add and add_front
    owner         \* the core a node belongs to; Nil: the queue

queue == <<first, last, next, op, arg, owner>>

QueueInit ==
    /\ Init
    /\ first = Nil
    /\ last = Nil
    /\ next = [t \in Nodes |-> Nil]
    /\ op = [c \in Cores |-> "idle"]
    /\ arg = [c \in Cores |-> Nil]
    /\ owner \in [Nodes -> Cores]

\* The nodes that can be reached from `head`, in order.  A list longer than
\* there are nodes has a cycle and is cut.
Chain(head) ==
    LET limit == Cardinality(Nodes) + 1
        node[i \in 1..limit] ==
            IF i = 1 THEN head
            ELSE LET t == node[i - 1] IN IF t = Nil THEN Nil ELSE next[t]
        len == Cardinality({i \in 1..limit : node[i] # Nil})
    IN  [i \in 1..len |-> node[i]]

-----------------------------------------------------------------------------

\* LockGuard: a call begins with lock() ...
Enter(c, t, call) ==
    /\ CallLock(c)
    /\ op' = [op EXCEPT ![c] = call]
    /\ arg' = [arg EXCEPT ![c] = t]
    /\ UNCHANGED <<first, last, next, owner>>

\* A thread calls add and add_front with a node of its own: a TCB belongs to
\* at most one queue.
CallAdd(c)       == \E t \in Nodes : owner[t] = c /\ Enter(c, t, "add")
CallAddFront(c)  == \E t \in Nodes : owner[t] = c /\ Enter(c, t, "add_front")
CallRemove(c)    == Enter(c, Nil, "remove")
CallRemoveAll(c) == Enter(c, Nil, "remove_all")

\* ... and ends with unlock().
Return(c) ==
    /\ op[c] = "unlock"
    /\ \/ (ReadWas(c) \/ Release(c)) /\ UNCHANGED <<op, arg>>
       \/ /\ Leave(c)
          /\ op' = [op EXCEPT ![c] = "idle"]
          /\ arg' = [arg EXCEPT ![c] = Nil]
    /\ UNCHANGED <<first, last, next, owner>>

\* A write between the two.
Step(c, from, to) == /\ At(c, "inside")
                     /\ op[c] = from
                     /\ op' = [op EXCEPT ![c] = to]
                     /\ arg' = arg
                     /\ UNCHANGED vars

-----------------------------------------------------------------------------
(* add *)

\* Bug: the node keeps the `next` of the queue it was in before.
AddKeepsNext(c) ==
    /\ Step(c, "add", "link")
    /\ UNCHANGED <<first, last, next, owner>>

AddClearsNext(c) ==
    /\ Step(c, "add", "link")
    /\ next' = [next EXCEPT ![arg[c]] = Nil]
    /\ UNCHANGED <<first, last, owner>>

\* From here on the node can be reached.
AddLinks(c) ==
    /\ Step(c, "link", "last")
    /\ IF first = Nil
       THEN first' = arg[c] /\ next' = next
       ELSE next' = [next EXCEPT ![last] = arg[c]] /\ first' = first
    /\ owner' = [owner EXCEPT ![arg[c]] = Nil]
    /\ last' = last

AddSetsLast(c) ==
    /\ Step(c, "last", "unlock")
    /\ last' = arg[c]
    /\ UNCHANGED <<first, next, owner>>

-----------------------------------------------------------------------------
(* add_front *)

FrontSetsNext(c) ==
    /\ Step(c, "add_front", "front")
    /\ next' = [next EXCEPT ![arg[c]] = first]
    /\ UNCHANGED <<first, last, owner>>

FrontSetsFirst(c) ==
    /\ Step(c, "front", "front_last")
    /\ first' = arg[c]
    /\ owner' = [owner EXCEPT ![arg[c]] = Nil]
    /\ UNCHANGED <<last, next>>

FrontSetsLast(c) ==
    /\ Step(c, "front_last", "unlock")
    /\ last' = IF last = Nil THEN arg[c] ELSE last
    /\ UNCHANGED <<first, next, owner>>

-----------------------------------------------------------------------------
(* remove and remove_all *)

RemoveFindsNothing(c) ==
    /\ Step(c, "remove", "unlock")
    /\ first = Nil
    /\ UNCHANGED <<first, last, next, owner>>

\* The node `it` belongs to the caller once `first` has moved on.
RemoveSetsFirst(c) ==
    /\ Step(c, "remove", "remove_last")
    /\ first # Nil
    /\ first' = next[first]
    /\ owner' = [owner EXCEPT ![first] = c]
    /\ UNCHANGED <<last, next>>

RemoveSetsLast(c) ==
    /\ Step(c, "remove_last", "unlock")
    /\ last' = IF first = Nil THEN Nil ELSE last
    /\ UNCHANGED <<first, next, owner>>

\* The caller walks the list through `next`, so it gets what is reachable.
AllSetsFirst(c) ==
    /\ Step(c, "remove_all", "all_last")
    /\ first' = Nil
    /\ owner' = [t \in Nodes |->
                    IF t \in Range(Chain(first)) THEN c ELSE owner[t]]
    /\ UNCHANGED <<last, next>>

AllSetsLast(c) ==
    /\ Step(c, "all_last", "unlock")
    /\ last' = Nil
    /\ UNCHANGED <<first, next, owner>>

-----------------------------------------------------------------------------

Core(c) ==
    \/ SetFlag(c) /\ UNCHANGED queue
    \/ Lock(c) /\ UNCHANGED queue
    \/ CallAdd(c) \/ CallAddFront(c) \/ CallRemove(c) \/ CallRemoveAll(c)
    \/ Return(c)
    \/ AddClearsNext(c) \/ AddLinks(c) \/ AddSetsLast(c)
    \/ FrontSetsNext(c) \/ FrontSetsFirst(c) \/ FrontSetsLast(c)
    \/ RemoveFindsNothing(c) \/ RemoveSetsFirst(c) \/ RemoveSetsLast(c)
    \/ AllSetsFirst(c) \/ AllSetsLast(c)

QueueNext == \E c \in Cores : Core(c)

\* A core that is in lock() keeps executing.  Nothing is assumed of a core
\* that holds the lock: a spinner must not depend on it.
QueueSpec == /\ QueueInit
             /\ [][QueueNext]_<<vars, queue>>
             /\ \A c \in Cores : WF_<<vars, queue>>(Lock(c) /\ UNCHANGED queue)

-----------------------------------------------------------------------------

Abstract == INSTANCE Fifo WITH queue <- Chain(first)

\* At every single write, also for isEmpty(), which reads `first` without the
\* lock, the list is the sequence of module Fifo: elements come out once, in
\* the order they went in, to one core each.
FifoQueue == Abstract!Spec

=============================================================================
