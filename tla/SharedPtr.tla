----------------------------- MODULE SharedPtr ------------------------------
(***************************************************************************)
(* StrongPtr and WeakPtr of kernel/shared.h: the handles of one object,    *)
(* which share one Intermediate with the two counts and a spin lock.       *)
(*                                                                         *)
(* What is done under the lock is one step.  The object and the            *)
(* Intermediate are deleted after the lock was released, in steps of their *)
(* own.  A handle itself is used by one thread at a time.                  *)
(***************************************************************************)
EXTENDS Naturals, FiniteSetsExt

CONSTANTS
    Threads,
    Creator,     \* the thread that called make()
    MaxHandles   \* bound: the handles of each kind that exist at one time

ASSUME SharedAssumption ==
    /\ Creator \in Threads /\ IsFiniteSet(Threads)
    /\ MaxHandles \in Nat \ {0}

VARIABLES
    strong_count, weak_count,  \* fields of the Intermediate
    obj,         \* the field obj: TRUE, it points to the object; FALSE, nullptr
    alive,       \* the object has not been deleted
    freed,       \* the Intermediate has been deleted
    strong,      \* the StrongPtrs of every thread
    weak,        \* the WeakPtrs of every thread
    todo,        \* what a thread has decided to delete
    delete_ptr   \* the local variable of drop_strong

counts  == <<strong_count, weak_count>>
handles == <<strong, weak>>
memory  == <<obj, alive, freed>>
ptrVars == <<counts, handles, memory, todo, delete_ptr>>

Total(h) == MapThenSumSet(LAMBDA t : h[t], Threads)

\* StrongPtr<T>::make
PtrInit ==
    /\ strong_count = 1
    /\ weak_count = 0
    /\ obj = TRUE
    /\ alive = TRUE
    /\ freed = FALSE
    /\ strong = [t \in Threads |-> IF t = Creator THEN 1 ELSE 0]
    /\ weak = [t \in Threads |-> 0]
    /\ todo = [t \in Threads |-> "idle"]
    /\ delete_ptr = [t \in Threads |-> FALSE]

More(h, t) == [h EXCEPT ![t] = @ + 1]
Less(h, t) == [h EXCEPT ![t] = @ - 1]

-----------------------------------------------------------------------------
(* t uses a handle of its own; the copy goes to u, itself or another thread *)
(* that is started with it.                                                *)

\* add_strong
CopyStrong(t, u) ==
    /\ todo[t] = "idle" /\ strong[t] > 0
    /\ Total(strong) < MaxHandles
    /\ strong_count' = IF obj THEN strong_count + 1 ELSE strong_count
    /\ strong' = More(strong, u)
    /\ UNCHANGED <<weak_count, weak, memory, todo, delete_ptr>>

\* add_weak, from a StrongPtr or from a WeakPtr
CopyWeak(t, u) ==
    /\ todo[t] = "idle" /\ strong[t] + weak[t] > 0
    /\ Total(weak) < MaxHandles
    /\ weak_count' = weak_count + 1
    /\ weak' = More(weak, u)
    /\ UNCHANGED <<strong_count, strong, memory, todo, delete_ptr>>

\* Bug: the count is not looked at.
PromoteUnchecked(t) ==
    /\ todo[t] = "idle" /\ weak[t] > 0
    /\ Total(strong) < MaxHandles
    /\ strong_count' = strong_count + 1
    /\ strong' = More(strong, t)
    /\ UNCHANGED <<weak_count, weak, memory, todo, delete_ptr>>

\* promote_weak; it returns nullptr, and changes nothing, at count 0.
Promote(t) ==
    /\ todo[t] = "idle" /\ weak[t] > 0
    /\ Total(strong) < MaxHandles
    /\ strong_count > 0
    /\ strong_count' = strong_count + 1
    /\ strong' = More(strong, t)
    /\ UNCHANGED <<weak_count, weak, memory, todo, delete_ptr>>

-----------------------------------------------------------------------------
(* drop_strong *)

\* Bug: the object is deleted with the last handle but one.
DropStrongEarly(t) ==
    /\ todo[t] = "idle" /\ strong[t] > 0
    /\ strong' = Less(strong, t)
    /\ strong_count' = strong_count - 1
    /\ IF strong_count' <= 1
       THEN /\ todo' = [todo EXCEPT ![t] = "delete obj"]
            /\ delete_ptr' = [delete_ptr EXCEPT ![t] = weak_count = 0]
       ELSE UNCHANGED <<todo, delete_ptr>>
    /\ UNCHANGED <<weak_count, weak, memory>>

\* Bug: the Intermediate is deleted although WeakPtrs remain.
DropStrongForgetsWeak(t) ==
    /\ todo[t] = "idle" /\ strong[t] > 0
    /\ strong' = Less(strong, t)
    /\ strong_count' = strong_count - 1
    /\ IF strong_count' = 0
       THEN /\ todo' = [todo EXCEPT ![t] = "delete obj"]
            /\ delete_ptr' = [delete_ptr EXCEPT ![t] = TRUE]
       ELSE UNCHANGED <<todo, delete_ptr>>
    /\ UNCHANGED <<weak_count, weak, memory>>

\* Under the lock.
DropStrong(t) ==
    /\ todo[t] = "idle" /\ strong[t] > 0
    /\ strong' = Less(strong, t)
    /\ strong_count' = strong_count - 1
    /\ IF strong_count' = 0
       THEN /\ todo' = [todo EXCEPT ![t] = "delete obj"]
            /\ delete_ptr' = [delete_ptr EXCEPT ![t] = weak_count = 0]
       ELSE UNCHANGED <<todo, delete_ptr>>
    /\ UNCHANGED <<weak_count, weak, memory>>

\* delete ptr->obj, after the lock was released.
DeleteObj(t) ==
    /\ todo[t] = "delete obj" /\ ~freed
    /\ alive' = FALSE
    /\ todo' = [todo EXCEPT ![t] = "clear obj"]
    /\ UNCHANGED <<counts, handles, obj, freed, delete_ptr>>

\* ptr->obj = nullptr
ClearObj(t) ==
    /\ todo[t] = "clear obj" /\ ~freed
    /\ obj' = FALSE
    /\ todo' = [todo EXCEPT ![t] = IF delete_ptr[t] THEN "delete ptr" ELSE "idle"]
    /\ UNCHANGED <<counts, handles, alive, freed, delete_ptr>>

\* The Intermediate that drop_strong goes on using is gone: what the code
\* does then is undefined, and the thread is not followed any further.
Undefined(t) ==
    /\ todo[t] \in {"delete obj", "clear obj"} /\ freed
    /\ todo' = [todo EXCEPT ![t] = "undefined"]
    /\ UNCHANGED <<counts, handles, memory, delete_ptr>>

-----------------------------------------------------------------------------
(* drop_weak *)

DropWeak(t) ==
    /\ todo[t] = "idle" /\ weak[t] > 0
    /\ weak' = Less(weak, t)
    /\ weak_count' = weak_count - 1
    /\ todo' = [todo EXCEPT ![t] = IF weak_count' = 0 /\ strong_count = 0
                                   THEN "delete ptr" ELSE "idle"]
    /\ UNCHANGED <<strong_count, strong, memory, delete_ptr>>

\* Bug: the Intermediate is never deleted.
DeletePtrNever(t) ==
    /\ todo[t] = "delete ptr"
    /\ todo' = [todo EXCEPT ![t] = "idle"]
    /\ UNCHANGED <<counts, handles, memory, delete_ptr>>

\* delete ptr, by drop_strong or drop_weak
DeletePtr(t) ==
    /\ todo[t] = "delete ptr"
    /\ freed' = TRUE
    /\ todo' = [todo EXCEPT ![t] = "idle"]
    /\ UNCHANGED <<counts, handles, obj, alive, delete_ptr>>

-----------------------------------------------------------------------------

PtrNext ==
    \E t \in Threads :
        \/ \E u \in Threads : CopyStrong(t, u) \/ CopyWeak(t, u)
        \/ Promote(t) \/ DropStrong(t) \/ DeleteObj(t) \/ ClearObj(t)
        \/ Undefined(t) \/ DropWeak(t) \/ DeletePtr(t)

PtrSpec == PtrInit /\ [][PtrNext]_ptrVars

-----------------------------------------------------------------------------

\* The assertions on the way of operator->: as long as any thread has a
\* StrongPtr, neither the object nor the Intermediate is deleted, however
\* copies, promotions and drops of the other handles interleave.
ObjAliveWhileHeld == Total(strong) > 0 => alive /\ obj /\ ~freed

\* When the last handle is gone and nobody is deleting, both are deleted.
NothingLeaks ==
    (Total(strong) + Total(weak) = 0 /\ \A t \in Threads : todo[t] = "idle")
        => ~alive /\ freed

\* WeakPtr::promote gives "nullptr iff strong references to the original
\* object are all gone" (shared.h): once they are, none comes back, even
\* while the object is still being deleted.
NoResurrection == [][Total(strong) = 0 => Total(strong') = 0]_ptrVars

\* Whether to delete the Intermediate is decided under the lock, by the last
\* drop_strong and by the last drop_weak, and done later without it: nobody
\* decides to as long as there is a WeakPtr, which may be promoted at any
\* time, and of several threads that drop their handles one at most.
IntermediateDeletedOnce ==
    LET will(t) == \/ todo[t] = "delete ptr"
                   \/ todo[t] \in {"delete obj", "clear obj"} /\ delete_ptr[t]
    IN  /\ Cardinality({t \in Threads : will(t)}) <= IF freed THEN 0 ELSE 1
        /\ Total(weak) > 0 => ~freed /\ \A t \in Threads : ~will(t)

=============================================================================
