------------------------------ MODULE SpinLock ------------------------------
(***************************************************************************)
(* SpinLock and Interrupts of kernel/atomic.h: a lock the cores spin on,   *)
(* which keeps the interrupts of its holder disabled and remembers, in a   *)
(* field every core can reach, whether they were disabled before.          *)
(*                                                                         *)
(* One step is one access to a shared field, with the instructions on the  *)
(* core's own flags next to it.                                            *)
(***************************************************************************)
EXTENDS Naturals, FiniteSets

CONSTANT Cores

VARIABLES
    taken,        \* SpinLock::taken
    was,          \* SpinLock::was
    interrupts,   \* the interrupt flag of every core
    wasDisabled,  \* the local variable of lock() and of unlock()
    pc,           \* where a core is
    flag          \* history: the interrupt flag the code around the lock set

vars == <<taken, was, interrupts, wasDisabled, pc, flag>>

\* A core boots with its interrupts disabled.
Init ==
    /\ taken = FALSE
    /\ was = FALSE
    /\ interrupts = [c \in Cores |-> FALSE]
    /\ wasDisabled = [c \in Cores |-> FALSE]
    /\ pc = [c \in Cores |-> "outside"]
    /\ flag = [c \in Cores |-> FALSE]

At(c, where) == pc[c] = where
Goto(c, where) == pc' = [pc EXCEPT ![c] = where]

\* Interrupts::restore
Restore(c, disabled) ==
    interrupts' = [interrupts EXCEPT ![c] = @ \/ ~disabled]

-----------------------------------------------------------------------------
(* Outside the lock: the code of the core sets its flag, with sti() at the *)
(* end of its boot and with cli() and sti() around a context switch.       *)

SetFlag(c) ==
    /\ At(c, "outside")
    /\ \E f \in BOOLEAN :
        /\ interrupts' = [interrupts EXCEPT ![c] = f]
        /\ flag' = [flag EXCEPT ![c] = f]
    /\ UNCHANGED <<taken, was, wasDisabled, pc>>

CallLock(c) ==
    /\ At(c, "outside")
    /\ Goto(c, "disable")
    /\ UNCHANGED <<taken, was, interrupts, wasDisabled, flag>>

-----------------------------------------------------------------------------
(* lock() *)

\* Interrupts::disable
Disable(c) ==
    /\ At(c, "disable")
    /\ wasDisabled' = [wasDisabled EXCEPT ![c] = ~interrupts[c]]
    /\ interrupts' = [interrupts EXCEPT ![c] = FALSE]
    /\ Goto(c, "exchange")
    /\ UNCHANGED <<taken, was, flag>>

\* Bug: the result of the exchange is not looked at.
ExchangeIgnored(c) ==
    /\ At(c, "exchange")
    /\ taken' = TRUE
    /\ Goto(c, "save")
    /\ UNCHANGED <<was, interrupts, wasDisabled, flag>>

\* taken.exchange(true)
Exchange(c) ==
    /\ At(c, "exchange")
    /\ taken' = TRUE
    /\ Goto(c, IF taken THEN "failed" ELSE "save")
    /\ UNCHANGED <<was, interrupts, wasDisabled, flag>>

\* Bug: a core that spins keeps its interrupts disabled.
RetryDisabled(c) ==
    /\ At(c, "failed")
    /\ Goto(c, "disable")
    /\ UNCHANGED <<taken, was, interrupts, wasDisabled, flag>>

\* The attempt failed: restore, and once more around the loop.
Retry(c) ==
    /\ At(c, "failed")
    /\ Restore(c, wasDisabled[c])
    /\ Goto(c, "disable")
    /\ UNCHANGED <<taken, was, wasDisabled, flag>>

Save(c) ==
    /\ At(c, "save")
    /\ was' = wasDisabled[c]
    /\ Goto(c, "inside")
    /\ UNCHANGED <<taken, interrupts, wasDisabled, flag>>

-----------------------------------------------------------------------------
(* unlock() *)

\* Bug: interrupts are restored while the lock is still held.
ReadWasRestores(c) ==
    /\ At(c, "inside")
    /\ wasDisabled' = [wasDisabled EXCEPT ![c] = was]
    /\ Restore(c, was)
    /\ Goto(c, "release")
    /\ UNCHANGED <<taken, was, flag>>

ReadWas(c) ==
    /\ At(c, "inside")
    /\ wasDisabled' = [wasDisabled EXCEPT ![c] = was]
    /\ Goto(c, "release")
    /\ UNCHANGED <<taken, was, interrupts, flag>>

Release(c) ==
    /\ At(c, "release")
    /\ taken' = FALSE
    /\ Goto(c, "released")
    /\ UNCHANGED <<was, interrupts, wasDisabled, flag>>

\* Bug: unlock() restores what the field says once the lock is free.
LeaveByField(c) ==
    /\ At(c, "released")
    /\ Restore(c, was)
    /\ Goto(c, "outside")
    /\ UNCHANGED <<taken, was, wasDisabled, flag>>

Leave(c) ==
    /\ At(c, "released")
    /\ Restore(c, wasDisabled[c])
    /\ Goto(c, "outside")
    /\ UNCHANGED <<taken, was, wasDisabled, flag>>

-----------------------------------------------------------------------------

Lock(c)   == Disable(c) \/ Exchange(c) \/ Retry(c) \/ Save(c)
Unlock(c) == ReadWas(c) \/ Release(c) \/ Leave(c)

Next == \E c \in Cores : SetFlag(c) \/ CallLock(c) \/ Lock(c) \/ Unlock(c)

Spec == Init /\ [][Next]_vars

\* A core that is in lock() keeps executing.  Nothing is assumed of a core
\* that holds the lock: a spinner must not depend on it.
FairSpec == Spec /\ \A c \in Cores : WF_vars(Lock(c))

-----------------------------------------------------------------------------

Held == {"save", "inside", "release"}

TypeOK ==
    /\ taken \in BOOLEAN
    /\ was \in BOOLEAN
    /\ interrupts \in [Cores -> BOOLEAN]
    /\ wasDisabled \in [Cores -> BOOLEAN]
    /\ pc \in [Cores -> {"outside", "disable", "exchange", "failed", "save",
                         "inside", "release", "released"}]
    /\ flag \in [Cores -> BOOLEAN]

\* The exchange lets one core at a time between lock() and unlock().
MutualExclusion ==
    \A c, d \in Cores : (pc[c] \in Held /\ pc[d] \in Held) => c = d

\* "acquiring a spin lock has to be combined with disabling interrupts"
\* (threads.h): from the exchange that takes the lock to the write that
\* releases it, no interrupt handler can find the lock held by its own core.
HolderUninterrupted == \A c \in Cores : pc[c] \in Held => ~interrupts[c]

\* The field `was` is shared by all cores and overwritten by every holder;
\* still unlock() gives each core back the interrupt flag it came with.
FlagRestored == \A c \in Cores : pc[c] = "outside" => interrupts[c] = flag[c]

\* A core that came with its interrupts enabled and spins takes interrupts
\* again and again, however long the holder keeps the lock: the timer of
\* core 0 must not stop because core 0 waits.
SpinnerInterruptible ==
    \A c \in Cores :
        (pc[c] = "disable" /\ flag[c]) ~> (interrupts[c] \/ pc[c] = "inside")

=============================================================================
