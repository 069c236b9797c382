-------------------------------- MODULE Ide ---------------------------------
(***************************************************************************)
(* Reading a sector, Ide::read_block of kernel/ide.cc: the driver's lock,  *)
(* the task file registers all threads share, and a drive that answers a   *)
(* command when it likes or fails.  A thread is in the middle of a driver  *)
(* call when pc says so; who calls, and what for, is up to the module that *)
(* extends this one.  The bytes of a sector are named by its number.       *)
(***************************************************************************)
EXTENDS Integers, FiniteSets

CONSTANTS Readers, None

VARIABLES
    pc,        \* where a thread is
    sector,    \* the sector it reads
    buffer,    \* the sector whose bytes it got from the drive, or None
    lock,      \* Ide::lock, a BlockingLock: its holder or None
    lba,       \* the sector in the registers of the drive
    drive,     \* "ready", "busy", "data" (DRQ) or "error"
    panicked   \* a panic or an ASSERT has stopped the machine

ide == <<sector, buffer, lock, lba, drive, panicked>>

IdeInit ==
    /\ pc = [r \in Readers |-> "idle"]
    /\ sector = [r \in Readers |-> 0]
    /\ buffer = [r \in Readers |-> None]
    /\ lock = None
    /\ lba = 0
    /\ drive = "ready"
    /\ panicked = FALSE

At(r, where) == ~panicked /\ pc[r] = where
Goto(r, where) == pc' = [pc EXCEPT ![r] = where]

\* Bug: the lock is not taken.
IdeLockFree(r) ==
    /\ At(r, "ide")
    /\ Goto(r, "prepare")
    /\ UNCHANGED ide

\* LockGuard
IdeLock(r) ==
    /\ At(r, "ide")
    /\ lock = None
    /\ lock' = r
    /\ Goto(r, "prepare")
    /\ UNCHANGED <<sector, buffer, lba, drive, panicked>>

\* waitForDrive looks for an error once, before it waits for the drive.
DriveError(r) ==
    /\ At(r, "prepare") \/ At(r, "check")
    /\ drive = "error"
    /\ panicked' = TRUE
    /\ UNCHANGED <<pc, sector, buffer, lock, lba, drive>>

\* The drive is ready, and the number of the sector goes to its registers.
Prepare(r) ==
    /\ At(r, "prepare")
    /\ drive = "ready"
    /\ lba' = sector[r]
    /\ Goto(r, "command")
    /\ UNCHANGED <<sector, buffer, lock, drive, panicked>>

Command(r) ==
    /\ At(r, "command")
    /\ drive' = "busy"
    /\ Goto(r, "check")
    /\ UNCHANGED <<sector, buffer, lock, lba, panicked>>

Check(r) ==
    /\ At(r, "check")
    /\ drive # "error"
    /\ Goto(r, "busy")
    /\ UNCHANGED ide

\* The end of waitForDrive: a drive that failed is not busy either.
NotBusy(r) ==
    /\ At(r, "busy")
    /\ drive # "busy"
    /\ Goto(r, "drq")
    /\ UNCHANGED ide

\* The words of the sector, once the drive has them.
Transfer(r) ==
    /\ At(r, "drq")
    /\ drive = "data"
    /\ buffer' = [buffer EXCEPT ![r] = lba]
    /\ drive' = "ready"
    /\ Goto(r, "delay")
    /\ UNCHANGED <<sector, lock, lba, panicked>>

\* Bug: the lock is not released.
IdeReturnHolds(r) ==
    /\ At(r, "delay")
    /\ Goto(r, "count")
    /\ UNCHANGED ide

\* After the latency of the simulated drive the lock is free again.
IdeReturn(r) ==
    /\ At(r, "delay")
    /\ lock' = None
    /\ Goto(r, "count")
    /\ UNCHANGED <<sector, buffer, lba, drive, panicked>>

ReadSector(r) == \/ IdeLock(r) \/ DriveError(r) \/ Prepare(r) \/ Command(r)
                 \/ Check(r) \/ NotBusy(r) \/ Transfer(r) \/ IdeReturn(r)

\* The drive finishes a command, or fails.
DriveStep ==
    /\ ~panicked
    /\ drive = "busy"
    /\ drive' \in {"data", "error"}
    /\ UNCHANGED <<pc, sector, buffer, lock, lba, panicked>>

=============================================================================
