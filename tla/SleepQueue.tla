----------------------------- MODULE SleepQueue -----------------------------
(***************************************************************************)
(* The per-core sleep queue of kernel/threads.h and kernel/threads.cc: a   *)
(* singly linked list of TCBs ordered by wake-up time, written here as a   *)
(* sequence whose first element is the head of the list.  `at` is the      *)
(* at_jiffies field of every TCB.                                          *)
(***************************************************************************)
EXTENDS Integers, Sequences

(***************************************************************************)
(* Pit::secondsToJiffies followed by the addition in SleepQueue::add: both *)
(* are done in words of 32 bits, which `word` scales down.                 *)
(***************************************************************************)
WakeTime(jiffies, perSecond, sec, word) ==
    (jiffies + ((perSecond * sec) % word)) % word

(***************************************************************************)
(* The place where the loop of SleepQueue::add stops: past the leading     *)
(* elements that wake no later than `when`.                                *)
(***************************************************************************)
InsertPosition(q, at, when) ==
    CHOOSE i \in 1..(Len(q) + 1) :
        /\ \A j \in 1..(i - 1) : at[q[j]] <= when
        /\ i <= Len(q) => at[q[i]] > when

\* Link t in at position i, pushing the rest of the list back.
InsertBefore(q, i, t) ==
    [j \in 1..(Len(q) + 1) |->
        IF j < i THEN q[j] ELSE IF j = i THEN t ELSE q[j - 1]]

\* Bug: the new sleeper is linked in at the head, whatever its wake-up time.
AddSleeperAtHead(q, at, t, when) == InsertBefore(q, 1, t)

\* SleepQueue::add
AddSleeper(q, at, t, when) == InsertBefore(q, InsertPosition(q, at, when), t)

(***************************************************************************)
(* SleepQueue::remove finds somebody to wake: only the head is looked at.  *)
(***************************************************************************)
Due(q, at, jiffies) == /\ q # <<>>
                       /\ at[Head(q)] <= jiffies
=============================================================================
