--------------------------- MODULE ThreadsProofs ----------------------------
(***************************************************************************)
(* Proofs about module Threads, for any number of cores, TCBs and          *)
(* semaphores: the types, that a TCB is never in two places at once, that  *)
(* an up() between the two checks of Semaphore::down is not lost; then, on *)
(* top of that inductive invariant, what a core believes about the thread  *)
(* it executes, the order of the sleep queues, that no thread is lost, and *)
(* the tokens of the reaper.                                               *)
(***************************************************************************)
EXTENDS Threads, TLAPS, SequenceTheorems, FiniteSetTheorems,
        WellFoundedInduction

\* The flags mostly stay as they are, all three.
USE DEF flagVars

-----------------------------------------------------------------------------
(* The inductive invariant *)

\* q has no duplicates and, by the history variable pl, is the holder p of
\* all its entries.
Holds(q, pl, p) ==
    /\ \A i \in 1..Len(q) : pl[q[i]] = p
    /\ \A i, j \in 1..Len(q) : q[i] = q[j] => i = j

CorePlaces ==
    \A c \in Cores :
        /\ cpu[c] # NoTCB => place[cpu[c]] = OnCpu(c)
        /\ help_requests[c] # NoTCB => place[help_requests[c]] = Requesting(c)
        /\ hand[c] # NoTCB => place[hand[c]] = InHand(c)

QueuePlaces ==
    /\ Holds(ready_queue, place, Ready)
    /\ Holds(reaper_data, place, Reapable)
    /\ \A c \in Cores : Holds(sleep_queues[c], place, Sleeping(c))
    /\ \A s \in Sems : Holds(waiting[s], place, WaitingOn(s))
    /\ \A t \in TCBs : Holds(reaping[t], place, Doomed(t))

\* Whoever is about to add the TCB in its local variable to a queue, or to
\* switch to it, has one; and so has a helper that carries out a request.
HandFilled ==
    /\ \A c \in Cores : (/\ cpu[c] = NoTCB
                         /\ hpc[c] \in {"doit", "add", "dispatch", "switch"})
                            => hand[c] # NoTCB
    /\ \A c \in Cores : (/\ cpu[c] # NoTCB
                         /\ pc[cpu[c]] = "add") => hand[c] # NoTCB
    /\ \A t \in TCBs : pc[t] = "add" => \E c \in Cores : cpu[c] = t

\* A core that executes a thread has saved its helper at the end of the loop.
HelperSaved == \A c \in Cores : cpu[c] # NoTCB => hpc[c] = "sti"

\* The reaper runs its own loop and never stops.
ReaperRuns ==
    /\ pc[Reaper] \in {"down", "switch", "remove", "delete"}
    /\ call[Reaper].op \in {"none", "down"}
    /\ place[Reaper] \notin {Free, Reapable} \union ({"doomed"} \X TCBs)

\* Whoever is about to delete a TCB has one.
DoomedFilled == \A t \in TCBs : pc[t] = "delete" => reaping[t] # <<>>

\* Until the last core has booted there is no thread but the reaper.
BootAlone ==
    (\E c \in Cores : hpc[c] = "boot") =>
        \A t \in TCBs \ {Reaper} : place[t] = Free

IndInv == /\ TypeOK
          /\ CorePlaces
          /\ QueuePlaces
          /\ HandFilled
          /\ DoomedFilled
          /\ HelperSaved
          /\ ReaperRuns
          /\ BootAlone
-----------------------------------------------------------------------------
(* The sleep queue *)

\* Every non-empty set of natural numbers has a least element.
LEMMA LeastNat ==
    ASSUME NEW T, T \subseteq Nat, T # {}
    PROVE  \E x \in T : \A y \in T : x <= y
<1> DEFINE R == OpToRel(<, Nat)
<1>1. IsWellFoundedOn(R, Nat)
    BY NatLessThanWellFounded
<1> HIDE DEF R
<1>2. PICK x \in T : \A y \in T : ~ (<<y, x>> \in R)
    BY <1>1, WFMin
<1>3. ASSUME NEW y \in T
      PROVE  x <= y
    <2>1. x \in Nat /\ y \in Nat
        OBVIOUS
    <2>2. ~ (<<y, x>> \in R)
        BY <1>2
    <2>3. ~ (y < x)
        BY <2>1, <2>2 DEF R, OpToRel
    <2> QED
        BY <2>1, <2>3
<1> QED
    BY <1>3

\* The loop of SleepQueue::add stops, at the first element that wakes later
\* or at the end of the list.
LEMMA InsertPositionProperties ==
    ASSUME NEW S, NEW q \in Seq(S), NEW at \in [S -> Int], NEW when \in Int
    PROVE  LET i == InsertPosition(q, at, when) IN
           /\ i \in 1..(Len(q) + 1)
           /\ \A j \in 1..(i - 1) : at[q[j]] <= when
           /\ i <= Len(q) => at[q[i]] > when
<1> DEFINE Stop == {k \in 1..(Len(q) + 1) : k <= Len(q) => at[q[k]] > when}
<1>1. Len(q) \in Nat /\ \A k \in 1..Len(q) : q[k] \in S /\ at[q[k]] \in Int
    OBVIOUS
<1>2. Stop # {} /\ Stop \subseteq Nat
    BY <1>1
<1> HIDE DEF Stop
<1>3. PICK i \in Stop : \A k \in Stop : i <= k
    BY <1>2, LeastNat
<1>4. i \in 1..(Len(q) + 1) /\ (i <= Len(q) => at[q[i]] > when)
    BY <1>3 DEF Stop
<1>5. ASSUME NEW j \in 1..(i - 1)
      PROVE  at[q[j]] <= when
    <2>1. j \in 1..Len(q) /\ j < i
        BY <1>1, <1>4
    <2>2. j \notin Stop
        BY <1>3, <1>4, <2>1
    <2> QED
        BY <1>1, <2>1, <2>2 DEF Stop
<1>6. \E k \in 1..(Len(q) + 1) :
        /\ \A j \in 1..(k - 1) : at[q[j]] <= when
        /\ k <= Len(q) => at[q[k]] > when
    BY <1>4, <1>5
<1> QED
    BY <1>6 DEF InsertPosition

\* Linking t in keeps the list and adds t to it.
LEMMA InsertBeforeProperties ==
    ASSUME NEW S, NEW q \in Seq(S), NEW t \in S, NEW i \in 1..(Len(q) + 1)
    PROVE  /\ InsertBefore(q, i, t) \in Seq(S)
           /\ Len(InsertBefore(q, i, t)) = Len(q) + 1
           /\ \A j \in 1..(Len(q) + 1) :
                InsertBefore(q, i, t)[j] =
                    IF j < i THEN q[j] ELSE IF j = i THEN t ELSE q[j - 1]
<1> DEFINE r == InsertBefore(q, i, t)
<1>1. Len(q) \in Nat /\ \A k \in 1..Len(q) : q[k] \in S
    OBVIOUS
<1>2. r \in [1..(Len(q) + 1) -> S]
    BY <1>1 DEF InsertBefore
<1>3. r \in Seq(S) /\ Len(r) = Len(q) + 1
    BY <1>1, <1>2
<1>4. \A j \in 1..(Len(q) + 1) :
        r[j] = IF j < i THEN q[j] ELSE IF j = i THEN t ELSE q[j - 1]
    BY DEF InsertBefore
<1> QED
    BY <1>3, <1>4

\* A wake-up time is a word.
LEMMA WakeTimeType ==
    ASSUME NEW j \in Nat, NEW sec \in Nat
    PROVE  WakeTime(j, JiffiesPerSecond, sec, Word) \in 0..(Word - 1)
<1> DEFINE m == JiffiesPerSecond * sec
<1>1. JiffiesPerSecond \in Nat /\ Word \in Nat /\ Word > 0
    BY ConstantsAssumption
<1>2. m \in Int
    BY <1>1
<1> HIDE DEF m
<1>3. m % Word \in 0..(Word - 1)
    BY <1>1, <1>2
<1>4. j + (m % Word) \in Int
    BY <1>3
<1>5. (j + (m % Word)) % Word \in 0..(Word - 1)
    BY <1>1, <1>4
<1> QED
    BY <1>5 DEF WakeTime, m

-----------------------------------------------------------------------------
(* Moving a TCB between holders *)

\* Adding t, so far held elsewhere, to a queue.
LEMMA HoldsAppend ==
    ASSUME NEW q \in Seq(TCBs), NEW t \in TCBs, NEW p,
           place \in [TCBs -> Places], Holds(q, place, p), place[t] # p
    PROVE  Holds(Append(q, t), [place EXCEPT ![t] = p], p)
<1> DEFINE r == Append(q, t)
           pl == [place EXCEPT ![t] = p]
<1>1. /\ Len(q) \in Nat
      /\ Len(r) = Len(q) + 1
      /\ \A i \in 1..Len(q) : r[i] = q[i] /\ q[i] \in TCBs
      /\ r[Len(q) + 1] = t
    BY AppendProperties, ElementOfSeq
<1>2. \A i \in 1..Len(q) : q[i] # t
    BY DEF Holds
<1>3. \A i \in 1..Len(q) : pl[q[i]] = p
    BY <1>1 DEF Holds
<1>4. pl[t] = p
    OBVIOUS
<1> HIDE DEF r, pl
<1>5. \A i \in 1..Len(r) : pl[r[i]] = p
    BY <1>1, <1>3, <1>4
<1>6. \A i, j \in 1..Len(r) : r[i] = r[j] => i = j
    BY <1>1, <1>2 DEF Holds
<1>7. Holds(r, pl, p)
    BY <1>5, <1>6 DEF Holds
<1> QED
    BY <1>7 DEF r, pl

\* The same for a sleep queue, where t goes into the middle.
LEMMA HoldsInsert ==
    ASSUME NEW q \in Seq(TCBs), NEW t \in TCBs, NEW p, NEW i \in 1..(Len(q) + 1),
           place \in [TCBs -> Places], Holds(q, place, p), place[t] # p
    PROVE  Holds(InsertBefore(q, i, t), [place EXCEPT ![t] = p], p)
<1>1. PICK r : /\ r = InsertBefore(q, i, t)
               /\ Len(r) = Len(q) + 1
               /\ \A j \in 1..(Len(q) + 1) :
                    r[j] = IF j < i THEN q[j] ELSE IF j = i THEN t ELSE q[j - 1]
    BY InsertBeforeProperties
<1> DEFINE pl == [place EXCEPT ![t] = p]
<1>2. Len(q) \in Nat /\ \A j \in 1..Len(q) : q[j] \in TCBs /\ q[j] # t
    BY ElementOfSeq, LenProperties DEF Holds
<1>3. \A j \in 1..Len(q) : pl[q[j]] = p
    BY <1>2 DEF Holds
<1>4. pl[t] = p
    OBVIOUS
<1> HIDE DEF pl
<1>5. ASSUME NEW j \in 1..Len(r)
      PROVE  pl[r[j]] = p
    <2>1. CASE j < i
        BY <1>1, <1>2, <1>3, <2>1
    <2>2. CASE j = i
        BY <1>1, <1>2, <1>4, <2>2
    <2>3. CASE j > i
        BY <1>1, <1>2, <1>3, <2>3
    <2> QED
        BY <1>1, <1>2, <2>1, <2>2, <2>3
<1>6. \A j, k \in 1..Len(r) : r[j] = r[k] => j = k
    <2> SUFFICES ASSUME NEW j \in 1..Len(r), NEW k \in 1..Len(r), r[j] = r[k], j < k
                 PROVE  FALSE
        BY <1>1, <1>2
    <2>1. CASE k < i
        BY <1>1, <1>2, <2>1 DEF Holds
    <2>2. CASE k = i
        BY <1>1, <1>2, <2>2
    <2>3. CASE k > i /\ j < i
        BY <1>1, <1>2, <2>3 DEF Holds
    <2>4. CASE k > i /\ j = i
        BY <1>1, <1>2, <2>4
    <2>5. CASE k > i /\ j > i
        BY <1>1, <1>2, <2>5 DEF Holds
    <2> QED
        BY <1>1, <1>2, <2>1, <2>2, <2>3, <2>4, <2>5
<1>7. Holds(r, pl, p)
    BY <1>5, <1>6 DEF Holds
<1> QED
    BY <1>1, <1>7 DEF pl

\* Taking the first TCB out of a queue.
LEMMA HoldsTail ==
    ASSUME NEW q \in Seq(TCBs), NEW p, NEW p2, q # <<>>,
           place \in [TCBs -> Places], Holds(q, place, p)
    PROVE  /\ Head(q) \in TCBs
           /\ place[Head(q)] = p
           /\ Tail(q) \in Seq(TCBs)
           /\ Holds(Tail(q), [place EXCEPT ![Head(q)] = p2], p)
<1> DEFINE r == Tail(q)
           pl == [place EXCEPT ![Head(q)] = p2]
<1>1. /\ Head(q) = q[1]
      /\ Head(q) \in TCBs
      /\ r \in Seq(TCBs)
      /\ Len(q) \in Nat
      /\ Len(q) >= 1
      /\ Len(r) = Len(q) - 1
      /\ \A i \in 1..Len(r) : r[i] = q[i + 1]
      /\ \A i \in 1..Len(q) : q[i] \in TCBs
    BY HeadTailProperties, ElementOfSeq, LenProperties, EmptySeq
<1>2. place[Head(q)] = p
    BY <1>1 DEF Holds
<1>3. \A i \in 1..Len(r) : r[i] # Head(q) /\ r[i] \in TCBs
    BY <1>1 DEF Holds
<1>4. \A i \in 1..Len(r) : pl[r[i]] = p
    BY <1>1, <1>3 DEF Holds
<1> HIDE DEF r, pl
<1>5. \A i, j \in 1..Len(r) : r[i] = r[j] => i = j
    BY <1>1 DEF Holds
<1>6. Holds(r, pl, p)
    BY <1>4, <1>5 DEF Holds
<1> QED
    BY <1>1, <1>2, <1>6 DEF r, pl

\* The other queues do not see a TCB move.
LEMMA HoldsOther ==
    ASSUME NEW q \in Seq(TCBs), NEW t \in TCBs, NEW p, NEW p2,
           place \in [TCBs -> Places], Holds(q, place, p), place[t] # p
    PROVE  Holds(q, [place EXCEPT ![t] = p2], p)
BY ElementOfSeq DEF Holds

-----------------------------------------------------------------------------
(* Places *)

\* The values the model gives to `place` are places.
LEMMA PlaceTypes ==
    /\ Free \in Places /\ Ready \in Places /\ Reapable \in Places
    /\ \A c \in Cores : /\ OnCpu(c) \in Places
                        /\ Requesting(c) \in Places
                        /\ InHand(c) \in Places
                        /\ Sleeping(c) \in Places
    /\ \A s \in Sems : WaitingOn(s) \in Places
    /\ \A t \in TCBs : Doomed(t) \in Places
BY DEF Places, Free, Ready, Reapable, OnCpu, Requesting, InHand, Sleeping,
       WaitingOn, Doomed

\* The calls the model makes are calls.
LEMMA CallTypes ==
    /\ NoCall \in Calls
    /\ \A op \in {"yield", "sleep", "down", "stop", "thread"}, s \in Sems,
          sec \in Seconds \union {0} : Call(op, s, sec) \in Calls
BY ConstantsAssumption DEF Calls, NoCall, Call

\* Different queues give different places.
LEMMA QueuePlacesDiffer ==
    /\ Ready # Reapable
    /\ \A x : /\ Ready # Sleeping(x) /\ Ready # WaitingOn(x) /\ Ready # Doomed(x)
              /\ Reapable # Sleeping(x) /\ Reapable # WaitingOn(x)
              /\ Reapable # Doomed(x)
    /\ \A x, y : /\ Sleeping(x) # WaitingOn(y) /\ Sleeping(x) # Doomed(y)
                 /\ WaitingOn(x) # Doomed(y)
                 /\ Sleeping(x) = Sleeping(y) => x = y
                 /\ WaitingOn(x) = WaitingOn(y) => x = y
                 /\ Doomed(x) = Doomed(y) => x = y
BY DEF Ready, Reapable, Sleeping, WaitingOn, Doomed

\* p is not the place of the entries of a queue.
Loose(p) == \/ p = Free
            \/ \E c \in Cores : p \in {OnCpu(c), Requesting(c), InHand(c)}

\* A loose place is none of the queues.
LEMMA LooseIsNoQueue ==
    ASSUME NEW p, Loose(p)
    PROVE  /\ p # Ready
           /\ p # Reapable
           /\ \A x : p # Sleeping(x) /\ p # WaitingOn(x) /\ p # Doomed(x)
BY DEF Loose, Free, Ready, Reapable, OnCpu, Requesting, InHand, Sleeping,
       WaitingOn, Doomed

\* A TCB that is not allocated, runs, requests or is in a local variable is
\* in a loose place.
LEMMA LoosePlaces ==
    /\ Loose(Free)
    /\ \A c \in Cores : Loose(OnCpu(c)) /\ Loose(Requesting(c)) /\ Loose(InHand(c))
BY DEF Loose

\* The queues that are not the place of t do not see it move.
LEMMA OtherQueuesKept ==
    ASSUME QueueTypes, QueuePlaces, place \in [TCBs -> Places],
           NEW t \in TCBs, NEW p, NEW pl, pl = [place EXCEPT ![t] = p]
    PROVE  /\ place[t] # Ready => Holds(ready_queue, pl, Ready)
           /\ place[t] # Reapable => Holds(reaper_data, pl, Reapable)
           /\ \A c \in Cores : place[t] # Sleeping(c) =>
                Holds(sleep_queues[c], pl, Sleeping(c))
           /\ \A s \in Sems : place[t] # WaitingOn(s) =>
                Holds(waiting[s], pl, WaitingOn(s))
           /\ \A u \in TCBs : place[t] # Doomed(u) =>
                Holds(reaping[u], pl, Doomed(u))
<1>1. /\ place[t] # Ready => Holds(ready_queue, pl, Ready)
      /\ place[t] # Reapable => Holds(reaper_data, pl, Reapable)
    BY HoldsOther DEF QueueTypes, QueuePlaces
<1>2. ASSUME NEW c \in Cores, place[t] # Sleeping(c)
      PROVE  Holds(sleep_queues[c], pl, Sleeping(c))
    BY <1>2, HoldsOther DEF QueueTypes, QueuePlaces
<1>3. ASSUME NEW s \in Sems, place[t] # WaitingOn(s)
      PROVE  Holds(waiting[s], pl, WaitingOn(s))
    BY <1>3, HoldsOther DEF QueueTypes, QueuePlaces
<1>4. ASSUME NEW u \in TCBs, place[t] # Doomed(u)
      PROVE  Holds(reaping[u], pl, Doomed(u))
    BY <1>4, HoldsOther DEF QueueTypes, QueuePlaces
<1> QED
    BY <1>1, <1>2, <1>3, <1>4

\* A TCB that is in no queue moves to a place that is no queue.
LEMMA QueuesKept ==
    ASSUME QueueTypes, QueuePlaces, place \in [TCBs -> Places],
           NEW t \in TCBs, NEW p, Loose(place[t]),
           place' = [place EXCEPT ![t] = p],
           UNCHANGED <<ready_queue, sleep_queues, waiting, reaper_data, reaping>>
    PROVE  QueuePlaces' /\ QueueTypes'
<1>1. /\ place[t] # Ready /\ place[t] # Reapable
      /\ \A x : /\ place[t] # Sleeping(x)
                /\ place[t] # WaitingOn(x)
                /\ place[t] # Doomed(x)
    BY LooseIsNoQueue
<1>2. /\ Holds(ready_queue, place', Ready)
      /\ Holds(reaper_data, place', Reapable)
      /\ \A c \in Cores : Holds(sleep_queues[c], place', Sleeping(c))
      /\ \A s \in Sems : Holds(waiting[s], place', WaitingOn(s))
      /\ \A u \in TCBs : Holds(reaping[u], place', Doomed(u))
    BY <1>1, OtherQueuesKept
<1> QED
    BY <1>2 DEF QueuePlaces, QueueTypes

\* ready_queue.add of a TCB that is in no queue.
LEMMA ReadyQueueGains ==
    ASSUME QueueTypes, QueuePlaces, place \in [TCBs -> Places],
           NEW t \in TCBs, Loose(place[t]),
           ready_queue' = Append(ready_queue, t),
           place' = [place EXCEPT ![t] = Ready],
           UNCHANGED <<sleep_queues, waiting, reaper_data, reaping>>
    PROVE  QueuePlaces' /\ QueueTypes'
<1>1. /\ place[t] # Ready /\ place[t] # Reapable
      /\ \A x : /\ place[t] # Sleeping(x)
                /\ place[t] # WaitingOn(x)
                /\ place[t] # Doomed(x)
    BY LooseIsNoQueue
<1>2. /\ Holds(ready_queue, place', Ready)
      /\ Holds(reaper_data, place', Reapable)
      /\ \A c \in Cores : Holds(sleep_queues[c], place', Sleeping(c))
      /\ \A s \in Sems : Holds(waiting[s], place', WaitingOn(s))
      /\ \A u \in TCBs : Holds(reaping[u], place', Doomed(u))
    BY <1>1, OtherQueuesKept
<1>3. Holds(ready_queue', place', Ready)
    BY <1>1, HoldsAppend DEF QueueTypes, QueuePlaces
<1> QED
    BY <1>2, <1>3, AppendProperties DEF QueuePlaces, QueueTypes

\* reaper_queue->add of a TCB that is in no queue.
LEMMA ReaperQueueGains ==
    ASSUME QueueTypes, QueuePlaces, place \in [TCBs -> Places],
           NEW t \in TCBs, Loose(place[t]),
           reaper_data' = Append(reaper_data, t),
           place' = [place EXCEPT ![t] = Reapable],
           UNCHANGED <<ready_queue, sleep_queues, waiting, reaping>>
    PROVE  QueuePlaces' /\ QueueTypes'
<1>1. /\ place[t] # Ready /\ place[t] # Reapable
      /\ \A x : /\ place[t] # Sleeping(x)
                /\ place[t] # WaitingOn(x)
                /\ place[t] # Doomed(x)
    BY LooseIsNoQueue
<1>2. /\ Holds(ready_queue, place', Ready)
      /\ Holds(reaper_data, place', Reapable)
      /\ \A c \in Cores : Holds(sleep_queues[c], place', Sleeping(c))
      /\ \A s \in Sems : Holds(waiting[s], place', WaitingOn(s))
      /\ \A u \in TCBs : Holds(reaping[u], place', Doomed(u))
    BY <1>1, OtherQueuesKept
<1>3. Holds(reaper_data', place', Reapable)
    BY <1>1, HoldsAppend DEF QueueTypes, QueuePlaces
<1> QED
    BY <1>2, <1>3, AppendProperties DEF QueuePlaces, QueueTypes

\* A TCB that is in no queue joins the waiting queue of s.
LEMMA WaitingQueueGains ==
    ASSUME QueueTypes, QueuePlaces, place \in [TCBs -> Places],
           NEW t \in TCBs, Loose(place[t]), NEW s \in Sems,
           waiting' = [waiting EXCEPT ![s] = Append(@, t)],
           place' = [place EXCEPT ![t] = WaitingOn(s)],
           UNCHANGED <<ready_queue, sleep_queues, reaper_data, reaping>>
    PROVE  QueuePlaces' /\ QueueTypes'
<1>1. /\ place[t] # Ready /\ place[t] # Reapable
      /\ \A x : /\ place[t] # Sleeping(x)
                /\ place[t] # WaitingOn(x)
                /\ place[t] # Doomed(x)
    BY LooseIsNoQueue
<1>2. /\ Holds(ready_queue, place', Ready)
      /\ Holds(reaper_data, place', Reapable)
      /\ \A c \in Cores : Holds(sleep_queues[c], place', Sleeping(c))
      /\ \A r \in Sems : Holds(waiting[r], place', WaitingOn(r))
      /\ \A u \in TCBs : Holds(reaping[u], place', Doomed(u))
    BY <1>1, OtherQueuesKept
<1>3. Holds(waiting'[s], place', WaitingOn(s))
    BY <1>1, HoldsAppend DEF QueueTypes, QueuePlaces
<1>4. ASSUME NEW r \in Sems
      PROVE  Holds(waiting'[r], place', WaitingOn(r))
    BY <1>2, <1>3 DEF QueueTypes
<1>5. QueueTypes'
    BY AppendProperties DEF QueueTypes
<1> QED
    BY <1>2, <1>4, <1>5 DEF QueuePlaces

\* SleepQueue::add of a TCB that is in no queue.
LEMMA SleepQueueGains ==
    ASSUME QueueTypes, QueuePlaces, place \in [TCBs -> Places],
           NEW t \in TCBs, Loose(place[t]), NEW c \in Cores,
           NEW i \in 1..(Len(sleep_queues[c]) + 1),
           sleep_queues' = [sleep_queues EXCEPT ![c] = InsertBefore(@, i, t)],
           place' = [place EXCEPT ![t] = Sleeping(c)],
           UNCHANGED <<ready_queue, waiting, reaper_data, reaping>>
    PROVE  QueuePlaces' /\ QueueTypes'
<1>1. /\ place[t] # Ready /\ place[t] # Reapable
      /\ \A x : /\ place[t] # Sleeping(x)
                /\ place[t] # WaitingOn(x)
                /\ place[t] # Doomed(x)
    BY LooseIsNoQueue
<1>2. /\ Holds(ready_queue, place', Ready)
      /\ Holds(reaper_data, place', Reapable)
      /\ \A d \in Cores : Holds(sleep_queues[d], place', Sleeping(d))
      /\ \A s \in Sems : Holds(waiting[s], place', WaitingOn(s))
      /\ \A u \in TCBs : Holds(reaping[u], place', Doomed(u))
    BY <1>1, OtherQueuesKept
<1>3. Holds(sleep_queues'[c], place', Sleeping(c))
    BY <1>1, HoldsInsert DEF QueueTypes, QueuePlaces
<1>4. ASSUME NEW d \in Cores
      PROVE  Holds(sleep_queues'[d], place', Sleeping(d))
    BY <1>2, <1>3 DEF QueueTypes
<1>5. InsertBefore(sleep_queues[c], i, t) \in Seq(TCBs)
    BY InsertBeforeProperties DEF QueueTypes
<1>6. QueueTypes'
    BY <1>5 DEF QueueTypes
<1> QED
    BY <1>2, <1>4, <1>6 DEF QueuePlaces

\* The head of the ready queue leaves the queues.
LEMMA ReadyQueueLoses ==
    ASSUME QueueTypes, QueuePlaces, place \in [TCBs -> Places],
           NEW p, ready_queue # <<>>,
           ready_queue' = Tail(ready_queue),
           place' = [place EXCEPT ![Head(ready_queue)] = p],
           UNCHANGED <<sleep_queues, waiting, reaper_data, reaping>>
    PROVE  /\ QueuePlaces' /\ QueueTypes'
           /\ Head(ready_queue) \in TCBs
           /\ place[Head(ready_queue)] = Ready
<1> DEFINE t == Head(ready_queue)
<1>1. /\ t \in TCBs /\ place[t] = Ready
      /\ Tail(ready_queue) \in Seq(TCBs)
      /\ Holds(Tail(ready_queue), place', Ready)
    BY HoldsTail DEF QueueTypes, QueuePlaces
<1> HIDE DEF t
<1>2. place' = [place EXCEPT ![t] = p]
    BY DEF t
<1>3. /\ place[t] # Reapable
      /\ \A d \in Cores : place[t] # Sleeping(d)
      /\ \A r \in Sems : place[t] # WaitingOn(r)
      /\ \A v \in TCBs : place[t] # Doomed(v)
    BY <1>1 DEF Ready, Reapable, Sleeping, WaitingOn, Doomed
<1>4. /\ Holds(reaper_data, place', Reapable)
      /\ \A d \in Cores : Holds(sleep_queues[d], place', Sleeping(d))
      /\ \A r \in Sems : Holds(waiting[r], place', WaitingOn(r))
      /\ \A v \in TCBs : Holds(reaping[v], place', Doomed(v))
    BY <1>3, <1>1, <1>2, OtherQueuesKept
<1> QED
    BY <1>1, <1>4 DEF QueuePlaces, QueueTypes, t

\* up(): the first waiter of s leaves the queues.
LEMMA WaitingQueueLoses ==
    ASSUME QueueTypes, QueuePlaces, place \in [TCBs -> Places],
           NEW p, NEW s \in Sems, waiting[s] # <<>>,
           waiting' = [waiting EXCEPT ![s] = Tail(@)],
           place' = [place EXCEPT ![Head(waiting[s])] = p],
           UNCHANGED <<ready_queue, sleep_queues, reaper_data, reaping>>
    PROVE  /\ QueuePlaces' /\ QueueTypes'
           /\ Head(waiting[s]) \in TCBs
           /\ place[Head(waiting[s])] = WaitingOn(s)
<1> DEFINE t == Head(waiting[s])
<1>1. /\ t \in TCBs /\ place[t] = WaitingOn(s)
      /\ Tail(waiting[s]) \in Seq(TCBs)
      /\ Holds(Tail(waiting[s]), place', WaitingOn(s))
    BY HoldsTail DEF QueueTypes, QueuePlaces
<1> HIDE DEF t
<1>2. place' = [place EXCEPT ![t] = p]
    BY DEF t
<1>3. /\ place[t] # Ready
      /\ place[t] # Reapable
      /\ \A d \in Cores : place[t] # Sleeping(d)
      /\ \A r \in Sems : r # s => place[t] # WaitingOn(r)
      /\ \A v \in TCBs : place[t] # Doomed(v)
    BY <1>1 DEF Ready, Reapable, Sleeping, WaitingOn, Doomed
<1>4. /\ Holds(ready_queue, place', Ready)
      /\ Holds(reaper_data, place', Reapable)
      /\ \A d \in Cores : Holds(sleep_queues[d], place', Sleeping(d))
      /\ \A r \in Sems : r # s => Holds(waiting[r], place', WaitingOn(r))
      /\ \A v \in TCBs : Holds(reaping[v], place', Doomed(v))
    BY <1>3, <1>1, <1>2, OtherQueuesKept
<1>5. ASSUME NEW r \in Sems
      PROVE  Holds(waiting'[r], place', WaitingOn(r))
    BY <1>1, <1>4 DEF QueueTypes
<1>6. QueueTypes'
    BY <1>1 DEF QueueTypes
<1> QED
    BY <1>1, <1>4, <1>5, <1>6 DEF QueuePlaces, t

\* reap(): the first of the TCBs u has to delete leaves the queues.
LEMMA ReapingLoses ==
    ASSUME QueueTypes, QueuePlaces, place \in [TCBs -> Places],
           NEW p, NEW u \in TCBs, reaping[u] # <<>>, NEW rest \in {<<>>, Tail(reaping[u])},
           reaping' = [reaping EXCEPT ![u] = rest],
           place' = [place EXCEPT ![Head(reaping[u])] = p],
           UNCHANGED <<ready_queue, sleep_queues, waiting, reaper_data>>
    PROVE  /\ QueuePlaces' /\ QueueTypes'
           /\ Head(reaping[u]) \in TCBs
           /\ place[Head(reaping[u])] = Doomed(u)
<1> DEFINE t == Head(reaping[u])
<1>1. /\ t \in TCBs /\ place[t] = Doomed(u)
      /\ Tail(reaping[u]) \in Seq(TCBs)
      /\ Holds(Tail(reaping[u]), place', Doomed(u))
    BY HoldsTail DEF QueueTypes, QueuePlaces
<1> HIDE DEF t
<1>2. place' = [place EXCEPT ![t] = p]
    BY DEF t
<1>3. /\ place[t] # Ready
      /\ place[t] # Reapable
      /\ \A d \in Cores : place[t] # Sleeping(d)
      /\ \A r \in Sems : place[t] # WaitingOn(r)
      /\ \A v \in TCBs : v # u => place[t] # Doomed(v)
    BY <1>1 DEF Ready, Reapable, Sleeping, WaitingOn, Doomed
<1>4. /\ Holds(ready_queue, place', Ready)
      /\ Holds(reaper_data, place', Reapable)
      /\ \A d \in Cores : Holds(sleep_queues[d], place', Sleeping(d))
      /\ \A r \in Sems : Holds(waiting[r], place', WaitingOn(r))
      /\ \A v \in TCBs : v # u => Holds(reaping[v], place', Doomed(v))
    BY <1>3, <1>1, <1>2, OtherQueuesKept
<1>5. rest \in Seq(TCBs) /\ Holds(rest, place', Doomed(u))
    <2>1. CASE rest = <<>>
        BY <2>1, EmptySeq DEF Holds
    <2>2. CASE rest = Tail(reaping[u])
        BY <1>1, <2>2
    <2> QED
        BY <2>1, <2>2
<1>6. ASSUME NEW v \in TCBs
      PROVE  Holds(reaping'[v], place', Doomed(v))
    BY <1>4, <1>5 DEF QueueTypes
<1>7. QueueTypes'
    BY <1>5 DEF QueueTypes
<1> QED
    BY <1>1, <1>4, <1>6, <1>7 DEF QueuePlaces, t

\* wakeup(): the head of a sleep queue becomes ready.
LEMMA SleeperBecomesReady ==
    ASSUME QueueTypes, QueuePlaces, place \in [TCBs -> Places],
           NEW c \in Cores, sleep_queues[c] # <<>>,
           sleep_queues' = [sleep_queues EXCEPT ![c] = Tail(@)],
           ready_queue' = Append(ready_queue, Head(sleep_queues[c])),
           place' = [place EXCEPT ![Head(sleep_queues[c])] = Ready],
           UNCHANGED <<waiting, reaper_data, reaping>>
    PROVE  /\ QueuePlaces' /\ QueueTypes'
           /\ Head(sleep_queues[c]) \in TCBs
           /\ place[Head(sleep_queues[c])] = Sleeping(c)
<1> DEFINE t == Head(sleep_queues[c])
<1>1. /\ t \in TCBs /\ place[t] = Sleeping(c)
      /\ Tail(sleep_queues[c]) \in Seq(TCBs)
      /\ Holds(Tail(sleep_queues[c]), place', Sleeping(c))
    BY HoldsTail DEF QueueTypes, QueuePlaces
<1> HIDE DEF t
<1>2. place' = [place EXCEPT ![t] = Ready]
    BY DEF t
<1>3. /\ place[t] # Ready
      /\ place[t] # Reapable
      /\ \A d \in Cores : d # c => place[t] # Sleeping(d)
      /\ \A r \in Sems : place[t] # WaitingOn(r)
      /\ \A v \in TCBs : place[t] # Doomed(v)
    BY <1>1 DEF Ready, Reapable, Sleeping, WaitingOn, Doomed
<1>4. /\ Holds(reaper_data, place', Reapable)
      /\ \A d \in Cores : d # c => Holds(sleep_queues[d], place', Sleeping(d))
      /\ \A r \in Sems : Holds(waiting[r], place', WaitingOn(r))
      /\ \A v \in TCBs : Holds(reaping[v], place', Doomed(v))
    BY <1>3, <1>1, <1>2, OtherQueuesKept
<1>5. Holds(ready_queue', place', Ready) /\ ready_queue' \in Seq(TCBs)
    <2>1. ready_queue' = Append(ready_queue, t)
        BY DEF t
    <2>2. ready_queue' \in Seq(TCBs)
        BY <1>1, <2>1, AppendProperties DEF QueueTypes
    <2>3. /\ ready_queue \in Seq(TCBs) /\ Holds(ready_queue, place, Ready)
          /\ t \in TCBs /\ place[t] # Ready
        BY <1>1, <1>3 DEF QueueTypes, QueuePlaces
    <2>4. Holds(Append(ready_queue, t), [place EXCEPT ![t] = Ready], Ready)
        BY <2>3, HoldsAppend
    <2> QED
        BY <1>2, <2>1, <2>2, <2>4
<1>6. ASSUME NEW d \in Cores
      PROVE  Holds(sleep_queues'[d], place', Sleeping(d))
    BY <1>1, <1>4 DEF QueueTypes
<1>7. QueueTypes'
    BY <1>1, <1>5 DEF QueueTypes
<1> QED
    BY <1>1, <1>4, <1>5, <1>6, <1>7 DEF QueuePlaces, t

\* The reaper takes the first TCB of its queue.
LEMMA ReapableBecomesDoomed ==
    ASSUME QueueTypes, QueuePlaces, place \in [TCBs -> Places],
           NEW u \in TCBs, reaper_data # <<>>,
           reaper_data' = Tail(reaper_data),
           reaping' = [reaping EXCEPT ![u] = <<Head(reaper_data)>>],
           place' = [place EXCEPT ![Head(reaper_data)] = Doomed(u)],
           UNCHANGED <<ready_queue, sleep_queues, waiting>>
    PROVE  /\ QueuePlaces' /\ QueueTypes'
           /\ Head(reaper_data) \in TCBs
           /\ place[Head(reaper_data)] = Reapable
<1> DEFINE t == Head(reaper_data)
<1>1. /\ t \in TCBs /\ place[t] = Reapable
      /\ Tail(reaper_data) \in Seq(TCBs)
      /\ Holds(Tail(reaper_data), place', Reapable)
    BY HoldsTail DEF QueueTypes, QueuePlaces
<1> HIDE DEF t
<1>2. place' = [place EXCEPT ![t] = Doomed(u)]
    BY DEF t
<1>3. /\ place[t] # Ready
      /\ \A d \in Cores : place[t] # Sleeping(d)
      /\ \A r \in Sems : place[t] # WaitingOn(r)
      /\ \A v \in TCBs : place[t] # Doomed(v)
    BY <1>1 DEF Ready, Reapable, Sleeping, WaitingOn, Doomed
<1>4. /\ Holds(ready_queue, place', Ready)
      /\ \A d \in Cores : Holds(sleep_queues[d], place', Sleeping(d))
      /\ \A r \in Sems : Holds(waiting[r], place', WaitingOn(r))
      /\ \A v \in TCBs : Holds(reaping[v], place', Doomed(v))
    BY <1>3, <1>1, <1>2, OtherQueuesKept
<1>5. <<t>> \in Seq(TCBs) /\ Holds(<<t>>, place', Doomed(u))
    BY <1>1, <1>2 DEF Holds
<1>6. ASSUME NEW v \in TCBs
      PROVE  Holds(reaping'[v], place', Doomed(v))
    BY <1>4, <1>5 DEF QueueTypes, t
<1>7. QueueTypes'
    BY <1>1, <1>5 DEF QueueTypes, t
<1> QED
    BY <1>1, <1>4, <1>6, <1>7 DEF QueuePlaces, t

\* reap(): u takes everything in the reaper's queue.
LEMMA ReapableAllDoomed ==
    ASSUME QueueTypes, QueuePlaces, place \in [TCBs -> Places], NEW u \in TCBs,
           reaper_data' = <<>>,
           reaping' = [reaping EXCEPT ![u] = reaper_data],
           place' = [t \in TCBs |->
                        IF place[t] = Reapable THEN Doomed(u) ELSE place[t]],
           UNCHANGED <<ready_queue, sleep_queues, waiting>>
    PROVE  QueuePlaces' /\ QueueTypes'
<1>1. ASSUME NEW q \in Seq(TCBs), NEW p, Holds(q, place, p), p # Reapable
      PROVE  Holds(q, place', p)
    BY <1>1, ElementOfSeq DEF Holds
<1>2. Holds(reaper_data, place', Doomed(u)) /\ Holds(<<>>, place', Reapable)
    BY ElementOfSeq DEF Holds, QueuePlaces, QueueTypes
<1>3. Holds(ready_queue, place', Ready)
    BY <1>1, QueuePlacesDiffer DEF QueuePlaces, QueueTypes
<1>4. ASSUME NEW d \in Cores
      PROVE  Holds(sleep_queues[d], place', Sleeping(d))
    BY <1>1, QueuePlacesDiffer DEF QueuePlaces, QueueTypes
<1>5. ASSUME NEW s \in Sems
      PROVE  Holds(waiting[s], place', WaitingOn(s))
    BY <1>1, QueuePlacesDiffer DEF QueuePlaces, QueueTypes
<1>6. ASSUME NEW v \in TCBs
      PROVE  Holds(reaping'[v], place', Doomed(v))
    <2>1. CASE v = u
        BY <1>2, <2>1 DEF QueueTypes
    <2>2. CASE v # u
        BY <1>1, <2>2, QueuePlacesDiffer DEF QueuePlaces, QueueTypes
    <2> QED
        BY <2>1, <2>2
<1>7. QueueTypes'
    BY EmptySeq DEF QueueTypes
<1> QED
    BY <1>2, <1>3, <1>4, <1>5, <1>6, <1>7 DEF QueuePlaces

\* A TCB that no core holds moves.
LEMMA CoresKept ==
    ASSUME CorePlaces, place \in [TCBs -> Places], NEW t \in TCBs, NEW p,
           \A d \in Cores : place[t] \notin {OnCpu(d), Requesting(d), InHand(d)},
           place' = [place EXCEPT ![t] = p],
           UNCHANGED <<cpu, help_requests, hand>>
    PROVE  CorePlaces'
BY DEF CorePlaces

\* A step that creates no thread and brings no core back to its boot code.
LEMMA BootKept ==
    ASSUME BootAlone,
           \A d \in Cores : hpc'[d] = "boot" => hpc[d] = "boot",
           \A u \in TCBs : place[u] = Free => place'[u] = Free
    PROVE  BootAlone'
BY DEF BootAlone


-----------------------------------------------------------------------------
(* The steps of the helper *)

\* The helper comes back to the head of its loop.
LEMMA HelperResumeInv ==
    ASSUME IndInv, NEW c \in Cores, HelperResume(c)
    PROVE  IndInv'
<1>1. /\ cpu[c] = NoTCB /\ hpc[c] # "boot"
      /\ hpc' = [hpc EXCEPT ![c] = "wakeup"]
      /\ interrupts' = [interrupts EXCEPT ![c] = TRUE]
      /\ UNCHANGED <<cpu, active_thread, help_requests, eflags, helper_eflags,
                     esp0, hand,
                     ready_queue, sleep_queues, at_jiffies, n, waiting,
                     reaper_data, pc, call, reaping, calls, place, jiffies>>
    BY DEF HelperResume, HelperAt, queueVars, tcbVars
<1>2. /\ CoreTypes /\ QueueTypes /\ NumberTypes /\ TCBTypes /\ CorePlaces
      /\ QueuePlaces /\ HandFilled /\ DoomedFilled /\ HelperSaved /\ ReaperRuns
      /\ BootAlone
    BY DEF IndInv, TypeOK
<1>3. place \in [TCBs -> Places]
    BY <1>2 DEF TCBTypes
<1>4. QueuePlaces' /\ QueueTypes'
    BY <1>1, <1>2 DEF QueuePlaces, QueueTypes
<1>5. CoreTypes'
    BY <1>1, <1>2, <1>3 DEF CoreTypes
<1>6. NumberTypes'
    BY <1>1, <1>2, <1>3, ConstantsAssumption DEF NumberTypes
<1>7. TCBTypes'
    BY <1>1, <1>2, <1>3, PlaceTypes, CallTypes DEF TCBTypes
<1>8. CorePlaces'
    BY <1>1, <1>2, <1>3 DEF CoreTypes, TCBTypes, CorePlaces, OnCpu, Requesting,
       InHand
<1>9. HandFilled' /\ HelperSaved' /\ DoomedFilled'
    BY <1>1, <1>2, <1>3 DEF CoreTypes, TCBTypes, HandFilled, HelperSaved,
       DoomedFilled, QueueTypes
<1>10. ReaperRuns'
    BY <1>1, <1>2, <1>3, ConstantsAssumption DEF TCBTypes, ReaperRuns, Free,
       Ready, Reapable, OnCpu, Requesting, InHand, Sleeping, WaitingOn, NoCall
<1>11. BootAlone'
    BY <1>1, <1>2, BootKept DEF CoreTypes
<1> QED
    BY <1>4, <1>5, <1>6, <1>7, <1>8, <1>9, <1>10, <1>11 DEF IndInv, TypeOK

\* The helper has no request.
LEMMA HelperNoRequestInv ==
    ASSUME IndInv, NEW c \in Cores, HelperNoRequest(c)
    PROVE  IndInv'
<1>1. /\ cpu[c] = NoTCB /\ hpc[c] # "boot"
      /\ hpc' = [hpc EXCEPT ![c] = "pick"]
      /\ UNCHANGED <<cpu, active_thread, help_requests, flagVars, esp0,
                     hand, ready_queue, sleep_queues, at_jiffies, n, waiting,
                     reaper_data, pc, call, reaping, calls, place, jiffies>>
    BY DEF HelperNoRequest, HelperAt, queueVars, tcbVars
<1>2. /\ CoreTypes /\ QueueTypes /\ NumberTypes /\ TCBTypes /\ CorePlaces
      /\ QueuePlaces /\ HandFilled /\ DoomedFilled /\ HelperSaved /\ ReaperRuns
      /\ BootAlone
    BY DEF IndInv, TypeOK
<1>3. place \in [TCBs -> Places]
    BY <1>2 DEF TCBTypes
<1>4. QueuePlaces' /\ QueueTypes'
    BY <1>1, <1>2 DEF QueuePlaces, QueueTypes
<1>5. CoreTypes'
    BY <1>1, <1>2, <1>3 DEF CoreTypes
<1>6. NumberTypes'
    BY <1>1, <1>2, <1>3, ConstantsAssumption DEF NumberTypes
<1>7. TCBTypes'
    BY <1>1, <1>2, <1>3, PlaceTypes, CallTypes DEF TCBTypes
<1>8. CorePlaces'
    BY <1>1, <1>2, <1>3 DEF CoreTypes, TCBTypes, CorePlaces, OnCpu, Requesting,
       InHand
<1>9. HandFilled' /\ HelperSaved' /\ DoomedFilled'
    BY <1>1, <1>2, <1>3 DEF CoreTypes, TCBTypes, HandFilled, HelperSaved,
       DoomedFilled, QueueTypes
<1>10. ReaperRuns'
    BY <1>1, <1>2, <1>3, ConstantsAssumption DEF TCBTypes, ReaperRuns, Free,
       Ready, Reapable, OnCpu, Requesting, InHand, Sleeping, WaitingOn, NoCall
<1>11. BootAlone'
    BY <1>1, <1>2, BootKept DEF CoreTypes
<1> QED
    BY <1>4, <1>5, <1>6, <1>7, <1>8, <1>9, <1>10, <1>11 DEF IndInv, TypeOK

\* The helper finds nobody ready.
LEMMA HelperIdleInv ==
    ASSUME IndInv, NEW c \in Cores, HelperIdle(c)
    PROVE  IndInv'
<1>1. /\ cpu[c] = NoTCB /\ hpc[c] # "boot"
      /\ hpc' = [hpc EXCEPT ![c] = "wakeup"]
      /\ UNCHANGED <<cpu, active_thread, help_requests, flagVars, esp0,
                     hand, ready_queue, sleep_queues, at_jiffies, n, waiting,
                     reaper_data, pc, call, reaping, calls, place, jiffies>>
    BY DEF HelperIdle, HelperAt, queueVars, tcbVars
<1>2. /\ CoreTypes /\ QueueTypes /\ NumberTypes /\ TCBTypes /\ CorePlaces
      /\ QueuePlaces /\ HandFilled /\ DoomedFilled /\ HelperSaved /\ ReaperRuns
      /\ BootAlone
    BY DEF IndInv, TypeOK
<1>3. place \in [TCBs -> Places]
    BY <1>2 DEF TCBTypes
<1>4. QueuePlaces' /\ QueueTypes'
    BY <1>1, <1>2 DEF QueuePlaces, QueueTypes
<1>5. CoreTypes'
    BY <1>1, <1>2, <1>3 DEF CoreTypes
<1>6. NumberTypes'
    BY <1>1, <1>2, <1>3, ConstantsAssumption DEF NumberTypes
<1>7. TCBTypes'
    BY <1>1, <1>2, <1>3, PlaceTypes, CallTypes DEF TCBTypes
<1>8. CorePlaces'
    BY <1>1, <1>2, <1>3 DEF CoreTypes, TCBTypes, CorePlaces, OnCpu, Requesting,
       InHand
<1>9. HandFilled' /\ HelperSaved' /\ DoomedFilled'
    BY <1>1, <1>2, <1>3 DEF CoreTypes, TCBTypes, HandFilled, HelperSaved,
       DoomedFilled, QueueTypes
<1>10. ReaperRuns'
    BY <1>1, <1>2, <1>3, ConstantsAssumption DEF TCBTypes, ReaperRuns, Free,
       Ready, Reapable, OnCpu, Requesting, InHand, Sleeping, WaitingOn, NoCall
<1>11. BootAlone'
    BY <1>1, <1>2, BootKept DEF CoreTypes
<1> QED
    BY <1>4, <1>5, <1>6, <1>7, <1>8, <1>9, <1>10, <1>11 DEF IndInv, TypeOK

\* The helper wakes the head of its sleep queue.
LEMMA HelperWakeupInv ==
    ASSUME IndInv, NEW c \in Cores, HelperWakeup(c)
    PROVE  IndInv'
<1> DEFINE t == Head(sleep_queues[c])
<1>1. /\ sleep_queues[c] # <<>>
      /\ sleep_queues' = [sleep_queues EXCEPT ![c] = Tail(@)]
      /\ ready_queue' = Append(ready_queue, Head(sleep_queues[c]))
      /\ place' = [place EXCEPT ![Head(sleep_queues[c])] = Ready]
      /\ UNCHANGED <<cpu, active_thread, help_requests, flagVars, esp0, hpc,
                     hand, at_jiffies, n, waiting, reaper_data, pc, call,
                     reaping, calls, jiffies>>
    BY DEF HelperWakeup, HelperAt, SomeoneDue, Due, coreVars
<1>2. /\ CoreTypes /\ QueueTypes /\ NumberTypes /\ TCBTypes /\ CorePlaces
      /\ QueuePlaces /\ HandFilled /\ DoomedFilled /\ HelperSaved /\ ReaperRuns
      /\ BootAlone
    BY DEF IndInv, TypeOK
<1>3. /\ t \in TCBs /\ place[t] = Sleeping(c)
      /\ QueuePlaces' /\ QueueTypes'
    BY <1>1, <1>2, SleeperBecomesReady DEF TCBTypes, QueueTypes
<1>4. QueuePlaces' /\ QueueTypes'
    BY <1>3
<1>5. CoreTypes'
    BY <1>1, <1>2, <1>3 DEF CoreTypes
<1>6. NumberTypes'
    BY <1>1, <1>2, <1>3, ConstantsAssumption DEF NumberTypes
<1>7. TCBTypes'
    BY <1>1, <1>2, <1>3, PlaceTypes, CallTypes DEF TCBTypes
<1>8. CorePlaces'
    <2>1. \A d \in Cores : place[t] \notin {OnCpu(d), Requesting(d), InHand(d)}
        BY <1>3 DEF OnCpu, Requesting, InHand, Sleeping
    <2> QED
        BY <1>1, <1>2, <1>3, <2>1, CoresKept DEF TCBTypes
<1>9. HandFilled' /\ HelperSaved' /\ DoomedFilled'
    BY <1>1, <1>2, <1>3 DEF CoreTypes, TCBTypes, HandFilled, HelperSaved,
       DoomedFilled, QueueTypes
<1>10. ReaperRuns'
    BY <1>1, <1>2, <1>3, ConstantsAssumption DEF TCBTypes, ReaperRuns, Free,
       Ready, Reapable, OnCpu, Requesting, InHand, Sleeping, WaitingOn, NoCall
<1>11. BootAlone'
    BY <1>1, <1>2, <1>3, BootKept DEF TCBTypes, CoreTypes, Free, Ready, Reapable,
       OnCpu, Requesting, InHand, Sleeping, WaitingOn, Doomed
<1> QED
    BY <1>4, <1>5, <1>6, <1>7, <1>8, <1>9, <1>10, <1>11 DEF IndInv, TypeOK

\* The helper takes the request of its core.
LEMMA HelperTakesInv ==
    ASSUME IndInv, NEW c \in Cores, HelperTakes(c)
    PROVE  IndInv'
<1> DEFINE t == help_requests[c]
<1>1. /\ cpu[c] = NoTCB /\ hpc[c] = "wakeup" /\ t # NoTCB
      /\ help_requests' = [help_requests EXCEPT ![c] = NoTCB]
      /\ hpc' = [hpc EXCEPT ![c] = "doit"]
      /\ hand' = [hand EXCEPT ![c] = t]
      /\ place' = [place EXCEPT ![t] = InHand(c)]
      /\ UNCHANGED <<cpu, active_thread, flagVars, esp0, ready_queue,
                     sleep_queues, at_jiffies, n, waiting, reaper_data, pc,
                     call, reaping, calls, jiffies>>
    BY DEF HelperTakes, HelperAt, queueVars
<1>2. /\ CoreTypes /\ QueueTypes /\ NumberTypes /\ TCBTypes /\ CorePlaces
      /\ QueuePlaces /\ HandFilled /\ DoomedFilled /\ HelperSaved /\ ReaperRuns
      /\ BootAlone
    BY DEF IndInv, TypeOK
<1>3. t \in TCBs /\ place[t] = Requesting(c) /\ Loose(place[t])
    BY <1>1, <1>2, LoosePlaces DEF CoreTypes, CorePlaces
<1>4. QueuePlaces' /\ QueueTypes'
    BY <1>1, <1>2, <1>3, QueuesKept DEF TCBTypes
<1>5. CoreTypes'
    BY <1>1, <1>2, <1>3 DEF CoreTypes
<1>6. NumberTypes'
    BY <1>1, <1>2, <1>3, ConstantsAssumption DEF NumberTypes
<1>7. TCBTypes'
    BY <1>1, <1>2, <1>3, PlaceTypes, CallTypes DEF TCBTypes
<1>8. CorePlaces'
    BY <1>1, <1>2, <1>3 DEF CoreTypes, TCBTypes, CorePlaces, OnCpu, Requesting,
       InHand
<1>9. HandFilled' /\ HelperSaved' /\ DoomedFilled'
    BY <1>1, <1>2, <1>3 DEF CoreTypes, TCBTypes, HandFilled, HelperSaved,
       DoomedFilled, QueueTypes
<1>10. ReaperRuns'
    BY <1>1, <1>2, <1>3, ConstantsAssumption DEF TCBTypes, ReaperRuns, Free,
       Ready, Reapable, OnCpu, Requesting, InHand, Sleeping, WaitingOn, NoCall
<1>11. BootAlone'
    BY <1>1, <1>2, <1>3, BootKept DEF TCBTypes, CoreTypes, Free, Ready, Reapable,
       OnCpu, Requesting, InHand, Sleeping, WaitingOn, Doomed
<1> QED
    BY <1>4, <1>5, <1>6, <1>7, <1>8, <1>9, <1>10, <1>11 DEF IndInv, TypeOK

\* The request of yield().
LEMMA HelperYieldInv ==
    ASSUME IndInv, NEW c \in Cores, HelperYield(c)
    PROVE  IndInv'
<1> DEFINE t == hand[c]
<1>1. /\ cpu[c] = NoTCB /\ hpc[c] = "doit"
      /\ hand' = [hand EXCEPT ![c] = NoTCB]
      /\ call' = [call EXCEPT ![t] = NoCall]
      /\ hpc' = [hpc EXCEPT ![c] = "pick"]
      /\ ready_queue' = Append(ready_queue, t)
      /\ place' = [place EXCEPT ![t] = Ready]
      /\ UNCHANGED <<cpu, active_thread, help_requests, flagVars, esp0, sleep_queues,
                     at_jiffies, n, waiting, reaper_data, pc, reaping, calls,
                     jiffies>>
    BY DEF HelperYield, DoIt, Published, HelperAt
<1>2. /\ CoreTypes /\ QueueTypes /\ NumberTypes /\ TCBTypes /\ CorePlaces
      /\ QueuePlaces /\ HandFilled /\ DoomedFilled /\ HelperSaved /\ ReaperRuns
      /\ BootAlone
    BY DEF IndInv, TypeOK
<1>3. t \in TCBs /\ place[t] = InHand(c) /\ Loose(place[t])
    BY <1>1, <1>2, LoosePlaces DEF CoreTypes, HandFilled, CorePlaces
<1>4. QueuePlaces' /\ QueueTypes'
    BY <1>1, <1>2, <1>3, ReadyQueueGains DEF TCBTypes
<1>5. CoreTypes'
    BY <1>1, <1>2, <1>3 DEF CoreTypes
<1>6. NumberTypes'
    BY <1>1, <1>2, <1>3, ConstantsAssumption DEF NumberTypes
<1>7. TCBTypes'
    BY <1>1, <1>2, <1>3, PlaceTypes, CallTypes DEF TCBTypes
<1>8. CorePlaces'
    BY <1>1, <1>2, <1>3 DEF CoreTypes, TCBTypes, CorePlaces, OnCpu, Requesting,
       InHand
<1>9. HandFilled' /\ HelperSaved' /\ DoomedFilled'
    BY <1>1, <1>2, <1>3 DEF CoreTypes, TCBTypes, HandFilled, HelperSaved,
       DoomedFilled, QueueTypes
<1>10. ReaperRuns'
    BY <1>1, <1>2, <1>3, ConstantsAssumption DEF TCBTypes, ReaperRuns, Free,
       Ready, Reapable, OnCpu, Requesting, InHand, Sleeping, WaitingOn, NoCall
<1>11. BootAlone'
    BY <1>1, <1>2, <1>3, BootKept DEF TCBTypes, CoreTypes, Free, Ready, Reapable,
       OnCpu, Requesting, InHand, Sleeping, WaitingOn, Doomed
<1> QED
    BY <1>4, <1>5, <1>6, <1>7, <1>8, <1>9, <1>10, <1>11 DEF IndInv, TypeOK

\* The request of sleep().
LEMMA HelperSleepInv ==
    ASSUME IndInv, NEW c \in Cores, HelperSleep(c)
    PROVE  IndInv'
<1> DEFINE t == hand[c]
<1>1. /\ cpu[c] = NoTCB /\ hpc[c] = "doit"
      /\ hand' = [hand EXCEPT ![c] = NoTCB]
      /\ call' = [call EXCEPT ![t] = NoCall]
      /\ hpc' = [hpc EXCEPT ![c] = "pick"]
      /\ at_jiffies' = [at_jiffies EXCEPT ![t] =
                        WakeTime(jiffies, JiffiesPerSecond, call[t].sec, Word)]
      /\ sleep_queues' = [sleep_queues EXCEPT ![c] =
            AddSleeper(@, at_jiffies, t,
                       WakeTime(jiffies, JiffiesPerSecond, call[t].sec, Word))]
      /\ place' = [place EXCEPT ![t] = Sleeping(c)]
      /\ UNCHANGED <<cpu, active_thread, help_requests, flagVars, esp0, ready_queue,
                     n, waiting, reaper_data, pc, reaping, calls, jiffies>>
    BY DEF HelperSleep, DoIt, Published, HelperAt
<1>2. /\ CoreTypes /\ QueueTypes /\ NumberTypes /\ TCBTypes /\ CorePlaces
      /\ QueuePlaces /\ HandFilled /\ DoomedFilled /\ HelperSaved /\ ReaperRuns
      /\ BootAlone
    BY DEF IndInv, TypeOK
<1>3. t \in TCBs /\ place[t] = InHand(c) /\ Loose(place[t])
    BY <1>1, <1>2, LoosePlaces DEF CoreTypes, HandFilled, CorePlaces
<1>4. QueuePlaces' /\ QueueTypes'
    <2>1. WakeTime(jiffies, JiffiesPerSecond, call[t].sec, Word) \in 0..(Word - 1)
        <3>1. call[t].sec \in Nat
            BY <1>2, <1>3, ConstantsAssumption DEF TCBTypes, Calls
        <3>2. jiffies \in Nat
            BY <1>2, ConstantsAssumption DEF NumberTypes
        <3> QED
            BY <3>1, <3>2, WakeTimeType
    <2>2. PICK i \in 1..(Len(sleep_queues[c]) + 1) :
            sleep_queues' = [sleep_queues EXCEPT ![c] = InsertBefore(@, i, t)]
        <3> DEFINE when == WakeTime(jiffies, JiffiesPerSecond, call[t].sec, Word)
        <3>1. when \in Int /\ sleep_queues[c] \in Seq(TCBs) /\ at_jiffies \in [TCBs -> Int]
            BY <1>2, <2>1, ConstantsAssumption DEF QueueTypes, NumberTypes
        <3>2. InsertPosition(sleep_queues[c], at_jiffies, when)
                \in 1..(Len(sleep_queues[c]) + 1)
            BY <3>1, InsertPositionProperties
        <3> QED
            BY <1>1, <3>2 DEF AddSleeper
    <2> QED
        BY <1>1, <1>2, <1>3, <2>2, SleepQueueGains DEF TCBTypes
<1>5. CoreTypes'
    BY <1>1, <1>2, <1>3 DEF CoreTypes
<1>6. NumberTypes'
    <2>1. WakeTime(jiffies, JiffiesPerSecond, call[t].sec, Word) \in 0..(Word - 1)
        <3>1. call[t].sec \in Nat
            BY <1>2, <1>3, ConstantsAssumption DEF TCBTypes, Calls
        <3>2. jiffies \in Nat
            BY <1>2, ConstantsAssumption DEF NumberTypes
        <3> QED
            BY <3>1, <3>2, WakeTimeType
    <2> QED
        BY <1>1, <1>2, <1>3, <2>1 DEF NumberTypes
<1>7. TCBTypes'
    BY <1>1, <1>2, <1>3, PlaceTypes, CallTypes DEF TCBTypes
<1>8. CorePlaces'
    BY <1>1, <1>2, <1>3 DEF CoreTypes, TCBTypes, CorePlaces, OnCpu, Requesting,
       InHand
<1>9. HandFilled' /\ HelperSaved' /\ DoomedFilled'
    BY <1>1, <1>2, <1>3 DEF CoreTypes, TCBTypes, HandFilled, HelperSaved,
       DoomedFilled, QueueTypes
<1>10. ReaperRuns'
    BY <1>1, <1>2, <1>3, ConstantsAssumption DEF TCBTypes, ReaperRuns, Free,
       Ready, Reapable, OnCpu, Requesting, InHand, Sleeping, WaitingOn, NoCall
<1>11. BootAlone'
    BY <1>1, <1>2, <1>3, BootKept DEF TCBTypes, CoreTypes, Free, Ready, Reapable,
       OnCpu, Requesting, InHand, Sleeping, WaitingOn, Doomed
<1> QED
    BY <1>4, <1>5, <1>6, <1>7, <1>8, <1>9, <1>10, <1>11 DEF IndInv, TypeOK

\* The request of down() finds a token.
LEMMA HelperDownTakesInv ==
    ASSUME IndInv, NEW c \in Cores, HelperDownTakes(c)
    PROVE  IndInv'
<1> DEFINE t == hand[c]
<1>1. /\ cpu[c] = NoTCB /\ hpc[c] = "doit"
      /\ call' = [call EXCEPT ![t] = NoCall]
      /\ hpc' = [hpc EXCEPT ![c] = "add"]
      /\ n[call[t].sem] > 0
      /\ n' = [n EXCEPT ![call[t].sem] = @ - 1]
      /\ UNCHANGED <<cpu, active_thread, help_requests, flagVars, esp0, hand,
                     ready_queue, sleep_queues, at_jiffies, waiting,
                     reaper_data, pc, reaping, calls, place, jiffies>>
    BY DEF HelperDownTakes, DoIt, HelperAt
<1>2. /\ CoreTypes /\ QueueTypes /\ NumberTypes /\ TCBTypes /\ CorePlaces
      /\ QueuePlaces /\ HandFilled /\ DoomedFilled /\ HelperSaved /\ ReaperRuns
      /\ BootAlone
    BY DEF IndInv, TypeOK
<1>3. t \in TCBs /\ place[t] = InHand(c) /\ Loose(place[t])
    BY <1>1, <1>2, LoosePlaces DEF CoreTypes, HandFilled, CorePlaces
<1>4. QueuePlaces' /\ QueueTypes'
    BY <1>1, <1>2 DEF QueuePlaces, QueueTypes
<1>5. CoreTypes'
    BY <1>1, <1>2, <1>3 DEF CoreTypes
<1>6. NumberTypes'
    BY <1>1, <1>2, <1>3 DEF NumberTypes, TCBTypes, Calls
<1>7. TCBTypes'
    BY <1>1, <1>2, <1>3, PlaceTypes, CallTypes DEF TCBTypes
<1>8. CorePlaces'
    BY <1>1, <1>2, <1>3 DEF CoreTypes, TCBTypes, CorePlaces, OnCpu, Requesting,
       InHand
<1>9. HandFilled' /\ HelperSaved' /\ DoomedFilled'
    BY <1>1, <1>2, <1>3 DEF CoreTypes, TCBTypes, HandFilled, HelperSaved,
       DoomedFilled, QueueTypes
<1>10. ReaperRuns'
    BY <1>1, <1>2, <1>3, ConstantsAssumption DEF TCBTypes, ReaperRuns, Free,
       Ready, Reapable, OnCpu, Requesting, InHand, Sleeping, WaitingOn, NoCall
<1>11. BootAlone'
    BY <1>1, <1>2, BootKept DEF CoreTypes
<1> QED
    BY <1>4, <1>5, <1>6, <1>7, <1>8, <1>9, <1>10, <1>11 DEF IndInv, TypeOK

\* The request of down() finds no token.
LEMMA HelperDownWaitsInv ==
    ASSUME IndInv, NEW c \in Cores, HelperDownWaits(c)
    PROVE  IndInv'
<1> DEFINE t == hand[c]
<1>1. /\ cpu[c] = NoTCB /\ hpc[c] = "doit"
      /\ hand' = [hand EXCEPT ![c] = NoTCB]
      /\ call' = [call EXCEPT ![t] = NoCall]
      /\ hpc' = [hpc EXCEPT ![c] = "pick"]
      /\ waiting' = [waiting EXCEPT ![call[t].sem] = Append(@, t)]
      /\ place' = [place EXCEPT ![t] = WaitingOn(call[t].sem)]
      /\ UNCHANGED <<cpu, active_thread, help_requests, flagVars, esp0, ready_queue,
                     sleep_queues, at_jiffies, n, reaper_data, pc, reaping,
                     calls, jiffies>>
    BY DEF HelperDownWaits, DoIt, Waits, Published, HelperAt
<1>2. /\ CoreTypes /\ QueueTypes /\ NumberTypes /\ TCBTypes /\ CorePlaces
      /\ QueuePlaces /\ HandFilled /\ DoomedFilled /\ HelperSaved /\ ReaperRuns
      /\ BootAlone
    BY DEF IndInv, TypeOK
<1>3. /\ t \in TCBs /\ place[t] = InHand(c) /\ Loose(place[t])
      /\ call[t].sem \in Sems
    BY <1>1, <1>2, LoosePlaces DEF CoreTypes, HandFilled, CorePlaces, TCBTypes, Calls
<1>4. QueuePlaces' /\ QueueTypes'
    BY <1>1, <1>2, <1>3, WaitingQueueGains DEF TCBTypes
<1>5. CoreTypes'
    BY <1>1, <1>2, <1>3 DEF CoreTypes
<1>6. NumberTypes'
    BY <1>1, <1>2, <1>3, ConstantsAssumption DEF NumberTypes
<1>7. TCBTypes'
    BY <1>1, <1>2, <1>3, PlaceTypes, CallTypes DEF TCBTypes
<1>8. CorePlaces'
    BY <1>1, <1>2, <1>3 DEF CoreTypes, TCBTypes, CorePlaces, OnCpu, Requesting,
       InHand
<1>9. HandFilled' /\ HelperSaved' /\ DoomedFilled'
    BY <1>1, <1>2, <1>3 DEF CoreTypes, TCBTypes, HandFilled, HelperSaved,
       DoomedFilled, QueueTypes
<1>10. ReaperRuns'
    BY <1>1, <1>2, <1>3, ConstantsAssumption DEF TCBTypes, ReaperRuns, Free,
       Ready, Reapable, OnCpu, Requesting, InHand, Sleeping, WaitingOn, NoCall
<1>11. BootAlone'
    BY <1>1, <1>2, <1>3, BootKept DEF TCBTypes, CoreTypes, Free, Ready, Reapable,
       OnCpu, Requesting, InHand, Sleeping, WaitingOn, Doomed
<1> QED
    BY <1>4, <1>5, <1>6, <1>7, <1>8, <1>9, <1>10, <1>11 DEF IndInv, TypeOK

\* The request of stop().
LEMMA HelperStopInv ==
    ASSUME IndInv, NEW c \in Cores, HelperStop(c)
    PROVE  IndInv'
<1> DEFINE t == hand[c]
<1>1. /\ cpu[c] = NoTCB /\ hpc[c] = "doit"
      /\ hand' = [hand EXCEPT ![c] = NoTCB]
      /\ call' = [call EXCEPT ![t] = NoCall]
      /\ call[t].op = "stop"
      /\ hpc' = [hpc EXCEPT ![c] = "up"]
      /\ reaper_data' = Append(reaper_data, t)
      /\ place' = [place EXCEPT ![t] = Reapable]
      /\ UNCHANGED <<cpu, active_thread, help_requests, flagVars, esp0, ready_queue,
                     sleep_queues, at_jiffies, n, waiting, pc, reaping,
                     calls, jiffies>>
    BY DEF HelperStop, DoIt, Published, HelperAt
<1>2. /\ CoreTypes /\ QueueTypes /\ NumberTypes /\ TCBTypes /\ CorePlaces
      /\ QueuePlaces /\ HandFilled /\ DoomedFilled /\ HelperSaved /\ ReaperRuns
      /\ BootAlone
    BY DEF IndInv, TypeOK
<1>3. /\ t \in TCBs /\ place[t] = InHand(c) /\ Loose(place[t])
      /\ t # Reaper
    BY <1>1, <1>2, LoosePlaces DEF CoreTypes, HandFilled, CorePlaces, ReaperRuns
<1>4. QueuePlaces' /\ QueueTypes'
    BY <1>1, <1>2, <1>3, ReaperQueueGains DEF TCBTypes
<1>5. CoreTypes'
    BY <1>1, <1>2, <1>3 DEF CoreTypes
<1>6. NumberTypes'
    BY <1>1, <1>2, <1>3, ConstantsAssumption DEF NumberTypes
<1>7. TCBTypes'
    BY <1>1, <1>2, <1>3, PlaceTypes, CallTypes DEF TCBTypes
<1>8. CorePlaces'
    BY <1>1, <1>2, <1>3 DEF CoreTypes, TCBTypes, CorePlaces, OnCpu, Requesting,
       InHand
<1>9. HandFilled' /\ HelperSaved' /\ DoomedFilled'
    BY <1>1, <1>2, <1>3 DEF CoreTypes, TCBTypes, HandFilled, HelperSaved,
       DoomedFilled, QueueTypes
<1>10. ReaperRuns'
    BY <1>1, <1>2, <1>3, ConstantsAssumption DEF TCBTypes, ReaperRuns, Free,
       Ready, Reapable, OnCpu, Requesting, InHand, Sleeping, WaitingOn, NoCall
<1>11. BootAlone'
    BY <1>1, <1>2, <1>3, BootKept DEF TCBTypes, CoreTypes, Free, Ready, Reapable,
       OnCpu, Requesting, InHand, Sleeping, WaitingOn, Doomed
<1> QED
    BY <1>4, <1>5, <1>6, <1>7, <1>8, <1>9, <1>10, <1>11 DEF IndInv, TypeOK

\* The helper makes the TCB in its local variable ready.
LEMMA HelperAddInv ==
    ASSUME IndInv, NEW c \in Cores, HelperAdd(c)
    PROVE  IndInv'
<1> DEFINE t == hand[c]
<1>1. /\ cpu[c] = NoTCB /\ hpc[c] = "add"
      /\ hpc' = [hpc EXCEPT ![c] = "pick"]
      /\ hand' = [hand EXCEPT ![c] = NoTCB]
      /\ ready_queue' = Append(ready_queue, t)
      /\ place' = [place EXCEPT ![t] = Ready]
      /\ UNCHANGED <<cpu, active_thread, help_requests, flagVars, esp0,
                     sleep_queues, at_jiffies, n, waiting, reaper_data, pc,
                     call, reaping, calls, jiffies>>
    BY DEF HelperAdd, AddReady, HelperAt
<1>2. /\ CoreTypes /\ QueueTypes /\ NumberTypes /\ TCBTypes /\ CorePlaces
      /\ QueuePlaces /\ HandFilled /\ DoomedFilled /\ HelperSaved /\ ReaperRuns
      /\ BootAlone
    BY DEF IndInv, TypeOK
<1>3. t \in TCBs /\ place[t] = InHand(c) /\ Loose(place[t])
    BY <1>1, <1>2, LoosePlaces DEF CoreTypes, CorePlaces, HandFilled
<1>4. QueuePlaces' /\ QueueTypes'
    BY <1>1, <1>2, <1>3, ReadyQueueGains DEF TCBTypes
<1>5. CoreTypes'
    BY <1>1, <1>2, <1>3 DEF CoreTypes
<1>6. NumberTypes'
    BY <1>1, <1>2, <1>3, ConstantsAssumption DEF NumberTypes
<1>7. TCBTypes'
    BY <1>1, <1>2, <1>3, PlaceTypes, CallTypes DEF TCBTypes
<1>8. CorePlaces'
    BY <1>1, <1>2, <1>3 DEF CoreTypes, TCBTypes, CorePlaces, OnCpu, Requesting,
       InHand
<1>9. HandFilled' /\ HelperSaved' /\ DoomedFilled'
    BY <1>1, <1>2, <1>3 DEF CoreTypes, TCBTypes, HandFilled, HelperSaved,
       DoomedFilled, QueueTypes
<1>10. ReaperRuns'
    BY <1>1, <1>2, <1>3, ConstantsAssumption DEF TCBTypes, ReaperRuns, Free,
       Ready, Reapable, OnCpu, Requesting, InHand, Sleeping, WaitingOn, NoCall
<1>11. BootAlone'
    BY <1>1, <1>2, <1>3, BootKept DEF TCBTypes, CoreTypes, Free, Ready, Reapable,
       OnCpu, Requesting, InHand, Sleeping, WaitingOn, Doomed
<1> QED
    BY <1>4, <1>5, <1>6, <1>7, <1>8, <1>9, <1>10, <1>11 DEF IndInv, TypeOK

\* The helper takes the head of the ready queue.
LEMMA HelperPickInv ==
    ASSUME IndInv, NEW c \in Cores, HelperPick(c)
    PROVE  IndInv'
<1> DEFINE t == Head(ready_queue)
<1>1. /\ cpu[c] = NoTCB /\ hpc[c] = "pick" /\ ready_queue # <<>>
      /\ hpc' = [hpc EXCEPT ![c] = "dispatch"]
      /\ hand' = [hand EXCEPT ![c] = Head(ready_queue)]
      /\ ready_queue' = Tail(ready_queue)
      /\ place' = [place EXCEPT ![Head(ready_queue)] = InHand(c)]
      /\ UNCHANGED <<cpu, active_thread, help_requests, flagVars, esp0,
                     sleep_queues, at_jiffies, n, waiting, reaper_data, pc,
                     call, reaping, calls, jiffies>>
    BY DEF HelperPick, HelperAt
<1>2. /\ CoreTypes /\ QueueTypes /\ NumberTypes /\ TCBTypes /\ CorePlaces
      /\ QueuePlaces /\ HandFilled /\ DoomedFilled /\ HelperSaved /\ ReaperRuns
      /\ BootAlone
    BY DEF IndInv, TypeOK
<1>3. /\ t \in TCBs /\ place[t] = Ready
      /\ QueuePlaces' /\ QueueTypes'
    BY <1>1, <1>2, ReadyQueueLoses DEF TCBTypes
<1>4. QueuePlaces' /\ QueueTypes'
    BY <1>3
<1>5. CoreTypes'
    BY <1>1, <1>2, <1>3 DEF CoreTypes
<1>6. NumberTypes'
    BY <1>1, <1>2, <1>3, ConstantsAssumption DEF NumberTypes
<1>7. TCBTypes'
    BY <1>1, <1>2, <1>3, PlaceTypes, CallTypes DEF TCBTypes
<1>8. CorePlaces'
    BY <1>1, <1>2, <1>3, ConstantsAssumption DEF CoreTypes, TCBTypes, CorePlaces,
       OnCpu, Requesting, InHand, Ready
<1>9. HandFilled' /\ HelperSaved' /\ DoomedFilled'
    BY <1>1, <1>2, <1>3, ConstantsAssumption DEF CoreTypes, TCBTypes, HandFilled,
       HelperSaved, DoomedFilled, QueueTypes
<1>10. ReaperRuns'
    BY <1>1, <1>2, <1>3, ConstantsAssumption DEF TCBTypes, ReaperRuns, Free,
       Ready, Reapable, OnCpu, Requesting, InHand, Sleeping, WaitingOn, NoCall
<1>11. BootAlone'
    BY <1>1, <1>2, <1>3, BootKept DEF TCBTypes, CoreTypes, Free, Ready, Reapable,
       OnCpu, Requesting, InHand, Sleeping, WaitingOn, Doomed
<1> QED
    BY <1>4, <1>5, <1>6, <1>7, <1>8, <1>9, <1>10, <1>11 DEF IndInv, TypeOK

\* cli(), and the core belongs to the TCB in its local variable.
LEMMA HelperDispatchInv ==
    ASSUME IndInv, NEW c \in Cores, HelperDispatch(c)
    PROVE  IndInv'
<1> DEFINE t == hand[c]
<1>1. /\ cpu[c] = NoTCB /\ hpc[c] = "dispatch"
      /\ hpc' = [hpc EXCEPT ![c] = "switch"]
      /\ active_thread' = [active_thread EXCEPT ![c] = t]
      /\ esp0' = [esp0 EXCEPT ![c] = t]
      /\ interrupts' = [interrupts EXCEPT ![c] = FALSE]
      /\ UNCHANGED <<cpu, help_requests, eflags, helper_eflags, hand, ready_queue,
                     sleep_queues, at_jiffies, n, waiting, reaper_data, pc, call,
                     reaping, calls, place, jiffies>>
    BY DEF HelperDispatch, HelperAt, queueVars, tcbVars
<1>2. /\ CoreTypes /\ QueueTypes /\ NumberTypes /\ TCBTypes /\ CorePlaces
      /\ QueuePlaces /\ HandFilled /\ DoomedFilled /\ HelperSaved /\ ReaperRuns
      /\ BootAlone
    BY DEF IndInv, TypeOK
<1>3. t \in TCBs /\ place[t] = InHand(c) /\ place \in [TCBs -> Places]
    BY <1>1, <1>2 DEF CoreTypes, CorePlaces, HandFilled, TCBTypes
<1>4. QueuePlaces' /\ QueueTypes'
    BY <1>1, <1>2 DEF QueuePlaces, QueueTypes
<1>5. CoreTypes'
    BY <1>1, <1>2, <1>3 DEF CoreTypes
<1>6. NumberTypes'
    BY <1>1, <1>2, <1>3, ConstantsAssumption DEF NumberTypes
<1>7. TCBTypes'
    BY <1>1, <1>2, <1>3, PlaceTypes, CallTypes DEF TCBTypes
<1>8. CorePlaces'
    BY <1>1, <1>2, <1>3 DEF CoreTypes, TCBTypes, CorePlaces, OnCpu, Requesting,
       InHand
<1>9. HandFilled' /\ HelperSaved' /\ DoomedFilled'
    BY <1>1, <1>2, <1>3 DEF CoreTypes, TCBTypes, HandFilled, HelperSaved,
       DoomedFilled, QueueTypes
<1>10. ReaperRuns'
    BY <1>1, <1>2, <1>3, ConstantsAssumption DEF TCBTypes, ReaperRuns, Free,
       Ready, Reapable, OnCpu, Requesting, InHand, Sleeping, WaitingOn, NoCall
<1>11. BootAlone'
    BY <1>1, <1>2, BootKept DEF CoreTypes
<1> QED
    BY <1>4, <1>5, <1>6, <1>7, <1>8, <1>9, <1>10, <1>11 DEF IndInv, TypeOK

\* The helper switches to the TCB in its local variable.
LEMMA HelperSwitchInv ==
    ASSUME IndInv, NEW c \in Cores, HelperSwitch(c)
    PROVE  IndInv'
<1> DEFINE t == hand[c]
<1>1. /\ cpu[c] = NoTCB /\ hpc[c] = "switch"
      /\ hpc' = [hpc EXCEPT ![c] = "sti"]
      /\ cpu' = [cpu EXCEPT ![c] = t]
      /\ helper_eflags' = [helper_eflags EXCEPT ![c] = interrupts[c]]
      /\ interrupts' = [interrupts EXCEPT ![c] = eflags[t]]
      /\ hand' = [hand EXCEPT ![c] = NoTCB]
      /\ place' = [place EXCEPT ![t] = OnCpu(c)]
      /\ UNCHANGED <<active_thread, help_requests, eflags, esp0, ready_queue, sleep_queues, at_jiffies, n,
                     waiting, reaper_data, pc, call, reaping, calls, jiffies>>
    BY DEF HelperSwitch, HelperAt, queueVars
<1>2. /\ CoreTypes /\ QueueTypes /\ NumberTypes /\ TCBTypes /\ CorePlaces
      /\ QueuePlaces /\ HandFilled /\ DoomedFilled /\ HelperSaved /\ ReaperRuns
      /\ BootAlone
    BY DEF IndInv, TypeOK
<1>3. t \in TCBs /\ place[t] = InHand(c) /\ Loose(place[t])
    BY <1>1, <1>2, LoosePlaces DEF CoreTypes, CorePlaces, HandFilled
<1>4. QueuePlaces' /\ QueueTypes'
    BY <1>1, <1>2, <1>3, QueuesKept DEF TCBTypes
<1>5. CoreTypes'
    BY <1>1, <1>2, <1>3 DEF CoreTypes
<1>6. NumberTypes'
    BY <1>1, <1>2, <1>3, ConstantsAssumption DEF NumberTypes
<1>7. TCBTypes'
    BY <1>1, <1>2, <1>3, PlaceTypes, CallTypes DEF TCBTypes
<1>8. CorePlaces'
    BY <1>1, <1>2, <1>3 DEF CoreTypes, TCBTypes, CorePlaces, OnCpu, Requesting,
       InHand
<1>9. HandFilled' /\ HelperSaved' /\ DoomedFilled'
    <2>1. pc[t] # "add"
        BY <1>2, <1>3, ConstantsAssumption DEF HandFilled, CorePlaces, InHand, OnCpu
    <2>2. HandFilled'
        <3>1. ASSUME NEW d \in Cores
              PROVE  /\ (/\ cpu'[d] = NoTCB
                         /\ hpc'[d] \in {"doit", "add", "dispatch", "switch"})
                            => hand'[d] # NoTCB
                     /\ cpu'[d] # NoTCB /\ pc[cpu'[d]] = "add" => hand'[d] # NoTCB
            BY <1>1, <1>2, <1>3, <2>1, ConstantsAssumption DEF CoreTypes, HandFilled
        <3>2. ASSUME NEW u \in TCBs, pc[u] = "add"
              PROVE  \E d \in Cores : cpu'[d] = u
            BY <1>1, <1>2, <1>3, <3>2, ConstantsAssumption DEF CoreTypes, HandFilled
        <3> QED
            BY <1>1, <3>1, <3>2 DEF HandFilled
    <2>3. HelperSaved' /\ DoomedFilled'
        BY <1>1, <1>2, <1>3 DEF CoreTypes, HelperSaved, DoomedFilled
    <2> QED
        BY <2>2, <2>3
<1>10. ReaperRuns'
    BY <1>1, <1>2, <1>3, ConstantsAssumption DEF TCBTypes, ReaperRuns, Free,
       Ready, Reapable, OnCpu, Requesting, InHand, Sleeping, WaitingOn, NoCall
<1>11. BootAlone'
    BY <1>1, <1>2, <1>3, BootKept DEF TCBTypes, CoreTypes, Free, Ready, Reapable,
       OnCpu, Requesting, InHand, Sleeping, WaitingOn, Doomed
<1> QED
    BY <1>4, <1>5, <1>6, <1>7, <1>8, <1>9, <1>10, <1>11 DEF IndInv, TypeOK

\* Semaphore::up takes a waiter.
LEMMA UpWakesFacts ==
    ASSUME IndInv, NEW c \in Cores, NEW s \in Sems, UpWakes(c, s),
           UNCHANGED <<ready_queue, sleep_queues, reaper_data, reaping>>
    PROVE  LET t == Head(waiting[s]) IN
           /\ t \in TCBs /\ place[t] = WaitingOn(s) /\ t # NoTCB
           /\ QueuePlaces' /\ QueueTypes'
<1>1. QueueTypes /\ QueuePlaces /\ place \in [TCBs -> Places]
    BY DEF IndInv, TypeOK, TCBTypes
<1>2. /\ waiting[s] # <<>>
      /\ waiting' = [waiting EXCEPT ![s] = Tail(@)]
      /\ place' = [place EXCEPT ![Head(waiting[s])] = InHand(c)]
    BY DEF UpWakes
<1> QED
    BY <1>1, <1>2, WaitingQueueLoses, ConstantsAssumption

\* The helper's up() finds the reaper waiting.
LEMMA HelperUpWakesInv ==
    ASSUME IndInv, NEW c \in Cores, HelperAt(c, "up"), UpWakes(c, ReaperSem),
           hpc' = [hpc EXCEPT ![c] = "add"],
           UNCHANGED <<cpu, active_thread, help_requests, flagVars, esp0,
                       ready_queue, sleep_queues, at_jiffies, reaper_data, pc, call,
                       reaping, calls, jiffies>>
    PROVE  IndInv'
<1> DEFINE t == Head(waiting[ReaperSem])
<1>1. /\ cpu[c] = NoTCB /\ hpc[c] = "up"
      /\ hpc' = [hpc EXCEPT ![c] = "add"]
      /\ hand' = [hand EXCEPT ![c] = t]
      /\ place' = [place EXCEPT ![t] = InHand(c)]
      /\ UNCHANGED <<cpu, active_thread, help_requests, flagVars, esp0,
                     ready_queue, sleep_queues, at_jiffies, reaper_data, pc, call,
                     reaping, calls, jiffies, n>>
    BY DEF HelperAt, UpWakes
<1>2. /\ CoreTypes /\ QueueTypes /\ NumberTypes /\ TCBTypes /\ CorePlaces
      /\ QueuePlaces /\ HandFilled /\ DoomedFilled /\ HelperSaved /\ ReaperRuns
      /\ BootAlone
    BY DEF IndInv, TypeOK
<1>3. t \in TCBs /\ place[t] = WaitingOn(ReaperSem) /\ t # NoTCB
    BY <1>1, UpWakesFacts, ConstantsAssumption
<1>4. QueuePlaces' /\ QueueTypes'
    BY <1>1, UpWakesFacts, ConstantsAssumption
<1>5. CoreTypes'
    BY <1>1, <1>2, <1>3 DEF CoreTypes
<1>6. NumberTypes'
    BY <1>1, <1>2, <1>3, ConstantsAssumption DEF NumberTypes
<1>7. TCBTypes'
    BY <1>1, <1>2, <1>3, PlaceTypes, CallTypes DEF TCBTypes
<1>8. CorePlaces'
    BY <1>1, <1>2, <1>3 DEF CoreTypes, TCBTypes, CorePlaces, OnCpu, Requesting,
       InHand, WaitingOn
<1>9. HandFilled' /\ HelperSaved' /\ DoomedFilled'
    BY <1>1, <1>2, <1>3 DEF CoreTypes, TCBTypes, HandFilled, HelperSaved,
       DoomedFilled, QueueTypes
<1>10. ReaperRuns'
    BY <1>1, <1>2, <1>3, ConstantsAssumption DEF TCBTypes, ReaperRuns, Free,
       Ready, Reapable, OnCpu, Requesting, InHand, Sleeping, WaitingOn, NoCall
<1>11. BootAlone'
    BY <1>1, <1>2, <1>3, BootKept DEF TCBTypes, CoreTypes, Free, Ready, Reapable,
       OnCpu, Requesting, InHand, Sleeping, WaitingOn, Doomed
<1> QED
    BY <1>4, <1>5, <1>6, <1>7, <1>8, <1>9, <1>10, <1>11 DEF IndInv, TypeOK

\* The helper's up() finds nobody waiting.
LEMMA HelperUpCountsInv ==
    ASSUME IndInv, NEW c \in Cores, HelperAt(c, "up"), UpCounts(ReaperSem),
           hpc' = [hpc EXCEPT ![c] = "pick"],
           UNCHANGED <<cpu, active_thread, help_requests, flagVars, esp0,
                       ready_queue, sleep_queues, at_jiffies, reaper_data, pc, call,
                       reaping, calls, jiffies>>
    PROVE  IndInv'
<1>1. /\ cpu[c] = NoTCB /\ hpc[c] = "up"
      /\ hpc' = [hpc EXCEPT ![c] = "pick"]
      /\ n' = [n EXCEPT ![ReaperSem] = @ + 1]
      /\ UNCHANGED <<cpu, active_thread, help_requests, flagVars, esp0,
                     ready_queue, sleep_queues, at_jiffies, reaper_data, pc, call,
                     reaping, calls, jiffies, waiting, hand, place>>
    BY DEF HelperAt, UpCounts
<1>2. /\ CoreTypes /\ QueueTypes /\ NumberTypes /\ TCBTypes /\ CorePlaces
      /\ QueuePlaces /\ HandFilled /\ DoomedFilled /\ HelperSaved /\ ReaperRuns
      /\ BootAlone
    BY DEF IndInv, TypeOK
<1>3. place \in [TCBs -> Places]
    BY <1>2 DEF TCBTypes
<1>4. QueuePlaces' /\ QueueTypes'
    BY <1>1, <1>2 DEF QueuePlaces, QueueTypes
<1>5. CoreTypes'
    BY <1>1, <1>2, <1>3 DEF CoreTypes
<1>6. NumberTypes'
    BY <1>1, <1>2, <1>3, ConstantsAssumption DEF NumberTypes
<1>7. TCBTypes'
    BY <1>1, <1>2, <1>3, PlaceTypes, CallTypes DEF TCBTypes
<1>8. CorePlaces'
    BY <1>1, <1>2, <1>3 DEF CoreTypes, TCBTypes, CorePlaces, OnCpu, Requesting,
       InHand
<1>9. HandFilled' /\ HelperSaved' /\ DoomedFilled'
    BY <1>1, <1>2, <1>3 DEF CoreTypes, TCBTypes, HandFilled, HelperSaved,
       DoomedFilled, QueueTypes
<1>10. ReaperRuns'
    BY <1>1, <1>2, <1>3, ConstantsAssumption DEF TCBTypes, ReaperRuns, Free,
       Ready, Reapable, OnCpu, Requesting, InHand, Sleeping, WaitingOn, NoCall
<1>11. BootAlone'
    BY <1>1, <1>2, BootKept DEF CoreTypes
<1> QED
    BY <1>4, <1>5, <1>6, <1>7, <1>8, <1>9, <1>10, <1>11 DEF IndInv, TypeOK

-----------------------------------------------------------------------------
(* The steps of a thread *)

\* The first half of State::block.  The reaper only ever blocks in down().
LEMMA BlockInv ==
    ASSUME IndInv, NEW c \in Cores, NEW request \in Calls,
           cpu[c] # NoTCB, Block(c, request), calls' \in [TCBs -> Nat],
           cpu[c] = Reaper => request.op = "down"
    PROVE  IndInv'
<1> DEFINE t == cpu[c]
<1>1. /\ cpu[c] # NoTCB
      /\ active_thread' = [active_thread EXCEPT ![c] = NoTCB]
      /\ call' = [call EXCEPT ![t] = request]
      /\ pc' = [pc EXCEPT ![t] = "switch"]
      /\ UNCHANGED <<cpu, help_requests, interrupts, eflags, helper_eflags, esp0,
                     hpc, hand, ready_queue, sleep_queues, at_jiffies, n, waiting,
                     reaper_data, reaping, place, jiffies>>
    BY DEF Block, queueVars
<1>2. /\ CoreTypes /\ QueueTypes /\ NumberTypes /\ TCBTypes /\ CorePlaces
      /\ QueuePlaces /\ HandFilled /\ DoomedFilled /\ HelperSaved /\ ReaperRuns
      /\ BootAlone
    BY DEF IndInv, TypeOK
<1>3. t \in TCBs /\ place[t] = OnCpu(c) /\ Loose(place[t])
    BY <1>1, <1>2, LoosePlaces DEF CoreTypes, CorePlaces
<1>4. QueuePlaces' /\ QueueTypes'
    BY <1>1, <1>2 DEF QueuePlaces, QueueTypes
<1>5. CoreTypes'
    BY <1>1, <1>2, <1>3 DEF CoreTypes
<1>6. NumberTypes'
    BY <1>1, <1>2, <1>3, ConstantsAssumption DEF NumberTypes
<1>7. TCBTypes'
    BY <1>1, <1>2, <1>3, PlaceTypes, CallTypes DEF TCBTypes
<1>8. CorePlaces'
    BY <1>1, <1>2, <1>3 DEF CoreTypes, TCBTypes, CorePlaces, OnCpu, Requesting,
       InHand
<1>9. HandFilled' /\ HelperSaved' /\ DoomedFilled'
    BY <1>1, <1>2, <1>3 DEF CoreTypes, TCBTypes, HandFilled, HelperSaved,
       DoomedFilled, QueueTypes
<1>10. ReaperRuns'
    BY <1>1, <1>2, <1>3, ConstantsAssumption DEF TCBTypes, ReaperRuns, Free,
       Ready, Reapable, OnCpu, Requesting, InHand, Sleeping, WaitingOn, NoCall
<1>11. BootAlone'
    BY <1>1, <1>2, BootKept DEF CoreTypes
<1> QED
    BY <1>4, <1>5, <1>6, <1>7, <1>8, <1>9, <1>10, <1>11 DEF IndInv, TypeOK

\* The second half of State::block.
LEMMA SwitchToHelperInv ==
    ASSUME IndInv, NEW c \in Cores, SwitchToHelper(c)
    PROVE  IndInv'
<1> DEFINE t == cpu[c]
<1>1. /\ cpu[c] # NoTCB /\ pc[t] = "switch"
      /\ help_requests' = [help_requests EXCEPT ![c] = t]
      /\ pc' = [pc EXCEPT ![t] = BehindBlock(t)]
      /\ cpu' = [cpu EXCEPT ![c] = NoTCB]
      /\ eflags' = [eflags EXCEPT ![t] = interrupts[c]]
      /\ interrupts' = [interrupts EXCEPT ![c] = helper_eflags[c]]
      /\ place' = [place EXCEPT ![t] = Requesting(c)]
      /\ UNCHANGED <<active_thread, helper_eflags, esp0, hpc, hand, ready_queue,
                     sleep_queues, at_jiffies, n, waiting, reaper_data, call,
                     reaping, calls, jiffies>>
    BY DEF SwitchToHelper, Running, queueVars
<1>2. /\ CoreTypes /\ QueueTypes /\ NumberTypes /\ TCBTypes /\ CorePlaces
      /\ QueuePlaces /\ HandFilled /\ DoomedFilled /\ HelperSaved /\ ReaperRuns
      /\ BootAlone
    BY DEF IndInv, TypeOK
<1>3. t \in TCBs /\ place[t] = OnCpu(c) /\ Loose(place[t])
    BY <1>1, <1>2, LoosePlaces DEF CoreTypes, CorePlaces
<1>12. /\ BehindBlock(t) \in {"run", "stopped", "remove"}
       /\ t = Reaper => BehindBlock(t) = "remove"
    BY <1>2 DEF BehindBlock, ReaperRuns
<1>4. QueuePlaces' /\ QueueTypes'
    BY <1>1, <1>2, <1>3, QueuesKept DEF TCBTypes
<1>5. CoreTypes'
    BY <1>1, <1>2, <1>3 DEF CoreTypes
<1>6. NumberTypes'
    BY <1>1, <1>2, <1>3, ConstantsAssumption DEF NumberTypes
<1>7. TCBTypes'
    BY <1>1, <1>2, <1>3, <1>12, PlaceTypes, CallTypes DEF TCBTypes
<1>8. CorePlaces'
    <2>1. \A d \in Cores : cpu[d] = t => d = c
        BY <1>2, <1>3, ConstantsAssumption DEF CorePlaces, OnCpu
    <2>2. \A d \in Cores : help_requests[d] # t /\ hand[d] # t
        BY <1>2, <1>3, ConstantsAssumption DEF CorePlaces, OnCpu, Requesting, InHand
    <2> QED
        BY <1>1, <1>2, <1>3, <2>1, <2>2 DEF CoreTypes, TCBTypes, CorePlaces
<1>9. HandFilled' /\ HelperSaved' /\ DoomedFilled'
    <2>1. hpc[c] = "sti"
        BY <1>1, <1>2 DEF HelperSaved
    <2>2. HandFilled'
        <3>1. ASSUME NEW d \in Cores
              PROVE  /\ (/\ cpu'[d] = NoTCB
                         /\ hpc'[d] \in {"doit", "add", "dispatch", "switch"})
                            => hand'[d] # NoTCB
                     /\ (/\ cpu'[d] # NoTCB
                         /\ pc'[cpu'[d]] = "add") => hand'[d] # NoTCB
            BY <1>1, <1>2, <1>3, <1>12, <2>1 DEF CoreTypes, TCBTypes, HandFilled
        <3>2. ASSUME NEW u \in TCBs, pc'[u] = "add"
              PROVE  \E d \in Cores : cpu'[d] = u
            BY <1>1, <1>2, <1>3, <1>12, <3>2 DEF CoreTypes, TCBTypes, HandFilled
        <3> QED
            BY <3>1, <3>2 DEF HandFilled
    <2>3. HelperSaved' /\ DoomedFilled'
        BY <1>1, <1>2, <1>3, <1>12 DEF CoreTypes, TCBTypes, HelperSaved, DoomedFilled
    <2> QED
        BY <2>2, <2>3
<1>10. ReaperRuns'
    BY <1>1, <1>2, <1>3, <1>12, ConstantsAssumption DEF TCBTypes, ReaperRuns, Free,
       Ready, Reapable, OnCpu, Requesting, InHand, Sleeping, WaitingOn, NoCall
<1>11. BootAlone'
    BY <1>1, <1>2, <1>3, BootKept DEF TCBTypes, CoreTypes, Free, Ready, Reapable,
       OnCpu, Requesting, InHand, Sleeping, WaitingOn, Doomed
<1> QED
    BY <1>4, <1>5, <1>6, <1>7, <1>8, <1>9, <1>10, <1>11 DEF IndInv, TypeOK

\* The fast path of down().
LEMMA DownTakesInv ==
    ASSUME IndInv, NEW c \in Cores, NEW s \in Sems, NEW next \in {"run", "remove"},
           cpu[c] # NoTCB, DownTakes(c, s, next), calls' \in [TCBs -> Nat],
           cpu[c] = Reaper => next = "remove"
    PROVE  IndInv'
<1> DEFINE t == cpu[c]
<1>1. /\ cpu[c] # NoTCB /\ n[s] > 0
      /\ n' = [n EXCEPT ![s] = @ - 1]
      /\ pc' = [pc EXCEPT ![t] = next]
      /\ UNCHANGED <<cpu, active_thread, help_requests, flagVars, esp0, hpc,
                     hand, ready_queue, sleep_queues, at_jiffies, waiting,
                     reaper_data, call, reaping, place, jiffies>>
    BY DEF DownTakes, coreVars
<1>2. /\ CoreTypes /\ QueueTypes /\ NumberTypes /\ TCBTypes /\ CorePlaces
      /\ QueuePlaces /\ HandFilled /\ DoomedFilled /\ HelperSaved /\ ReaperRuns
      /\ BootAlone
    BY DEF IndInv, TypeOK
<1>3. t \in TCBs /\ place[t] = OnCpu(c) /\ Loose(place[t])
    BY <1>1, <1>2, LoosePlaces DEF CoreTypes, CorePlaces
<1>4. QueuePlaces' /\ QueueTypes'
    BY <1>1, <1>2 DEF QueuePlaces, QueueTypes
<1>5. CoreTypes'
    BY <1>1, <1>2, <1>3 DEF CoreTypes
<1>6. NumberTypes'
    BY <1>1, <1>2, <1>3, ConstantsAssumption DEF NumberTypes
<1>7. TCBTypes'
    BY <1>1, <1>2, <1>3, PlaceTypes, CallTypes DEF TCBTypes
<1>8. CorePlaces'
    BY <1>1, <1>2, <1>3 DEF CoreTypes, TCBTypes, CorePlaces, OnCpu, Requesting,
       InHand
<1>9. HandFilled' /\ HelperSaved' /\ DoomedFilled'
    BY <1>1, <1>2, <1>3 DEF CoreTypes, TCBTypes, HandFilled, HelperSaved,
       DoomedFilled, QueueTypes
<1>10. ReaperRuns'
    BY <1>1, <1>2, <1>3, ConstantsAssumption DEF TCBTypes, ReaperRuns, Free,
       Ready, Reapable, OnCpu, Requesting, InHand, Sleeping, WaitingOn, NoCall
<1>11. BootAlone'
    BY <1>1, <1>2, BootKept DEF CoreTypes
<1> QED
    BY <1>4, <1>5, <1>6, <1>7, <1>8, <1>9, <1>10, <1>11 DEF IndInv, TypeOK

\* The beginning of yield, sleep, stop and thread.
LEMMA ReapInv ==
    ASSUME IndInv, NEW c \in Cores, NEW op \in {"yield", "sleep", "stop", "thread"},
           NEW sec \in Seconds \union {0}, NEW cost \in Nat, Reap(c, op, sec, cost)
    PROVE  IndInv'
<1> DEFINE t == cpu[c]
<1>1. /\ cpu[c] # NoTCB /\ pc[t] = "run" /\ t # Reaper /\ calls[t] >= cost
      /\ calls' = [calls EXCEPT ![t] = @ - cost]
      /\ call' = [call EXCEPT ![t] = Call(op, ReaperSem, sec)]
      /\ pc' = [pc EXCEPT ![t] = "reaping"]
      /\ reaping' = [reaping EXCEPT ![t] = reaper_data]
      /\ reaper_data' = <<>>
      /\ place' = [u \in TCBs |->
                    IF place[u] = Reapable THEN Doomed(t) ELSE place[u]]
      /\ UNCHANGED <<cpu, active_thread, help_requests, flagVars, esp0, hpc,
                     hand, ready_queue, sleep_queues, at_jiffies, n, waiting,
                     jiffies>>
    BY DEF Reap, Running, coreVars
<1>2. /\ CoreTypes /\ QueueTypes /\ NumberTypes /\ TCBTypes /\ CorePlaces
      /\ QueuePlaces /\ HandFilled /\ DoomedFilled /\ HelperSaved /\ ReaperRuns
      /\ BootAlone
    BY DEF IndInv, TypeOK
<1>3. t \in TCBs /\ place[t] = OnCpu(c) /\ Loose(place[t])
    BY <1>1, <1>2, LoosePlaces DEF CoreTypes, CorePlaces
<1>4. QueuePlaces' /\ QueueTypes'
    BY <1>1, <1>2, <1>3, ReapableAllDoomed DEF TCBTypes
<1>5. CoreTypes'
    BY <1>1, <1>2, <1>3 DEF CoreTypes
<1>6. NumberTypes'
    BY <1>1, <1>2, <1>3, ConstantsAssumption DEF NumberTypes
<1>7. TCBTypes'
    BY <1>1, <1>2, <1>3, PlaceTypes, CallTypes, ConstantsAssumption DEF TCBTypes
<1>8. CorePlaces'
    <2>1. \A d \in Cores : /\ OnCpu(d) # Reapable
                           /\ Requesting(d) # Reapable
                           /\ InHand(d) # Reapable
        BY DEF OnCpu, Requesting, InHand, Reapable
    <2> QED
        BY <1>1, <1>2, <1>3, <2>1 DEF CoreTypes, CorePlaces
<1>9. HandFilled' /\ HelperSaved' /\ DoomedFilled'
    BY <1>1, <1>2, <1>3
    DEF CoreTypes, TCBTypes, QueueTypes, HandFilled, HelperSaved, DoomedFilled
<1>10. ReaperRuns'
    BY <1>1, <1>2, <1>3, ConstantsAssumption DEF TCBTypes, ReaperRuns, Reapable,
       Call
<1>11. BootAlone'
    <2>1. Free # Reapable
        BY DEF Free, Reapable
    <2> QED
        BY <1>1, <1>2, <2>1, BootKept
<1> QED
    BY <1>4, <1>5, <1>6, <1>7, <1>8, <1>9, <1>10, <1>11 DEF IndInv, TypeOK

\* reap() deletes a TCB.
LEMMA ReapDeleteInv ==
    ASSUME IndInv, NEW c \in Cores, ReapDelete(c)
    PROVE  IndInv'
<1> DEFINE t == Head(reaping[cpu[c]])
<1>1. /\ cpu[c] # NoTCB /\ pc[cpu[c]] = "reaping" /\ reaping[cpu[c]] # <<>>
      /\ reaping' = [reaping EXCEPT ![cpu[c]] = Tail(@)]
      /\ place' = [place EXCEPT ![t] = Free]
      /\ UNCHANGED <<cpu, active_thread, help_requests, flagVars, esp0, hpc,
                     hand, ready_queue, sleep_queues, at_jiffies, n, waiting,
                     reaper_data, pc, call, calls, jiffies>>
    BY DEF ReapDelete, Running, coreVars, queueVars
<1>2. /\ CoreTypes /\ QueueTypes /\ NumberTypes /\ TCBTypes /\ CorePlaces
      /\ QueuePlaces /\ HandFilled /\ DoomedFilled /\ HelperSaved /\ ReaperRuns
      /\ BootAlone
    BY DEF IndInv, TypeOK
<1>3. /\ cpu[c] \in TCBs /\ t \in TCBs /\ place[t] = Doomed(cpu[c])
      /\ t # Reaper
      /\ QueuePlaces' /\ QueueTypes'
    <2>1. cpu[c] \in TCBs /\ place \in [TCBs -> Places]
        BY <1>1, <1>2 DEF CoreTypes, TCBTypes
    <2>2. /\ t \in TCBs /\ place[t] = Doomed(cpu[c])
          /\ QueuePlaces' /\ QueueTypes'
        BY <1>1, <1>2, <2>1, ReapingLoses
    <2>3. t # Reaper
        BY <1>2, <2>1, <2>2 DEF ReaperRuns, Doomed
    <2> QED
        BY <2>1, <2>2, <2>3
<1>4. QueuePlaces' /\ QueueTypes'
    BY <1>3
<1>5. CoreTypes'
    BY <1>1, <1>2, <1>3 DEF CoreTypes
<1>6. NumberTypes'
    BY <1>1, <1>2, <1>3, ConstantsAssumption DEF NumberTypes
<1>7. TCBTypes'
    BY <1>1, <1>2, <1>3, PlaceTypes, CallTypes DEF TCBTypes
<1>8. CorePlaces'
    <2>1. \A d \in Cores : place[t] \notin {OnCpu(d), Requesting(d), InHand(d)}
        BY <1>3 DEF OnCpu, Requesting, InHand, Doomed
    <2> QED
        BY <1>1, <1>2, <1>3, <2>1, CoresKept DEF TCBTypes
<1>9. HandFilled' /\ HelperSaved' /\ DoomedFilled'
    BY <1>1, <1>2, <1>3 DEF CoreTypes, TCBTypes, HandFilled, HelperSaved,
       DoomedFilled, QueueTypes
<1>10. ReaperRuns'
    BY <1>1, <1>2, <1>3, ConstantsAssumption DEF TCBTypes, ReaperRuns, Free,
       Ready, Reapable, OnCpu, Requesting, InHand, Sleeping, WaitingOn, NoCall
<1>11. BootAlone'
    BY <1>1, <1>2, <1>3, BootKept DEF TCBTypes
<1> QED
    BY <1>4, <1>5, <1>6, <1>7, <1>8, <1>9, <1>10, <1>11 DEF IndInv, TypeOK

\* yield() returns at once.
LEMMA YieldReturnsInv ==
    ASSUME IndInv, NEW c \in Cores, YieldReturns(c)
    PROVE  IndInv'
<1> DEFINE t == cpu[c]
<1>1. /\ cpu[c] # NoTCB /\ pc[t] = "reaping"
      /\ pc' = [pc EXCEPT ![t] = "run"]
      /\ call' = [call EXCEPT ![t] = NoCall]
      /\ UNCHANGED <<cpu, active_thread, help_requests, flagVars, esp0, hpc,
                     hand, ready_queue, sleep_queues, at_jiffies, n, waiting,
                     reaper_data, reaping, calls, place, jiffies>>
    BY DEF YieldReturns, Reaped, Running, coreVars, queueVars
<1>2. /\ CoreTypes /\ QueueTypes /\ NumberTypes /\ TCBTypes /\ CorePlaces
      /\ QueuePlaces /\ HandFilled /\ DoomedFilled /\ HelperSaved /\ ReaperRuns
      /\ BootAlone
    BY DEF IndInv, TypeOK
<1>3. t \in TCBs /\ place[t] = OnCpu(c) /\ Loose(place[t])
    BY <1>1, <1>2, LoosePlaces DEF CoreTypes, CorePlaces
<1>4. QueuePlaces' /\ QueueTypes'
    BY <1>1, <1>2 DEF QueuePlaces, QueueTypes
<1>5. CoreTypes'
    BY <1>1, <1>2, <1>3 DEF CoreTypes
<1>6. NumberTypes'
    BY <1>1, <1>2, <1>3, ConstantsAssumption DEF NumberTypes
<1>7. TCBTypes'
    BY <1>1, <1>2, <1>3, PlaceTypes, CallTypes DEF TCBTypes
<1>8. CorePlaces'
    BY <1>1, <1>2, <1>3 DEF CoreTypes, TCBTypes, CorePlaces, OnCpu, Requesting,
       InHand
<1>9. HandFilled' /\ HelperSaved' /\ DoomedFilled'
    BY <1>1, <1>2, <1>3 DEF CoreTypes, TCBTypes, HandFilled, HelperSaved,
       DoomedFilled, QueueTypes
<1>10. ReaperRuns'
    BY <1>1, <1>2, <1>3, ConstantsAssumption DEF TCBTypes, ReaperRuns, Free,
       Ready, Reapable, OnCpu, Requesting, InHand, Sleeping, WaitingOn, NoCall
<1>11. BootAlone'
    BY <1>1, <1>2, BootKept DEF CoreTypes
<1> QED
    BY <1>4, <1>5, <1>6, <1>7, <1>8, <1>9, <1>10, <1>11 DEF IndInv, TypeOK

\* thread() allocates a TCB.
LEMMA ThreadAllocatesInv ==
    ASSUME IndInv, NEW c \in Cores, ThreadAllocates(c)
    PROVE  IndInv'
<1> DEFINE t == cpu[c]
<1>1. PICK u \in TCBs :
      /\ cpu[c] # NoTCB /\ pc[t] = "reaping" /\ u \in TCBs /\ place[u] = Free
      /\ hand' = [hand EXCEPT ![c] = u]
      /\ place' = [place EXCEPT ![u] = InHand(c)]
      /\ at_jiffies' = [at_jiffies EXCEPT ![u] = 0]
      /\ eflags' = [eflags EXCEPT ![u] = TRUE]
      /\ pc' = [pc EXCEPT ![u] = "run", ![t] = "add"]
      /\ call' = [call EXCEPT ![t] = NoCall]
      /\ UNCHANGED <<cpu, active_thread, help_requests, interrupts,
                     helper_eflags, esp0, hpc,
                     ready_queue, sleep_queues, n, waiting, reaper_data,
                     reaping, calls, jiffies>>
    BY DEF ThreadAllocates, Reaped, Running, Unallocated
<1>2. /\ CoreTypes /\ QueueTypes /\ NumberTypes /\ TCBTypes /\ CorePlaces
      /\ QueuePlaces /\ HandFilled /\ DoomedFilled /\ HelperSaved /\ ReaperRuns
      /\ BootAlone
    BY DEF IndInv, TypeOK
<1>3. /\ t \in TCBs /\ place[t] = OnCpu(c) /\ Loose(place[u])
      /\ t # u /\ t # Reaper /\ u # Reaper
    BY <1>1, <1>2, LoosePlaces DEF CoreTypes, CorePlaces, ReaperRuns, OnCpu, Free
<1>4. QueuePlaces' /\ QueueTypes'
    BY <1>1, <1>2, <1>3, QueuesKept DEF TCBTypes
<1>5. CoreTypes'
    BY <1>1, <1>2, <1>3 DEF CoreTypes
<1>6. NumberTypes'
    BY <1>1, <1>2, <1>3, ConstantsAssumption DEF NumberTypes
<1>7. TCBTypes'
    BY <1>1, <1>2, <1>3, PlaceTypes, CallTypes DEF TCBTypes
<1>8. CorePlaces'
    <2>1. \A d \in Cores : cpu[d] # u /\ help_requests[d] # u /\ hand[d] # u
        BY <1>1, <1>2, ConstantsAssumption
        DEF CorePlaces, Free, OnCpu, Requesting, InHand
    <2> QED
        BY <1>1, <1>2, <1>3, <2>1 DEF CoreTypes, TCBTypes, CorePlaces
<1>9. HandFilled' /\ HelperSaved' /\ DoomedFilled'
    <2>1. \A d \in Cores : cpu[d] # u /\ (cpu[d] = t => d = c)
        BY <1>1, <1>2, <1>3, ConstantsAssumption DEF CorePlaces, Free, OnCpu
    <2>2. hpc[c] = "sti"
        BY <1>1, <1>2 DEF HelperSaved
    <2>3. HandFilled'
        <3>1. ASSUME NEW d \in Cores
              PROVE  /\ (/\ cpu'[d] = NoTCB
                         /\ hpc'[d] \in {"doit", "add", "dispatch", "switch"})
                            => hand'[d] # NoTCB
                     /\ (/\ cpu'[d] # NoTCB
                         /\ pc'[cpu'[d]] = "add") => hand'[d] # NoTCB
            BY <1>1, <1>2, <1>3, <2>1, <2>2, ConstantsAssumption
            DEF CoreTypes, TCBTypes, HandFilled
        <3>2. ASSUME NEW v \in TCBs, pc'[v] = "add"
              PROVE  \E d \in Cores : cpu'[d] = v
            BY <1>1, <1>2, <1>3, <3>2 DEF CoreTypes, TCBTypes, HandFilled
        <3> QED
            BY <3>1, <3>2 DEF HandFilled
    <2>4. HelperSaved' /\ DoomedFilled'
        BY <1>1, <1>2, <1>3 DEF CoreTypes, TCBTypes, HelperSaved, DoomedFilled
    <2> QED
        BY <2>3, <2>4
<1>10. ReaperRuns'
    BY <1>1, <1>2, <1>3, ConstantsAssumption DEF TCBTypes, ReaperRuns, Free,
       Ready, Reapable, OnCpu, Requesting, InHand, Sleeping, WaitingOn, NoCall
<1>11. BootAlone'
    <2>1. \A d \in Cores : hpc[d] # "boot"
        BY <1>2, <1>3 DEF BootAlone, OnCpu, Free
    <2> QED
        BY <1>1, <2>1 DEF BootAlone
<1> QED
    BY <1>4, <1>5, <1>6, <1>7, <1>8, <1>9, <1>10, <1>11 DEF IndInv, TypeOK

\* A thread makes the TCB in its local variable ready.
LEMMA ThreadAddsInv ==
    ASSUME IndInv, NEW c \in Cores, ThreadAdds(c)
    PROVE  IndInv'
<1> DEFINE t == hand[c]
<1>1. /\ cpu[c] # NoTCB /\ pc[cpu[c]] = "add"
      /\ pc' = [pc EXCEPT ![cpu[c]] = "run"]
      /\ hand' = [hand EXCEPT ![c] = NoTCB]
      /\ ready_queue' = Append(ready_queue, t)
      /\ place' = [place EXCEPT ![t] = Ready]
      /\ UNCHANGED <<cpu, active_thread, help_requests, flagVars, esp0, hpc,
                     sleep_queues, at_jiffies, n, waiting, reaper_data, call,
                     reaping, calls, jiffies>>
    BY DEF ThreadAdds, AddReady, Running
<1>2. /\ CoreTypes /\ QueueTypes /\ NumberTypes /\ TCBTypes /\ CorePlaces
      /\ QueuePlaces /\ HandFilled /\ DoomedFilled /\ HelperSaved /\ ReaperRuns
      /\ BootAlone
    BY DEF IndInv, TypeOK
<1>3. /\ cpu[c] \in TCBs /\ place[cpu[c]] = OnCpu(c)
      /\ t \in TCBs /\ place[t] = InHand(c) /\ Loose(place[t])
    BY <1>1, <1>2, LoosePlaces DEF CoreTypes, CorePlaces, HandFilled
<1>4. QueuePlaces' /\ QueueTypes'
    BY <1>1, <1>2, <1>3, ReadyQueueGains DEF TCBTypes
<1>5. CoreTypes'
    BY <1>1, <1>2, <1>3 DEF CoreTypes
<1>6. NumberTypes'
    BY <1>1, <1>2, <1>3, ConstantsAssumption DEF NumberTypes
<1>7. TCBTypes'
    BY <1>1, <1>2, <1>3, PlaceTypes, CallTypes DEF TCBTypes
<1>8. CorePlaces'
    BY <1>1, <1>2, <1>3 DEF CoreTypes, TCBTypes, CorePlaces, OnCpu, Requesting,
       InHand
<1>9. HandFilled' /\ HelperSaved' /\ DoomedFilled'
    <2>1. \A d \in Cores : cpu[d] = cpu[c] => d = c
        BY <1>1, <1>2, <1>3 DEF CorePlaces, OnCpu
    <2>2. hpc[c] = "sti"
        BY <1>1, <1>2 DEF HelperSaved
    <2>3. HandFilled'
        BY <1>1, <1>2, <1>3, <2>1, <2>2 DEF CoreTypes, TCBTypes, HandFilled
    <2>4. HelperSaved' /\ DoomedFilled'
        BY <1>1, <1>2, <1>3 DEF CoreTypes, TCBTypes, HelperSaved, DoomedFilled
    <2> QED
        BY <2>3, <2>4
<1>10. ReaperRuns'
    BY <1>1, <1>2, <1>3, ConstantsAssumption DEF TCBTypes, ReaperRuns, Free,
       Ready, Reapable, OnCpu, Requesting, InHand, Sleeping, WaitingOn, NoCall
<1>11. BootAlone'
    BY <1>1, <1>2, <1>3, BootKept DEF TCBTypes, CoreTypes, Free, Ready, Reapable,
       OnCpu, Requesting, InHand, Sleeping, WaitingOn, Doomed
<1> QED
    BY <1>4, <1>5, <1>6, <1>7, <1>8, <1>9, <1>10, <1>11 DEF IndInv, TypeOK

\* A thread's up() finds a waiter.
LEMMA ThreadUpWakesInv ==
    ASSUME IndInv, NEW c \in Cores, NEW s \in Sems, UserCall(c), UpWakes(c, s),
           pc' = [pc EXCEPT ![cpu[c]] = "add"],
           UNCHANGED <<cpu, active_thread, help_requests, flagVars, esp0, hpc,
                       ready_queue, sleep_queues, at_jiffies, reaper_data, call,
                       reaping, jiffies>>
    PROVE  IndInv'
<1> DEFINE t == Head(waiting[s])
<1>1. /\ cpu[c] # NoTCB /\ pc[cpu[c]] = "run" /\ cpu[c] # Reaper /\ calls[cpu[c]] > 0
      /\ calls' = [calls EXCEPT ![cpu[c]] = @ - 1]
      /\ pc' = [pc EXCEPT ![cpu[c]] = "add"]
      /\ hand' = [hand EXCEPT ![c] = t]
      /\ place' = [place EXCEPT ![t] = InHand(c)]
      /\ UNCHANGED <<cpu, active_thread, help_requests, flagVars, esp0, hpc,
                     ready_queue, sleep_queues, at_jiffies, n, reaper_data,
                     call, reaping, jiffies>>
    BY DEF UserCall, Running, UpWakes
<1>2. /\ CoreTypes /\ QueueTypes /\ NumberTypes /\ TCBTypes /\ CorePlaces
      /\ QueuePlaces /\ HandFilled /\ DoomedFilled /\ HelperSaved /\ ReaperRuns
      /\ BootAlone
    BY DEF IndInv, TypeOK
<1>3. /\ cpu[c] \in TCBs /\ place[cpu[c]] = OnCpu(c)
      /\ t \in TCBs /\ place[t] = WaitingOn(s) /\ t # NoTCB
    BY <1>1, <1>2, UpWakesFacts DEF CoreTypes, CorePlaces
<1>4. QueuePlaces' /\ QueueTypes'
    BY <1>1, UpWakesFacts
<1>5. CoreTypes'
    BY <1>1, <1>2, <1>3 DEF CoreTypes
<1>6. NumberTypes'
    BY <1>1, <1>2, <1>3, ConstantsAssumption DEF NumberTypes
<1>7. TCBTypes'
    BY <1>1, <1>2, <1>3, PlaceTypes, CallTypes DEF TCBTypes
<1>8. CorePlaces'
    BY <1>1, <1>2, <1>3 DEF CoreTypes, TCBTypes, CorePlaces, OnCpu, Requesting,
       InHand, WaitingOn
<1>9. HandFilled' /\ HelperSaved' /\ DoomedFilled'
    <2>1. \A d \in Cores : cpu[d] = cpu[c] => d = c
        BY <1>1, <1>2, <1>3 DEF CorePlaces, OnCpu
    <2>2. HandFilled'
        BY <1>1, <1>2, <1>3, <2>1 DEF CoreTypes, TCBTypes, HandFilled
    <2>3. HelperSaved' /\ DoomedFilled'
        BY <1>1, <1>2, <1>3 DEF CoreTypes, TCBTypes, HelperSaved, DoomedFilled
    <2> QED
        BY <2>2, <2>3
<1>10. ReaperRuns'
    BY <1>1, <1>2, <1>3, ConstantsAssumption DEF TCBTypes, ReaperRuns, Free,
       Ready, Reapable, OnCpu, Requesting, InHand, Sleeping, WaitingOn, NoCall
<1>11. BootAlone'
    BY <1>1, <1>2, <1>3, BootKept DEF TCBTypes, CoreTypes, Free, Ready, Reapable,
       OnCpu, Requesting, InHand, Sleeping, WaitingOn, Doomed
<1> QED
    BY <1>4, <1>5, <1>6, <1>7, <1>8, <1>9, <1>10, <1>11 DEF IndInv, TypeOK

\* A thread's up() finds nobody waiting.
LEMMA ThreadUpCountsInv ==
    ASSUME IndInv, NEW c \in Cores, NEW s \in Sems, UserCall(c), UpCounts(s),
           UNCHANGED <<cpu, active_thread, help_requests, flagVars, esp0, hpc,
                       ready_queue, sleep_queues, at_jiffies, reaper_data, call,
                       reaping, jiffies, pc>>
    PROVE  IndInv'
<1>1. /\ cpu[c] # NoTCB /\ calls[cpu[c]] > 0
      /\ calls' = [calls EXCEPT ![cpu[c]] = @ - 1]
      /\ n' = [n EXCEPT ![s] = @ + 1]
      /\ UNCHANGED <<cpu, active_thread, help_requests, flagVars, esp0, hpc,
                     hand, ready_queue, sleep_queues, at_jiffies, waiting,
                     reaper_data, pc, call, reaping, place, jiffies>>
    BY DEF UserCall, Running, UpCounts
<1>2. /\ CoreTypes /\ QueueTypes /\ NumberTypes /\ TCBTypes /\ CorePlaces
      /\ QueuePlaces /\ HandFilled /\ DoomedFilled /\ HelperSaved /\ ReaperRuns
      /\ BootAlone
    BY DEF IndInv, TypeOK
<1>3. place \in [TCBs -> Places] /\ cpu[c] \in TCBs
    BY <1>1, <1>2 DEF TCBTypes, CoreTypes
<1>4. QueuePlaces' /\ QueueTypes'
    BY <1>1, <1>2 DEF QueuePlaces, QueueTypes
<1>5. CoreTypes'
    BY <1>1, <1>2, <1>3 DEF CoreTypes
<1>6. NumberTypes'
    BY <1>1, <1>2, <1>3, ConstantsAssumption DEF NumberTypes
<1>7. TCBTypes'
    BY <1>1, <1>2, <1>3, PlaceTypes, CallTypes DEF TCBTypes
<1>8. CorePlaces'
    BY <1>1, <1>2, <1>3 DEF CoreTypes, TCBTypes, CorePlaces, OnCpu, Requesting,
       InHand
<1>9. HandFilled' /\ HelperSaved' /\ DoomedFilled'
    BY <1>1, <1>2, <1>3 DEF CoreTypes, TCBTypes, HandFilled, HelperSaved,
       DoomedFilled, QueueTypes
<1>10. ReaperRuns'
    BY <1>1, <1>2, <1>3, ConstantsAssumption DEF TCBTypes, ReaperRuns, Free,
       Ready, Reapable, OnCpu, Requesting, InHand, Sleeping, WaitingOn, NoCall
<1>11. BootAlone'
    BY <1>1, <1>2, BootKept DEF CoreTypes
<1> QED
    BY <1>4, <1>5, <1>6, <1>7, <1>8, <1>9, <1>10, <1>11 DEF IndInv, TypeOK

\* The reaper takes a TCB.
LEMMA ReaperRemovesInv ==
    ASSUME IndInv, NEW c \in Cores, ReaperRemoves(c)
    PROVE  IndInv'
<1> DEFINE t == Head(reaper_data)
<1>1. /\ cpu[c] # NoTCB /\ pc[cpu[c]] = "remove" /\ reaper_data # <<>>
      /\ reaping' = [reaping EXCEPT ![cpu[c]] = <<Head(reaper_data)>>]
      /\ reaper_data' = Tail(reaper_data)
      /\ place' = [place EXCEPT ![Head(reaper_data)] = Doomed(cpu[c])]
      /\ pc' = [pc EXCEPT ![cpu[c]] = "delete"]
      /\ UNCHANGED <<cpu, active_thread, help_requests, flagVars, esp0, hpc,
                     hand, ready_queue, sleep_queues, at_jiffies, n, waiting,
                     call, calls, jiffies>>
    BY DEF ReaperRemoves, Running, coreVars
<1>2. /\ CoreTypes /\ QueueTypes /\ NumberTypes /\ TCBTypes /\ CorePlaces
      /\ QueuePlaces /\ HandFilled /\ DoomedFilled /\ HelperSaved /\ ReaperRuns
      /\ BootAlone
    BY DEF IndInv, TypeOK
<1>3. /\ cpu[c] \in TCBs /\ t \in TCBs /\ place[t] = Reapable
      /\ t # Reaper
      /\ QueuePlaces' /\ QueueTypes'
    <2>1. cpu[c] \in TCBs /\ place \in [TCBs -> Places]
        BY <1>1, <1>2 DEF CoreTypes, TCBTypes
    <2>2. /\ t \in TCBs /\ place[t] = Reapable
          /\ QueuePlaces' /\ QueueTypes'
        BY <1>1, <1>2, <2>1, ReapableBecomesDoomed
    <2>3. t # Reaper
        BY <1>2, <2>2 DEF ReaperRuns
    <2> QED
        BY <2>1, <2>2, <2>3
<1>4. QueuePlaces' /\ QueueTypes'
    BY <1>3
<1>5. CoreTypes'
    BY <1>1, <1>2, <1>3 DEF CoreTypes
<1>6. NumberTypes'
    BY <1>1, <1>2, <1>3, ConstantsAssumption DEF NumberTypes
<1>7. TCBTypes'
    BY <1>1, <1>2, <1>3, PlaceTypes, CallTypes DEF TCBTypes
<1>8. CorePlaces'
    <2>1. \A d \in Cores : place[t] \notin {OnCpu(d), Requesting(d), InHand(d)}
        BY <1>3 DEF OnCpu, Requesting, InHand, Reapable
    <2> QED
        BY <1>1, <1>2, <1>3, <2>1, CoresKept DEF TCBTypes
<1>9. HandFilled' /\ HelperSaved' /\ DoomedFilled'
    <2>1. HandFilled' /\ HelperSaved'
        BY <1>1, <1>2, <1>3 DEF CoreTypes, TCBTypes, HandFilled, HelperSaved
    <2>2. <<Head(reaper_data)>> # <<>>
        OBVIOUS
    <2>3. DoomedFilled'
        BY <1>1, <1>2, <1>3, <2>2 DEF TCBTypes, QueueTypes, DoomedFilled
    <2> QED
        BY <2>1, <2>3
<1>10. ReaperRuns'
    BY <1>1, <1>2, <1>3, ConstantsAssumption DEF TCBTypes, ReaperRuns, Free,
       Ready, Reapable, OnCpu, Requesting, InHand, Sleeping, WaitingOn, NoCall
<1>11. BootAlone'
    BY <1>1, <1>2, <1>3, BootKept DEF TCBTypes, CoreTypes, Free, Ready, Reapable,
       OnCpu, Requesting, InHand, Sleeping, WaitingOn, Doomed
<1> QED
    BY <1>4, <1>5, <1>6, <1>7, <1>8, <1>9, <1>10, <1>11 DEF IndInv, TypeOK

\* The reaper finds its queue empty.
LEMMA ReaperFindsNothingInv ==
    ASSUME IndInv, NEW c \in Cores, ReaperFindsNothing(c)
    PROVE  IndInv'
<1> DEFINE t == cpu[c]
<1>1. /\ cpu[c] # NoTCB /\ pc[t] = "remove"
      /\ pc' = [pc EXCEPT ![t] = "down"]
      /\ UNCHANGED <<cpu, active_thread, help_requests, flagVars, esp0, hpc,
                     hand, ready_queue, sleep_queues, at_jiffies, n, waiting,
                     reaper_data, call, reaping, calls, place, jiffies>>
    BY DEF ReaperFindsNothing, Running, coreVars, queueVars
<1>2. /\ CoreTypes /\ QueueTypes /\ NumberTypes /\ TCBTypes /\ CorePlaces
      /\ QueuePlaces /\ HandFilled /\ DoomedFilled /\ HelperSaved /\ ReaperRuns
      /\ BootAlone
    BY DEF IndInv, TypeOK
<1>3. t \in TCBs /\ place[t] = OnCpu(c) /\ Loose(place[t])
    BY <1>1, <1>2, LoosePlaces DEF CoreTypes, CorePlaces
<1>4. QueuePlaces' /\ QueueTypes'
    BY <1>1, <1>2 DEF QueuePlaces, QueueTypes
<1>5. CoreTypes'
    BY <1>1, <1>2, <1>3 DEF CoreTypes
<1>6. NumberTypes'
    BY <1>1, <1>2, <1>3, ConstantsAssumption DEF NumberTypes
<1>7. TCBTypes'
    BY <1>1, <1>2, <1>3, PlaceTypes, CallTypes DEF TCBTypes
<1>8. CorePlaces'
    BY <1>1, <1>2, <1>3 DEF CoreTypes, TCBTypes, CorePlaces, OnCpu, Requesting,
       InHand
<1>9. HandFilled' /\ HelperSaved' /\ DoomedFilled'
    BY <1>1, <1>2, <1>3 DEF CoreTypes, TCBTypes, HandFilled, HelperSaved,
       DoomedFilled, QueueTypes
<1>10. ReaperRuns'
    BY <1>1, <1>2, <1>3, ConstantsAssumption DEF TCBTypes, ReaperRuns, Free,
       Ready, Reapable, OnCpu, Requesting, InHand, Sleeping, WaitingOn, NoCall
<1>11. BootAlone'
    BY <1>1, <1>2, BootKept DEF CoreTypes
<1> QED
    BY <1>4, <1>5, <1>6, <1>7, <1>8, <1>9, <1>10, <1>11 DEF IndInv, TypeOK

\* The reaper deletes the TCB it took.
LEMMA ReaperDeletesInv ==
    ASSUME IndInv, NEW c \in Cores, ReaperDeletes(c)
    PROVE  IndInv'
<1> DEFINE t == Head(reaping[cpu[c]])
<1>1. /\ cpu[c] # NoTCB /\ pc[cpu[c]] = "delete"
      /\ reaping' = [reaping EXCEPT ![cpu[c]] = <<>>]
      /\ place' = [place EXCEPT ![t] = Free]
      /\ pc' = [pc EXCEPT ![cpu[c]] = "down"]
      /\ UNCHANGED <<cpu, active_thread, help_requests, flagVars, esp0, hpc,
                     hand, ready_queue, sleep_queues, at_jiffies, n, waiting,
                     reaper_data, call, calls, jiffies>>
    BY DEF ReaperDeletes, Running, coreVars, queueVars
<1>2. /\ CoreTypes /\ QueueTypes /\ NumberTypes /\ TCBTypes /\ CorePlaces
      /\ QueuePlaces /\ HandFilled /\ DoomedFilled /\ HelperSaved /\ ReaperRuns
      /\ BootAlone
    BY DEF IndInv, TypeOK
<1>3. /\ cpu[c] \in TCBs /\ t \in TCBs /\ place[t] = Doomed(cpu[c])
      /\ t # Reaper
      /\ QueuePlaces' /\ QueueTypes'
    <2>1. /\ cpu[c] \in TCBs /\ place \in [TCBs -> Places]
          /\ reaping[cpu[c]] # <<>>
        BY <1>1, <1>2 DEF CoreTypes, TCBTypes, DoomedFilled
    <2>2. \E rest \in {<<>>, Tail(reaping[cpu[c]])} :
            reaping' = [reaping EXCEPT ![cpu[c]] = rest]
        <3>1. <<>> \in {<<>>, Tail(reaping[cpu[c]])}
            OBVIOUS
        <3>2. reaping' = [reaping EXCEPT ![cpu[c]] = <<>>]
            BY <1>1
        <3> QED
            BY <3>1, <3>2, Zenon
    <2>3. /\ t \in TCBs /\ place[t] = Doomed(cpu[c])
          /\ QueuePlaces' /\ QueueTypes'
        BY <1>1, <1>2, <2>1, <2>2, ReapingLoses
    <2>4. t # Reaper
        <3>1. place[t] \in {"doomed"} \X TCBs
            BY <2>1, <2>3 DEF Doomed
        <3>2. place[Reaper] \notin {"doomed"} \X TCBs
            BY <1>2, Zenon DEF ReaperRuns
        <3> QED
            BY <3>1, <3>2, Zenon
    <2> QED
        BY <2>1, <2>3, <2>4
<1>4. QueuePlaces' /\ QueueTypes'
    BY <1>3
<1>5. CoreTypes'
    BY <1>1, <1>2, <1>3 DEF CoreTypes
<1>6. NumberTypes'
    BY <1>1, <1>2, <1>3, ConstantsAssumption DEF NumberTypes
<1>7. TCBTypes'
    BY <1>1, <1>2, <1>3, PlaceTypes, CallTypes DEF TCBTypes
<1>8. CorePlaces'
    <2>1. \A d \in Cores : place[t] \notin {OnCpu(d), Requesting(d), InHand(d)}
        BY <1>3 DEF OnCpu, Requesting, InHand, Doomed
    <2> QED
        BY <1>1, <1>2, <1>3, <2>1, CoresKept DEF TCBTypes
<1>9. HandFilled' /\ HelperSaved' /\ DoomedFilled'
    BY <1>1, <1>2, <1>3
    DEF CoreTypes, TCBTypes, HandFilled, HelperSaved, DoomedFilled, QueueTypes
<1>10. ReaperRuns'
    BY <1>1, <1>2, <1>3, ConstantsAssumption DEF TCBTypes, ReaperRuns, Free,
       Ready, Reapable, OnCpu, Requesting, InHand, Sleeping, WaitingOn, NoCall
<1>11. BootAlone'
    BY <1>1, <1>2, <1>3, BootKept DEF TCBTypes
<1> QED
    BY <1>4, <1>5, <1>6, <1>7, <1>8, <1>9, <1>10, <1>11 DEF IndInv, TypeOK

-----------------------------------------------------------------------------
(* Boot and the timer *)

\* A core comes to the end of kernelInit.
LEMMA BootInv ==
    ASSUME IndInv, NEW c \in Cores, Boot(c)
    PROVE  IndInv'
<1>1. /\ hpc[c] = "boot"
      /\ hpc' = [hpc EXCEPT ![c] = "wakeup"]
      /\ interrupts' = [interrupts EXCEPT ![c] = TRUE]
      /\ (eflags' = [eflags EXCEPT ![Main] = TRUE] \/ eflags' = eflags)
      /\ UNCHANGED <<cpu, active_thread, help_requests, helper_eflags, esp0, hand,
                     sleep_queues, at_jiffies, n, waiting, reaper_data, pc, call, reaping,
                     calls, jiffies>>
      /\ \/ /\ \A d \in Cores \ {c} : hpc[d] # "boot"
            /\ ready_queue' = Append(ready_queue, Main)
            /\ place' = [place EXCEPT ![Main] = Ready]
         \/ UNCHANGED <<ready_queue, place>>
    BY DEF Boot
<1>2. /\ CoreTypes /\ QueueTypes /\ NumberTypes /\ TCBTypes /\ CorePlaces
      /\ QueuePlaces /\ HandFilled /\ DoomedFilled /\ HelperSaved /\ ReaperRuns
      /\ BootAlone
    BY DEF IndInv, TypeOK
<1>3. /\ cpu[c] = NoTCB
      /\ Main \in TCBs /\ Main # Reaper /\ place[Main] = Free /\ Loose(place[Main])
    BY <1>1, <1>2, LoosePlaces, ConstantsAssumption DEF HelperSaved, BootAlone
<1>4. CoreTypes' /\ NumberTypes' /\ HandFilled' /\ HelperSaved' /\ DoomedFilled'
    BY <1>1, <1>2, <1>3
    DEF CoreTypes, NumberTypes, HandFilled, HelperSaved, DoomedFilled
<1>5. CASE UNCHANGED <<ready_queue, place>>
    <2>1. QueueTypes' /\ QueuePlaces' /\ TCBTypes' /\ CorePlaces' /\ ReaperRuns'
        BY <1>1, <1>2, <1>5
        DEF QueueTypes, QueuePlaces, TCBTypes, CorePlaces, ReaperRuns
    <2>2. BootAlone'
        BY <1>1, <1>2, <1>5, BootKept DEF CoreTypes
    <2> QED
        BY <1>4, <2>1, <2>2 DEF IndInv, TypeOK
<1>6. CASE /\ \A d \in Cores \ {c} : hpc[d] # "boot"
           /\ ready_queue' = Append(ready_queue, Main)
           /\ place' = [place EXCEPT ![Main] = Ready]
    <2>1. QueueTypes' /\ QueuePlaces'
        BY <1>1, <1>2, <1>3, <1>6, ReadyQueueGains DEF TCBTypes
    <2>2. TCBTypes' /\ ReaperRuns'
        BY <1>1, <1>2, <1>3, <1>6, PlaceTypes DEF TCBTypes, ReaperRuns
    <2>3. \A d \in Cores : place[Main] \notin {OnCpu(d), Requesting(d), InHand(d)}
        BY <1>3 DEF OnCpu, Requesting, InHand, Free
    <2>4. CorePlaces'
        BY <1>1, <1>2, <1>3, <1>6, <2>3, CoresKept DEF TCBTypes
    <2>5. BootAlone'
        BY <1>1, <1>2, <1>6 DEF BootAlone, CoreTypes
    <2> QED
        BY <1>4, <2>1, <2>2, <2>4, <2>5 DEF IndInv, TypeOK
<1> QED
    BY <1>1, <1>5, <1>6

\* The timer changes nothing but jiffies.
LEMMA TickInv ==
    ASSUME IndInv, Tick
    PROVE  IndInv'
<1>1. /\ jiffies' = (jiffies + 1) % Word
      /\ UNCHANGED <<cpu, active_thread, help_requests, flagVars, esp0, hpc, hand,
                     ready_queue, sleep_queues, at_jiffies, n, waiting, reaper_data,
                     pc, call, reaping, calls, place>>
    BY DEF Tick, coreVars, queueVars, tcbVars
<1>2. jiffies' \in 0..(Word - 1)
    <2>1. jiffies + 1 \in Int /\ Word \in Nat /\ Word > 0
        BY ConstantsAssumption DEF IndInv, TypeOK, NumberTypes
    <2> QED
        BY <1>1, <2>1
<1>3. CoreTypes' /\ QueueTypes' /\ NumberTypes' /\ TCBTypes'
    BY <1>1, <1>2 DEF IndInv, TypeOK, CoreTypes, QueueTypes, NumberTypes, TCBTypes
<1>4. CorePlaces' /\ QueuePlaces' /\ HandFilled' /\ DoomedFilled' /\ HelperSaved'
    BY <1>1 DEF IndInv, CorePlaces, QueuePlaces, HandFilled, DoomedFilled,
       HelperSaved
<1>5. ReaperRuns' /\ BootAlone'
    BY <1>1 DEF IndInv, ReaperRuns, BootAlone
<1> QED
    BY <1>3, <1>4, <1>5 DEF IndInv, TypeOK

-----------------------------------------------------------------------------
(* The theorems *)

\* Every step of the kernel keeps the inductive invariant.
LEMMA NextInv ==
    ASSUME IndInv, [Next]_vars
    PROVE  IndInv'
<1>1. ASSUME NEW c \in Cores, Helper(c)
      PROVE  IndInv'
    <2>1. CASE HelperUp(c)
        BY <2>1, HelperUpWakesInv, HelperUpCountsInv DEF HelperUp
    <2> QED
        BY <1>1, <2>1, HelperResumeInv, HelperWakeupInv, HelperNoRequestInv,
           HelperTakesInv,
           HelperYieldInv, HelperSleepInv, HelperDownTakesInv, HelperDownWaitsInv,
           HelperStopInv, HelperAddInv, HelperPickInv, HelperIdleInv,
           HelperDispatchInv, HelperSwitchInv DEF Helper
<1>2. ASSUME NEW c \in Cores, Thread(c)
      PROVE  IndInv'
    <2>1. CASE CallYield(c) \/ CallStop(c) \/ CallThread(c)
        BY <2>1, ReapInv, ConstantsAssumption DEF CallYield, CallStop, CallThread
    <2>2. CASE CallSleep(c)
        BY <2>2, ReapInv DEF CallSleep
    <2>3. CASE YieldBlocks(c) \/ SleepBlocks(c) \/ StopBlocks(c)
        <3>1. /\ cpu[c] # NoTCB /\ cpu[c] \in TCBs /\ cpu[c] # Reaper
              /\ call[cpu[c]] \in Calls
            BY <2>3 DEF YieldBlocks, SleepBlocks, StopBlocks, Reaped, Running,
                        IndInv, TypeOK, CoreTypes, TCBTypes, ReaperRuns
        <3>2. calls' \in [TCBs -> Nat]
            BY <2>3 DEF YieldBlocks, SleepBlocks, StopBlocks, IndInv, TypeOK,
                        NumberTypes
        <3> QED
            BY <2>3, <3>1, <3>2, BlockInv DEF YieldBlocks, SleepBlocks, StopBlocks
    <2>4. CASE ThreadDown(c)
        <3>1. PICK s \in Sems : /\ UserCall(c)
                                /\ DownTakes(c, s, "run") \/ DownBlocks(c, s)
            BY <2>4 DEF ThreadDown
        <3>2. cpu[c] # NoTCB /\ cpu[c] \in TCBs /\ cpu[c] # Reaper
            BY <3>1 DEF UserCall, Running, IndInv, TypeOK, CoreTypes
        <3>3. calls' \in [TCBs -> Nat]
            BY <3>1, <3>2 DEF UserCall, IndInv, TypeOK, NumberTypes
        <3>4. Call("down", s, 0) \in Calls
            BY CallTypes
        <3> QED
            BY <3>1, <3>2, <3>3, <3>4, DownTakesInv, BlockInv DEF DownBlocks
    <2>5. CASE ThreadUp(c)
        BY <2>5, ThreadUpWakesInv, ThreadUpCountsInv DEF ThreadUp
    <2>6. CASE ReaperDown(c)
        <3>1. cpu[c] # NoTCB /\ calls' \in [TCBs -> Nat] /\ ReaperSem \in Sems
            BY <2>6, ConstantsAssumption DEF ReaperDown, Running, IndInv, TypeOK,
               NumberTypes
        <3>2. Call("down", ReaperSem, 0) \in Calls /\ Call("down", ReaperSem, 0).op = "down"
            BY <3>1, CallTypes DEF Call
        <3> QED
            BY <2>6, <3>1, <3>2, DownTakesInv, BlockInv DEF ReaperDown, DownBlocks
    <2> QED
        BY <1>2, <2>1, <2>2, <2>3, <2>4, <2>5, <2>6, ReapDeleteInv, YieldReturnsInv,
           SwitchToHelperInv, ThreadAllocatesInv, ThreadAddsInv, ReaperRemovesInv,
           ReaperFindsNothingInv, ReaperDeletesInv DEF Thread
<1>3. CASE UNCHANGED vars
    <2>1. UNCHANGED <<cpu, active_thread, help_requests, flagVars, esp0, hpc, hand,
                      ready_queue, sleep_queues, at_jiffies, n, waiting, reaper_data,
                      pc, call, reaping, calls, place, jiffies>>
        BY <1>3 DEF vars, coreVars, queueVars, tcbVars
    <2>2. CoreTypes' /\ QueueTypes' /\ NumberTypes' /\ TCBTypes'
        BY <2>1 DEF IndInv, TypeOK, CoreTypes, QueueTypes, NumberTypes, TCBTypes
    <2>3. CorePlaces' /\ QueuePlaces' /\ HandFilled' /\ DoomedFilled' /\ HelperSaved'
        BY <2>1 DEF IndInv, CorePlaces, QueuePlaces, HandFilled, DoomedFilled,
                    HelperSaved
    <2>4. ReaperRuns' /\ BootAlone'
        BY <2>1 DEF IndInv, ReaperRuns, BootAlone
    <2> QED
        BY <2>2, <2>3, <2>4 DEF IndInv, TypeOK
<1> QED
    BY <1>1, <1>2, <1>3, BootInv, TickInv DEF Next, Core

\* The kernel starts in the inductive invariant.
LEMMA InitInv ==
    ASSUME Init
    PROVE  IndInv
<1> USE ConstantsAssumption
<1>1. CoreTypes /\ NumberTypes
    BY DEF Init, CoreTypes, NumberTypes
<1>2. QueueTypes
    BY EmptySeq DEF Init, QueueTypes
<1>3. TCBTypes
    BY PlaceTypes, CallTypes DEF Init, TCBTypes
<1>4. CorePlaces /\ HandFilled /\ DoomedFilled /\ HelperSaved
    BY DEF Init, CorePlaces, HandFilled, DoomedFilled, HelperSaved
<1>5. QueuePlaces
    BY DEF Init, QueuePlaces, Holds
<1>6. ReaperRuns
    BY DEF Init, ReaperRuns, NoCall, Free, Ready, Reapable
<1>7. BootAlone
    BY DEF Init, BootAlone
<1> QED
    BY <1>1, <1>2, <1>3, <1>4, <1>5, <1>6, <1>7 DEF IndInv, TypeOK

\* The inductive invariant holds in every reachable state, whatever the
\* number of cores, TCBs and semaphores.
THEOREM Invariance == Spec => []IndInv
BY InitInv, NextInv, PTL DEF Spec

\* Type correctness: in particular no semaphore goes below zero and no
\* nullptr is put into a queue.
THEOREM TypeCorrect == Spec => []TypeOK
<1>1. IndInv => TypeOK
    BY DEF IndInv
<1> QED
    BY <1>1, Invariance, PTL

\* An entry of one of the queues names the queue and the place in it.
HolderIn(h, t, q, p) ==
    \E i \in 1..Len(q) : q[i] = t /\ h = <<p[1], p[2], i>>

\* The spots of the kernel, one by one.
HolderShape(h, t) ==
    \/ \E c \in Cores : cpu[c] = t /\ h = <<"cpu", c, 0>>
    \/ \E c \in Cores : help_requests[c] = t /\ h = <<"request", c, 0>>
    \/ \E c \in Cores : hand[c] = t /\ h = <<"hand", c, 0>>
    \/ HolderIn(h, t, ready_queue, Ready)
    \/ HolderIn(h, t, reaper_data, Reapable)
    \/ \E c \in Cores : HolderIn(h, t, sleep_queues[c], Sleeping(c))
    \/ \E s \in Sems : HolderIn(h, t, waiting[s], WaitingOn(s))
    \/ \E u \in TCBs : HolderIn(h, t, reaping[u], Doomed(u))

\* Holders enumerates exactly these spots.
LEMMA HoldersShape ==
    ASSUME QueueTypes, NEW t \in TCBs, NEW h \in Holders(t)
    PROVE  HolderShape(h, t)
<1>1. CASE h \in {<<"cpu", c, 0>> : c \in {c \in Cores : cpu[c] = t}}
    BY <1>1, Zenon DEF HolderShape
<1>2. CASE h \in {<<"request", c, 0>> : c \in {c \in Cores : help_requests[c] = t}}
    BY <1>2, Zenon DEF HolderShape
<1>3. CASE h \in {<<"hand", c, 0>> : c \in {c \in Cores : hand[c] = t}}
    BY <1>3, Zenon DEF HolderShape
<1>4. CASE h \in {<<"ready", NoTCB, i>> :
                    i \in {i \in DOMAIN ready_queue : ready_queue[i] = t}}
    <2>1. PICK i \in DOMAIN ready_queue : ready_queue[i] = t /\ h = <<"ready", NoTCB, i>>
        BY <1>4, Zenon
    <2>2. i \in 1..Len(ready_queue)
        BY <2>1, LenProperties DEF QueueTypes
    <2>3. HolderIn(h, t, ready_queue, Ready)
        BY <2>1, <2>2 DEF HolderIn, Ready
    <2> QED
        BY <2>3 DEF HolderShape
<1>5. CASE h \in {<<"reapable", NoTCB, i>> :
                    i \in {i \in DOMAIN reaper_data : reaper_data[i] = t}}
    <2>1. PICK i \in DOMAIN reaper_data : reaper_data[i] = t /\ h = <<"reapable", NoTCB, i>>
        BY <1>5, Zenon
    <2>2. i \in 1..Len(reaper_data)
        BY <2>1, LenProperties DEF QueueTypes
    <2>3. HolderIn(h, t, reaper_data, Reapable)
        BY <2>1, <2>2 DEF HolderIn, Reapable
    <2> QED
        BY <2>3 DEF HolderShape
<1>6. CASE h \in UNION {{<<"sleeping", c, i>> :
                    i \in {i \in DOMAIN sleep_queues[c] : sleep_queues[c][i] = t}} : c \in Cores}
    <2>1. PICK c \in Cores : h \in {<<"sleeping", c, i>> :
                    i \in {i \in DOMAIN sleep_queues[c] : sleep_queues[c][i] = t}}
        BY <1>6, Zenon
    <2>2. PICK i \in DOMAIN sleep_queues[c] : sleep_queues[c][i] = t /\ h = <<"sleeping", c, i>>
        BY <2>1, Zenon
    <2>3. i \in 1..Len(sleep_queues[c])
        BY <2>2, LenProperties DEF QueueTypes
    <2>4. HolderIn(h, t, sleep_queues[c], Sleeping(c))
        BY <2>2, <2>3 DEF HolderIn, Sleeping
    <2> QED
        BY <2>4 DEF HolderShape
<1>7. CASE h \in UNION {{<<"waiting", s, i>> :
                    i \in {i \in DOMAIN waiting[s] : waiting[s][i] = t}} : s \in Sems}
    <2>1. PICK s \in Sems : h \in {<<"waiting", s, i>> :
                    i \in {i \in DOMAIN waiting[s] : waiting[s][i] = t}}
        BY <1>7, Zenon
    <2>2. PICK i \in DOMAIN waiting[s] : waiting[s][i] = t /\ h = <<"waiting", s, i>>
        BY <2>1, Zenon
    <2>3. i \in 1..Len(waiting[s])
        BY <2>2, LenProperties DEF QueueTypes
    <2>4. HolderIn(h, t, waiting[s], WaitingOn(s))
        BY <2>2, <2>3 DEF HolderIn, WaitingOn
    <2> QED
        BY <2>4 DEF HolderShape
<1>8. CASE h \in UNION {{<<"doomed", u, i>> :
                    i \in {i \in DOMAIN reaping[u] : reaping[u][i] = t}} : u \in TCBs}
    <2>1. PICK u \in TCBs : h \in {<<"doomed", u, i>> :
                    i \in {i \in DOMAIN reaping[u] : reaping[u][i] = t}}
        BY <1>8, Zenon
    <2>2. PICK i \in DOMAIN reaping[u] : reaping[u][i] = t /\ h = <<"doomed", u, i>>
        BY <2>1, Zenon
    <2>3. i \in 1..Len(reaping[u])
        BY <2>2, LenProperties DEF QueueTypes
    <2>4. HolderIn(h, t, reaping[u], Doomed(u))
        BY <2>2, <2>3 DEF HolderIn, Doomed
    <2> QED
        BY <2>4 DEF HolderShape
<1> QED
    BY <1>1, <1>2, <1>3, <1>4, <1>5, <1>6, <1>7, <1>8, Zenon DEF Holders

\* In a queue whose members are all at place p, t is held once.
LEMMA HolderInQueue ==
    ASSUME NEW q, NEW p, NEW t, Holds(q, place, p), NEW h, HolderIn(h, t, q, p)
    PROVE  /\ place[t] = p
           /\ \A g : HolderIn(g, t, q, p) => g = h
    BY DEF Holds, HolderIn

\* The spots again, each with the place that goes with it.
HeldAt(h, t) ==
    \/ \E c \in Cores : place[t] = OnCpu(c) /\ h = <<"cpu", c, 0>>
    \/ \E c \in Cores : place[t] = Requesting(c) /\ h = <<"request", c, 0>>
    \/ \E c \in Cores : place[t] = InHand(c) /\ h = <<"hand", c, 0>>
    \/ place[t] = Ready /\ HolderIn(h, t, ready_queue, Ready)
    \/ place[t] = Reapable /\ HolderIn(h, t, reaper_data, Reapable)
    \/ \E c \in Cores : /\ place[t] = Sleeping(c)
                        /\ HolderIn(h, t, sleep_queues[c], Sleeping(c))
    \/ \E s \in Sems : /\ place[t] = WaitingOn(s)
                       /\ HolderIn(h, t, waiting[s], WaitingOn(s))
    \/ \E u \in TCBs : /\ place[t] = Doomed(u)
                       /\ HolderIn(h, t, reaping[u], Doomed(u))

\* The place of a TCB names the part of the kernel that holds it.
LEMMA HolderPlace ==
    ASSUME IndInv, NEW t \in TCBs, NEW h \in Holders(t)
    PROVE  HeldAt(h, t)
<1>1. HolderShape(h, t)
    BY HoldersShape DEF IndInv, TypeOK
<1>2. t # NoTCB
    BY ConstantsAssumption
<1>3. CorePlaces /\ QueuePlaces
    BY DEF IndInv
<1>4. ASSUME NEW c \in Cores, cpu[c] = t
      PROVE  place[t] = OnCpu(c)
    BY <1>4, <1>2, <1>3 DEF CorePlaces
<1>5. ASSUME NEW c \in Cores, help_requests[c] = t
      PROVE  place[t] = Requesting(c)
    BY <1>5, <1>2, <1>3 DEF CorePlaces
<1>6. ASSUME NEW c \in Cores, hand[c] = t
      PROVE  place[t] = InHand(c)
    BY <1>6, <1>2, <1>3 DEF CorePlaces
<1>7. HolderIn(h, t, ready_queue, Ready) => place[t] = Ready
    BY <1>3, HolderInQueue DEF QueuePlaces
<1>8. HolderIn(h, t, reaper_data, Reapable) => place[t] = Reapable
    BY <1>3, HolderInQueue DEF QueuePlaces
<1>9. ASSUME NEW c \in Cores, HolderIn(h, t, sleep_queues[c], Sleeping(c))
      PROVE  place[t] = Sleeping(c)
    BY <1>9, <1>3, HolderInQueue DEF QueuePlaces
<1>10. ASSUME NEW s \in Sems, HolderIn(h, t, waiting[s], WaitingOn(s))
      PROVE  place[t] = WaitingOn(s)
    BY <1>10, <1>3, HolderInQueue DEF QueuePlaces
<1>11. ASSUME NEW u \in TCBs, HolderIn(h, t, reaping[u], Doomed(u))
      PROVE  place[t] = Doomed(u)
    BY <1>11, <1>3, HolderInQueue DEF QueuePlaces
<1> QED
    BY <1>1, <1>4, <1>5, <1>6, <1>7, <1>8, <1>9, <1>10, <1>11, Zenon
       DEF HolderShape, HeldAt

\* Two holders of one TCB are the same.
LEMMA HoldersAgree ==
    ASSUME IndInv, NEW t \in TCBs, NEW g \in Holders(t), NEW h \in Holders(t)
    PROVE  g = h
<1>1. QueuePlaces /\ HeldAt(g, t) /\ HeldAt(h, t)
    BY HolderPlace DEF IndInv
<1>2. CASE \E c \in Cores : place[t] = OnCpu(c) /\ h = <<"cpu", c, 0>>
    BY <1>1, <1>2 DEF HeldAt, HolderIn, OnCpu, Requesting, InHand, Ready,
       Reapable, Sleeping, WaitingOn, Doomed
<1>3. CASE \E c \in Cores : place[t] = Requesting(c) /\ h = <<"request", c, 0>>
    BY <1>1, <1>3 DEF HeldAt, HolderIn, OnCpu, Requesting, InHand, Ready,
       Reapable, Sleeping, WaitingOn, Doomed
<1>4. CASE \E c \in Cores : place[t] = InHand(c) /\ h = <<"hand", c, 0>>
    BY <1>1, <1>4 DEF HeldAt, HolderIn, OnCpu, Requesting, InHand, Ready,
       Reapable, Sleeping, WaitingOn, Doomed
<1>5. CASE place[t] = Ready /\ HolderIn(h, t, ready_queue, Ready)
    <2>1. HolderIn(g, t, ready_queue, Ready)
        BY <1>1, <1>5 DEF HeldAt, HolderIn, OnCpu, Requesting, InHand, Ready,
           Reapable, Sleeping, WaitingOn, Doomed
    <2> QED
        BY <1>1, <1>5, <2>1, HolderInQueue DEF QueuePlaces
<1>6. CASE place[t] = Reapable /\ HolderIn(h, t, reaper_data, Reapable)
    <2>1. HolderIn(g, t, reaper_data, Reapable)
        BY <1>1, <1>6 DEF HeldAt, HolderIn, OnCpu, Requesting, InHand, Ready,
           Reapable, Sleeping, WaitingOn, Doomed
    <2> QED
        BY <1>1, <1>6, <2>1, HolderInQueue DEF QueuePlaces
<1>7. CASE \E c \in Cores : /\ place[t] = Sleeping(c)
                            /\ HolderIn(h, t, sleep_queues[c], Sleeping(c))
    <2>1. PICK c \in Cores : /\ place[t] = Sleeping(c)
                             /\ HolderIn(h, t, sleep_queues[c], Sleeping(c))
        BY <1>7
    <2>2. HolderIn(g, t, sleep_queues[c], Sleeping(c))
        BY <1>1, <2>1 DEF HeldAt, HolderIn, OnCpu, Requesting, InHand, Ready,
           Reapable, Sleeping, WaitingOn, Doomed
    <2> QED
        BY <1>1, <2>1, <2>2, HolderInQueue DEF QueuePlaces
<1>8. CASE \E s \in Sems : /\ place[t] = WaitingOn(s)
                           /\ HolderIn(h, t, waiting[s], WaitingOn(s))
    <2>1. PICK s \in Sems : /\ place[t] = WaitingOn(s)
                            /\ HolderIn(h, t, waiting[s], WaitingOn(s))
        BY <1>8
    <2>2. HolderIn(g, t, waiting[s], WaitingOn(s))
        BY <1>1, <2>1 DEF HeldAt, HolderIn, OnCpu, Requesting, InHand, Ready,
           Reapable, Sleeping, WaitingOn, Doomed
    <2> QED
        BY <1>1, <2>1, <2>2, HolderInQueue DEF QueuePlaces
<1>9. CASE \E u \in TCBs : /\ place[t] = Doomed(u)
                           /\ HolderIn(h, t, reaping[u], Doomed(u))
    <2>1. PICK u \in TCBs : /\ place[t] = Doomed(u)
                            /\ HolderIn(h, t, reaping[u], Doomed(u))
        BY <1>9
    <2>2. HolderIn(g, t, reaping[u], Doomed(u))
        BY <1>1, <2>1 DEF HeldAt, HolderIn, OnCpu, Requesting, InHand, Ready,
           Reapable, Sleeping, WaitingOn, Doomed
    <2> QED
        BY <1>1, <2>1, <2>2, HolderInQueue DEF QueuePlaces
<1> QED
    BY <1>1, <1>2, <1>3, <1>4, <1>5, <1>6, <1>7, <1>8, <1>9 DEF HeldAt

\* "A TCB can belong to at most one queue" (threads.h): whatever the cores
\* interleave, no TCB is in two queues, twice in one, or in a queue while a
\* core executes on its stack.
THEOREM AtMostOne == Spec => []AtMostOneQueue
<1>1. IndInv => AtMostOneQueue
    BY HoldersAgree DEF AtMostOneQueue
<1> QED
    BY <1>1, Invariance, PTL

-----------------------------------------------------------------------------
(* Semaphores *)

\* What any step does to the semaphores: nothing, take a token, add one, add
\* a waiter or remove the first one, each under the condition that the code
\* checks with the spin lock of that semaphore held.
SemaphoreStep ==
    \/ UNCHANGED <<n, waiting>>
    \/ \E s \in Sems : /\ n[s] > 0
                       /\ n' = [n EXCEPT ![s] = n[s] - 1]
                       /\ waiting' = waiting
    \/ \E s \in Sems : /\ waiting[s] = <<>>
                       /\ n' = [n EXCEPT ![s] = n[s] + 1]
                       /\ waiting' = waiting
    \/ \E s \in Sems : /\ n[s] = 0
                       /\ n' = n
                       /\ \E t \in TCBs :
                            waiting' = [waiting EXCEPT ![s] = Append(waiting[s], t)]
    \/ \E s \in Sems : /\ waiting[s] # <<>>
                       /\ n' = n
                       /\ waiting' = [waiting EXCEPT ![s] = Tail(waiting[s])]

\* Every action is such a step.
LEMMA NextSemaphoreStep ==
    ASSUME IndInv, [Next]_vars
    PROVE  SemaphoreStep
<1>1. CASE Tick \/ (\E c \in Cores : Boot(c)) \/ UNCHANGED vars
    BY <1>1 DEF Tick, Boot, vars, queueVars, SemaphoreStep
<1>2. ASSUME NEW c \in Cores, Helper(c)
      PROVE  SemaphoreStep
    <2>1. CASE HelperUp(c)
        BY <2>1, ConstantsAssumption DEF HelperUp, UpWakes, UpCounts, SemaphoreStep
    <2>2. CASE HelperDownTakes(c) \/ HelperDownWaits(c)
        <3>1. hand[c] \in TCBs /\ call[hand[c]].sem \in Sems
            BY <2>2 DEF HelperDownTakes, HelperDownWaits, DoIt, HelperAt, IndInv,
                        HandFilled, TypeOK, CoreTypes, TCBTypes, Calls
        <3> QED
            BY <2>2, <3>1 DEF HelperDownTakes, HelperDownWaits, Waits, SemaphoreStep
    <2>3. CASE \/ HelperResume(c) \/ HelperWakeup(c) \/ HelperNoRequest(c)
               \/ HelperTakes(c) \/ HelperYield(c) \/ HelperSleep(c)
               \/ HelperStop(c) \/ HelperAdd(c) \/ HelperPick(c) \/ HelperIdle(c)
               \/ HelperDispatch(c) \/ HelperSwitch(c)
        <3>1. UNCHANGED <<n, waiting>>
            BY <2>3 DEF HelperResume, HelperWakeup, HelperNoRequest, HelperTakes,
                        HelperYield, HelperSleep, HelperStop, HelperAdd, HelperPick,
                        HelperIdle, HelperDispatch, HelperSwitch, queueVars
        <3> QED
            BY <3>1 DEF SemaphoreStep
    <2> QED
        BY <1>2, <2>1, <2>2, <2>3 DEF Helper
<1>3. ASSUME NEW c \in Cores, Thread(c)
      PROVE  SemaphoreStep
    <2>1. CASE ThreadDown(c) \/ ReaperDown(c)
        <3>1. PICK s \in Sems, resume \in {"run", "remove"} :
                DownTakes(c, s, resume) \/ DownBlocks(c, s)
            BY <2>1, ConstantsAssumption DEF ThreadDown, ReaperDown
        <3> QED
            BY <3>1 DEF DownTakes, DownBlocks, Block, queueVars, SemaphoreStep
    <2>2. CASE ThreadUp(c)
        BY <2>2 DEF ThreadUp, UpWakes, UpCounts, SemaphoreStep
    <2>3. CASE CallYield(c) \/ CallSleep(c) \/ CallStop(c) \/ CallThread(c)
        <3>1. UNCHANGED <<n, waiting>>
            BY <2>3 DEF CallYield, CallSleep, CallStop, CallThread, Reap
        <3> QED
            BY <3>1 DEF SemaphoreStep
    <2>4. CASE \/ ReapDelete(c) \/ YieldReturns(c) \/ YieldBlocks(c)
               \/ SleepBlocks(c) \/ StopBlocks(c) \/ SwitchToHelper(c)
               \/ ThreadAllocates(c)
               \/ ThreadAdds(c) \/ ReaperRemoves(c) \/ ReaperFindsNothing(c)
               \/ ReaperDeletes(c)
        <3>1. UNCHANGED <<n, waiting>>
            BY <2>4 DEF ReapDelete, YieldReturns, YieldBlocks, SleepBlocks,
                        StopBlocks, Block, SwitchToHelper, ThreadAllocates,
                        ThreadAdds, ReaperRemoves,
                        ReaperFindsNothing, ReaperDeletes, queueVars
        <3> QED
            BY <3>1 DEF SemaphoreStep
    <2> QED
        BY <1>3, <2>1, <2>2, <2>3, <2>4 DEF Thread
<1> QED
    BY <1>1, <1>2, <1>3 DEF Next, Core

\* Taking a waiter, adding a token or queueing a waiter keeps the promise of
\* the semaphore.
LEMMA SemaphoreStepKeeps ==
    ASSUME IndInv, NoLostWakeup, SemaphoreStep
    PROVE  NoLostWakeup'
<1>1. n \in [Sems -> Nat] /\ waiting \in [Sems -> Seq(TCBs)]
    BY DEF IndInv, TypeOK, NumberTypes, QueueTypes
<1>2. CASE UNCHANGED <<n, waiting>>
    BY <1>2 DEF NoLostWakeup
<1>3. ASSUME NEW s \in Sems,
             \/ n[s] > 0 /\ n' = [n EXCEPT ![s] = n[s] - 1]
             \/ waiting[s] = <<>> /\ n' = [n EXCEPT ![s] = n[s] + 1],
             waiting' = waiting
      PROVE  NoLostWakeup'
    BY <1>1, <1>3 DEF NoLostWakeup
<1>4. ASSUME NEW s \in Sems, n[s] = 0 \/ waiting[s] # <<>>, n' = n,
             NEW q, waiting' = [waiting EXCEPT ![s] = q]
      PROVE  NoLostWakeup'
    BY <1>1, <1>4 DEF NoLostWakeup
<1> QED
    BY <1>2, <1>3, <1>4 DEF SemaphoreStep

\* An up() between the two checks of Semaphore::down is never lost: for any
\* number of cores, threads and semaphores, nobody waits on a semaphore that
\* could be taken.
THEOREM WakeupsKept == Spec => []NoLostWakeup
<1>1. Init => NoLostWakeup
    BY DEF Init, NoLostWakeup
<1>2. IndInv /\ NoLostWakeup /\ [Next]_vars => NoLostWakeup'
    BY NextSemaphoreStep, SemaphoreStepKeeps
<1> QED
    BY <1>1, <1>2, Invariance, PTL DEF Spec

-----------------------------------------------------------------------------
(* What a core believes about itself *)

\* active_thread follows the stack a core executes on, but for the two ways
\* over: a thread that blocks has given it up, a helper that dispatches has
\* set it, with interrupts disabled.  They are enabled on every stack a
\* thread has left, and only disabled until the core has booted and between
\* the cli() of the helper and the sti() at the end of its loop.
CoreFlags ==
    /\ \A t \in TCBs : eflags[t]
    /\ \A c \in Cores :
        /\ cpu[c] # NoTCB =>
              /\ active_thread[c] = (IF pc[cpu[c]] = "switch" THEN NoTCB ELSE cpu[c])
              /\ esp0[c] = cpu[c]
              /\ interrupts[c]
        /\ cpu[c] = NoTCB /\ hpc[c] = "switch" =>
              active_thread[c] = hand[c] /\ esp0[c] = hand[c] /\ ~interrupts[c]
        /\ cpu[c] = NoTCB /\ hpc[c] # "switch" => active_thread[c] = NoTCB
        /\ cpu[c] = NoTCB /\ hpc[c] \notin {"boot", "sti", "switch"} => interrupts[c]

\* A thread in the middle of block() executes.
SwitchRuns == \A t \in TCBs : pc[t] = "switch" => \E c \in Cores : cpu[c] = t

\* A thread that has called stop() is on its way to the reaper: it waits for
\* its helper, or for somebody to delete it, or is deleted.
StoppedAway ==
    \A t \in TCBs :
        pc[t] = "stopped" =>
            \/ place[t] \in {Free, Reapable}
            \/ \E u \in TCBs : place[t] = Doomed(u)
            \/ \E c \in Cores : place[t] = Requesting(c) /\ call[t].op = "stop"
            \/ \E c \in Cores : /\ hand[c] = t /\ hpc[c] = "doit"
                               /\ call[t].op = "stop"

\* Nothing has stopped before the main thread exists.
BootBeforeStop ==
    (\E c \in Cores : hpc[c] = "boot") => \A t \in TCBs : pc[t] # "stopped"

-----------------------------------------------------------------------------
(* The order of the sleep queues *)

\* A sleep queue is ordered by the time its threads wake.
Sorted(q, at) == \A i, j \in 1..Len(q) : i < j => at[q[i]] <= at[q[j]]

SleepOrdered == \A c \in Cores : Sorted(sleep_queues[c], at_jiffies)

-----------------------------------------------------------------------------
(* Where a TCB is held *)

In(q, t) == \E i \in 1..Len(q) : q[i] = t

\* The spot that p stands for really holds t.
Sits(t, p) ==
    \/ p = Free
    \/ p = Ready /\ In(ready_queue, t)
    \/ p = Reapable /\ In(reaper_data, t)
    \/ \E c \in Cores : \/ p = OnCpu(c) /\ cpu[c] = t
                        \/ p = Requesting(c) /\ help_requests[c] = t
                        \/ p = InHand(c) /\ hand[c] = t
                        \/ p = Sleeping(c) /\ In(sleep_queues[c], t)
    \/ \E s \in Sems : p = WaitingOn(s) /\ In(waiting[s], t)
    \/ \E u \in TCBs : p = Doomed(u) /\ In(reaping[u], t)

AllSit == \A t \in TCBs : Sits(t, place[t])

\* A core has at most one TCB in its hands, and none when it takes one.
HandEmpty ==
    \A c \in Cores :
        hand[c] # NoTCB =>
            IF cpu[c] = NoTCB THEN hpc[c] \in {"doit", "add", "dispatch", "switch"}
                              ELSE pc[cpu[c]] = "add"

\* A request is taken up before the core runs anything else.
RequestFirst ==
    \A c \in Cores :
        help_requests[c] # NoTCB => cpu[c] = NoTCB /\ hpc[c] \in {"sti", "wakeup"}

\* Only a thread that is in reap(), or the reaper, has TCBs to delete, and it
\* does not give its core up before it has deleted them.
ReapingRuns ==
    \A t \in TCBs :
        /\ reaping[t] # <<>> => pc[t] \in {"reaping", "delete"}
        /\ pc[t] = "delete" => Len(reaping[t]) = 1
        /\ pc[t] \in {"reaping", "delete"} => \E c \in Cores : cpu[c] = t

\* Every allocated TCB sits where `place` says, and no core overwrites the
\* only reference to one.
HeldInv == AllSit /\ HandEmpty /\ RequestFirst /\ ReapingRuns

-----------------------------------------------------------------------------
(* The reaper *)

\* t has made a request that has not been carried out.
Pending(t) == \E c \in Cores : \/ place[t] = Requesting(c)
                               \/ hand[c] = t /\ hpc[c] = "doit"

\* Only the reaper waits on its semaphore, or is about to, and it goes on to
\* look into the queue when it comes back.
Alone(t) ==
    IF t = Reaper
    THEN /\ call[t].op = "down" => pc[t] = "switch" \/ (pc[t] = "remove" /\ Pending(t))
         /\ (\E s \in Sems : place[t] = WaitingOn(s)) => pc[t] = "remove"
    ELSE /\ call[t].op = "down" => call[t].sem # ReaperSem
         /\ place[t] # WaitingOn(ReaperSem)
         /\ pc[t] \notin {"down", "remove", "delete"}

ReaperAlone == \A t \in TCBs : Alone(t)

-----------------------------------------------------------------------------
(* Proofs: what a core believes about itself *)

\* Whoever executes a step of a thread is a thread.
LEMMA ThreadRuns ==
    ASSUME NEW c \in Cores, Thread(c)
    PROVE  cpu[c] # NoTCB
<1>1. ASSUME NEW op, NEW sec, NEW cost, Reap(c, op, sec, cost)
      PROVE  cpu[c] # NoTCB
    BY <1>1 DEF Reap, Running
<1>2. CASE CallYield(c) \/ CallSleep(c) \/ CallStop(c) \/ CallThread(c)
    BY <1>1, <1>2 DEF CallYield, CallSleep, CallStop, CallThread
<1>3. CASE \/ ReapDelete(c) \/ YieldReturns(c) \/ YieldBlocks(c) \/ SleepBlocks(c)
           \/ StopBlocks(c) \/ SwitchToHelper(c) \/ ThreadAllocates(c)
           \/ ThreadAdds(c) \/ ThreadDown(c) \/ ThreadUp(c) \/ ReaperDown(c) \/ ReaperRemoves(c)
           \/ ReaperFindsNothing(c) \/ ReaperDeletes(c)
    BY <1>3 DEF ReapDelete, YieldReturns, YieldBlocks, SleepBlocks, StopBlocks,
       SwitchToHelper, ThreadAllocates, ThreadAdds, ThreadDown, ThreadUp, ReaperDown,
       ReaperRemoves, ReaperFindsNothing, ReaperDeletes, UserCall, Reaped, Running
<1> QED
    BY <1>2, <1>3 DEF Thread

\* A step that leaves the cores as they are, and starts or ends no block().
LEMMA CoreFlagsKept ==
    ASSUME CoreTypes, CoreFlags,
           UNCHANGED <<cpu, active_thread, interrupts, esp0, hpc>>,
           \A t \in TCBs : eflags[t] => eflags'[t],
           \A d \in Cores : cpu[d] = NoTCB => hand'[d] = hand[d],
           \A d \in Cores : cpu[d] # NoTCB =>
                (pc'[cpu[d]] = "switch" <=> pc[cpu[d]] = "switch")
    PROVE  CoreFlags'
BY DEF CoreFlags, CoreTypes

\* Every step of a helper keeps active_thread, esp0 and the interrupt flag of
\* every core.
LEMMA CoreFlagsHelper ==
    ASSUME IndInv, CoreFlags, SwitchRuns, NEW c \in Cores, Helper(c)
    PROVE  CoreFlags'
<1>0. CoreTypes /\ HelperSaved /\ HandFilled /\ CorePlaces
    BY DEF IndInv, TypeOK
<1>1. CASE HelperResume(c)
    BY <1>0, <1>1 DEF HelperResume, HelperAt, CoreFlags, CoreTypes, tcbVars
<1>2. CASE HelperDispatch(c)
    BY <1>0, <1>2 DEF HelperDispatch, HelperAt, CoreFlags, CoreTypes, tcbVars
<1>3. CASE HelperSwitch(c)
    <2>1. /\ hand[c] \in TCBs /\ place[hand[c]] = InHand(c)
          /\ cpu[c] = NoTCB /\ hpc[c] = "switch"
        BY <1>0, <1>3 DEF HelperSwitch, HelperAt, HandFilled, CoreTypes, CorePlaces
    <2>2. \A d \in Cores : place[hand[c]] # OnCpu(d)
        BY <2>1 DEF InHand, OnCpu
    <2>3. pc[hand[c]] # "switch"
        BY <1>0, <2>1, <2>2, ConstantsAssumption DEF SwitchRuns, CorePlaces
    <2>4. /\ cpu' = [cpu EXCEPT ![c] = hand[c]]
          /\ interrupts' = [interrupts EXCEPT ![c] = eflags[hand[c]]]
          /\ hpc' = [hpc EXCEPT ![c] = "sti"]
          /\ hand' = [hand EXCEPT ![c] = NoTCB]
          /\ UNCHANGED <<active_thread, eflags, esp0, pc>>
        BY <1>3 DEF HelperSwitch
    <2>5. esp0[c] = hand[c] /\ active_thread[c] = hand[c] /\ eflags[hand[c]] = TRUE
        BY <1>0, <2>1 DEF CoreFlags, CoreTypes
    <2> QED
        BY <1>0, <2>1, <2>3, <2>4, <2>5, ConstantsAssumption DEF CoreFlags, CoreTypes
<1>4. CASE HelperWakeup(c)
    BY <1>0, <1>4, CoreFlagsKept DEF HelperWakeup, coreVars
<1>5. CASE \/ HelperNoRequest(c) \/ HelperTakes(c) \/ HelperYield(c) \/ HelperSleep(c)
           \/ HelperDownTakes(c) \/ HelperDownWaits(c) \/ HelperStop(c)
           \/ HelperUp(c) \/ HelperAdd(c) \/ HelperPick(c) \/ HelperIdle(c)
    <2>1. /\ UNCHANGED <<cpu, active_thread, flagVars, esp0, pc>>
          /\ cpu[c] = NoTCB
          /\ hpc[c] \notin {"boot", "sti", "switch"}
          /\ \E w : w # "switch" /\ hpc' = [hpc EXCEPT ![c] = w]
          /\ \A d \in Cores : d # c => hand'[d] = hand[d]
        BY <1>0, <1>5 DEF HelperNoRequest, HelperTakes, HelperYield, HelperSleep,
           HelperDownTakes, HelperDownWaits, Waits, HelperStop, HelperUp, UpWakes,
           UpCounts, HelperAdd, AddReady, HelperPick, HelperIdle, DoIt, Published,
           HelperAt, tcbVars, CoreTypes
    <2> QED
        BY <1>0, <2>1 DEF CoreFlags, CoreTypes
<1> QED
    BY <1>1, <1>2, <1>3, <1>4, <1>5 DEF Helper

\* The same of the steps of a thread.
LEMMA CoreFlagsThread ==
    ASSUME IndInv, CoreFlags, NEW c \in Cores, cpu[c] # NoTCB, Thread(c)
    PROVE  CoreFlags'
<1> DEFINE r == cpu[c]
<1>0. /\ CoreTypes /\ TCBTypes /\ HelperSaved /\ CorePlaces
      /\ r \in TCBs /\ place[r] = OnCpu(c) /\ hpc[c] = "sti"
      /\ \A d \in Cores : cpu[d] = r => d = c
    BY DEF IndInv, TypeOK, CoreTypes, HelperSaved, CorePlaces, OnCpu
<1>1. ASSUME NEW w, w # "switch", pc' = [pc EXCEPT ![r] = w], pc[r] # "switch",
             UNCHANGED <<cpu, active_thread, flagVars, esp0, hpc>>,
             \A d \in Cores : d # c => hand'[d] = hand[d]
      PROVE  CoreFlags'
    <2> HIDE DEF r
    <2>1. \A t \in TCBs : pc'[t] = "switch" <=> pc[t] = "switch"
        BY <1>0, <1>1 DEF TCBTypes
    <2>2. \A d \in Cores : cpu[d] = NoTCB => hand'[d] = hand[d]
        BY <1>0, <1>1 DEF r
    <2> QED
        BY <1>0, <1>1, <2>1, <2>2, CoreFlagsKept DEF CoreTypes
<1>2. ASSUME NEW request, Block(c, request)
      PROVE  CoreFlags'
    <2>1. /\ active_thread' = [active_thread EXCEPT ![c] = NoTCB]
          /\ pc' = [pc EXCEPT ![r] = "switch"]
          /\ UNCHANGED <<cpu, flagVars, esp0, hpc, hand>>
        BY <1>2 DEF Block
    <2>2. ASSUME NEW d \in Cores, d # c, cpu[d] # NoTCB
          PROVE  pc'[cpu[d]] = pc[cpu[d]]
        BY <1>0, <2>1, <2>2
    <2> QED
        BY <1>0, <2>1, <2>2 DEF CoreFlags, CoreTypes, TCBTypes
<1>3. CASE SwitchToHelper(c)
    <2>1. /\ eflags' = [eflags EXCEPT ![r] = interrupts[c]]
          /\ \E w \in {"run", "stopped", "remove"} : pc' = [pc EXCEPT ![r] = w]
          /\ cpu' = [cpu EXCEPT ![c] = NoTCB]
          /\ interrupts' = [interrupts EXCEPT ![c] = helper_eflags[c]]
          /\ UNCHANGED <<active_thread, esp0, hpc, hand>>
          /\ pc[r] = "switch"
        BY <1>3 DEF SwitchToHelper, BehindBlock, Running
    <2>2. active_thread[c] = NoTCB /\ interrupts[c] = TRUE
        BY <1>0, <2>1 DEF CoreFlags, CoreTypes
    <2>3. ASSUME NEW d \in Cores, d # c, cpu[d] # NoTCB
          PROVE  pc'[cpu[d]] = pc[cpu[d]]
        BY <1>0, <2>1, <2>3
    <2>4. \A t \in TCBs : eflags'[t]
        BY <1>0, <2>1, <2>2 DEF CoreFlags, CoreTypes
    <2> QED
        BY <1>0, <2>1, <2>2, <2>3, <2>4 DEF CoreFlags, CoreTypes
<1>4. CASE CallYield(c) \/ CallSleep(c) \/ CallStop(c) \/ CallThread(c)
    <2>1. PICK op, sec, cost : Reap(c, op, sec, cost)
        BY <1>4 DEF CallYield, CallSleep, CallStop, CallThread
    <2> QED
        BY <1>1, <2>1 DEF Reap, Running, coreVars
<1>5. CASE YieldBlocks(c) \/ SleepBlocks(c) \/ StopBlocks(c)
    BY <1>2, <1>5 DEF YieldBlocks, SleepBlocks, StopBlocks
<1>6. CASE ThreadDown(c) \/ ReaperDown(c)
    <2>1. PICK s, next : /\ DownTakes(c, s, next) \/ DownBlocks(c, s)
                         /\ next # "switch"
                         /\ pc[r] # "switch"
        BY <1>6 DEF ThreadDown, ReaperDown, UserCall, Running
    <2> QED
        BY <1>1, <1>2, <2>1 DEF DownTakes, DownBlocks, coreVars
<1>7. CASE ReapDelete(c)
    BY <1>0, <1>7, CoreFlagsKept DEF ReapDelete, coreVars
<1>8. CASE \/ YieldReturns(c) \/ ThreadAdds(c) \/ ReaperRemoves(c)
           \/ ReaperFindsNothing(c) \/ ReaperDeletes(c)
    <2>1. /\ \E w : w # "switch" /\ pc' = [pc EXCEPT ![r] = w]
          /\ pc[r] # "switch"
          /\ UNCHANGED <<cpu, active_thread, flagVars, esp0, hpc>>
          /\ \A d \in Cores : d # c => hand'[d] = hand[d]
        BY <1>0, <1>8 DEF YieldReturns, ThreadAdds, AddReady, ReaperRemoves,
           ReaperFindsNothing, ReaperDeletes, Reaped, Running, coreVars, CoreTypes
    <2> QED
        BY <1>1, <2>1
<1>9. CASE ThreadUp(c)
    <2>1. /\ pc' = pc \/ (pc' = [pc EXCEPT ![r] = "add"] /\ pc[r] # "switch")
          /\ UNCHANGED <<cpu, active_thread, flagVars, esp0, hpc>>
          /\ \A d \in Cores : d # c => hand'[d] = hand[d]
        BY <1>0, <1>9 DEF ThreadUp, UserCall, Running, UpWakes, UpCounts, CoreTypes
    <2> QED
        BY <1>0, <1>1, <2>1, CoreFlagsKept
<1>10. CASE ThreadAllocates(c)
    <2>1. PICK u \in TCBs : /\ place[u] = Free
                            /\ eflags' = [eflags EXCEPT ![u] = TRUE]
                            /\ pc' = [pc EXCEPT ![u] = "run", ![r] = "add"]
                            /\ hand' = [hand EXCEPT ![c] = u]
        BY <1>10 DEF ThreadAllocates, Unallocated
    <2>2. /\ UNCHANGED <<cpu, active_thread, interrupts, esp0, hpc>>
          /\ pc[r] = "reaping"
        BY <1>10 DEF ThreadAllocates, Reaped, Running
    <2>3. \A d \in Cores : cpu[d] # NoTCB => cpu[d] # u
        BY <1>0, <2>1 DEF CorePlaces, OnCpu, Free
    <2>4. \A d \in Cores : cpu[d] # NoTCB =>
            (pc'[cpu[d]] = "switch" <=> pc[cpu[d]] = "switch")
        <3> HIDE DEF r
        <3> QED
            BY <1>0, <2>1, <2>2, <2>3 DEF CoreTypes, TCBTypes
    <2>5. \A t \in TCBs : eflags[t] => eflags'[t]
        BY <1>0, <2>1 DEF CoreTypes
    <2>6. \A d \in Cores : cpu[d] = NoTCB => hand'[d] = hand[d]
        BY <1>0, <2>1 DEF CoreTypes
    <2> QED
        BY <1>0, <2>2, <2>4, <2>5, <2>6, CoreFlagsKept
<1> QED
    BY <1>3, <1>4, <1>5, <1>6, <1>7, <1>8, <1>9, <1>10 DEF Thread

\* And of any step.
LEMMA CoreFlagsStep ==
    ASSUME IndInv, CoreFlags, SwitchRuns, [Next]_vars
    PROVE  CoreFlags'
<1>0. CoreTypes /\ HelperSaved
    BY DEF IndInv, TypeOK
<1>1. CASE Tick \/ UNCHANGED vars
    BY <1>0, <1>1, CoreFlagsKept DEF Tick, vars, coreVars, tcbVars
<1>2. ASSUME NEW c \in Cores, Boot(c)
      PROVE  CoreFlags'
    <2>1. /\ cpu[c] = NoTCB /\ hpc[c] = "boot"
          /\ hpc' = [hpc EXCEPT ![c] = "wakeup"]
          /\ interrupts' = [interrupts EXCEPT ![c] = TRUE]
          /\ eflags' = [eflags EXCEPT ![Main] = TRUE] \/ eflags' = eflags
          /\ UNCHANGED <<cpu, active_thread, esp0, hand, pc>>
        BY <1>0, <1>2 DEF Boot, HelperSaved
    <2>2. \A t \in TCBs : eflags'[t]
        BY <1>0, <2>1 DEF CoreFlags, CoreTypes
    <2> QED
        BY <1>0, <2>1, <2>2 DEF CoreFlags, CoreTypes
<1> QED
    BY <1>1, <1>2, CoreFlagsHelper, CoreFlagsThread, ThreadRuns DEF Next, Core

\* A thread that may still run has not stopped.
LEMMA NotStopped ==
    ASSUME IndInv, StoppedAway, NEW t \in TCBs,
           \/ place[t] = Ready
           \/ \E x : place[t] \in {OnCpu(x), Sleeping(x), WaitingOn(x)}
           \/ \E x : place[t] = InHand(x) /\ hpc[x] # "doit"
           \/ \E x : place[t] \in {InHand(x), Requesting(x)} /\ call[t].op # "stop"
    PROVE  pc[t] # "stopped"
<1>1. ASSUME NEW c \in Cores, hand[c] = t
      PROVE  place[t] = InHand(c)
    BY <1>1, ConstantsAssumption DEF IndInv, CorePlaces
<1> QED
    BY <1>1 DEF StoppedAway, Free, Ready, Reapable, OnCpu, InHand, Sleeping,
       WaitingOn, Requesting, Doomed

\* The helper of a core carries out the request of a thread that has not
\* called stop().
LEMMA TakenNotStopped ==
    ASSUME IndInv, StoppedAway, NEW c \in Cores, NEW op, op # "stop", NEW where,
           DoIt(c, op, where)
    PROVE  /\ hand[c] \in TCBs
           /\ pc[hand[c]] # "stopped"
<1>1. /\ hand[c] \in TCBs
      /\ place[hand[c]] = InHand(c)
      /\ call[hand[c]].op # "stop"
    BY DEF DoIt, HelperAt, HandFilled, IndInv, TypeOK, CoreTypes, CorePlaces
<1> QED
    BY <1>1, NotStopped

\* The helper of a core leaves the others alone.
LEMMA HelperFrame ==
    ASSUME IndInv, NEW c \in Cores, Helper(c)
    PROVE  \A d \in Cores : d # c => hand'[d] = hand[d] /\ hpc'[d] = hpc[d]
<1>0. CoreTypes
    BY DEF IndInv, TypeOK
<1> QED
    BY <1>0 DEF CoreTypes, Helper, HelperResume, HelperWakeup, HelperNoRequest,
       HelperTakes, HelperYield, HelperSleep, HelperDownTakes, HelperDownWaits, Waits,
       HelperStop, HelperUp, UpWakes, UpCounts, HelperAdd, AddReady, HelperPick,
       HelperIdle, HelperDispatch, HelperSwitch, DoIt, Published, coreVars

\* The thread on a core leaves every helper where it is.
LEMMA ThreadFrame ==
    ASSUME IndInv, NEW c \in Cores, Thread(c)
    PROVE  /\ hpc' = hpc /\ hpc[c] = "sti"
           /\ \A d \in Cores : d # c => hand'[d] = hand[d]
<1>0. CoreTypes /\ hpc[c] = "sti"
    BY ThreadRuns DEF IndInv, TypeOK, HelperSaved
<1>1. ASSUME NEW op, NEW sec, NEW cost, Reap(c, op, sec, cost)
      PROVE  hpc' = hpc /\ hand' = hand
    BY <1>1 DEF Reap, coreVars
<1>2. CASE CallYield(c) \/ CallSleep(c) \/ CallStop(c) \/ CallThread(c)
    BY <1>0, <1>1, <1>2 DEF CallYield, CallSleep, CallStop, CallThread
<1>3. CASE ~(CallYield(c) \/ CallSleep(c) \/ CallStop(c) \/ CallThread(c))
    BY <1>0, <1>3 DEF CoreTypes, Thread, ReapDelete, YieldReturns, YieldBlocks,
       SleepBlocks, StopBlocks, Block, SwitchToHelper, ThreadAllocates, ThreadAdds,
       AddReady, ThreadDown, ReaperDown, DownTakes, DownBlocks, ThreadUp, UpWakes,
       UpCounts, ReaperRemoves, ReaperFindsNothing, ReaperDeletes, coreVars
<1> QED
    BY <1>2, <1>3

\* A step of core c that stops nobody and leaves the stopped threads alone.
LEMMA StoppedKept ==
    ASSUME StoppedAway, NEW c \in Cores,
           \A d \in Cores : d # c => hand'[d] = hand[d] /\ hpc'[d] = hpc[d],
           \A t \in TCBs : pc'[t] = "stopped" =>
                /\ pc[t] = "stopped"
                /\ place'[t] = place[t]
                /\ call'[t] = call[t]
                /\ ~(hand[c] = t /\ hpc[c] = "doit" /\ call[t].op = "stop")
    PROVE  StoppedAway'
BY DEF StoppedAway

\* Stopped threads stay away, in the steps of a helper.
LEMMA StoppedAwayHelper ==
    ASSUME IndInv, StoppedAway, NEW c \in Cores, Helper(c)
    PROVE  StoppedAway'
<1>0. /\ CoreTypes /\ QueueTypes /\ TCBTypes /\ CorePlaces /\ QueuePlaces
      /\ HandFilled
    BY DEF IndInv, TypeOK
<1>a. \A d \in Cores : d # c => hand'[d] = hand[d] /\ hpc'[d] = hpc[d]
    BY HelperFrame
<1>1. CASE HelperResume(c) \/ HelperNoRequest(c) \/ HelperIdle(c) \/ HelperDispatch(c)
    BY <1>a, <1>1, StoppedKept DEF HelperResume, HelperNoRequest, HelperIdle,
       HelperDispatch, HelperAt, tcbVars
<1>2. CASE HelperWakeup(c)
    <2> DEFINE t == Head(sleep_queues[c])
    <2>1. t \in TCBs /\ place[t] = Sleeping(c)
        BY <1>0, <1>2, HoldsTail DEF HelperWakeup, SomeoneDue, Due, QueueTypes,
           QueuePlaces, TCBTypes
    <2>2. pc[t] # "stopped"
        BY <2>1, NotStopped
    <2>3. /\ UNCHANGED <<pc, call>> /\ place' = [place EXCEPT ![t] = Ready]
          /\ hpc[c] = "wakeup"
        BY <1>2 DEF HelperWakeup, HelperAt
    <2> HIDE DEF t
    <2> QED
        BY <1>0, <1>a, <2>2, <2>3, StoppedKept DEF TCBTypes
<1>3. CASE HelperTakes(c)
    <2> DEFINE t == help_requests[c]
    <2>1. /\ t \in TCBs /\ place[t] = Requesting(c)
          /\ UNCHANGED <<pc, call>> /\ place' = [place EXCEPT ![t] = InHand(c)]
          /\ hand'[c] = t /\ hpc'[c] = "doit" /\ hpc[c] = "wakeup"
        BY <1>0, <1>3 DEF HelperTakes, HelperAt, CoreTypes, CorePlaces
    <2> HIDE DEF t
    <2>2. ASSUME NEW u \in TCBs, pc[u] = "stopped", u # t
          PROVE  \/ place'[u] \in {Free, Reapable}
                 \/ \E v \in TCBs : place'[u] = Doomed(v)
                 \/ \E d \in Cores : place'[u] = Requesting(d) /\ call'[u].op = "stop"
                 \/ \E d \in Cores : /\ hand'[d] = u /\ hpc'[d] = "doit"
                                    /\ call'[u].op = "stop"
        BY <1>0, <1>a, <2>1, <2>2 DEF StoppedAway, TCBTypes
    <2>3. ASSUME pc[t] = "stopped"
          PROVE  call[t].op = "stop"
        BY <2>1, <2>3, NotStopped
    <2> QED
        BY <2>1, <2>2, <2>3 DEF StoppedAway
<1>4. CASE HelperYield(c) \/ HelperSleep(c) \/ HelperDownTakes(c) \/ HelperDownWaits(c)
    <2> DEFINE t == hand[c]
    <2>1. pc[t] # "stopped"
        BY <1>4, TakenNotStopped DEF HelperYield, HelperSleep, HelperDownTakes,
           HelperDownWaits
    <2>2. /\ pc' = pc
          /\ call' = [call EXCEPT ![t] = NoCall]
          /\ place' = place \/ \E p : place' = [place EXCEPT ![t] = p]
        BY <1>4 DEF HelperYield, HelperSleep, HelperDownTakes, HelperDownWaits,
           Waits, DoIt
    <2> HIDE DEF t
    <2>3. ~(hand[c] = t /\ pc[t] = "stopped")
        BY <2>1
    <2> QED
        BY <1>0, <1>a, <2>1, <2>2, StoppedKept DEF t, TCBTypes
<1>5. CASE HelperStop(c)
    <2> DEFINE t == hand[c]
    <2>1. /\ pc' = pc
          /\ call' = [call EXCEPT ![t] = NoCall]
          /\ place' = [place EXCEPT ![t] = Reapable]
        BY <1>5 DEF HelperStop, DoIt
    <2>2. ASSUME NEW u \in TCBs, u # t, NEW d \in Cores, hand[d] = u
          PROVE  d # c
        BY <2>2
    <2> HIDE DEF t
    <2> QED
        BY <1>0, <1>a, <2>1, <2>2 DEF StoppedAway, TCBTypes
<1>6. CASE HelperUp(c)
    <2>0. hpc[c] = "up"
        BY <1>6 DEF HelperUp, HelperAt
    <2>1. CASE UpCounts(ReaperSem)
        BY <1>a, <1>6, <2>0, <2>1, StoppedKept DEF HelperUp, UpCounts
    <2>2. CASE UpWakes(c, ReaperSem)
        <3> DEFINE t == Head(waiting[ReaperSem])
        <3>1. t \in TCBs /\ place[t] = WaitingOn(ReaperSem)
            BY <1>0, <2>2, HoldsTail, ConstantsAssumption DEF UpWakes, QueueTypes,
               QueuePlaces, TCBTypes
        <3>2. pc[t] # "stopped"
            BY <3>1, NotStopped
        <3>3. UNCHANGED <<pc, call>> /\ place' = [place EXCEPT ![t] = InHand(c)]
            BY <1>6, <2>2 DEF HelperUp, UpWakes
        <3> HIDE DEF t
        <3> QED
            BY <1>0, <1>a, <2>0, <3>2, <3>3, StoppedKept DEF TCBTypes
    <2> QED
        BY <1>6, <2>1, <2>2 DEF HelperUp
<1>7. CASE HelperAdd(c) \/ HelperSwitch(c)
    <2>1. hand[c] \in TCBs /\ place[hand[c]] = InHand(c) /\ hpc[c] # "doit"
        BY <1>0, <1>7 DEF HelperAdd, HelperSwitch, HelperAt, HandFilled,
           CoreTypes, CorePlaces
    <2>2. pc[hand[c]] # "stopped"
        BY <2>1, NotStopped
    <2>3. UNCHANGED <<pc, call>> /\ \E p : place' = [place EXCEPT ![hand[c]] = p]
        BY <1>7 DEF HelperAdd, HelperSwitch, AddReady
    <2> QED
        BY <1>0, <1>a, <2>1, <2>2, <2>3, StoppedKept DEF TCBTypes
<1>8. CASE HelperPick(c)
    <2> DEFINE t == Head(ready_queue)
    <2>1. t \in TCBs /\ place[t] = Ready
        BY <1>0, <1>8, HoldsTail DEF HelperPick, QueueTypes, QueuePlaces, TCBTypes
    <2>2. pc[t] # "stopped"
        BY <2>1, NotStopped
    <2>3. /\ UNCHANGED <<pc, call>> /\ place' = [place EXCEPT ![t] = InHand(c)]
          /\ hpc[c] = "pick"
        BY <1>8 DEF HelperPick, HelperAt
    <2> HIDE DEF t
    <2> QED
        BY <1>0, <1>a, <2>2, <2>3, StoppedKept DEF TCBTypes
<1> QED
    BY <1>1, <1>2, <1>3, <1>4, <1>5, <1>6, <1>7, <1>8 DEF Helper

\* A thread that executes has its core and has not stopped.
LEMMA RunnerFacts ==
    ASSUME IndInv, NEW c \in Cores, cpu[c] # NoTCB
    PROVE  /\ cpu[c] \in TCBs
           /\ place[cpu[c]] = OnCpu(c)
           /\ StoppedAway => pc[cpu[c]] # "stopped"
<1>1. cpu[c] \in TCBs /\ place[cpu[c]] = OnCpu(c)
    BY DEF IndInv, TypeOK, CoreTypes, CorePlaces
<1> QED
    BY <1>1, NotStopped

\* Stopped threads stay away, in the steps of a thread.
LEMMA StoppedAwayThread ==
    ASSUME IndInv, StoppedAway, NEW c \in Cores, Thread(c)
    PROVE  StoppedAway'
<1> DEFINE r == cpu[c]
<1>0. /\ CoreTypes /\ QueueTypes /\ TCBTypes /\ CorePlaces /\ QueuePlaces
      /\ HandFilled /\ DoomedFilled
      /\ r # NoTCB
      /\ r \in TCBs
      /\ pc[r] # "stopped"
      /\ hpc[c] = "sti"
    BY ThreadRuns, RunnerFacts DEF IndInv, TypeOK, HelperSaved
<1>a. hpc' = hpc /\ \A d \in Cores : d # c => hand'[d] = hand[d]
    BY ThreadFrame
<1>1. CASE CallYield(c) \/ CallSleep(c) \/ CallStop(c) \/ CallThread(c)
    <2>1. PICK op, sec, cost : Reap(c, op, sec, cost)
        BY <1>1 DEF CallYield, CallSleep, CallStop, CallThread
    <2>2. /\ pc' = [pc EXCEPT ![r] = "reaping"]
          /\ \E k : call' = [call EXCEPT ![r] = k]
          /\ place' = [u \in TCBs |->
                        IF place[u] = Reapable THEN Doomed(r) ELSE place[u]]
          /\ UNCHANGED <<hand, hpc>>
        BY <2>1 DEF Reap, coreVars
    <2> HIDE DEF r
    <2> QED
        BY <1>0, <2>2 DEF StoppedAway, TCBTypes
<1>2. CASE ReapDelete(c) \/ ReaperDeletes(c)
    <2>1. /\ \A t \in TCBs : pc'[t] = "stopped" => pc[t] = "stopped"
          /\ UNCHANGED <<call, hand, hpc>>
          /\ place' = [place EXCEPT ![Head(reaping[r])] = Free]
        BY <1>0, <1>2 DEF ReapDelete, ReaperDeletes, TCBTypes, coreVars
    <2> HIDE DEF r
    <2> QED
        BY <1>0, <2>1 DEF StoppedAway, TCBTypes
<1>3. CASE YieldReturns(c) \/ ReaperFindsNothing(c)
    <2>1. /\ \A t \in TCBs : pc'[t] = "stopped" => pc[t] = "stopped" /\ t # r
          /\ \A t \in TCBs : t # r => call'[t] = call[t]
          /\ place' = place
        BY <1>0, <1>3 DEF YieldReturns, ReaperFindsNothing, TCBTypes
    <2> HIDE DEF r
    <2> QED
        BY <1>0, <1>a, <2>1, StoppedKept
<1>4. CASE \E request : Block(c, request)
    <2>1. /\ pc' = [pc EXCEPT ![r] = "switch"]
          /\ \E request : call' = [call EXCEPT ![r] = request]
          /\ place' = place
        BY <1>4 DEF Block
    <2> HIDE DEF r
    <2> QED
        BY <1>0, <1>a, <2>1, StoppedKept DEF TCBTypes
<1>5. CASE YieldBlocks(c) \/ SleepBlocks(c) \/ StopBlocks(c)
    BY <1>4, <1>5 DEF YieldBlocks, SleepBlocks, StopBlocks
<1>6. CASE SwitchToHelper(c)
    <2>1. /\ pc' = [pc EXCEPT ![r] = BehindBlock(r)]
          /\ UNCHANGED <<call, hand, hpc>>
          /\ place' = [place EXCEPT ![r] = Requesting(c)]
          /\ BehindBlock(r) = "stopped" => call[r].op = "stop"
        BY <1>6 DEF SwitchToHelper, BehindBlock
    <2> HIDE DEF r
    <2> QED
        BY <1>0, <2>1 DEF StoppedAway, TCBTypes
<1>7. CASE ThreadAllocates(c)
    <2>1. PICK u \in TCBs : /\ place[u] = Free
                            /\ place' = [place EXCEPT ![u] = InHand(c)]
                            /\ pc' = [pc EXCEPT ![u] = "run", ![r] = "add"]
        BY <1>7 DEF ThreadAllocates, Unallocated
    <2>2. call' = [call EXCEPT ![r] = NoCall]
        BY <1>7 DEF ThreadAllocates
    <2> HIDE DEF r
    <2> QED
        BY <1>0, <1>a, <2>1, <2>2, StoppedKept DEF TCBTypes
<1>8. CASE ThreadAdds(c)
    <2>1. hand[c] \in TCBs /\ place[hand[c]] = InHand(c)
        BY <1>0, <1>8 DEF ThreadAdds, Running, HandFilled, CoreTypes, CorePlaces
    <2>2. pc[hand[c]] # "stopped"
        BY <1>0, <2>1, NotStopped
    <2>3. /\ pc' = [pc EXCEPT ![r] = "run"]
          /\ call' = call
          /\ place' = [place EXCEPT ![hand[c]] = Ready]
        BY <1>8 DEF ThreadAdds, AddReady
    <2> HIDE DEF r
    <2> QED
        BY <1>0, <1>a, <2>1, <2>2, <2>3, StoppedKept DEF TCBTypes
<1>9. CASE ThreadDown(c) \/ ReaperDown(c)
    <2>1. PICK s, next : /\ DownTakes(c, s, next) \/ DownBlocks(c, s)
                         /\ next # "stopped"
        BY <1>9 DEF ThreadDown, ReaperDown
    <2>2. CASE DownBlocks(c, s)
        BY <1>4, <2>2 DEF DownBlocks
    <2>3. CASE DownTakes(c, s, next)
        <3>1. pc' = [pc EXCEPT ![r] = next] /\ UNCHANGED <<call, place>>
            BY <2>3 DEF DownTakes
        <3> HIDE DEF r
        <3> QED
            BY <1>0, <1>a, <2>1, <3>1, StoppedKept DEF TCBTypes
    <2> QED
        BY <2>1, <2>2, <2>3
<1>10. CASE ThreadUp(c)
    <2>1. PICK s \in Sems : \/ UpWakes(c, s) /\ pc' = [pc EXCEPT ![r] = "add"]
                            \/ UpCounts(s) /\ pc' = pc
        BY <1>10 DEF ThreadUp
    <2>2. call' = call
        BY <1>10 DEF ThreadUp
    <2>3. CASE UpCounts(s) /\ pc' = pc
        BY <1>0, <1>a, <2>2, <2>3, StoppedKept DEF UpCounts
    <2>4. CASE UpWakes(c, s) /\ pc' = [pc EXCEPT ![r] = "add"]
        <3> DEFINE t == Head(waiting[s])
        <3>1. t \in TCBs /\ place[t] = WaitingOn(s)
            BY <1>0, <2>4, HoldsTail DEF UpWakes, QueueTypes, QueuePlaces, TCBTypes
        <3>2. pc[t] # "stopped"
            BY <3>1, NotStopped
        <3>3. place' = [place EXCEPT ![t] = InHand(c)]
            BY <2>4 DEF UpWakes
        <3> HIDE DEF t, r
        <3> QED
            BY <1>0, <1>a, <2>2, <2>4, <3>1, <3>2, <3>3, StoppedKept DEF TCBTypes
    <2> QED
        BY <2>1, <2>3, <2>4
<1>11. CASE ReaperRemoves(c)
    <2>1. /\ pc' = [pc EXCEPT ![r] = "delete"]
          /\ UNCHANGED <<call, hand, hpc>>
          /\ place' = [place EXCEPT ![Head(reaper_data)] = Doomed(r)]
        BY <1>11 DEF ReaperRemoves, coreVars
    <2> HIDE DEF r
    <2> QED
        BY <1>0, <2>1 DEF StoppedAway, TCBTypes
<1> HIDE DEF r
<1> QED
    BY <1>1, <1>2, <1>3, <1>5, <1>6, <1>7, <1>8, <1>9, <1>10, <1>11 DEF Thread

\* A core that is still to boot in the next state is still to boot now, and
\* only stop() stops a thread, which the reaper does not call.
LEMMA BootBeforeStopStep ==
    ASSUME IndInv, StoppedAway, BootBeforeStop, [Next]_vars
    PROVE  BootBeforeStop'
<1>0. CoreTypes /\ TCBTypes /\ ReaperRuns /\ BootAlone
    BY DEF IndInv, TypeOK
<1>1. ASSUME \A c \in Cores : hpc'[c] = "boot" => hpc[c] = "boot",
             \A t \in TCBs : pc'[t] = "stopped" => pc[t] = "stopped"
      PROVE  BootBeforeStop'
    BY <1>1 DEF BootBeforeStop
<1>2. CASE Tick \/ UNCHANGED vars
    BY <1>1, <1>2 DEF Tick, vars, coreVars, tcbVars
<1>3. ASSUME NEW c \in Cores, Boot(c) \/ Helper(c)
      PROVE  BootBeforeStop'
    <2>1. pc' = pc
        BY <1>3 DEF Boot, Helper, HelperResume, HelperWakeup, HelperNoRequest,
           HelperTakes, HelperYield, HelperSleep, HelperDownTakes, HelperDownWaits,
           HelperStop, HelperUp, HelperAdd, HelperPick, HelperIdle, HelperDispatch,
           HelperSwitch, tcbVars
    <2>2. hpc' = hpc \/ \E w : w # "boot" /\ hpc' = [hpc EXCEPT ![c] = w]
        BY <1>3 DEF Boot, Helper, HelperResume, HelperWakeup, HelperNoRequest,
           HelperTakes, HelperYield, HelperSleep, HelperDownTakes, HelperDownWaits,
           HelperStop, HelperUp, HelperAdd, HelperPick, HelperIdle, HelperDispatch,
           HelperSwitch, DoIt, coreVars
    <2> QED
        BY <1>0, <1>1, <2>1, <2>2 DEF CoreTypes
<1>4. ASSUME NEW c \in Cores, Thread(c)
      PROVE  BootBeforeStop'
    <2> DEFINE r == cpu[c]
    <2>0. r # NoTCB /\ r \in TCBs /\ place[r] = OnCpu(c)
        BY <1>4, ThreadRuns, RunnerFacts
    <2>1. CASE hpc' = hpc /\ \E w : w # "stopped" /\ pc' = [pc EXCEPT ![r] = w]
        <3> HIDE DEF r
        <3> QED
            BY <1>0, <1>1, <2>1 DEF TCBTypes
    <2>2. CASE CallYield(c) \/ CallSleep(c) \/ CallStop(c) \/ CallThread(c)
        BY <2>1, <2>2 DEF CallYield, CallSleep, CallStop, CallThread, Reap, coreVars
    <2>3. CASE ReapDelete(c)
        BY <1>1, <2>3 DEF ReapDelete, coreVars
    <2>4. CASE YieldReturns(c) \/ YieldBlocks(c) \/ SleepBlocks(c) \/ StopBlocks(c)
        BY <2>1, <2>4 DEF YieldReturns, YieldBlocks, SleepBlocks, StopBlocks, Block,
           coreVars
    <2>5. CASE SwitchToHelper(c) /\ call[r].op # "stop"
        BY <2>1, <2>5 DEF SwitchToHelper, BehindBlock
    <2>10. CASE SwitchToHelper(c) /\ call[r].op = "stop"
        <3>1. r # Reaper /\ hpc' = hpc
            BY <1>0, <2>10 DEF SwitchToHelper, ReaperRuns
        <3>2. place[r] # Free
            BY <2>0 DEF OnCpu, Free
        <3> HIDE DEF r
        <3>3. \A d \in Cores : hpc[d] # "boot"
            BY <1>0, <2>0, <3>1, <3>2 DEF BootAlone
        <3> QED
            BY <3>1, <3>3 DEF BootBeforeStop
    <2>6. CASE ThreadAllocates(c)
        <3>1. PICK u \in TCBs : pc' = [pc EXCEPT ![u] = "run", ![r] = "add"]
            BY <2>6 DEF ThreadAllocates, Unallocated
        <3>2. hpc' = hpc
            BY <2>6 DEF ThreadAllocates
        <3> HIDE DEF r
        <3> QED
            BY <1>0, <1>1, <3>1, <3>2 DEF TCBTypes
    <2>7. CASE ThreadAdds(c) \/ ReaperRemoves(c) \/ ReaperFindsNothing(c) \/ ReaperDeletes(c)
        BY <2>1, <2>7 DEF ThreadAdds, ReaperRemoves, ReaperFindsNothing,
           ReaperDeletes, coreVars
    <2>8. CASE ThreadDown(c) \/ ReaperDown(c)
        BY <2>1, <2>8 DEF ThreadDown, ReaperDown, DownTakes, DownBlocks, Block,
           coreVars
    <2>9. CASE ThreadUp(c)
        <3>1. hpc' = hpc /\ (pc' = pc \/ pc' = [pc EXCEPT ![r] = "add"])
            BY <2>9 DEF ThreadUp
        <3> HIDE DEF r
        <3> QED
            BY <1>1, <2>1, <3>1
    <2> HIDE DEF r
    <2> QED
        BY <1>4, <2>2, <2>3, <2>4, <2>5, <2>6, <2>7, <2>8, <2>9,
           <2>10 DEF Thread
<1> QED
    BY <1>2, <1>3, <1>4 DEF Next, Core

\* Stopped threads stay away, in any step.
LEMMA StoppedAwayStep ==
    ASSUME IndInv, StoppedAway, BootBeforeStop, [Next]_vars
    PROVE  StoppedAway'
<1>1. CASE Tick \/ UNCHANGED vars
    BY <1>1 DEF Tick, vars, coreVars, tcbVars, StoppedAway
<1>2. ASSUME NEW c \in Cores, Boot(c)
      PROVE  StoppedAway'
    <2>1. /\ pc[Main] # "stopped" /\ place \in [TCBs -> Places]
          /\ hpc \in [Cores -> {"boot", "sti", "wakeup", "doit", "up", "add", "pick",
                                 "dispatch", "switch"}]
        BY <1>2, ConstantsAssumption DEF Boot, BootBeforeStop, IndInv, TypeOK, TCBTypes,
           CoreTypes
    <2>2. /\ UNCHANGED <<pc, call, hand>>
          /\ hpc[c] = "boot" /\ hpc' = [hpc EXCEPT ![c] = "wakeup"]
          /\ place' = place \/ place' = [place EXCEPT ![Main] = Ready]
        BY <1>2 DEF Boot
    <2> QED
        BY <2>1, <2>2, StoppedKept
<1> QED
    BY <1>1, <1>2, StoppedAwayHelper, StoppedAwayThread DEF Next, Core

\* A thread in the middle of block() stays on its core until it is through.
LEMMA SwitchRunsStep ==
    ASSUME IndInv, SwitchRuns, [Next]_vars
    PROVE  SwitchRuns'
<1>0. /\ CoreTypes /\ TCBTypes /\ HandFilled
      /\ \A c \in Cores : cpu[c] # NoTCB => cpu[c] \in TCBs /\ place[cpu[c]] = OnCpu(c)
    BY RunnerFacts DEF IndInv, TypeOK
<1>1. ASSUME UNCHANGED <<cpu, pc>>
      PROVE  SwitchRuns'
    BY <1>1 DEF SwitchRuns
<1>2. CASE Tick \/ UNCHANGED vars \/ \E c \in Cores : Boot(c)
    BY <1>1, <1>2 DEF Tick, Boot, vars, coreVars, tcbVars
<1>3. ASSUME NEW c \in Cores, Helper(c)
      PROVE  SwitchRuns'
    <2>1. CASE HelperSwitch(c)
        <3>1. /\ cpu[c] = NoTCB /\ cpu' = [cpu EXCEPT ![c] = hand[c]] /\ pc' = pc
            BY <2>1 DEF HelperSwitch, HelperAt
        <3> QED
            BY <1>0, <3>1, ConstantsAssumption DEF SwitchRuns, CoreTypes
    <2>2. CASE ~HelperSwitch(c)
        BY <1>1, <1>3, <2>2 DEF Helper, HelperResume, HelperWakeup, HelperNoRequest,
           HelperTakes, HelperYield, HelperSleep, HelperDownTakes, HelperDownWaits,
           HelperStop, HelperUp, HelperAdd, HelperPick, HelperIdle, HelperDispatch,
           coreVars, tcbVars
    <2> QED
        BY <2>1, <2>2
<1>4. ASSUME NEW c \in Cores, Thread(c)
      PROVE  SwitchRuns'
    <2> DEFINE r == cpu[c]
    <2>0. r # NoTCB /\ r \in TCBs /\ place[r] = OnCpu(c)
        BY <1>0, <1>4, ThreadRuns
    <2>1. CASE cpu' = cpu /\ (pc' = pc \/ \E w : pc' = [pc EXCEPT ![r] = w])
        <3> HIDE DEF r
        <3>1. \A t \in TCBs : t # r => pc'[t] = pc[t]
            BY <1>0, <2>1 DEF TCBTypes
        <3> QED
            BY <2>0, <2>1, <3>1 DEF r, SwitchRuns
    <2>2. CASE CallYield(c) \/ CallSleep(c) \/ CallStop(c) \/ CallThread(c)
        BY <2>1, <2>2 DEF CallYield, CallSleep, CallStop, CallThread, Reap, coreVars
    <2>3. CASE SwitchToHelper(c)
        <3>1. /\ cpu' = [cpu EXCEPT ![c] = NoTCB]
              /\ pc' = [pc EXCEPT ![r] = BehindBlock(r)]
              /\ BehindBlock(r) # "switch"
            BY <2>3 DEF SwitchToHelper, BehindBlock
        <3> HIDE DEF r
        <3>2. ASSUME NEW t \in TCBs, pc'[t] = "switch"
              PROVE  t # r /\ pc[t] = "switch"
            BY <1>0, <2>0, <3>1, <3>2 DEF TCBTypes
        <3>3. ASSUME NEW t \in TCBs, pc'[t] = "switch"
              PROVE  \E d \in Cores : cpu'[d] = t
            <4>1. PICK d \in Cores : cpu[d] = t
                BY <3>2, <3>3 DEF SwitchRuns
            <4>2. d # c
                BY <3>2, <3>3, <4>1 DEF r
            <4> QED
                BY <1>0, <3>1, <4>1, <4>2 DEF CoreTypes
        <3> QED
            BY <3>3 DEF SwitchRuns
    <2>4. CASE ThreadAllocates(c)
        <3>1. PICK u \in TCBs : pc' = [pc EXCEPT ![u] = "run", ![r] = "add"]
            BY <2>4 DEF ThreadAllocates, Unallocated
        <3>2. cpu' = cpu
            BY <2>4 DEF ThreadAllocates
        <3> HIDE DEF r
        <3>3. \A t \in TCBs : pc'[t] = "switch" => pc[t] = "switch"
            BY <1>0, <3>1 DEF TCBTypes
        <3> QED
            BY <3>2, <3>3 DEF SwitchRuns
    <2>5. CASE ~(\/ CallYield(c) \/ CallSleep(c) \/ CallStop(c) \/ CallThread(c)
                 \/ SwitchToHelper(c) \/ ThreadAllocates(c))
        BY <1>4, <2>1, <2>5 DEF Thread, ReapDelete, YieldReturns, YieldBlocks,
           SleepBlocks, StopBlocks, Block, ThreadAdds, ThreadDown, ReaperDown,
           DownTakes, DownBlocks, ThreadUp, ReaperRemoves, ReaperFindsNothing,
           ReaperDeletes, coreVars
    <2> QED
        BY <2>2, <2>3, <2>4, <2>5
<1> QED
    BY <1>2, <1>3, <1>4 DEF Next, Core

CoreInv == CoreFlags /\ SwitchRuns /\ StoppedAway /\ BootBeforeStop

\* It holds in every reachable state.
LEMMA AlwaysCore == Spec => [](IndInv /\ CoreInv)
<1>1. Init => CoreInv
    BY ConstantsAssumption DEF Init, CoreInv, CoreFlags, SwitchRuns, StoppedAway,
       BootBeforeStop
<1>2. IndInv /\ CoreInv /\ [Next]_vars => CoreInv'
    BY CoreFlagsStep, SwitchRunsStep, StoppedAwayStep, BootBeforeStopStep DEF CoreInv
<1> QED
    BY <1>1, <1>2, Invariance, PTL DEF Spec

\* A core always agrees with the kernel about what it executes: active_thread
\* is the running thread until it blocks and nobody in the helper until it
\* dispatches, the assertions at the head of the helper's loop hold, and no
\* thread comes back from stop(), for any number of cores and threads.
THEOREM Consistent == Spec => []CoreConsistent
<1>1. IndInv /\ CoreInv => CoreConsistent
    BY RunnerFacts DEF CoreInv, CoreFlags, CoreConsistent, HelperAt
<1> QED
    BY <1>1, AlwaysCore, PTL

\* Wherever interrupts are enabled and active_thread names a thread, the core
\* executes on that thread's stack, and interrupts from user mode go there:
\* through the cli() of helper() and the two halves of block(), for any number
\* of cores and threads.
THEOREM Preemption == Spec => []PreemptionSafe
<1>1. IndInv /\ CoreInv => PreemptionSafe
    BY ConstantsAssumption DEF CoreInv, CoreFlags, PreemptionSafe
<1> QED
    BY <1>1, AlwaysCore, PTL

-----------------------------------------------------------------------------
(* Proofs: the order of the sleep queues *)

\* Removing the head keeps the order.
LEMMA SortedTail ==
    ASSUME NEW q \in Seq(TCBs), q # <<>>, NEW at, Sorted(q, at)
    PROVE  Sorted(Tail(q), at)
<1>1. /\ Len(q) \in Nat /\ Len(q) >= 1
      /\ Len(Tail(q)) = Len(q) - 1
      /\ \A i \in 1..Len(Tail(q)) : Tail(q)[i] = q[i + 1]
    BY HeadTailProperties, LenProperties, EmptySeq
<1> QED
    BY <1>1 DEF Sorted

\* The wake-up time of a TCB that is not in the queue does not matter.
LEMMA SortedOther ==
    ASSUME NEW q \in Seq(TCBs), NEW at \in [TCBs -> Int], Sorted(q, at),
           NEW t \in TCBs, \A i \in 1..Len(q) : q[i] # t, NEW when
    PROVE  Sorted(q, [at EXCEPT ![t] = when])
BY ElementOfSeq DEF Sorted

\* Linking a TCB in before the first one that wakes later keeps the order.
LEMMA SortedInsertAt ==
    ASSUME NEW q \in Seq(TCBs), NEW at \in [TCBs -> Int], Sorted(q, at),
           NEW t \in TCBs, NEW when \in Int, at[t] = when,
           NEW p \in 1..(Len(q) + 1),
           \A j \in 1..(p - 1) : at[q[j]] <= when,
           p <= Len(q) => at[q[p]] > when
    PROVE  Sorted(InsertBefore(q, p, t), at)
<1>1. Len(q) \in Nat /\ \A i \in 1..Len(q) : q[i] \in TCBs /\ at[q[i]] \in Int
    BY ElementOfSeq, LenProperties
<1>2. \A i, j \in 1..Len(q) : i < j => at[q[i]] <= at[q[j]]
    BY DEF Sorted
<1>3. \A j \in 1..Len(q) : j >= p => at[q[j]] >= when
    BY <1>1, <1>2
<1>4. PICK r : /\ r = InsertBefore(q, p, t)
               /\ Len(r) = Len(q) + 1
               /\ \A j \in 1..(Len(q) + 1) :
                    r[j] = IF j < p THEN q[j] ELSE IF j = p THEN t ELSE q[j - 1]
    BY InsertBeforeProperties
<1>5. ASSUME NEW i \in 1..Len(r), NEW j \in 1..Len(r), i < j
      PROVE  at[r[i]] <= at[r[j]]
    <2>0. i \in 1..(Len(q) + 1) /\ j \in 1..(Len(q) + 1)
        BY <1>4
    <2>1. r[i] = (IF i < p THEN q[i] ELSE IF i = p THEN t ELSE q[i - 1])
        BY <1>4, <2>0
    <2>2. r[j] = (IF j < p THEN q[j] ELSE IF j = p THEN t ELSE q[j - 1])
        BY <1>4, <2>0
    <2>3. CASE j < p
        BY <1>1, <1>2, <1>5, <2>0, <2>1, <2>2, <2>3
    <2>4. CASE j = p
        BY <1>1, <1>5, <2>0, <2>1, <2>2, <2>4
    <2>5. CASE j > p /\ i < p
        <3>1. i \in 1..(p - 1) /\ j - 1 \in 1..Len(q) /\ j - 1 >= p /\ i \in 1..Len(q)
            BY <1>1, <2>0, <2>5
        <3>2. at[q[i]] <= when /\ when <= at[q[j - 1]]
            BY <1>1, <1>3, <3>1
        <3>3. at[q[i]] <= at[q[j - 1]]
            BY <1>1, <3>1, <3>2
        <3> QED
            BY <2>0, <2>1, <2>2, <2>5, <3>3
    <2>6. CASE j > p /\ i = p
        BY <1>1, <1>3, <2>0, <2>1, <2>2, <2>6
    <2>7. CASE j > p /\ i > p
        <3>1. i - 1 \in 1..Len(q) /\ j - 1 \in 1..Len(q) /\ i - 1 < j - 1
            BY <1>1, <1>5, <2>0, <2>7
        <3>2. at[q[i - 1]] <= at[q[j - 1]]
            BY <1>2, <3>1
        <3> QED
            BY <2>0, <2>1, <2>2, <2>7, <3>2
    <2> QED
        BY <2>0, <2>3, <2>4, <2>5, <2>6, <2>7
<1> QED
    BY <1>4, <1>5 DEF Sorted

\* SleepQueue::add keeps the order.
LEMMA SortedInsert ==
    ASSUME NEW q \in Seq(TCBs), NEW at \in [TCBs -> Int], Sorted(q, at),
           NEW t \in TCBs, \A i \in 1..Len(q) : q[i] # t, NEW when \in Int
    PROVE  Sorted(AddSleeper(q, at, t, when), [at EXCEPT ![t] = when])
<1>1. PICK p : p = InsertPosition(q, at, when)
    OBVIOUS
<1>2. PICK at1 : at1 = [at EXCEPT ![t] = when]
    OBVIOUS
<1>3. /\ p \in 1..(Len(q) + 1)
      /\ \A j \in 1..(p - 1) : at[q[j]] <= when
      /\ p <= Len(q) => at[q[p]] > when
    BY <1>1, InsertPositionProperties
<1>4. /\ at1 \in [TCBs -> Int]
      /\ at1[t] = when
      /\ \A i \in 1..Len(q) : at1[q[i]] = at[q[i]]
    BY <1>2, ElementOfSeq
<1>5. Sorted(q, at1)
    BY <1>2, SortedOther
<1>6. /\ \A j \in 1..(p - 1) : at1[q[j]] <= when
      /\ p <= Len(q) => at1[q[p]] > when
    <2>1. Len(q) \in Nat
        BY LenProperties
    <2> QED
        BY <1>3, <1>4, <2>1
<1>7. Sorted(InsertBefore(q, p, t), at1)
    BY <1>3, <1>4, <1>5, <1>6, SortedInsertAt
<1> QED
    BY <1>1, <1>2, <1>7 DEF AddSleeper

\* Nothing but the helper of its core and new threads touch a sleep queue.
LEMMA SleepFrame ==
    ASSUME [Next]_vars
    PROVE  \/ UNCHANGED <<sleep_queues, at_jiffies>>
           \/ \E c \in Cores : HelperWakeup(c) \/ HelperSleep(c) \/ ThreadAllocates(c)
<1>1. CASE Tick \/ UNCHANGED vars \/ \E c \in Cores : Boot(c)
    BY <1>1 DEF Tick, vars, queueVars, Boot
<1>2. ASSUME NEW c \in Cores, Helper(c), ~ HelperWakeup(c), ~ HelperSleep(c)
      PROVE  UNCHANGED <<sleep_queues, at_jiffies>>
    BY <1>2 DEF Helper, HelperResume, HelperNoRequest, HelperTakes, HelperYield,
       HelperDownTakes, HelperDownWaits, HelperStop, HelperUp, HelperAdd, HelperPick,
       HelperIdle, HelperDispatch, HelperSwitch, queueVars
<1>3. ASSUME NEW c \in Cores, Thread(c), ~ ThreadAllocates(c)
      PROVE  UNCHANGED <<sleep_queues, at_jiffies>>
    <2>1. CASE CallYield(c) \/ CallSleep(c) \/ CallStop(c) \/ CallThread(c)
        BY <2>1 DEF CallYield, CallSleep, CallStop, CallThread, Reap
    <2>2. CASE ThreadDown(c) \/ ReaperDown(c) \/ ThreadUp(c)
        BY <2>2 DEF ThreadDown, ReaperDown, ThreadUp, DownTakes, DownBlocks,
           Block, queueVars
    <2>3. CASE \/ ReapDelete(c) \/ YieldReturns(c) \/ YieldBlocks(c)
               \/ SleepBlocks(c) \/ StopBlocks(c) \/ SwitchToHelper(c) \/ ThreadAdds(c)
               \/ ReaperRemoves(c) \/ ReaperFindsNothing(c) \/ ReaperDeletes(c)
        BY <2>3 DEF ReapDelete, YieldReturns, YieldBlocks, SleepBlocks, StopBlocks,
           Block, SwitchToHelper, ThreadAdds, ReaperRemoves, ReaperFindsNothing,
           ReaperDeletes, queueVars
    <2> QED
        BY <1>3, <2>1, <2>2, <2>3 DEF Thread
<1> QED
    BY <1>1, <1>2, <1>3 DEF Next, Core

\* A TCB that is not asleep is in no sleep queue.
LEMMA AwakeNotQueued ==
    ASSUME IndInv, NEW t \in TCBs, NEW c \in Cores, place[t] # Sleeping(c)
    PROVE  \A i \in 1..Len(sleep_queues[c]) : sleep_queues[c][i] # t
BY DEF IndInv, QueuePlaces, Holds

\* Every step keeps the sleep queues in order.
LEMMA SleepOrderedStep ==
    ASSUME IndInv, SleepOrdered, [Next]_vars
    PROVE  SleepOrdered'
<1>0. /\ sleep_queues \in [Cores -> Seq(TCBs)]
      /\ at_jiffies \in [TCBs -> Int]
      /\ jiffies \in Nat
      /\ QueuePlaces /\ CorePlaces /\ CoreTypes /\ TCBTypes /\ HandFilled
    <2>1. Word \in Nat
        BY ConstantsAssumption
    <2> QED
        BY <2>1 DEF IndInv, TypeOK, QueueTypes, NumberTypes
<1>1. CASE UNCHANGED <<sleep_queues, at_jiffies>>
    BY <1>1 DEF SleepOrdered
<1>2. ASSUME NEW c \in Cores, HelperWakeup(c)
      PROVE  SleepOrdered'
    <2>1. /\ sleep_queues[c] # <<>>
          /\ sleep_queues' = [sleep_queues EXCEPT ![c] = Tail(sleep_queues[c])]
          /\ at_jiffies' = at_jiffies
        BY <1>2 DEF HelperWakeup, SomeoneDue, Due
    <2>2. Sorted(Tail(sleep_queues[c]), at_jiffies)
        BY <1>0, <2>1, SortedTail DEF SleepOrdered
    <2> QED
        BY <1>0, <2>1, <2>2 DEF SleepOrdered
<1>3. ASSUME NEW c \in Cores, HelperSleep(c)
      PROVE  SleepOrdered'
    <2> DEFINE t == hand[c]
               when == WakeTime(jiffies, JiffiesPerSecond, call[t].sec, Word)
    <2>1. /\ t \in TCBs
          /\ place[t] = InHand(c)
          /\ call[t].sec \in Nat
        <3>1. t \in TCBs /\ place[t] = InHand(c)
            BY <1>0, <1>3 DEF HelperSleep, DoIt, HelperAt, CoreTypes, CorePlaces, HandFilled
        <3> HIDE DEF t
        <3>2. call[t].sec \in Nat
            BY <1>0, <3>1, ConstantsAssumption DEF TCBTypes, Calls
        <3> QED
            BY <3>1, <3>2
    <2>2. when \in Int
        <3>1. when \in 0..(Word - 1)
            BY <1>0, <2>1, WakeTimeType
        <3> HIDE DEF when
        <3> QED
            BY <3>1, ConstantsAssumption
    <2>3. /\ at_jiffies' = [at_jiffies EXCEPT ![t] = when]
          /\ sleep_queues' = [sleep_queues EXCEPT
                ![c] = AddSleeper(sleep_queues[c], at_jiffies, t, when)]
        BY <1>3 DEF HelperSleep
    <2>4. \A d \in Cores : \A i \in 1..Len(sleep_queues[d]) : sleep_queues[d][i] # t
        <3>1. \A d \in Cores : place[t] # Sleeping(d)
            BY <2>1 DEF InHand, Sleeping
        <3> HIDE DEF t
        <3> QED
            BY <2>1, <3>1, AwakeNotQueued
    <2> HIDE DEF t, when
    <2>5. Sorted(AddSleeper(sleep_queues[c], at_jiffies, t, when), at_jiffies')
        BY <1>0, <2>1, <2>2, <2>3, <2>4, SortedInsert DEF SleepOrdered
    <2>6. ASSUME NEW d \in Cores, d # c
          PROVE  Sorted(sleep_queues'[d], at_jiffies')
        BY <1>0, <2>1, <2>3, <2>4, <2>6, SortedOther DEF SleepOrdered
    <2> QED
        BY <1>0, <2>3, <2>5, <2>6 DEF SleepOrdered
<1>4. ASSUME NEW c \in Cores, ThreadAllocates(c)
      PROVE  SleepOrdered'
    <2>1. PICK u \in TCBs : /\ place[u] = Free
                            /\ at_jiffies' = [at_jiffies EXCEPT ![u] = 0]
        BY <1>4 DEF ThreadAllocates, Unallocated
    <2>2. sleep_queues' = sleep_queues
        BY <1>4 DEF ThreadAllocates
    <2>3. \A d \in Cores : \A i \in 1..Len(sleep_queues[d]) : sleep_queues[d][i] # u
        <3>1. \A d \in Cores : place[u] # Sleeping(d)
            BY <2>1 DEF Free, Sleeping
        <3> QED
            BY <3>1, AwakeNotQueued
    <2> QED
        BY <1>0, <2>1, <2>2, <2>3, SortedOther DEF SleepOrdered
<1> QED
    BY <1>1, <1>2, <1>3, <1>4, SleepFrame

\* A helper leaves wakeup() only when nobody at the head of its queue is due.
LEMMA LeavesWakeup ==
    ASSUME IndInv, [Next]_vars, NEW c \in Cores,
           hpc[c] = "wakeup", hpc'[c] # "wakeup"
    PROVE  ~ SomeoneDue(c)
<1>0. CoreTypes /\ hpc \in [Cores -> {"boot", "sti", "wakeup", "doit", "up", "add",
                                      "pick", "dispatch", "switch"}]
    BY DEF IndInv, TypeOK, CoreTypes
<1>1. CASE Tick \/ UNCHANGED vars
    BY <1>1 DEF Tick, vars, coreVars
<1>2. ASSUME NEW d \in Cores, Boot(d)
      PROVE  ~ SomeoneDue(c)
    BY <1>0, <1>2 DEF Boot
<1>3. ASSUME NEW d \in Cores, Helper(d)
      PROVE  ~ SomeoneDue(c)
    <2>1. CASE HelperNoRequest(d) \/ HelperTakes(d)
        <3>1. ~ SomeoneDue(d) /\ \E w : hpc' = [hpc EXCEPT ![d] = w]
            BY <2>1 DEF HelperNoRequest, HelperTakes
        <3> QED
            BY <1>0, <3>1
    <2>2. CASE \/ HelperResume(d) \/ HelperYield(d) \/ HelperSleep(d)
               \/ HelperDownTakes(d) \/ HelperDownWaits(d) \/ HelperStop(d)
               \/ HelperUp(d) \/ HelperAdd(d) \/ HelperPick(d)
               \/ HelperIdle(d) \/ HelperDispatch(d) \/ HelperSwitch(d)
        <3>1. hpc[d] # "wakeup" /\ \E w : hpc' = [hpc EXCEPT ![d] = w]
            BY <2>2 DEF HelperResume, HelperYield, HelperSleep, HelperDownTakes,
               HelperDownWaits, HelperStop, HelperUp, HelperAdd, HelperPick, HelperIdle,
               HelperDispatch, HelperSwitch, DoIt, HelperAt
        <3> QED
            BY <1>0, <3>1
    <2>3. CASE HelperWakeup(d)
        BY <2>3 DEF HelperWakeup, coreVars
    <2> QED
        BY <1>3, <2>1, <2>2, <2>3 DEF Helper
<1>4. ASSUME NEW d \in Cores, Thread(d)
      PROVE  ~ SomeoneDue(c)
    <2>1. hpc' = hpc
        <3>1. CASE CallYield(d) \/ CallSleep(d) \/ CallStop(d) \/ CallThread(d)
            BY <3>1 DEF CallYield, CallSleep, CallStop, CallThread, Reap, coreVars
        <3>2. CASE ThreadDown(d) \/ ReaperDown(d) \/ ThreadUp(d)
            BY <3>2 DEF ThreadDown, ReaperDown, ThreadUp, DownTakes, DownBlocks,
               Block, coreVars
        <3>3. CASE \/ ReapDelete(d) \/ YieldReturns(d) \/ YieldBlocks(d)
                   \/ SleepBlocks(d) \/ StopBlocks(d) \/ SwitchToHelper(d)
                   \/ ThreadAllocates(d)
                   \/ ThreadAdds(d) \/ ReaperRemoves(d) \/ ReaperFindsNothing(d)
                   \/ ReaperDeletes(d)
            BY <3>3 DEF ReapDelete, YieldReturns, YieldBlocks, SleepBlocks,
               StopBlocks, Block, SwitchToHelper, ThreadAllocates, ThreadAdds, ReaperRemoves,
               ReaperFindsNothing, ReaperDeletes, coreVars
        <3> QED
            BY <1>4, <3>1, <3>2, <3>3 DEF Thread
    <2> QED
        BY <2>1
<1> QED
    BY <1>1, <1>2, <1>3, <1>4 DEF Next, Core

\* In an ordered queue whose head is not due nobody is.
LEMMA HeadDecides ==
    ASSUME IndInv, SleepOrdered, NEW c \in Cores, ~ SomeoneDue(c),
           NEW i \in DOMAIN sleep_queues[c]
    PROVE  at_jiffies[sleep_queues[c][i]] > jiffies
<1> DEFINE q == sleep_queues[c]
<1>1. /\ q \in Seq(TCBs) /\ Len(q) \in Nat
      /\ at_jiffies \in [TCBs -> Int] /\ jiffies \in Int
    BY ConstantsAssumption, LenProperties DEF IndInv, TypeOK, QueueTypes, NumberTypes
<1>2. Sorted(q, at_jiffies)
    BY DEF SleepOrdered
<1>3. i \in 1..Len(q) /\ 1 \in 1..Len(q) /\ q # <<>>
    BY <1>1
<1>4. q[i] \in TCBs /\ q[1] \in TCBs /\ Head(q) = q[1]
    BY <1>1, <1>3, HeadTailProperties, ElementOfSeq
<1>5. ~ (at_jiffies[q[1]] <= jiffies)
    BY <1>3, <1>4 DEF SomeoneDue, Due
<1>6. at_jiffies[q[1]] <= at_jiffies[q[i]]
    BY <1>1, <1>2, <1>3, <1>4 DEF Sorted
<1> QED
    BY <1>1, <1>4, <1>5, <1>6

\* wakeup() leaves nobody behind: for any number of cores and threads, when a
\* helper goes on to its request no thread in its sleep queue is due.
THEOREM NobodySkipped == Spec => NoDueSleeperSkipped
<1>1. Init => SleepOrdered
    BY DEF Init, SleepOrdered, Sorted
<1>2. IndInv /\ SleepOrdered /\ [Next]_vars => SleepOrdered'
    BY SleepOrderedStep
<1>3. IndInv /\ SleepOrdered /\ [Next]_vars =>
        [\A c \in Cores :
            (hpc[c] = "wakeup" /\ hpc'[c] # "wakeup") =>
                \A i \in DOMAIN sleep_queues[c] :
                    at_jiffies[sleep_queues[c][i]] > jiffies]_vars
    BY LeavesWakeup, HeadDecides
<1> QED
    BY <1>1, <1>2, <1>3, Invariance, PTL DEF Spec, NoDueSleeperSkipped

-----------------------------------------------------------------------------
(* Proofs: where a TCB is held *)

\* Two cores never execute the same thread.
LEMMA RunnersDiffer ==
    ASSUME IndInv, NEW c \in Cores, NEW d \in Cores, c # d, cpu[c] # NoTCB
    PROVE  cpu[c] # cpu[d]
BY DEF IndInv, CorePlaces, OnCpu

\* What the thread of one core does to its own place in the program is not
\* seen by the others.
LEMMA OtherPcs ==
    ASSUME IndInv, NEW c \in Cores, NEW d \in Cores, c # d,
           cpu[c] # NoTCB, cpu[d] # NoTCB, NEW w,
           pc' = [pc EXCEPT ![cpu[d]] = w]
    PROVE  pc'[cpu[c]] = pc[cpu[c]]
<1>1. cpu[c] # cpu[d] /\ cpu[c] \in TCBs /\ pc \in [TCBs ->
        {"run", "reaping", "add", "switch", "stopped", "down", "remove", "delete"}]
    BY RunnersDiffer, RunnerFacts DEF IndInv, TypeOK, TCBTypes
<1> QED
    BY <1>1

\* Every step keeps the hands of a core free for what it takes next.
LEMMA HandEmptyStep ==
    ASSUME IndInv, HandEmpty, [Next]_vars
    PROVE  HandEmpty'
<1>0. CoreTypes /\ TCBTypes /\ HelperSaved /\ CorePlaces
    BY DEF IndInv, TypeOK
<1>1. CASE UNCHANGED <<hand, cpu, hpc, pc>>
    BY <1>1 DEF HandEmpty
<1>2. CASE Tick \/ UNCHANGED vars
    BY <1>1, <1>2 DEF Tick, vars, coreVars, tcbVars
<1>3. ASSUME NEW c \in Cores, Boot(c) \/ Helper(c)
      PROVE  HandEmpty'
    <2>1. CASE HelperWakeup(c)
        BY <1>1, <2>1 DEF HelperWakeup, coreVars
    <2>2. CASE HelperSwitch(c)
        BY <1>0, <2>2 DEF HelperSwitch, HelperAt, HandEmpty, CoreTypes
    <2>3. CASE \/ HelperTakes(c) \/ HelperDownTakes(c) \/ HelperPick(c)
               \/ HelperDispatch(c) \/ (HelperUp(c) /\ UpWakes(c, ReaperSem))
        <3>1. /\ cpu[c] = NoTCB
              /\ UNCHANGED <<cpu, pc>>
              /\ hand' = hand \/ \E t : hand' = [hand EXCEPT ![c] = t]
              /\ \E w \in {"doit", "add", "dispatch", "switch"} :
                    hpc' = [hpc EXCEPT ![c] = w]
            BY <2>3 DEF HelperTakes, HelperDownTakes, HelperPick, HelperDispatch,
               HelperUp, UpWakes, UpCounts, DoIt, HelperAt, tcbVars
        <3> QED
            BY <1>0, <3>1 DEF HandEmpty, CoreTypes
    <2>4. CASE \/ HelperAdd(c) \/ HelperYield(c) \/ HelperSleep(c)
               \/ HelperDownWaits(c) \/ HelperStop(c)
        <3>1. /\ cpu[c] = NoTCB
              /\ UNCHANGED <<cpu, pc>>
              /\ hand' = [hand EXCEPT ![c] = NoTCB]
              /\ \E w : hpc' = [hpc EXCEPT ![c] = w]
            BY <2>4 DEF HelperAdd, AddReady, HelperYield, HelperSleep, HelperDownWaits,
               Waits, HelperStop, DoIt, Published, HelperAt
        <3> QED
            BY <1>0, <3>1 DEF HandEmpty, CoreTypes
    <2>5. CASE \/ Boot(c) \/ HelperResume(c) \/ HelperNoRequest(c) \/ HelperIdle(c)
               \/ (HelperUp(c) /\ UpCounts(ReaperSem))
        <3>1. /\ UNCHANGED <<cpu, pc, hand>>
              /\ hpc[c] \notin {"doit", "add", "dispatch", "switch"}
              /\ cpu[c] = NoTCB \/ hpc[c] # "sti"
              /\ \E w : hpc' = [hpc EXCEPT ![c] = w]
            BY <2>5 DEF Boot, HelperResume, HelperNoRequest, HelperIdle, HelperUp,
               UpCounts, HelperAt, tcbVars
        <3> QED
            BY <1>0, <3>1 DEF HandEmpty, HelperSaved, CoreTypes
    <2> QED
        BY <1>3, <2>1, <2>2, <2>3, <2>4, <2>5 DEF Helper, HelperUp
<1>4. ASSUME NEW c \in Cores, Thread(c)
      PROVE  HandEmpty'
    <2> DEFINE r == cpu[c]
    <2>0. r # NoTCB /\ r \in TCBs /\ hpc[c] = "sti"
        BY <1>0, <1>4, ThreadRuns, RunnerFacts DEF HelperSaved
    <2>1. ASSUME UNCHANGED <<hpc, cpu>>,
                 NEW w, pc' = [pc EXCEPT ![r] = w],
                 \/ hand' = hand /\ hand[c] = NoTCB
                 \/ hand' = [hand EXCEPT ![c] = NoTCB]
                 \/ w = "add" /\ \E t : hand' = [hand EXCEPT ![c] = t]
          PROVE  HandEmpty'
        <3>1. \A d \in Cores : d # c /\ cpu[d] # NoTCB => pc'[cpu[d]] = pc[cpu[d]]
            BY <2>0, <2>1, OtherPcs
        <3>2. pc'[r] = w
            BY <1>0, <2>0, <2>1 DEF TCBTypes
        <3>3. ASSUME NEW d \in Cores, d # c, hand'[d] # NoTCB
              PROVE  IF cpu'[d] = NoTCB
              THEN hpc'[d] \in {"doit", "add", "dispatch", "switch"}
              ELSE pc'[cpu'[d]] = "add"
            BY <1>0, <2>1, <3>1, <3>3 DEF HandEmpty, CoreTypes
        <3>4. ASSUME hand'[c] # NoTCB
              PROVE  cpu'[c] # NoTCB /\ pc'[cpu'[c]] = "add"
            BY <1>0, <2>0, <2>1, <3>2, <3>4 DEF CoreTypes
        <3> QED
            BY <3>3, <3>4 DEF HandEmpty
    <2>12. CASE SwitchToHelper(c)
        <3>1. /\ pc' = [pc EXCEPT ![r] = BehindBlock(r)]
              /\ cpu' = [cpu EXCEPT ![c] = NoTCB]
              /\ UNCHANGED <<hand, hpc>> /\ pc[r] = "switch"
            BY <2>12 DEF SwitchToHelper, Running
        <3>2. hand[c] = NoTCB
            BY <2>0, <3>1 DEF HandEmpty
        <3>3. \A d \in Cores : d # c /\ cpu[d] # NoTCB => pc'[cpu[d]] = pc[cpu[d]]
            BY <2>0, <3>1, OtherPcs
        <3> QED
            BY <1>0, <3>1, <3>2, <3>3 DEF HandEmpty, CoreTypes
    <2>2. CASE pc[r] # "add" /\ \E request : Block(c, request)
        <3>1. /\ pc' = [pc EXCEPT ![r] = "switch"]
              /\ UNCHANGED <<cpu, hand, hpc>>
            BY <2>2 DEF Block
        <3>2. hand[c] = NoTCB
            BY <2>0, <2>2 DEF HandEmpty
        <3> QED
            BY <2>1, <3>1, <3>2
    <2>3. pc[r] # "add" => hand[c] = NoTCB
        BY <2>0 DEF HandEmpty
    <2>4. CASE CallYield(c) \/ CallSleep(c) \/ CallStop(c) \/ CallThread(c)
        BY <2>1, <2>3, <2>4 DEF CallYield, CallSleep, CallStop, CallThread, Reap,
           Running, coreVars
    <2>5. CASE ReapDelete(c)
        BY <1>1, <2>5 DEF ReapDelete, coreVars
    <2>6. CASE YieldReturns(c) \/ ReaperFindsNothing(c) \/ ReaperDeletes(c) \/ ReaperRemoves(c)
        BY <2>1, <2>3, <2>6 DEF YieldReturns, ReaperFindsNothing, ReaperDeletes,
           ReaperRemoves, Reaped, Running, coreVars
    <2>7. CASE YieldBlocks(c) \/ SleepBlocks(c) \/ StopBlocks(c)
        BY <2>2, <2>7 DEF YieldBlocks, SleepBlocks, StopBlocks, Reaped, Running
    <2>8. CASE ThreadAllocates(c)
        <3>1. PICK u \in TCBs : /\ place[u] = Free
                                /\ hand' = [hand EXCEPT ![c] = u]
                                /\ pc' = [pc EXCEPT ![u] = "run", ![r] = "add"]
            BY <2>8 DEF ThreadAllocates, Unallocated
        <3>2. UNCHANGED <<cpu, hpc>>
            BY <2>8 DEF ThreadAllocates
        <3>3. \A d \in Cores : cpu[d] # NoTCB => cpu[d] # u /\ cpu[d] \in TCBs
            BY <1>0, <3>1 DEF CorePlaces, CoreTypes, OnCpu, Free
        <3>4. \A d \in Cores : d # c /\ cpu[d] # NoTCB => cpu[d] # r
            BY <2>0, RunnersDiffer
        <3>5. \A d \in Cores : d # c /\ cpu[d] # NoTCB => pc'[cpu[d]] = pc[cpu[d]]
            BY <1>0, <3>1, <3>3, <3>4 DEF TCBTypes
        <3>6. pc'[r] = "add"
            BY <1>0, <2>0, <3>1 DEF TCBTypes
        <3> QED
            BY <1>0, <2>0, <3>1, <3>2, <3>5, <3>6 DEF HandEmpty, CoreTypes
    <2>9. CASE ThreadAdds(c)
        BY <2>1, <2>9 DEF ThreadAdds, AddReady
    <2>10. CASE ThreadDown(c) \/ ReaperDown(c)
        <3>1. PICK s, next : DownTakes(c, s, next) \/ DownBlocks(c, s)
            BY <2>10, ConstantsAssumption DEF ThreadDown, ReaperDown
        <3>2. pc[r] # "add"
            BY <2>10 DEF ThreadDown, ReaperDown, UserCall, Running
        <3> QED
            BY <2>1, <2>2, <2>3, <3>1, <3>2 DEF DownTakes, DownBlocks, coreVars
    <2>11. CASE ThreadUp(c)
        <3>1. \/ /\ \E s \in Sems : UpWakes(c, s)
                 /\ pc' = [pc EXCEPT ![r] = "add"]
              \/ pc' = pc /\ hand' = hand
            BY <2>11 DEF ThreadUp, UpCounts
        <3>2. UNCHANGED <<cpu, hpc>>
            BY <2>11 DEF ThreadUp
        <3> QED
            BY <1>1, <2>1, <3>1, <3>2 DEF UpWakes
    <2> HIDE DEF r
    <2> QED
        BY <1>4, <2>4, <2>5, <2>6, <2>7, <2>8, <2>9, <2>10, <2>11, <2>12 DEF Thread
<1> QED
    BY <1>2, <1>3, <1>4 DEF Next, Core

\* Every step keeps the slot of a core free unless the helper is on its way
\* to the request.
LEMMA RequestFirstStep ==
    ASSUME IndInv, RequestFirst, [Next]_vars
    PROVE  RequestFirst'
<1>0. CoreTypes /\ HelperSaved
    BY DEF IndInv, TypeOK
<1>1. CASE UNCHANGED <<help_requests, cpu, hpc>>
    BY <1>1 DEF RequestFirst
<1>2. CASE Tick \/ UNCHANGED vars
    BY <1>1, <1>2 DEF Tick, vars, coreVars
<1>3. ASSUME NEW c \in Cores, Boot(c) \/ Helper(c)
      PROVE  RequestFirst'
    <2>1. CASE HelperWakeup(c)
        BY <1>1, <2>1 DEF HelperWakeup, coreVars
    <2>2. CASE HelperTakes(c)
        BY <1>0, <2>2 DEF HelperTakes, RequestFirst, CoreTypes
    <2>3. CASE HelperResume(c)
        BY <1>0, <2>3 DEF HelperResume, HelperAt, RequestFirst, CoreTypes
    <2>4. CASE \/ Boot(c) \/ HelperNoRequest(c) \/ HelperYield(c) \/ HelperSleep(c)
               \/ HelperDownTakes(c) \/ HelperDownWaits(c) \/ HelperStop(c)
               \/ HelperUp(c) \/ HelperAdd(c) \/ HelperPick(c) \/ HelperIdle(c)
               \/ HelperDispatch(c) \/ HelperSwitch(c)
        <3>1. /\ help_requests' = help_requests
              /\ hpc[c] \notin {"sti", "wakeup"} \/ help_requests[c] = NoTCB
              /\ cpu' = cpu \/ \E t : cpu' = [cpu EXCEPT ![c] = t]
              /\ \E w : hpc' = [hpc EXCEPT ![c] = w]
            BY <2>4 DEF Boot, HelperNoRequest, HelperYield, HelperSleep,
               HelperDownTakes, HelperDownWaits, HelperStop, HelperUp, HelperAdd,
               HelperPick, HelperIdle, HelperDispatch, HelperSwitch, DoIt, HelperAt
        <3> QED
            BY <1>0, <3>1 DEF RequestFirst, CoreTypes
    <2> QED
        BY <1>3, <2>1, <2>2, <2>3, <2>4 DEF Helper
<1>4. ASSUME NEW c \in Cores, Thread(c)
      PROVE  RequestFirst'
    <2>0. cpu[c] # NoTCB /\ hpc[c] = "sti"
        BY <1>0, <1>4, ThreadRuns DEF HelperSaved
    <2>1. CASE SwitchToHelper(c)
        <3>1. /\ help_requests' = [help_requests EXCEPT ![c] = cpu[c]]
              /\ cpu' = [cpu EXCEPT ![c] = NoTCB]
              /\ hpc' = hpc
            BY <2>1 DEF SwitchToHelper
        <3> QED
            BY <1>0, <2>0, <3>1 DEF RequestFirst, CoreTypes
    <2>2. CASE CallYield(c) \/ CallSleep(c) \/ CallStop(c) \/ CallThread(c)
        BY <1>1, <2>2 DEF CallYield, CallSleep, CallStop, CallThread, Reap, coreVars
    <2>3. CASE YieldBlocks(c) \/ SleepBlocks(c) \/ StopBlocks(c)
        BY <1>1, <2>3 DEF YieldBlocks, SleepBlocks, StopBlocks, Block
    <2>4. CASE ThreadDown(c) \/ ReaperDown(c)
        BY <1>1, <2>4 DEF ThreadDown, ReaperDown, DownTakes, DownBlocks, Block, coreVars
    <2>5. CASE \/ ReapDelete(c) \/ YieldReturns(c) \/ ThreadAllocates(c)
               \/ ThreadAdds(c) \/ ThreadUp(c) \/ ReaperRemoves(c)
               \/ ReaperFindsNothing(c) \/ ReaperDeletes(c)
        BY <1>1, <2>5 DEF ReapDelete, YieldReturns, ThreadAllocates, ThreadAdds,
           ThreadUp, ReaperRemoves, ReaperFindsNothing, ReaperDeletes, coreVars
    <2> QED
        BY <1>4, <2>1, <2>2, <2>3, <2>4, <2>5 DEF Thread
<1> QED
    BY <1>2, <1>3, <1>4 DEF Next, Core

\* Every step keeps the TCBs that are to be deleted with a thread that is
\* deleting them.
LEMMA ReapingRunsStep ==
    ASSUME IndInv, ReapingRuns, [Next]_vars
    PROVE  ReapingRuns'
<1>0. CoreTypes /\ TCBTypes /\ QueueTypes /\ CorePlaces /\ HandFilled
    BY DEF IndInv, TypeOK
<1>1. CASE UNCHANGED <<reaping, pc, cpu>>
    BY <1>1 DEF ReapingRuns
<1>2. CASE Tick \/ UNCHANGED vars
    BY <1>1, <1>2 DEF Tick, vars, coreVars, tcbVars
<1>3. ASSUME NEW c \in Cores, Boot(c) \/ Helper(c)
      PROVE  ReapingRuns'
    <2>1. CASE HelperSwitch(c)
        <3>1. /\ cpu[c] = NoTCB
              /\ cpu' = [cpu EXCEPT ![c] = hand[c]]
              /\ UNCHANGED <<reaping, pc>>
            BY <2>1 DEF HelperSwitch, HelperAt
        <3> QED
            BY <1>0, <3>1, ConstantsAssumption DEF ReapingRuns, CoreTypes
    <2> QED
        BY <1>1, <1>3, <2>1 DEF Boot, Helper, HelperResume, HelperWakeup,
           HelperNoRequest, HelperTakes, HelperYield, HelperSleep, HelperDownTakes,
           HelperDownWaits, HelperStop, HelperUp, HelperAdd, HelperPick,
           HelperIdle, HelperDispatch, tcbVars, coreVars
<1>4. ASSUME NEW c \in Cores, Thread(c)
      PROVE  ReapingRuns'
    <2> DEFINE r == cpu[c]
    <2>0. r # NoTCB /\ r \in TCBs
        BY <1>4, ThreadRuns, RunnerFacts
    <2>1. ASSUME cpu' = cpu, NEW w, pc' = [pc EXCEPT ![r] = w],
                 NEW q, reaping' = [reaping EXCEPT ![r] = q],
                 q # <<>> => w \in {"reaping", "delete"},
                 w = "delete" => Len(q) = 1
          PROVE  ReapingRuns'
        <3> HIDE DEF r
        <3>1. cpu[c] = r
            BY DEF r
        <3> QED
            BY <1>0, <2>0, <2>1, <3>1 DEF ReapingRuns, TCBTypes, QueueTypes
    <2>2. ASSUME cpu' = cpu, NEW w \in {"run", "add", "switch", "down", "remove"},
                 pc' = [pc EXCEPT ![r] = w],
                 reaping' = reaping,
                 pc[r] \notin {"reaping", "delete"} \/ reaping[r] = <<>>
          PROVE  ReapingRuns'
        <3>1. reaping[r] = <<>> /\ reaping' = [reaping EXCEPT ![r] = <<>>]
            BY <1>0, <2>0, <2>2 DEF ReapingRuns, QueueTypes
        <3> QED
            BY <2>1, <2>2, <3>1
    <2>3. CASE SwitchToHelper(c)
        <3>1. /\ pc' = [pc EXCEPT ![r] = BehindBlock(r)]
              /\ BehindBlock(r) \notin {"reaping", "delete"}
              /\ cpu' = [cpu EXCEPT ![c] = NoTCB]
              /\ reaping' = reaping
              /\ pc[r] = "switch"
            BY <2>3 DEF SwitchToHelper, BehindBlock, Running
        <3>2. reaping[r] = <<>>
            BY <2>0, <3>1 DEF ReapingRuns
        <3>3. cpu[c] = r
            OBVIOUS
        <3> HIDE DEF r
        <3> QED
            BY <1>0, <2>0, <3>1, <3>2, <3>3 DEF ReapingRuns, TCBTypes, CoreTypes
    <2>4. CASE CallYield(c) \/ CallSleep(c) \/ CallStop(c) \/ CallThread(c)
        <3>1. /\ UNCHANGED cpu
              /\ pc' = [pc EXCEPT ![r] = "reaping"]
              /\ reaping' = [reaping EXCEPT ![r] = reaper_data]
            BY <2>4 DEF CallYield, CallSleep, CallStop, CallThread, Reap, coreVars
        <3>2. /\ reaper_data # <<>> => "reaping" \in {"reaping", "delete"}
              /\ "reaping" = "delete" => Len(reaper_data) = 1
            OBVIOUS
        <3> HIDE DEF r
        <3> QED
            BY <2>1, <3>1, <3>2, Zenon
    <2>5. CASE ReapDelete(c)
        <3>1. /\ UNCHANGED <<cpu, pc>>
              /\ pc[r] = "reaping"
              /\ reaping' = [reaping EXCEPT ![r] = Tail(reaping[r])]
            BY <2>5 DEF ReapDelete, Running, coreVars
        <3>2. pc' = [pc EXCEPT ![r] = "reaping"]
            BY <1>0, <2>0, <3>1 DEF TCBTypes
        <3> QED
            BY <2>1, <3>1, <3>2
    <2>6. CASE YieldReturns(c)
        BY <2>2, <2>6 DEF YieldReturns, Reaped, coreVars
    <2>7. CASE YieldBlocks(c) \/ SleepBlocks(c) \/ StopBlocks(c)
        BY <2>2, <2>7 DEF YieldBlocks, SleepBlocks, StopBlocks, Reaped, Block
    <2>8. CASE ThreadAllocates(c)
        <3>1. PICK u \in TCBs : /\ place[u] = Free
                                /\ pc' = [pc EXCEPT ![u] = "run", ![r] = "add"]
            BY <2>8 DEF ThreadAllocates, Unallocated
        <3>2. UNCHANGED <<cpu, reaping>> /\ reaping[r] = <<>>
            BY <2>8 DEF ThreadAllocates, Reaped
        <3>3. \A d \in Cores : cpu[d] # u
            BY <1>0, <3>1, ConstantsAssumption DEF CorePlaces, OnCpu, Free
        <3>4. reaping[u] = <<>>
            BY <3>3 DEF ReapingRuns
        <3> HIDE DEF r
        <3> QED
            BY <1>0, <2>0, <3>1, <3>2, <3>4 DEF ReapingRuns, TCBTypes
    <2>9. CASE ThreadAdds(c) \/ ReaperFindsNothing(c)
        BY <2>2, <2>9 DEF ThreadAdds, ReaperFindsNothing, Running, coreVars
    <2>10. CASE ThreadDown(c) \/ ReaperDown(c)
        <3>1. PICK s \in Sems, next \in {"run", "remove"} :
                DownTakes(c, s, next) \/ DownBlocks(c, s)
            BY <2>10, ConstantsAssumption DEF ThreadDown, ReaperDown
        <3>2. pc[r] \notin {"reaping", "delete"}
            BY <2>10 DEF ThreadDown, ReaperDown, UserCall, Running
        <3>3. CASE DownTakes(c, s, next)
            BY <2>2, <3>1, <3>2, <3>3 DEF DownTakes, coreVars
        <3>4. CASE DownBlocks(c, s)
            BY <2>2, <3>2, <3>4 DEF DownBlocks, Block
        <3> QED
            BY <3>1, <3>3, <3>4
    <2>11. CASE ThreadUp(c)
        <3>1. /\ pc' = pc \/ pc' = [pc EXCEPT ![r] = "add"]
              /\ UNCHANGED <<cpu, reaping>>
              /\ pc[r] = "run"
            BY <2>11 DEF ThreadUp, UserCall, Running
        <3> QED
            BY <1>1, <2>2, <3>1
    <2>12. CASE ReaperRemoves(c)
        <3>1. /\ UNCHANGED cpu
              /\ pc' = [pc EXCEPT ![r] = "delete"]
              /\ reaping' = [reaping EXCEPT ![r] = <<Head(reaper_data)>>]
            BY <2>12 DEF ReaperRemoves, coreVars
        <3>2. Len(<<Head(reaper_data)>>) = 1
            OBVIOUS
        <3> QED
            BY <2>1, <3>1, <3>2
    <2>13. CASE ReaperDeletes(c)
        <3>1. /\ UNCHANGED cpu
              /\ pc' = [pc EXCEPT ![r] = "down"]
              /\ reaping' = [reaping EXCEPT ![r] = <<>>]
            BY <2>13 DEF ReaperDeletes, coreVars
        <3>2. /\ <<>> # <<>> => "down" \in {"reaping", "delete"}
              /\ "down" = "delete" => Len(<<>>) = 1
            OBVIOUS
        <3> HIDE DEF r
        <3> QED
            BY <2>1, <3>1, <3>2, Zenon
    <2> HIDE DEF r
    <2> QED
        BY <1>4, <2>3, <2>4, <2>5, <2>6, <2>7, <2>8, <2>9, <2>10, <2>11, <2>12, <2>13
        DEF Thread
<1> QED
    BY <1>2, <1>3, <1>4 DEF Next, Core

-----------------------------------------------------------------------------
(* Proofs: no thread is lost *)

\* add() keeps what a queue holds and adds t.
LEMMA InAppend ==
    ASSUME NEW q \in Seq(TCBs), NEW t \in TCBs
    PROVE  /\ In(Append(q, t), t)
           /\ \A u : In(q, u) => In(Append(q, t), u)
<1>1. /\ Len(q) \in Nat
      /\ Len(Append(q, t)) = Len(q) + 1
      /\ \A i \in 1..Len(q) : Append(q, t)[i] = q[i]
      /\ Append(q, t)[Len(q) + 1] = t
    OBVIOUS
<1> QED
    BY <1>1 DEF In

\* remove() loses nothing but the head, and whoever is in a queue keeps it
\* from being empty.
LEMMA InTail ==
    ASSUME NEW q \in Seq(TCBs), q # <<>>
    PROVE  /\ Head(q) \in TCBs
           /\ Tail(q) \in Seq(TCBs)
           /\ \A u : In(q, u) /\ u # Head(q) => In(Tail(q), u)
<1>1. /\ Len(q) \in Nat \ {0}
      /\ Len(Tail(q)) = Len(q) - 1
      /\ \A i \in 1..(Len(q) - 1) : Tail(q)[i] = q[i + 1]
      /\ Head(q) = q[1]
      /\ Head(q) \in TCBs
      /\ Tail(q) \in Seq(TCBs)
    OBVIOUS
<1>2. ASSUME NEW u, NEW i \in 1..Len(q), q[i] = u, u # Head(q)
      PROVE  In(Tail(q), u)
    <2>1. i # 1 /\ i - 1 \in 1..(Len(q) - 1) /\ (i - 1) + 1 = i
        BY <1>1, <1>2
    <2> QED
        BY <1>1, <1>2, <2>1 DEF In
<1> QED
    BY <1>1, <1>2 DEF In

\* SleepQueue::add keeps what the list holds and adds t.
LEMMA InInsert ==
    ASSUME NEW q \in Seq(TCBs), NEW t \in TCBs, NEW at \in [TCBs -> Int],
           NEW when \in Int
    PROVE  /\ In(AddSleeper(q, at, t, when), t)
           /\ \A u : In(q, u) => In(AddSleeper(q, at, t, when), u)
<1>1. PICK i : i = InsertPosition(q, at, when)
    OBVIOUS
<1>2. Len(q) \in Nat /\ i \in 1..(Len(q) + 1)
    BY <1>1, InsertPositionProperties
<1>3. PICK r : r = InsertBefore(q, i, t)
    OBVIOUS
<1>4. /\ Len(r) = Len(q) + 1
      /\ \A j \in 1..(Len(q) + 1) :
            r[j] = IF j < i THEN q[j] ELSE IF j = i THEN t ELSE q[j - 1]
    <2>1. i \in 1..(Len(q) + 1)
        BY <1>2
    <2> DEFINE b == InsertBefore(q, i, t)
    <2>2. /\ b \in Seq(TCBs)
          /\ Len(b) = Len(q) + 1
          /\ \A j \in 1..(Len(q) + 1) :
                b[j] = IF j < i THEN q[j] ELSE IF j = i THEN t ELSE q[j - 1]
        BY <2>1, InsertBeforeProperties
    <2>3. r = b
        BY <1>3
    <2> HIDE DEF b
    <2> QED
        BY <2>2, <2>3
<1>5. In(r, t)
    BY <1>2, <1>4 DEF In
<1>6. ASSUME NEW u, NEW j \in 1..Len(q), q[j] = u
      PROVE  In(r, u)
    <2>1. CASE j < i
        BY <1>2, <1>4, <1>6, <2>1 DEF In
    <2>2. CASE j >= i
        <3>1. /\ j + 1 \in 1..(Len(q) + 1) /\ (j + 1) - 1 = j
              /\ ~(j + 1 < i) /\ j + 1 # i
            BY <1>2, <2>2
        <3>2. r[j + 1] = u
            BY <1>4, <1>6, <3>1
        <3> QED
            BY <1>4, <3>1, <3>2 DEF In
    <2> QED
        BY <1>2, <2>1, <2>2
<1>7. AddSleeper(q, at, t, when) = r
    BY <1>1, <1>3 DEF AddSleeper
<1>8. \A u : In(q, u) => In(r, u)
    BY <1>6 DEF In
<1> QED
    BY <1>5, <1>7, <1>8

\* A step that moves t leaves every other TCB in the hands it was in.
Keeps(t) ==
    \A u \in TCBs \ {t} :
        /\ In(ready_queue, u) => In(ready_queue', u)
        /\ In(reaper_data, u) => In(reaper_data', u)
        /\ \A c \in Cores : /\ cpu[c] = u => cpu'[c] = u
                            /\ help_requests[c] = u => help_requests'[c] = u
                            /\ hand[c] = u => hand'[c] = u
                            /\ In(sleep_queues[c], u) => In(sleep_queues'[c], u)
        /\ \A s \in Sems : In(waiting[s], u) => In(waiting'[s], u)
        /\ \A x \in TCBs : In(reaping[x], u) => In(reaping'[x], u)

\* Moving t from one spot to another, and nothing else, keeps every TCB where
\* it is said to be.
LEMMA SitsMoved ==
    ASSUME NEW t \in TCBs, NEW p, place \in [TCBs -> Places],
           place' = [place EXCEPT ![t] = p], Keeps(t), Sits(t, p)', AllSit
    PROVE  AllSit'
<1>1. ASSUME NEW u \in TCBs
      PROVE  Sits(u, place[u])'
    <2>1. PICK x : x = place'[u]
        OBVIOUS
    <2>2. Sits(u, x)'
        <3>1. CASE u = t
            <4>1. x = p
                BY <2>1, <3>1
            <4> QED
                BY <3>1, <4>1
        <3>2. CASE u # t
            <4>1. place[u] = x
                BY <2>1, <3>2
            <4>2. Sits(u, x)
                BY <4>1 DEF AllSit
            <4> QED
                BY <3>2, <4>2 DEF Sits, Keeps
        <3> QED
            BY <3>1, <3>2
    <2> QED
        BY <2>1, <2>2 DEF Sits
<1> QED
    BY <1>1 DEF AllSit

\* A step that moves nobody.
LEMMA SitsStay ==
    ASSUME AllSit,
           UNCHANGED <<cpu, help_requests, hand, ready_queue, reaper_data,
                       sleep_queues, waiting, reaping, place>>
    PROVE  AllSit'
BY DEF AllSit, Sits

\* The helper takes a thread from the request into its hand.
LEMMA RequestSits ==
    ASSUME IndInv, AllSit, HandEmpty, NEW c \in Cores, HelperTakes(c)
    PROVE  AllSit'
<1>0. CoreTypes /\ place \in [TCBs -> Places]
    BY DEF IndInv, TypeOK, TCBTypes
<1>1. PICK t \in TCBs : t = help_requests[c]
    BY <1>0 DEF HelperTakes, CoreTypes
<1>2. /\ help_requests' = [help_requests EXCEPT ![c] = NoTCB]
      /\ hand' = [hand EXCEPT ![c] = t]
      /\ place' = [place EXCEPT ![t] = InHand(c)]
      /\ UNCHANGED <<cpu, ready_queue, sleep_queues, waiting, reaper_data, reaping>>
    BY <1>1 DEF HelperTakes, queueVars
<1>3. hand[c] = NoTCB
    BY DEF HelperTakes, HelperAt, HandEmpty
<1>4. /\ hand'[c] = t
      /\ \A u \in TCBs, d \in Cores : hand[d] = u => hand'[d] = u
      /\ \A u \in TCBs \ {t}, d \in Cores :
            help_requests[d] = u => help_requests'[d] = u
    BY <1>0, <1>1, <1>2, <1>3, ConstantsAssumption DEF CoreTypes
<1>5. Keeps(t) /\ Sits(t, InHand(c))'
    BY <1>2, <1>4 DEF Keeps, Sits
<1> QED
    BY <1>0, <1>2, <1>5, SitsMoved

\* The lambdas that publish the TCB move it from the hand into a queue.
LEMMA TakenSits ==
    ASSUME IndInv, AllSit, NEW c \in Cores,
           HelperYield(c) \/ HelperSleep(c) \/ HelperDownWaits(c) \/ HelperStop(c)
    PROVE  AllSit'
<1>0. CoreTypes /\ QueueTypes /\ NumberTypes /\ TCBTypes /\ HandFilled
    BY DEF IndInv, TypeOK
<1>1. PICK t : t = hand[c]
    OBVIOUS
<1>2. /\ t \in TCBs
      /\ hand' = [hand EXCEPT ![c] = NoTCB]
      /\ UNCHANGED <<cpu, help_requests, reaping>>
    BY <1>0, <1>1 DEF HelperYield, HelperSleep, HelperDownWaits, Waits, HelperStop,
       DoIt, Published, HelperAt, CoreTypes, HandFilled
<1>3. \A u \in TCBs \ {t}, d \in Cores : hand[d] = u => hand'[d] = u
    BY <1>0, <1>1, <1>2 DEF CoreTypes
<1>4. place \in [TCBs -> Places]
    BY <1>0 DEF TCBTypes
<1>5. CASE HelperYield(c)
    <2>1. /\ ready_queue' = Append(ready_queue, t)
          /\ place' = [place EXCEPT ![t] = Ready]
          /\ UNCHANGED <<reaper_data, sleep_queues, waiting>>
        BY <1>1, <1>5 DEF HelperYield
    <2>2. In(ready_queue', t) /\ \A u : In(ready_queue, u) => In(ready_queue', u)
        BY <1>0, <1>2, <2>1, InAppend DEF QueueTypes
    <2>3. Keeps(t) /\ Sits(t, Ready)'
        BY <1>2, <1>3, <2>1, <2>2 DEF Keeps, Sits
    <2> QED
        BY <1>2, <1>4, <2>1, <2>3, SitsMoved
<1>6. CASE HelperSleep(c)
    <2>1. PICK when : when = WakeTime(jiffies, JiffiesPerSecond, call[t].sec, Word)
        OBVIOUS
    <2>2. /\ sleep_queues' = [sleep_queues EXCEPT
                                ![c] = AddSleeper(@, at_jiffies, t, when)]
          /\ place' = [place EXCEPT ![t] = Sleeping(c)]
          /\ UNCHANGED <<reaper_data, ready_queue, waiting>>
        BY <1>1, <1>6, <2>1 DEF HelperSleep
    <2>3. when \in Int /\ at_jiffies \in [TCBs -> Int]
        <3>0. call[t].sec \in Nat
            BY <1>0, <1>2, ConstantsAssumption DEF TCBTypes, Calls
        <3>1. jiffies \in Nat
            BY <1>0, ConstantsAssumption DEF NumberTypes
        <3>2. at_jiffies \in [TCBs -> Int]
            BY <1>0, ConstantsAssumption DEF NumberTypes
        <3> QED
            <4>1. WakeTime(jiffies, JiffiesPerSecond, call[t].sec, Word)
                    \in 0..(Word - 1)
                BY <3>0, <3>1, WakeTimeType
            <4>2. when \in 0..(Word - 1)
                BY <2>1, <4>1
            <4> QED
                BY <3>2, <4>2, ConstantsAssumption
    <2>4. /\ In(sleep_queues'[c], t)
          /\ \A u : In(sleep_queues[c], u) => In(sleep_queues'[c], u)
        <3>1. sleep_queues[c] \in Seq(TCBs)
              /\ sleep_queues'[c] = AddSleeper(sleep_queues[c], at_jiffies, t, when)
            BY <1>0, <2>2 DEF QueueTypes
        <3> QED
            BY <1>2, <2>3, <3>1, InInsert
    <2>5. \A d \in Cores, u \in TCBs : In(sleep_queues[d], u) => In(sleep_queues'[d], u)
        BY <1>0, <2>2, <2>4 DEF QueueTypes
    <2>6. Keeps(t) /\ Sits(t, Sleeping(c))'
        BY <1>2, <1>3, <2>2, <2>4, <2>5 DEF Keeps, Sits
    <2> QED
        BY <1>2, <1>4, <2>2, <2>6, SitsMoved
<1>8. CASE HelperDownWaits(c)
    <2>1. PICK s \in Sems : s = call[t].sem
        BY <1>0, <1>2 DEF TCBTypes, Calls
    <2>2. /\ waiting' = [waiting EXCEPT ![s] = Append(@, t)]
          /\ place' = [place EXCEPT ![t] = WaitingOn(s)]
          /\ UNCHANGED <<reaper_data, ready_queue, sleep_queues>>
        BY <1>1, <1>8, <2>1 DEF HelperDownWaits, Waits
    <2>3. In(waiting'[s], t) /\ \A u : In(waiting[s], u) => In(waiting'[s], u)
        BY <1>0, <1>2, <2>2, InAppend DEF QueueTypes
    <2>4. \A r \in Sems, u \in TCBs : In(waiting[r], u) => In(waiting'[r], u)
        BY <1>0, <2>2, <2>3 DEF QueueTypes
    <2>5. Keeps(t) /\ Sits(t, WaitingOn(s))'
        BY <1>2, <1>3, <2>2, <2>3, <2>4 DEF Keeps, Sits
    <2> QED
        BY <1>2, <1>4, <2>2, <2>5, SitsMoved
<1>9. CASE HelperStop(c)
    <2>1. /\ reaper_data' = Append(reaper_data, t)
          /\ place' = [place EXCEPT ![t] = Reapable]
          /\ UNCHANGED <<ready_queue, sleep_queues, waiting>>
        BY <1>1, <1>9 DEF HelperStop
    <2>2. In(reaper_data', t) /\ \A u : In(reaper_data, u) => In(reaper_data', u)
        BY <1>0, <1>2, <2>1, InAppend DEF QueueTypes
    <2>3. Keeps(t) /\ Sits(t, Reapable)'
        BY <1>2, <1>3, <2>1, <2>2 DEF Keeps, Sits
    <2> QED
        BY <1>2, <1>4, <2>1, <2>3, SitsMoved
<1> QED
    BY <1>5, <1>6, <1>8, <1>9

\* wakeup() moves the head of the sleep queue to the ready queue.
LEMMA WakeupSits ==
    ASSUME IndInv, AllSit, NEW c \in Cores, HelperWakeup(c)
    PROVE  AllSit'
<1>0. QueueTypes /\ place \in [TCBs -> Places]
    BY DEF IndInv, TypeOK, TCBTypes
<1>1. sleep_queues[c] \in Seq(TCBs) /\ sleep_queues[c] # <<>>
    BY <1>0 DEF HelperWakeup, SomeoneDue, Due, QueueTypes
<1>2. PICK t \in TCBs : t = Head(sleep_queues[c])
    BY <1>1, InTail
<1>3. /\ sleep_queues' = [sleep_queues EXCEPT ![c] = Tail(@)]
      /\ ready_queue' = Append(ready_queue, t)
      /\ place' = [place EXCEPT ![t] = Ready]
      /\ UNCHANGED <<cpu, help_requests, hand, waiting, reaper_data, reaping>>
    BY <1>2 DEF HelperWakeup, coreVars
<1>4. In(ready_queue', t) /\ \A u : In(ready_queue, u) => In(ready_queue', u)
    BY <1>0, <1>3, InAppend DEF QueueTypes
<1>5. \A u : In(sleep_queues[c], u) /\ u # t => In(sleep_queues'[c], u)
    BY <1>0, <1>1, <1>2, <1>3, InTail DEF QueueTypes
<1>6. \A d \in Cores, u \in TCBs \ {t} :
        In(sleep_queues[d], u) => In(sleep_queues'[d], u)
    BY <1>0, <1>3, <1>5 DEF QueueTypes
<1>7. Keeps(t) /\ Sits(t, Ready)'
    BY <1>3, <1>4, <1>6 DEF Keeps, Sits
<1> QED
    BY <1>0, <1>3, <1>7, SitsMoved

\* Semaphore::up moves the first waiter into the hand of the core.
LEMMA UpSits ==
    ASSUME IndInv, AllSit, NEW c \in Cores, NEW s \in Sems, UpWakes(c, s),
           hand[c] = NoTCB,
           UNCHANGED <<cpu, help_requests, ready_queue, sleep_queues,
                       reaper_data, reaping>>
    PROVE  AllSit'
<1>0. CoreTypes /\ QueueTypes /\ place \in [TCBs -> Places]
    BY DEF IndInv, TypeOK, TCBTypes
<1>1. waiting[s] \in Seq(TCBs) /\ waiting[s] # <<>>
    BY <1>0 DEF UpWakes, QueueTypes
<1>2. PICK t \in TCBs : t = Head(waiting[s])
    BY <1>1, InTail
<1>3. /\ waiting' = [waiting EXCEPT ![s] = Tail(@)]
      /\ hand' = [hand EXCEPT ![c] = t]
      /\ place' = [place EXCEPT ![t] = InHand(c)]
    BY <1>2 DEF UpWakes
<1>4. /\ hand'[c] = t
      /\ \A u \in TCBs, d \in Cores : hand[d] = u => hand'[d] = u
    BY <1>0, <1>3, ConstantsAssumption DEF CoreTypes
<1>5. \A u : In(waiting[s], u) /\ u # t => In(waiting'[s], u)
    BY <1>0, <1>1, <1>2, <1>3, InTail DEF QueueTypes
<1>6. \A r \in Sems, u \in TCBs \ {t} : In(waiting[r], u) => In(waiting'[r], u)
    BY <1>0, <1>3, <1>5 DEF QueueTypes
<1>7. Keeps(t) /\ Sits(t, InHand(c))'
    BY <1>3, <1>4, <1>6 DEF Keeps, Sits
<1> QED
    BY <1>0, <1>3, <1>7, SitsMoved

\* ready_queue.add empties the hand of the core.
LEMMA AddSits ==
    ASSUME IndInv, AllSit, NEW c \in Cores, AddReady(c), hand[c] # NoTCB,
           UNCHANGED <<cpu, help_requests, sleep_queues, waiting, reaper_data,
                       reaping>>
    PROVE  AllSit'
<1>0. CoreTypes /\ QueueTypes /\ place \in [TCBs -> Places]
    BY DEF IndInv, TypeOK, TCBTypes
<1>1. PICK t \in TCBs : t = hand[c]
    BY <1>0 DEF CoreTypes
<1>2. /\ ready_queue' = Append(ready_queue, t)
      /\ hand' = [hand EXCEPT ![c] = NoTCB]
      /\ place' = [place EXCEPT ![t] = Ready]
    BY <1>1 DEF AddReady
<1>3. In(ready_queue', t) /\ \A u : In(ready_queue, u) => In(ready_queue', u)
    BY <1>0, <1>2, InAppend DEF QueueTypes
<1>4. \A u \in TCBs \ {t}, d \in Cores : hand[d] = u => hand'[d] = u
    BY <1>0, <1>1, <1>2 DEF CoreTypes
<1>5. Keeps(t) /\ Sits(t, Ready)'
    BY <1>2, <1>3, <1>4 DEF Keeps, Sits
<1> QED
    BY <1>0, <1>2, <1>5, SitsMoved

\* ready_queue.remove() moves the head into the hand of the core.
LEMMA PickSits ==
    ASSUME IndInv, AllSit, HandEmpty, NEW c \in Cores, HelperPick(c)
    PROVE  AllSit'
<1>0. CoreTypes /\ QueueTypes /\ place \in [TCBs -> Places]
    BY DEF IndInv, TypeOK, TCBTypes
<1>1. ready_queue \in Seq(TCBs) /\ ready_queue # <<>>
    BY <1>0 DEF HelperPick, QueueTypes
<1>2. PICK t \in TCBs : t = Head(ready_queue)
    BY <1>1, InTail
<1>3. /\ ready_queue' = Tail(ready_queue)
      /\ hand' = [hand EXCEPT ![c] = t]
      /\ place' = [place EXCEPT ![t] = InHand(c)]
      /\ UNCHANGED <<cpu, help_requests, sleep_queues, waiting, reaper_data,
                     reaping>>
    BY <1>2 DEF HelperPick
<1>4. hand[c] = NoTCB
    BY DEF HelperPick, HelperAt, HandEmpty
<1>5. /\ hand'[c] = t
      /\ \A u \in TCBs, d \in Cores : hand[d] = u => hand'[d] = u
    BY <1>0, <1>3, <1>4, ConstantsAssumption DEF CoreTypes
<1>6. \A u : In(ready_queue, u) /\ u # t => In(ready_queue', u)
    BY <1>1, <1>2, <1>3, InTail
<1>7. Keeps(t) /\ Sits(t, InHand(c))'
    BY <1>3, <1>5, <1>6 DEF Keeps, Sits
<1> QED
    BY <1>0, <1>3, <1>7, SitsMoved

\* The context switch to a thread empties the hand of the core.
LEMMA SwitchSits ==
    ASSUME IndInv, AllSit, NEW c \in Cores, HelperSwitch(c)
    PROVE  AllSit'
<1>0. CoreTypes /\ HandFilled /\ place \in [TCBs -> Places]
    BY DEF IndInv, TypeOK, TCBTypes
<1>1. cpu[c] = NoTCB /\ hpc[c] = "switch"
    BY DEF HelperSwitch, HelperAt
<1>2. PICK t \in TCBs : t = hand[c]
    BY <1>0, <1>1 DEF CoreTypes, HandFilled
<1>3. /\ cpu' = [cpu EXCEPT ![c] = t]
      /\ hand' = [hand EXCEPT ![c] = NoTCB]
      /\ place' = [place EXCEPT ![t] = OnCpu(c)]
      /\ UNCHANGED <<help_requests, ready_queue, sleep_queues, waiting,
                     reaper_data, reaping>>
    BY <1>2 DEF HelperSwitch, queueVars
<1>4. /\ cpu'[c] = t
      /\ \A u \in TCBs, d \in Cores : cpu[d] = u => cpu'[d] = u
      /\ \A u \in TCBs \ {t}, d \in Cores : hand[d] = u => hand'[d] = u
    BY <1>0, <1>1, <1>2, <1>3, ConstantsAssumption DEF CoreTypes
<1>5. Keeps(t) /\ Sits(t, OnCpu(c))'
    BY <1>3, <1>4 DEF Keeps, Sits
<1> QED
    BY <1>0, <1>3, <1>5, SitsMoved

\* block() moves the thread from its core to the core's request.
LEMMA BlockSits ==
    ASSUME IndInv, AllSit, RequestFirst, NEW c \in Cores, cpu[c] # NoTCB,
           SwitchToHelper(c)
    PROVE  AllSit'
<1>0. CoreTypes /\ place \in [TCBs -> Places]
    BY DEF IndInv, TypeOK, TCBTypes
<1>1. PICK t \in TCBs : t = cpu[c]
    BY <1>0 DEF CoreTypes
<1>2. /\ help_requests' = [help_requests EXCEPT ![c] = t]
      /\ cpu' = [cpu EXCEPT ![c] = NoTCB]
      /\ place' = [place EXCEPT ![t] = Requesting(c)]
      /\ UNCHANGED <<hand, ready_queue, sleep_queues, waiting, reaper_data,
                     reaping>>
    BY <1>1 DEF SwitchToHelper, queueVars
<1>3. help_requests[c] = NoTCB
    BY DEF RequestFirst
<1>4. /\ help_requests'[c] = t
      /\ \A u \in TCBs, d \in Cores :
            help_requests[d] = u => help_requests'[d] = u
      /\ \A u \in TCBs \ {t}, d \in Cores : cpu[d] = u => cpu'[d] = u
    BY <1>0, <1>1, <1>2, <1>3, ConstantsAssumption DEF CoreTypes
<1>5. Keeps(t) /\ Sits(t, Requesting(c))'
    BY <1>2, <1>4 DEF Keeps, Sits
<1> QED
    BY <1>0, <1>2, <1>5, SitsMoved

\* reap() takes the whole reaper queue, into a list that was empty.
LEMMA ReapSits ==
    ASSUME IndInv, AllSit, ReapingRuns, NEW c \in Cores, NEW op, NEW sec,
           NEW cost, Reap(c, op, sec, cost)
    PROVE  AllSit'
<1>0. CoreTypes /\ QueueTypes /\ place \in [TCBs -> Places]
    BY DEF IndInv, TypeOK, TCBTypes
<1>1. PICK t \in TCBs : t = cpu[c]
    BY <1>0 DEF Reap, Running, CoreTypes
<1>2. /\ reaping' = [reaping EXCEPT ![t] = reaper_data]
      /\ place' = [u \in TCBs |->
                    IF place[u] = Reapable THEN Doomed(t) ELSE place[u]]
      /\ UNCHANGED <<cpu, help_requests, hand, ready_queue, sleep_queues, waiting>>
      /\ pc[t] = "run"
    BY <1>1 DEF Reap, Running, coreVars
<1>3. reaping[t] = <<>> /\ \A u : ~In(reaping[t], u)
    BY <1>2 DEF ReapingRuns, In
<1>4. /\ reaping'[t] = reaper_data
      /\ \A x \in TCBs \ {t} : reaping'[x] = reaping[x]
    BY <1>0, <1>2 DEF QueueTypes
<1>5. ASSUME NEW u \in TCBs
      PROVE  Sits(u, place[u])'
    <2>1. CASE place[u] = Reapable
        <3>1. place'[u] = Doomed(t)
            BY <1>2, <2>1
        <3>2. In(reaper_data, u)
            BY <2>1 DEF AllSit, Sits, Free, Ready, Reapable, OnCpu, Requesting,
               InHand, Sleeping, WaitingOn, Doomed
        <3> QED
            BY <1>4, <3>1, <3>2 DEF Sits
    <2>2. CASE place[u] # Reapable
        <3>1. PICK x : x = place[u] /\ x = place'[u]
            BY <1>2, <2>2
        <3>2. Sits(u, x) /\ x # Reapable
            BY <2>2, <3>1 DEF AllSit
        <3>3. Sits(u, x)'
            BY <1>2, <1>3, <1>4, <3>2 DEF Sits
        <3> QED
            BY <3>1, <3>3 DEF Sits
    <2> QED
        BY <2>1, <2>2
<1> QED
    BY <1>5 DEF AllSit

\* delete frees a TCB of the list of the deleting thread.
LEMMA DeleteSits ==
    ASSUME IndInv, AllSit, ReapingRuns, NEW c \in Cores,
           ReapDelete(c) \/ ReaperDeletes(c)
    PROVE  AllSit'
<1>0. CoreTypes /\ QueueTypes /\ DoomedFilled /\ place \in [TCBs -> Places]
    BY DEF IndInv, TypeOK, TCBTypes
<1>1. PICK r \in TCBs : r = cpu[c]
    BY <1>0 DEF ReapDelete, ReaperDeletes, Running, CoreTypes
<1>2. reaping[r] \in Seq(TCBs) /\ reaping[r] # <<>>
    BY <1>0, <1>1 DEF ReapDelete, ReaperDeletes, Running, DoomedFilled, QueueTypes
<1>3. PICK t \in TCBs : t = Head(reaping[r])
    BY <1>2, InTail
<1>4. /\ place' = [place EXCEPT ![t] = Free]
      /\ UNCHANGED <<cpu, help_requests, hand, ready_queue, sleep_queues,
                     waiting, reaper_data>>
    BY <1>1, <1>3 DEF ReapDelete, ReaperDeletes, coreVars, queueVars
<1>5. reaping' = [reaping EXCEPT ![r] = Tail(reaping[r])]
    <2>1. CASE ReapDelete(c)
        BY <1>1, <2>1 DEF ReapDelete
    <2>2. CASE ReaperDeletes(c)
        <3>1. reaping' = [reaping EXCEPT ![r] = <<>>] /\ Len(reaping[r]) = 1
            BY <1>1, <2>2 DEF ReaperDeletes, Running, ReapingRuns
        <3>2. Tail(reaping[r]) \in Seq(TCBs) /\ Len(Tail(reaping[r])) = 0
            BY <1>2, <3>1
        <3>3. Tail(reaping[r]) = <<>>
            BY <3>2, EmptySeq
        <3> QED
            BY <3>1, <3>3
    <2> QED
        BY <2>1, <2>2
<1>6. \A u : In(reaping[r], u) /\ u # t => In(reaping'[r], u)
    BY <1>0, <1>2, <1>3, <1>5, InTail DEF QueueTypes
<1>7. \A x \in TCBs, u \in TCBs \ {t} : In(reaping[x], u) => In(reaping'[x], u)
    BY <1>0, <1>5, <1>6 DEF QueueTypes
<1>8. Keeps(t) /\ Sits(t, Free)'
    BY <1>4, <1>7 DEF Keeps, Sits
<1> QED
    BY <1>0, <1>4, <1>8, SitsMoved

\* The reaper takes the head of its queue.
LEMMA RemovesSits ==
    ASSUME IndInv, AllSit, ReapingRuns, NEW c \in Cores, ReaperRemoves(c)
    PROVE  AllSit'
<1>0. CoreTypes /\ QueueTypes /\ place \in [TCBs -> Places]
    BY DEF IndInv, TypeOK, TCBTypes
<1>1. PICK r \in TCBs : r = cpu[c]
    BY <1>0 DEF ReaperRemoves, Running, CoreTypes
<1>2. reaper_data \in Seq(TCBs) /\ reaper_data # <<>> /\ pc[r] = "remove"
    BY <1>0, <1>1 DEF ReaperRemoves, Running, QueueTypes
<1>3. PICK t \in TCBs : t = Head(reaper_data)
    BY <1>2, InTail
<1>4. /\ place' = [place EXCEPT ![t] = Doomed(r)]
      /\ reaping' = [reaping EXCEPT ![r] = <<t>>]
      /\ reaper_data' = Tail(reaper_data)
      /\ UNCHANGED <<cpu, help_requests, hand, ready_queue, sleep_queues, waiting>>
    BY <1>1, <1>3 DEF ReaperRemoves, coreVars
<1>5. reaping[r] = <<>> /\ \A u : ~In(reaping[r], u)
    BY <1>2 DEF ReapingRuns, In
<1>6. In(<<t>>, t)
    BY DEF In
<1>7. /\ In(reaping'[r], t)
      /\ \A x \in TCBs, u \in TCBs : In(reaping[x], u) => In(reaping'[x], u)
    BY <1>0, <1>4, <1>5, <1>6 DEF QueueTypes
<1>8. \A u : In(reaper_data, u) /\ u # t => In(reaper_data', u)
    BY <1>2, <1>3, <1>4, InTail
<1>9. Keeps(t) /\ Sits(t, Doomed(r))'
    BY <1>4, <1>7, <1>8 DEF Keeps, Sits
<1> QED
    BY <1>0, <1>4, <1>9, SitsMoved

\* thread() takes a TCB that nobody holds into the hand of the core.
LEMMA AllocateSits ==
    ASSUME IndInv, AllSit, HandEmpty, NEW c \in Cores, ThreadAllocates(c)
    PROVE  AllSit'
<1>0. CoreTypes /\ place \in [TCBs -> Places]
    BY DEF IndInv, TypeOK, TCBTypes
<1>1. cpu[c] # NoTCB /\ pc[cpu[c]] = "reaping"
    BY DEF ThreadAllocates, Reaped, Running
<1>2. PICK t \in TCBs : /\ hand' = [hand EXCEPT ![c] = t]
                        /\ place' = [place EXCEPT ![t] = InHand(c)]
    BY DEF ThreadAllocates, Unallocated
<1>3. UNCHANGED <<cpu, help_requests, ready_queue, sleep_queues, waiting,
                  reaper_data, reaping>>
    BY DEF ThreadAllocates
<1>4. hand[c] = NoTCB
    BY <1>1 DEF HandEmpty
<1>5. /\ hand'[c] = t
      /\ \A u \in TCBs, d \in Cores : hand[d] = u => hand'[d] = u
    BY <1>0, <1>2, <1>4, ConstantsAssumption DEF CoreTypes
<1>6. Keeps(t) /\ Sits(t, InHand(c))'
    BY <1>3, <1>5 DEF Keeps, Sits
<1> QED
    BY <1>0, <1>2, <1>6, SitsMoved

\* The last core to boot adds the main thread to the ready queue.
LEMMA BootSits ==
    ASSUME IndInv, AllSit, NEW c \in Cores, Boot(c)
    PROVE  AllSit'
<1>0. QueueTypes /\ place \in [TCBs -> Places]
    BY DEF IndInv, TypeOK, TCBTypes
<1>1. UNCHANGED <<cpu, help_requests, hand, sleep_queues, waiting, reaper_data,
                  reaping>>
    BY DEF Boot
<1>2. CASE UNCHANGED <<ready_queue, place>>
    BY <1>1, <1>2, SitsStay
<1>3. CASE /\ ready_queue' = Append(ready_queue, Main)
           /\ place' = [place EXCEPT ![Main] = Ready]
    <2>1. /\ In(ready_queue', Main)
          /\ \A u : In(ready_queue, u) => In(ready_queue', u)
        BY <1>0, <1>3, InAppend, ConstantsAssumption DEF QueueTypes
    <2>2. Keeps(Main) /\ Sits(Main, Ready)'
        BY <1>1, <2>1 DEF Keeps, Sits
    <2> QED
        BY <1>0, <1>3, <2>2, SitsMoved, ConstantsAssumption
<1> QED
    BY <1>2, <1>3 DEF Boot

\* Every step keeps every TCB where it is said to be.
LEMMA AllSitStep ==
    ASSUME IndInv, HeldInv, [Next]_vars
    PROVE  AllSit'
<1>0. AllSit /\ HandEmpty /\ RequestFirst /\ ReapingRuns /\ HandFilled
    BY DEF HeldInv, IndInv
<1>1. CASE Tick \/ UNCHANGED vars
    BY <1>0, <1>1, SitsStay DEF Tick, vars, coreVars, queueVars, tcbVars
<1>2. ASSUME NEW c \in Cores, Helper(c)
      PROVE  AllSit'
    <2>1. CASE \/ HelperResume(c) \/ HelperNoRequest(c) \/ HelperIdle(c)
               \/ HelperDownTakes(c) \/ HelperDispatch(c)
        BY <1>0, <2>1, SitsStay DEF HelperResume, HelperNoRequest, HelperIdle,
           HelperDownTakes, HelperDispatch, queueVars, tcbVars
    <2>2. CASE HelperYield(c) \/ HelperSleep(c) \/ HelperDownWaits(c) \/ HelperStop(c)
        BY <1>0, <2>2, TakenSits
    <2>8. CASE HelperTakes(c)
        BY <1>0, <2>8, RequestSits
    <2>3. CASE HelperWakeup(c)
        BY <1>0, <2>3, WakeupSits
    <2>4. CASE HelperUp(c)
        <3>1. /\ cpu[c] = NoTCB /\ hpc[c] = "up"
              /\ UNCHANGED <<cpu, help_requests, ready_queue, sleep_queues,
                             reaper_data, reaping>>
            BY <2>4 DEF HelperUp, HelperAt
        <3>2. CASE UpWakes(c, ReaperSem)
            BY <1>0, <3>1, <3>2, UpSits, ConstantsAssumption DEF HandEmpty
        <3>3. CASE UpCounts(ReaperSem)
            BY <1>0, <3>1, <3>3, SitsStay DEF UpCounts
        <3> QED
            BY <2>4, <3>2, <3>3 DEF HelperUp
    <2>5. CASE HelperAdd(c)
        <3>1. /\ hand[c] # NoTCB
              /\ AddReady(c)
              /\ UNCHANGED <<cpu, help_requests, sleep_queues, waiting,
                             reaper_data, reaping>>
            BY <1>0, <2>5 DEF HelperAdd, HelperAt, HandFilled
        <3> QED
            BY <1>0, <3>1, AddSits
    <2>6. CASE HelperPick(c)
        BY <1>0, <2>6, PickSits
    <2>7. CASE HelperSwitch(c)
        BY <1>0, <2>7, SwitchSits
    <2> QED
        BY <1>2, <2>1, <2>2, <2>3, <2>4, <2>5, <2>6, <2>7, <2>8 DEF Helper
<1>3. ASSUME NEW c \in Cores, Thread(c)
      PROVE  AllSit'
    <2>0. cpu[c] # NoTCB
        BY <1>3, ThreadRuns
    <2>1. CASE CallYield(c) \/ CallSleep(c) \/ CallStop(c) \/ CallThread(c)
        BY <1>0, <2>1, ReapSits DEF CallYield, CallSleep, CallStop, CallThread
    <2>2. CASE ReapDelete(c) \/ ReaperDeletes(c)
        BY <1>0, <2>2, DeleteSits
    <2>3. CASE YieldReturns(c) \/ ReaperFindsNothing(c)
        BY <1>0, <2>3, SitsStay DEF YieldReturns, ReaperFindsNothing, coreVars,
           queueVars
    <2>4. CASE YieldBlocks(c) \/ SleepBlocks(c) \/ StopBlocks(c)
        BY <1>0, <2>4, SitsStay DEF YieldBlocks, SleepBlocks, StopBlocks, Block,
           queueVars
    <2>10. CASE SwitchToHelper(c)
        BY <1>0, <2>0, <2>10, BlockSits
    <2>5. CASE ThreadAllocates(c)
        BY <1>0, <2>5, AllocateSits
    <2>6. CASE ThreadAdds(c)
        <3>1. /\ hand[c] # NoTCB
              /\ AddReady(c)
              /\ UNCHANGED <<cpu, help_requests, sleep_queues, waiting,
                             reaper_data, reaping>>
            BY <1>0, <2>6 DEF ThreadAdds, Running, HandFilled
        <3> QED
            BY <1>0, <3>1, AddSits
    <2>7. CASE ThreadDown(c) \/ ReaperDown(c)
        <3>1. PICK s, next : DownTakes(c, s, next) \/ DownBlocks(c, s)
            BY <2>7 DEF ThreadDown, ReaperDown
        <3>2. CASE DownTakes(c, s, next)
            BY <1>0, <3>2, SitsStay DEF DownTakes, coreVars
        <3>3. CASE DownBlocks(c, s)
            BY <1>0, <3>3, SitsStay DEF DownBlocks, Block, queueVars
        <3> QED
            BY <3>1, <3>2, <3>3
    <2>8. CASE ThreadUp(c)
        <3>1. PICK s \in Sems : UpWakes(c, s) \/ UpCounts(s)
            BY <2>8 DEF ThreadUp
        <3>2. /\ pc[cpu[c]] = "run"
              /\ UNCHANGED <<cpu, help_requests, ready_queue, sleep_queues,
                             reaper_data, reaping>>
            BY <2>8 DEF ThreadUp, UserCall, Running
        <3>3. CASE UpWakes(c, s)
            BY <1>0, <2>0, <3>2, <3>3, UpSits DEF HandEmpty
        <3>4. CASE UpCounts(s)
            BY <1>0, <3>2, <3>4, SitsStay DEF UpCounts
        <3> QED
            BY <3>1, <3>3, <3>4
    <2>9. CASE ReaperRemoves(c)
        BY <1>0, <2>9, RemovesSits
    <2> QED
        BY <1>3, <2>1, <2>2, <2>3, <2>4, <2>5, <2>6, <2>7, <2>8, <2>9, <2>10 DEF Thread
<1>4. ASSUME NEW c \in Cores, Boot(c)
      PROVE  AllSit'
    BY <1>0, <1>4, BootSits
<1> QED
    BY <1>1, <1>2, <1>3, <1>4 DEF Next, Core

\* At the end of the constructors only the reaper exists, and it is ready.
LEMMA HeldInit ==
    ASSUME Init
    PROVE  HeldInv
<1>1. In(<<Reaper>>, Reaper)
    BY DEF In
<1>2. AllSit
    BY <1>1 DEF Init, AllSit, Sits
<1>3. HandEmpty /\ RequestFirst
    BY DEF Init, HandEmpty, RequestFirst
<1>4. ReapingRuns
    BY DEF Init, ReapingRuns
<1> QED
    BY <1>2, <1>3, <1>4 DEF HeldInv

\* Every TCB sits where it is said to be, always.
LEMMA AlwaysHeld == Spec => [](IndInv /\ HeldInv)
<1>1. Init => HeldInv
    BY HeldInit
<1>2. IndInv /\ HeldInv /\ [Next]_vars => HeldInv'
    BY AllSitStep, HandEmptyStep, RequestFirstStep, ReapingRunsStep DEF HeldInv
<1> QED
    BY <1>1, <1>2, Invariance, PTL DEF Spec

\* A TCB that sits in an allocated place has a holder.
LEMMA SittingIsHeld ==
    ASSUME QueueTypes, NEW t \in TCBs, Sits(t, place[t]), place[t] # Free
    PROVE  Holders(t) # {}
<1>1. ASSUME NEW q \in Seq(TCBs), In(q, t)
      PROVE  \E i \in DOMAIN q : q[i] = t
    BY <1>1, LenProperties DEF In
<1>2. CASE \E c \in Cores : cpu[c] = t \/ help_requests[c] = t \/ hand[c] = t
    <2>1. PICK c \in Cores : cpu[c] = t \/ help_requests[c] = t \/ hand[c] = t
        BY <1>2
    <2>2. CASE cpu[c] = t
        <3>1. <<"cpu", c, 0>> \in Holders(t)
            BY <2>2, Zenon DEF Holders
        <3> QED
            BY <3>1
    <2>3. CASE help_requests[c] = t
        <3>1. <<"request", c, 0>> \in Holders(t)
            BY <2>3, Zenon DEF Holders
        <3> QED
            BY <3>1
    <2>4. CASE hand[c] = t
        <3>1. <<"hand", c, 0>> \in Holders(t)
            BY <2>4, Zenon DEF Holders
        <3> QED
            BY <3>1
    <2> QED
        BY <2>1, <2>2, <2>3, <2>4
<1>3. CASE In(ready_queue, t)
    <2>1. PICK i \in DOMAIN ready_queue : ready_queue[i] = t
        BY <1>1, <1>3 DEF QueueTypes
    <2>2. <<"ready", NoTCB, i>> \in Holders(t)
        BY <2>1, Zenon DEF Holders
    <2> QED
        BY <2>2
<1>4. CASE In(reaper_data, t)
    <2>1. PICK i \in DOMAIN reaper_data : reaper_data[i] = t
        BY <1>1, <1>4 DEF QueueTypes
    <2>2. <<"reapable", NoTCB, i>> \in Holders(t)
        BY <2>1, Zenon DEF Holders
    <2> QED
        BY <2>2
<1>5. CASE \E c \in Cores : In(sleep_queues[c], t)
    <2>1. PICK c \in Cores : In(sleep_queues[c], t)
        BY <1>5
    <2>2. PICK i \in DOMAIN sleep_queues[c] : sleep_queues[c][i] = t
        BY <1>1, <2>1 DEF QueueTypes
    <2>3. <<"sleeping", c, i>> \in {<<"sleeping", c, j>> :
                j \in {j \in DOMAIN sleep_queues[c] : sleep_queues[c][j] = t}}
        BY <2>2, Zenon
    <2>4. <<"sleeping", c, i>> \in UNION {{<<"sleeping", d, j>> :
                j \in {j \in DOMAIN sleep_queues[d] : sleep_queues[d][j] = t}} : d \in Cores}
        BY <2>3, Zenon
    <2>5. <<"sleeping", c, i>> \in Holders(t)
        BY <2>4, Zenon DEF Holders
    <2> QED
        BY <2>5
<1>6. CASE \E s \in Sems : In(waiting[s], t)
    <2>1. PICK s \in Sems : In(waiting[s], t)
        BY <1>6
    <2>2. PICK i \in DOMAIN waiting[s] : waiting[s][i] = t
        BY <1>1, <2>1 DEF QueueTypes
    <2>3. <<"waiting", s, i>> \in {<<"waiting", s, j>> :
                j \in {j \in DOMAIN waiting[s] : waiting[s][j] = t}}
        BY <2>2, Zenon
    <2>4. <<"waiting", s, i>> \in UNION {{<<"waiting", d, j>> :
                j \in {j \in DOMAIN waiting[d] : waiting[d][j] = t}} : d \in Sems}
        BY <2>3, Zenon
    <2>5. <<"waiting", s, i>> \in Holders(t)
        BY <2>4, Zenon DEF Holders
    <2> QED
        BY <2>5
<1>7. CASE \E u \in TCBs : In(reaping[u], t)
    <2>1. PICK u \in TCBs : In(reaping[u], t)
        BY <1>7
    <2>2. PICK i \in DOMAIN reaping[u] : reaping[u][i] = t
        BY <1>1, <2>1 DEF QueueTypes
    <2>3. <<"doomed", u, i>> \in {<<"doomed", u, j>> :
                j \in {j \in DOMAIN reaping[u] : reaping[u][j] = t}}
        BY <2>2, Zenon
    <2>4. <<"doomed", u, i>> \in UNION {{<<"doomed", d, j>> :
                j \in {j \in DOMAIN reaping[d] : reaping[d][j] = t}} : d \in TCBs}
        BY <2>3, Zenon
    <2>5. <<"doomed", u, i>> \in Holders(t)
        BY <2>4, Zenon DEF Holders
    <2> QED
        BY <2>5
<1> QED
    BY <1>2, <1>3, <1>4, <1>5, <1>6, <1>7 DEF Sits

\* No thread is lost between two queues, and a deleted one is referred to by
\* nobody: a TCB is allocated exactly when a core, a request, a local variable
\* or a queue holds it.  So the helper of block(), reaper_queue->add and
\* Semaphore::up have stopped looking at a TCB before somebody deletes it.
THEOREM NobodyLost == Spec => []NoThreadLost
<1>1. ASSUME IndInv, HeldInv
      PROVE  NoThreadLost
    <2>1. ASSUME NEW t \in TCBs, place[t] # Free
          PROVE  Holders(t) # {}
        BY <1>1, <2>1, SittingIsHeld DEF HeldInv, AllSit, IndInv, TypeOK
    <2>2. ASSUME NEW t \in TCBs, NEW h \in Holders(t)
          PROVE  place[t] # Free
        <3>1. HeldAt(h, t)
            BY <1>1, <2>2, HolderPlace
        <3>2. /\ Free # Ready /\ Free # Reapable
              /\ \A x : /\ Free # OnCpu(x) /\ Free # Requesting(x)
                        /\ Free # InHand(x) /\ Free # Sleeping(x)
                        /\ Free # WaitingOn(x) /\ Free # Doomed(x)
            BY DEF Free, Ready, Reapable, OnCpu, Requesting, InHand, Sleeping,
               WaitingOn, Doomed
        <3> QED
            BY <3>1, <3>2, Zenon DEF HeldAt
    <2>3. ASSUME NEW t \in TCBs
          PROVE  (place[t] # Free) <=> (Holders(t) # {})
        <3>1. CASE Holders(t) = {}
            BY <2>1, <3>1
        <3>2. CASE Holders(t) # {}
            <4>1. PICK h : h \in Holders(t)
                BY <3>2
            <4> QED
                BY <2>2, <4>1
        <3> QED
            BY <3>1, <3>2
    <2> QED
        BY <2>3 DEF NoThreadLost
<1> QED
    BY <1>1, AlwaysHeld, PTL

-----------------------------------------------------------------------------
(* Proofs: the tokens of the reaper *)

\* A helper that carries out the request of t goes on with it.
DoitKept(t) ==
    \A d \in Cores : hand[d] = t /\ hpc[d] = "doit" => hand'[d] = t /\ hpc'[d] = "doit"

\* No thread interrupts a helper,
LEMMA ThreadKeeps ==
    ASSUME IndInv, NEW c \in Cores, Thread(c), NEW t
    PROVE  DoitKept(t)
BY ThreadFrame DEF DoitKept

\* and no helper another one.
LEMMA HelperKeeps ==
    ASSUME IndInv, NEW c \in Cores, Helper(c), NEW t, hand[c] # t \/ hpc[c] # "doit"
    PROVE  DoitKept(t)
BY HelperFrame DEF DoitKept

\* A thread a step does not touch.
LEMMA AloneSame ==
    ASSUME NEW t, Alone(t), pc'[t] = pc[t], call'[t] = call[t],
           place'[t] = place[t], DoitKept(t)
    PROVE  Alone(t)'
<1>1. Pending(t) => Pending(t)'
    BY DEF Pending, DoitKept
<1> QED
    BY <1>1 DEF Alone

\* A thread that is moved, but not from a request nor to a semaphore.
LEMMA AloneMoved ==
    ASSUME NEW t, Alone(t), pc'[t] = pc[t], call'[t] = call[t], DoitKept(t),
           \A d \in Cores : place[t] # Requesting(d),
           \A s \in Sems : place'[t] # WaitingOn(s)
    PROVE  Alone(t)'
<1>1. Pending(t) => Pending(t)'
    BY DEF Pending, DoitKept
<1> QED
    BY <1>1, ConstantsAssumption DEF Alone

\* A thread that a core executes on after the step.
LEMMA AloneRuns ==
    ASSUME NEW t, NEW c \in Cores, place'[t] = OnCpu(c), call'[t].op # "down",
           t # Reaper => pc'[t] \notin {"down", "remove", "delete"}
    PROVE  Alone(t)'
<1>1. \A s : OnCpu(c) # WaitingOn(s)
    BY DEF OnCpu, WaitingOn
<1> QED
    BY <1>1 DEF Alone

\* The reaper on a core has called down() only when it is about to switch.
LEMMA RunnerNotDown ==
    ASSUME IndInv, ReaperAlone, NEW c \in Cores, cpu[c] = Reaper,
           pc[Reaper] # "switch"
    PROVE  call[Reaper].op # "down"
<1>1. place[Reaper] = OnCpu(c)
    BY ConstantsAssumption DEF IndInv, CorePlaces
<1>2. \A d : OnCpu(c) # Requesting(d) /\ OnCpu(c) # InHand(d)
    BY DEF OnCpu, Requesting, InHand
<1>3. ~Pending(Reaper)
    BY <1>1, <1>2, ConstantsAssumption DEF Pending, IndInv, CorePlaces
<1> QED
    BY <1>3, ConstantsAssumption DEF ReaperAlone, Alone

\* The steps that move one thread between queues, hands and cores.
LEMMA AloneHelper ==
    ASSUME IndInv, ReaperAlone, \A u : DoitKept(u),
           UNCHANGED <<pc, call>>, NEW t, NEW p,
           place' = [place EXCEPT ![t] = p],
           \A d \in Cores : place[t] # Requesting(d),
           \A s \in Sems : p # WaitingOn(s)
    PROVE  ReaperAlone'
<1>0. place \in [TCBs -> Places]
    BY DEF IndInv, TypeOK, TCBTypes
<1>1. ASSUME NEW u \in TCBs
      PROVE  Alone(u)'
    <2>0. Alone(u) /\ DoitKept(u)
        BY DEF ReaperAlone
    <2>1. CASE u = t
        <3>1. place'[u] = p
            BY <1>0, <2>1
        <3> QED
            BY <2>0, <2>1, <3>1, AloneMoved
    <2>2. CASE u # t
        <3>1. place'[u] = place[u]
            BY <1>0, <2>2
        <3> QED
            BY <2>0, <3>1, AloneSame
    <2> QED
        BY <2>1, <2>2
<1> QED
    BY <1>1 DEF ReaperAlone

\* The helper whose hand holds t takes it from the slot of its core.
LEMMA AloneRequest ==
    ASSUME IndInv, ReaperAlone, NEW c \in Cores, HelperTakes(c)
    PROVE  ReaperAlone'
<1>0. TCBTypes /\ CoreTypes
    BY DEF IndInv, TypeOK
<1>1. PICK t \in TCBs : t = help_requests[c]
    BY <1>0 DEF HelperTakes, CoreTypes
<1>2. /\ UNCHANGED <<pc, call>>
      /\ place' = [place EXCEPT ![t] = InHand(c)]
      /\ hand'[c] = t /\ hpc'[c] = "doit" /\ hpc[c] = "wakeup"
    BY <1>0, <1>1 DEF HelperTakes, HelperAt, CoreTypes
<1>3. \A u : DoitKept(u)
    BY <1>2, HelperKeeps DEF Helper
<1>4. ASSUME NEW u \in TCBs
      PROVE  Alone(u)'
    <2>0. Alone(u) /\ DoitKept(u)
        BY <1>3 DEF ReaperAlone
    <2>1. CASE u = t
        <3>1. \A s : InHand(c) # WaitingOn(s)
            BY DEF InHand, WaitingOn
        <3>2. place'[u] = InHand(c) /\ Pending(u)'
            BY <1>0, <1>2, <2>1 DEF Pending, TCBTypes
        <3> QED
            BY <1>2, <2>0, <3>1, <3>2 DEF Alone
    <2>2. CASE u # t
        <3>1. place'[u] = place[u]
            BY <1>0, <1>2, <2>2 DEF TCBTypes
        <3> QED
            BY <1>2, <2>0, <3>1, AloneSame
    <2> QED
        BY <2>1, <2>2
<1> QED
    BY <1>4 DEF ReaperAlone

\* The helper carries out the request of t, and only one to down() makes t
\* wait.
LEMMA AloneTaken ==
    ASSUME IndInv, SwitchRuns, ReaperAlone, NEW c \in Cores, Helper(c),
           NEW op, NEW where, DoIt(c, op, where), NEW p, pc' = pc,
           \/ place' = [place EXCEPT ![hand[c]] = p]
           \/ place' = place /\ p = InHand(c),
           \A s \in Sems : p # WaitingOn(s) \/ op = "down",
           \A s \in Sems : p = WaitingOn(s) => s = call[hand[c]].sem
    PROVE  ReaperAlone'
<1>0. TCBTypes /\ CoreTypes /\ CorePlaces /\ HandFilled
    BY DEF IndInv, TypeOK
<1>1. PICK t \in TCBs : t = hand[c]
    BY <1>0 DEF DoIt, HelperAt, HandFilled, CoreTypes
<1>2. /\ call' = [call EXCEPT ![t] = NoCall]
      /\ place[t] = InHand(c)
      /\ call[t].op = op
      /\ \A s \in Sems : p = WaitingOn(s) => op = "down" /\ s = call[t].sem
    BY <1>0, <1>1, ConstantsAssumption DEF DoIt, CorePlaces
<1>3. place'[t] = p /\ \A u \in TCBs : u # t => place'[u] = place[u]
    BY <1>0, <1>1, <1>2 DEF TCBTypes
<1>4. pc[t] # "switch"
    BY <1>0, <1>2, ConstantsAssumption DEF SwitchRuns, CorePlaces, OnCpu, InHand
<1>5. ASSUME NEW u \in TCBs
      PROVE  Alone(u)'
    <2>0. Alone(u)
        BY DEF ReaperAlone
    <2>1. CASE u = t
        <3>1. call'[u].op = "none" /\ place'[u] = p /\ pc'[u] = pc[u]
            BY <1>0, <1>2, <1>3, <2>1 DEF TCBTypes, NoCall
        <3> QED
            BY <1>2, <1>4, <2>0, <2>1, <3>1, ConstantsAssumption DEF Alone
    <2>2. CASE u # t
        <3>1. place'[u] = place[u] /\ call'[u] = call[u] /\ DoitKept(u)
            BY <1>0, <1>1, <1>2, <1>3, <2>2, HelperKeeps DEF TCBTypes
        <3> QED
            BY <2>0, <3>1, AloneSame
    <2> QED
        BY <2>1, <2>2
<1> QED
    BY <1>5 DEF ReaperAlone

\* A step of the thread on core c that gives nobody else a new place.
LEMMA AloneThread ==
    ASSUME IndInv, ReaperAlone, NEW c \in Cores, NEW r \in TCBs, cpu[c] = r,
           \A u : DoitKept(u), pc[r] # "switch", place' = place,
           NEW w, pc' = [pc EXCEPT ![r] = w],
           r # Reaper => w \notin {"down", "remove", "delete"},
           \/ call' = call
           \/ \E x : x.op # "down" /\ call' = [call EXCEPT ![r] = x]
    PROVE  ReaperAlone'
<1>0. TCBTypes /\ CorePlaces
    BY DEF IndInv, TypeOK
<1>1. place[r] = OnCpu(c) /\ place'[r] = OnCpu(c) /\ pc'[r] = w
    BY <1>0, ConstantsAssumption DEF CorePlaces, TCBTypes
<1>2. ASSUME NEW u \in TCBs
      PROVE  Alone(u)'
    <2>0. Alone(u) /\ DoitKept(u)
        BY DEF ReaperAlone
    <2>1. CASE u # r
        <3>1. pc'[u] = pc[u] /\ call'[u] = call[u] /\ place'[u] = place[u]
            BY <1>0, <2>1 DEF TCBTypes
        <3> QED
            BY <2>0, <3>1, AloneSame
    <2>2. CASE u = r /\ call'[r].op # "down"
        BY <1>1, <2>2, AloneRuns
    <2>3. CASE u = r /\ call'[r].op = "down"
        <3>1. call'[r] = call[r]
            BY <1>0, <2>3 DEF TCBTypes
        <3>2. r # Reaper
            BY <2>3, <3>1, RunnerNotDown
        <3> QED
            BY <1>1, <2>0, <2>3, <3>1, <3>2 DEF Alone, OnCpu, WaitingOn
    <2> QED
        BY <2>1, <2>2, <2>3
<1> QED
    BY <1>2 DEF ReaperAlone

\* block(): the reaper blocks only on its own semaphore, and nobody else does.
LEMMA AloneBlock ==
    ASSUME IndInv, ReaperAlone, NEW c \in Cores, NEW r \in TCBs, cpu[c] = r,
           \A u : DoitKept(u), NEW request, Block(c, request),
           r # Reaper => (request.op = "down" => request.sem # ReaperSem)
    PROVE  ReaperAlone'
<1>0. TCBTypes /\ CorePlaces
    BY DEF IndInv, TypeOK
<1>1. /\ call' = [call EXCEPT ![r] = request]
      /\ pc' = [pc EXCEPT ![r] = "switch"]
      /\ place' = place /\ place[r] = OnCpu(c)
    BY <1>0, ConstantsAssumption DEF Block, CorePlaces
<1>2. ASSUME NEW u \in TCBs
      PROVE  Alone(u)'
    <2>0. Alone(u) /\ DoitKept(u)
        BY DEF ReaperAlone
    <2>1. CASE u # r
        <3>1. pc'[u] = pc[u] /\ call'[u] = call[u] /\ place'[u] = place[u]
            BY <1>0, <1>1, <2>1 DEF TCBTypes
        <3> QED
            BY <2>0, <3>1, AloneSame
    <2>2. CASE u = r
        <3>1. pc'[u] = "switch" /\ call'[u] = request /\ place'[u] = OnCpu(c)
            BY <1>0, <1>1, <2>2 DEF TCBTypes
        <3>2. \A s : OnCpu(c) # WaitingOn(s)
            BY DEF OnCpu, WaitingOn
        <3> QED
            BY <2>2, <3>1, <3>2 DEF Alone
    <2> QED
        BY <2>1, <2>2
<1> QED
    BY <1>2 DEF ReaperAlone

\* The end of block(): the reaper goes on in remove(), and nobody else does.
LEMMA AloneSwitch ==
    ASSUME IndInv, ReaperAlone, NEW c \in Cores, NEW r \in TCBs, cpu[c] = r,
           \A u : DoitKept(u), SwitchToHelper(c)
    PROVE  ReaperAlone'
<1>0. TCBTypes /\ ReaperRuns
    BY DEF IndInv, TypeOK
<1>1. /\ call' = call
      /\ pc' = [pc EXCEPT ![r] = BehindBlock(r)]
      /\ place' = [place EXCEPT ![r] = Requesting(c)]
    BY DEF SwitchToHelper
<1>2. IF r = Reaper THEN BehindBlock(r) = "remove"
                    ELSE BehindBlock(r) \in {"run", "stopped"}
    BY <1>0 DEF BehindBlock, ReaperRuns
<1>3. ASSUME NEW u \in TCBs
      PROVE  Alone(u)'
    <2>0. Alone(u) /\ DoitKept(u)
        BY DEF ReaperAlone
    <2>1. CASE u # r
        <3>1. pc'[u] = pc[u] /\ call'[u] = call[u] /\ place'[u] = place[u]
            BY <1>0, <1>1, <2>1 DEF TCBTypes
        <3> QED
            BY <2>0, <3>1, AloneSame
    <2>2. CASE u = r
        <3>1. pc'[u] = BehindBlock(u) /\ call'[u] = call[u] /\ place'[u] = Requesting(c)
            BY <1>0, <1>1, <2>2 DEF TCBTypes
        <3>2. \A s : Requesting(c) # WaitingOn(s)
            BY DEF Requesting, WaitingOn
        <3>3. Pending(u)'
            BY <3>1 DEF Pending
        <3> QED
            BY <1>2, <2>0, <2>2, <3>1, <3>2, <3>3 DEF Alone
    <2> QED
        BY <2>1, <2>2
<1> QED
    BY <1>3 DEF ReaperAlone

\* A step of the thread on core c that also moves t.
LEMMA AloneThreadMoves ==
    ASSUME IndInv, ReaperAlone, NEW c \in Cores, NEW r \in TCBs, cpu[c] = r,
           \A u : DoitKept(u), pc[r] # "switch",
           call' = call, NEW w, pc' = [pc EXCEPT ![r] = w],
           r # Reaper => w \notin {"down", "remove", "delete"},
           NEW t, t # r, NEW p, place' = [place EXCEPT ![t] = p],
           \A d \in Cores : place[t] # Requesting(d),
           \A s \in Sems : p # WaitingOn(s)
    PROVE  ReaperAlone'
<1>0. TCBTypes /\ CorePlaces
    BY DEF IndInv, TypeOK
<1>1. place[r] = OnCpu(c) /\ place'[r] = OnCpu(c) /\ pc'[r] = w
    BY <1>0, ConstantsAssumption DEF CorePlaces, TCBTypes
<1>2. ASSUME NEW u \in TCBs
      PROVE  Alone(u)'
    <2>0. Alone(u) /\ DoitKept(u)
        BY DEF ReaperAlone
    <2>1. CASE u = t
        <3>1. pc'[u] = pc[u] /\ place'[u] = p
            BY <1>0, <2>1 DEF TCBTypes
        <3> QED
            BY <2>0, <2>1, <3>1, AloneMoved
    <2>2. CASE u = r /\ call[r].op # "down"
        BY <1>1, <2>2, AloneRuns
    <2>3. CASE u = r /\ call[r].op = "down"
        <3>1. r # Reaper
            BY <2>3, RunnerNotDown
        <3> QED
            BY <1>1, <2>0, <2>3, <3>1 DEF Alone, OnCpu, WaitingOn
    <2>4. CASE u # r /\ u # t
        <3>1. pc'[u] = pc[u] /\ place'[u] = place[u]
            BY <1>0, <2>4 DEF TCBTypes
        <3> QED
            BY <2>0, <3>1, AloneSame
    <2> QED
        BY <2>1, <2>2, <2>3, <2>4
<1> QED
    BY <1>2 DEF ReaperAlone

\* No queue but its own holds a thread that has a request pending.
LEMMA NotRequesting ==
    ASSUME IndInv
    PROVE  /\ \A c, d : /\ Requesting(d) # OnCpu(c) /\ Requesting(d) # InHand(c)
                        /\ Requesting(d) # Sleeping(c)
                        /\ Requesting(d) # WaitingOn(c)
                        /\ Requesting(d) # Doomed(c)
           /\ \A d : /\ Requesting(d) # Ready /\ Requesting(d) # Reapable
                     /\ Requesting(d) # Free
           /\ \A c, s : /\ WaitingOn(s) # OnCpu(c) /\ WaitingOn(s) # InHand(c)
                        /\ WaitingOn(s) # Sleeping(c)
                        /\ WaitingOn(s) # Doomed(c)
           /\ \A s : /\ WaitingOn(s) # Ready /\ WaitingOn(s) # Reapable
                     /\ WaitingOn(s) # Free
BY DEF Free, Ready, Reapable, OnCpu, Requesting, InHand, Sleeping, WaitingOn,
       Doomed

\* The head of a queue is where the queue is.
LEMMA HeadPlace ==
    ASSUME NEW q \in Seq(TCBs), q # <<>>, NEW p, Holds(q, place, p)
    PROVE  Head(q) \in TCBs /\ place[Head(q)] = p
<1>1. 1 \in 1..Len(q) /\ Head(q) = q[1] /\ Head(q) \in TCBs
    OBVIOUS
<1> QED
    BY <1>1 DEF Holds

\* Every step of the helper keeps the reaper alone with its semaphore.
LEMMA ReaperAloneHelper ==
    ASSUME IndInv, SwitchRuns, ReaperAlone, NEW c \in Cores, Helper(c)
    PROVE  ReaperAlone'
<1>0. CoreTypes /\ QueueTypes /\ QueuePlaces /\ CorePlaces /\ HandFilled
    BY DEF IndInv, TypeOK
<1>1. ASSUME hpc[c] # "doit"
      PROVE  \A u : DoitKept(u)
    BY <1>1, HelperKeeps
<1>2. CASE HelperResume(c) \/ HelperNoRequest(c) \/ HelperIdle(c) \/ HelperDispatch(c)
    <2>1. UNCHANGED <<pc, call, place>> /\ hpc[c] # "doit"
        BY <1>2 DEF HelperResume, HelperNoRequest, HelperIdle, HelperDispatch, HelperAt,
           tcbVars
    <2> QED
        BY <1>1, <2>1, AloneSame DEF ReaperAlone
<1>3. CASE HelperWakeup(c)
    <2>1. place[Head(sleep_queues[c])] = Sleeping(c) /\ hpc[c] # "doit"
        BY <1>0, <1>3, HeadPlace DEF HelperWakeup, HelperAt, SomeoneDue, Due,
           QueueTypes, QueuePlaces
    <2> QED
        BY <1>1, <1>3, <2>1, AloneHelper, NotRequesting DEF HelperWakeup
<1>4. CASE HelperTakes(c)
    BY <1>4, AloneRequest
<1>5. CASE HelperYield(c)
    <2>1. /\ DoIt(c, "yield", "pick")
          /\ place' = [place EXCEPT ![hand[c]] = Ready]
          /\ pc' = pc
        BY <1>5 DEF HelperYield
    <2>2. \A s \in Sems : Ready # WaitingOn(s)
        BY NotRequesting
    <2> QED
        BY <2>1, <2>2, AloneTaken
<1>6. CASE HelperSleep(c)
    <2>1. /\ DoIt(c, "sleep", "pick")
          /\ place' = [place EXCEPT ![hand[c]] = Sleeping(c)]
          /\ pc' = pc
        BY <1>6 DEF HelperSleep
    <2>2. \A s \in Sems : Sleeping(c) # WaitingOn(s)
        BY NotRequesting
    <2> QED
        BY <2>1, <2>2, AloneTaken
<1>7. CASE HelperDownTakes(c)
    <2>1. DoIt(c, "down", "add") /\ place' = place /\ pc' = pc
        BY <1>7 DEF HelperDownTakes
    <2>2. \A s \in Sems : InHand(c) # WaitingOn(s)
        BY NotRequesting
    <2> QED
        BY <2>1, <2>2, AloneTaken
<1>8. CASE HelperDownWaits(c)
    <2>1. PICK s : s = call[hand[c]].sem
        OBVIOUS
    <2>2. PICK op, p : op = "down" /\ p = WaitingOn(s)
        OBVIOUS
    <2>3. /\ DoIt(c, op, "pick")
          /\ place' = [place EXCEPT ![hand[c]] = p]
          /\ pc' = pc
        BY <1>8, <2>1, <2>2 DEF HelperDownWaits, Waits
    <2>4. /\ \A r \in Sems : p # WaitingOn(r) \/ op = "down"
          /\ \A r \in Sems : p = WaitingOn(r) => r = call[hand[c]].sem
        BY <2>1, <2>2 DEF WaitingOn
    <2> QED
        BY <2>3, <2>4, AloneTaken
<1>9. CASE HelperStop(c)
    <2>1. /\ DoIt(c, "stop", "up")
          /\ place' = [place EXCEPT ![hand[c]] = Reapable]
          /\ pc' = pc
        BY <1>9 DEF HelperStop
    <2>2. \A s \in Sems : Reapable # WaitingOn(s)
        BY NotRequesting
    <2> QED
        BY <2>1, <2>2, AloneTaken
<1>10. CASE HelperUp(c)
    <2>0. hpc[c] # "doit" /\ UNCHANGED <<pc, call>>
        BY <1>10 DEF HelperUp, HelperAt
    <2>1. CASE UpWakes(c, ReaperSem)
        <3>1. place[Head(waiting[ReaperSem])] = WaitingOn(ReaperSem)
            BY <1>0, <2>1, HeadPlace, ConstantsAssumption DEF UpWakes, QueueTypes,
               QueuePlaces
        <3>2. place' = [place EXCEPT ![Head(waiting[ReaperSem])] = InHand(c)]
            BY <2>1 DEF UpWakes
        <3>3. /\ \A d \in Cores : place[Head(waiting[ReaperSem])] # Requesting(d)
              /\ \A s \in Sems : InHand(c) # WaitingOn(s)
            BY <3>1, NotRequesting
        <3> QED
            BY <1>1, <2>0, <3>2, <3>3, AloneHelper
    <2>2. CASE UpCounts(ReaperSem)
        BY <1>1, <2>0, <2>2, AloneSame DEF UpCounts, ReaperAlone
    <2> QED
        BY <1>10, <2>1, <2>2 DEF HelperUp
<1>11. CASE HelperAdd(c) \/ HelperSwitch(c)
    <2>1. place[hand[c]] = InHand(c) /\ hpc[c] # "doit"
        BY <1>0, <1>11 DEF HelperAdd, HelperSwitch, HelperAt, HandFilled, CorePlaces
    <2>2. CASE HelperAdd(c)
        BY <1>1, <2>1, <2>2, AloneHelper, NotRequesting DEF HelperAdd, AddReady
    <2>3. CASE HelperSwitch(c)
        <3>1. /\ \A d \in Cores : place[hand[c]] # Requesting(d)
              /\ \A s \in Sems : OnCpu(c) # WaitingOn(s)
            BY <2>1, NotRequesting
        <3> QED
            BY <1>1, <2>1, <2>3, <3>1, AloneHelper DEF HelperSwitch
    <2> QED
        BY <1>11, <2>2, <2>3
<1>12. CASE HelperPick(c)
    <2>1. place[Head(ready_queue)] = Ready /\ hpc[c] # "doit"
        BY <1>0, <1>12, HeadPlace DEF HelperPick, HelperAt, QueueTypes, QueuePlaces
    <2>2. /\ \A d \in Cores : place[Head(ready_queue)] # Requesting(d)
          /\ \A s \in Sems : InHand(c) # WaitingOn(s)
        BY <2>1, NotRequesting
    <2> QED
        BY <1>1, <1>12, <2>1, <2>2, AloneHelper DEF HelperPick
<1> QED
    BY <1>2, <1>3, <1>4, <1>5, <1>6, <1>7, <1>8, <1>9, <1>10, <1>11, <1>12 DEF Helper

\* Every step of a thread keeps the reaper alone with its semaphore.
LEMMA ReaperAloneThread ==
    ASSUME IndInv, ReaperAlone, ReapingRuns, NEW c \in Cores, Thread(c)
    PROVE  ReaperAlone'
<1>0. TCBTypes /\ QueueTypes /\ QueuePlaces /\ CorePlaces /\ HandFilled
      /\ DoomedFilled /\ ReaperRuns
    BY DEF IndInv, TypeOK
<1>1. PICK r : r = cpu[c]
    OBVIOUS
<1>2. r \in TCBs /\ place[r] = OnCpu(c) /\ cpu[c] = r
    BY <1>1, ThreadRuns, RunnerFacts
<1>3. /\ r # Reaper => pc[r] \notin {"down", "remove", "delete"}
      /\ r = Reaper => pc[r] \in {"down", "switch", "remove", "delete"}
    BY <1>0, <1>2 DEF ReaperAlone, Alone, ReaperRuns
<1>4. \A x : OnCpu(c) # WaitingOn(x)
    BY DEF OnCpu, WaitingOn
<1>d. \A u : DoitKept(u)
    BY ThreadKeeps
<1>5. CASE CallYield(c) \/ CallSleep(c) \/ CallStop(c) \/ CallThread(c)
    <2>1. PICK op \in {"yield", "sleep", "stop", "thread"}, sec \in Seconds \union {0} :
            /\ call' = [call EXCEPT ![r] = Call(op, ReaperSem, sec)]
            /\ pc' = [pc EXCEPT ![r] = "reaping"]
            /\ place' = [u \in TCBs |->
                            IF place[u] = Reapable THEN Doomed(r) ELSE place[u]]
            /\ pc[r] = "run"
        BY <1>1, <1>5 DEF CallYield, CallSleep, CallStop, CallThread, Reap, Running
    <2>2. ASSUME NEW u \in TCBs
          PROVE  Alone(u)'
        <3>0. Alone(u) /\ DoitKept(u) /\ r # Reaper
            BY <1>3, <1>d, <2>1 DEF ReaperAlone
        <3>1. CASE u = r
            <4>1. /\ place'[u] = OnCpu(c)
                  /\ call'[u].op # "down"
                  /\ pc'[u] = "reaping"
                BY <1>0, <1>2, <2>1, <3>1 DEF TCBTypes, Call, OnCpu, Reapable
            <4> QED
                BY <4>1, AloneRuns
        <3>2. CASE u # r /\ place[u] # Reapable
            <4>1. place'[u] = place[u] /\ call'[u] = call[u] /\ pc'[u] = pc[u]
                BY <1>0, <2>1, <3>2 DEF TCBTypes
            <4> QED
                BY <3>0, <4>1, AloneSame
        <3>3. CASE u # r /\ place[u] = Reapable
            <4>1. place'[u] = Doomed(r) /\ call'[u] = call[u] /\ pc'[u] = pc[u]
                BY <1>0, <2>1, <3>3 DEF TCBTypes
            <4>2. /\ \A d \in Cores : place[u] # Requesting(d)
                  /\ \A s \in Sems : place'[u] # WaitingOn(s)
                BY <3>3, <4>1, NotRequesting
            <4> QED
                BY <3>0, <4>1, <4>2, AloneMoved
        <3> QED
            BY <3>1, <3>2, <3>3
    <2> QED
        BY <2>2 DEF ReaperAlone
<1>6. CASE ReapDelete(c)
    <2>1. /\ place[Head(reaping[r])] = Doomed(r)
          /\ place' = [place EXCEPT ![Head(reaping[r])] = Free]
          /\ UNCHANGED <<pc, call>>
        BY <1>0, <1>1, <1>2, <1>6, HeadPlace DEF ReapDelete, QueueTypes, QueuePlaces
    <2>2. /\ \A d \in Cores : place[Head(reaping[r])] # Requesting(d)
          /\ \A s \in Sems : Free # WaitingOn(s)
        BY <2>1, NotRequesting
    <2> QED
        BY <1>d, <2>1, <2>2, AloneHelper
<1>7. CASE YieldReturns(c)
    <2>1. /\ place' = place /\ pc' = [pc EXCEPT ![r] = "run"] /\ pc[r] # "switch"
          /\ call' = [call EXCEPT ![r] = NoCall] /\ NoCall.op # "down"
        BY <1>1, <1>7 DEF YieldReturns, Reaped, Running, NoCall
    <2>2. \E x : x.op # "down" /\ call' = [call EXCEPT ![r] = x]
        BY <2>1
    <2>3. r # Reaper => "run" \notin {"down", "remove", "delete"}
        OBVIOUS
    <2> QED
        BY <1>2, <1>d, <2>1, <2>2, <2>3, AloneThread
<1>8. CASE YieldBlocks(c) \/ SleepBlocks(c) \/ StopBlocks(c)
    <2>1. Block(c, call[r])
        BY <1>1, <1>8 DEF YieldBlocks, SleepBlocks, StopBlocks
    <2>2. r # Reaper /\ call[r].op # "down"
        BY <1>1, <1>3, <1>8 DEF YieldBlocks, SleepBlocks, StopBlocks, Reaped, Running
    <2> QED
        BY <1>2, <1>d, <2>1, <2>2, AloneBlock
<1>17. CASE SwitchToHelper(c)
    BY <1>2, <1>d, <1>17, AloneSwitch
<1>9. CASE ThreadAllocates(c)
    <2>1. PICK u \in TCBs :
            /\ place[u] = Free
            /\ place' = [place EXCEPT ![u] = InHand(c)]
            /\ pc' = [pc EXCEPT ![u] = "run", ![r] = "add"]
            /\ call' = [call EXCEPT ![r] = NoCall]
        BY <1>1, <1>9 DEF ThreadAllocates, Unallocated
    <2>2. r # Reaper /\ u # Reaper /\ u # r
        <3>1. pc[r] = "reaping"
            BY <1>1, <1>9 DEF ThreadAllocates, Reaped, Running
        <3>2. u # Reaper
            BY <1>0, <2>1 DEF ReaperRuns
        <3>3. u # r
            BY <1>2, <2>1 DEF Free, OnCpu
        <3> QED
            BY <1>3, <3>1, <3>2, <3>3
    <2>3. ASSUME NEW t \in TCBs
          PROVE  Alone(t)'
        <3>0. Alone(t) /\ DoitKept(t)
            BY <1>d DEF ReaperAlone
        <3>1. CASE t = r
            <4>1. place'[t] = OnCpu(c) /\ call'[t].op # "down" /\ pc'[t] = "add"
                BY <1>0, <1>2, <2>1, <2>2, <3>1 DEF TCBTypes, NoCall
            <4> QED
                BY <4>1, AloneRuns
        <3>2. CASE t = u
            <4>1. place'[t] = InHand(c) /\ call'[t] = call[t] /\ pc'[t] = "run"
                BY <1>0, <2>1, <2>2, <3>2 DEF TCBTypes
            <4>2. InHand(c) # WaitingOn(ReaperSem)
                BY NotRequesting
            <4> QED
                BY <2>2, <3>0, <3>2, <4>1, <4>2 DEF Alone
        <3>3. CASE t # u /\ t # r
            <4>1. place'[t] = place[t] /\ call'[t] = call[t] /\ pc'[t] = pc[t]
                BY <1>0, <2>1, <3>3 DEF TCBTypes
            <4> QED
                BY <3>0, <4>1, AloneSame
        <3> QED
            BY <3>1, <3>2, <3>3
    <2> QED
        BY <2>3 DEF ReaperAlone
<1>10. CASE ThreadAdds(c)
    <2>1. /\ hand[c] # NoTCB /\ place[hand[c]] = InHand(c)
          /\ pc[r] = "add"
        BY <1>0, <1>1, <1>10 DEF ThreadAdds, Running, HandFilled, CorePlaces
    <2>2. /\ place' = [place EXCEPT ![hand[c]] = Ready]
          /\ pc' = [pc EXCEPT ![r] = "run"]
          /\ call' = call
        BY <1>1, <1>10 DEF ThreadAdds, AddReady
    <2>3. hand[c] # r
        BY <1>2, <2>1 DEF InHand, OnCpu
    <2>4. /\ \A d \in Cores : place[hand[c]] # Requesting(d)
          /\ \A s \in Sems : Ready # WaitingOn(s)
        BY <2>1, NotRequesting
    <2>5. r # Reaper => "run" \notin {"down", "remove", "delete"}
        OBVIOUS
    <2> QED
        BY <1>2, <1>d, <2>1, <2>2, <2>3, <2>4, <2>5, AloneThreadMoves
<1>11. CASE ThreadDown(c)
    <2>1. PICK s \in Sems \ {ReaperSem} :
            DownTakes(c, s, "run") \/ DownBlocks(c, s)
        BY <1>11 DEF ThreadDown
    <2>2. r # Reaper /\ pc[r] = "run"
        BY <1>1, <1>11 DEF ThreadDown, UserCall, Running
    <2>3. r # Reaper => "run" \notin {"down", "remove", "delete"}
        OBVIOUS
    <2>4. CASE DownTakes(c, s, "run")
        <3>1. place' = place /\ pc' = [pc EXCEPT ![r] = "run"] /\ call' = call
            BY <1>1, <2>4 DEF DownTakes
        <3> QED
            BY <1>2, <1>d, <2>2, <2>3, <3>1, AloneThread
    <2>5. CASE DownBlocks(c, s)
        <3>1. Block(c, Call("down", s, 0))
            BY <2>5 DEF DownBlocks
        <3>2. Call("down", s, 0).sem # ReaperSem
            BY <2>1 DEF Call
        <3> QED
            BY <1>2, <1>d, <2>2, <3>1, <3>2, AloneBlock
    <2> QED
        BY <2>1, <2>4, <2>5
<1>12. CASE ReaperDown(c)
    <2>1. r = Reaper /\ pc[r] = "down"
        BY <1>1, <1>3, <1>12 DEF ReaperDown, Running
    <2>2. CASE DownTakes(c, ReaperSem, "remove")
        <3>1. place' = place /\ pc' = [pc EXCEPT ![r] = "remove"] /\ call' = call
            BY <1>1, <2>2 DEF DownTakes
        <3> QED
            BY <1>2, <1>d, <2>1, <3>1, AloneThread
    <2>3. CASE DownBlocks(c, ReaperSem)
        <3>1. Block(c, Call("down", ReaperSem, 0))
            BY <2>3 DEF DownBlocks
        <3> QED
            BY <1>2, <1>d, <2>1, <3>1, AloneBlock
    <2> QED
        BY <1>12, <2>2, <2>3 DEF ReaperDown
<1>13. CASE ThreadUp(c)
    <2>1. PICK s \in Sems :
            \/ UpWakes(c, s) /\ pc' = [pc EXCEPT ![r] = "add"]
            \/ UpCounts(s) /\ pc' = pc
        BY <1>1, <1>13 DEF ThreadUp
    <2>2. call' = call /\ pc[r] = "run"
        BY <1>1, <1>13 DEF ThreadUp, UserCall, Running
    <2>3. CASE UpWakes(c, s) /\ pc' = [pc EXCEPT ![r] = "add"]
        <3>1. /\ place[Head(waiting[s])] = WaitingOn(s)
              /\ place' = [place EXCEPT ![Head(waiting[s])] = InHand(c)]
            BY <1>0, <2>3, HeadPlace DEF UpWakes, QueueTypes, QueuePlaces
        <3>2. Head(waiting[s]) # r
            BY <1>2, <1>4, <3>1
        <3>3. /\ \A d \in Cores : place[Head(waiting[s])] # Requesting(d)
              /\ \A x \in Sems : InHand(c) # WaitingOn(x)
            BY <3>1, NotRequesting
        <3>4. r # Reaper => "add" \notin {"down", "remove", "delete"}
            OBVIOUS
        <3> QED
            BY <1>2, <1>d, <2>2, <2>3, <3>1, <3>2, <3>3, <3>4, AloneThreadMoves
    <2>4. CASE UpCounts(s) /\ pc' = pc
        BY <1>d, <2>2, <2>4, AloneSame DEF UpCounts, ReaperAlone
    <2> QED
        BY <2>1, <2>3, <2>4
<1>14. CASE ReaperRemoves(c)
    <2>1. r = Reaper /\ pc[r] = "remove"
        BY <1>1, <1>3, <1>14 DEF ReaperRemoves, Running
    <2>2. /\ place[Head(reaper_data)] = Reapable
          /\ place' = [place EXCEPT ![Head(reaper_data)] = Doomed(r)]
          /\ pc' = [pc EXCEPT ![r] = "delete"]
          /\ call' = call
        BY <1>0, <1>1, <1>14, HeadPlace DEF ReaperRemoves, QueueTypes, QueuePlaces
    <2>3. Head(reaper_data) # r
        BY <1>2, <2>2 DEF OnCpu, Reapable
    <2>4. /\ \A d \in Cores : place[Head(reaper_data)] # Requesting(d)
          /\ \A x \in Sems : Doomed(r) # WaitingOn(x)
        BY <2>2, NotRequesting
    <2> QED
        BY <1>2, <1>d, <2>1, <2>2, <2>3, <2>4, AloneThreadMoves
<1>15. CASE ReaperFindsNothing(c)
    <2>1. r = Reaper /\ pc[r] = "remove"
        BY <1>1, <1>3, <1>15 DEF ReaperFindsNothing, Running
    <2>2. place' = place /\ pc' = [pc EXCEPT ![r] = "down"] /\ call' = call
        BY <1>1, <1>15 DEF ReaperFindsNothing
    <2> QED
        BY <1>2, <1>d, <2>1, <2>2, AloneThread
<1>16. CASE ReaperDeletes(c)
    <2>1. r = Reaper /\ reaping[r] # <<>> /\ pc[r] = "delete"
        BY <1>0, <1>1, <1>2, <1>3, <1>16 DEF ReaperDeletes, Running, DoomedFilled
    <2>2. /\ place[Head(reaping[r])] = Doomed(r)
          /\ place' = [place EXCEPT ![Head(reaping[r])] = Free]
          /\ pc' = [pc EXCEPT ![r] = "down"]
          /\ call' = call
        BY <1>0, <1>1, <1>2, <1>16, <2>1, HeadPlace DEF ReaperDeletes, QueueTypes,
           QueuePlaces
    <2>3. Head(reaping[r]) # r
        BY <1>2, <2>2 DEF OnCpu, Doomed
    <2>4. /\ \A d \in Cores : place[Head(reaping[r])] # Requesting(d)
          /\ \A x \in Sems : Free # WaitingOn(x)
        BY <2>2, NotRequesting
    <2> QED
        BY <1>2, <1>d, <2>1, <2>2, <2>3, <2>4, AloneThreadMoves
<1> QED
    BY <1>5, <1>6, <1>7, <1>8, <1>9, <1>10, <1>11, <1>12, <1>13, <1>14, <1>15, <1>16,
       <1>17
    DEF Thread

\* Every step keeps the reaper alone with its semaphore.
LEMMA ReaperAloneStep ==
    ASSUME IndInv, SwitchRuns, ReaperAlone, ReapingRuns, [Next]_vars
    PROVE  ReaperAlone'
<1>1. CASE Tick \/ UNCHANGED vars
    <2>1. UNCHANGED <<hpc, hand, pc, call, place>>
        BY <1>1 DEF Tick, vars, coreVars, tcbVars
    <2>2. \A u : DoitKept(u)
        BY <2>1 DEF DoitKept
    <2> QED
        BY <2>1, <2>2, AloneSame DEF ReaperAlone
<1>2. ASSUME NEW c \in Cores, Boot(c)
      PROVE  ReaperAlone'
    <2>0. \A u : DoitKept(u)
        BY <1>2 DEF Boot, DoitKept, IndInv, TypeOK, CoreTypes
    <2>1. CASE UNCHANGED place
        BY <1>2, <2>0, <2>1, AloneSame DEF Boot, ReaperAlone
    <2>2. CASE place' = [place EXCEPT ![Main] = Ready]
        <3>1. place[Main] = Free /\ UNCHANGED <<pc, call>>
            BY <1>2, ConstantsAssumption DEF Boot, IndInv, BootAlone
        <3>2. /\ \A d \in Cores : place[Main] # Requesting(d)
              /\ \A s \in Sems : Ready # WaitingOn(s)
            BY <3>1, NotRequesting
        <3> QED
            BY <1>2, <2>0, <2>2, <3>1, <3>2, AloneHelper
    <2> QED
        BY <1>2, <2>1, <2>2 DEF Boot
<1> QED
    BY <1>1, <1>2, ReaperAloneHelper, ReaperAloneThread DEF Next, Core

\* The cores whose helper has queued a stopped thread and has not raised the
\* semaphore yet.
Ups == {c \in Cores : hpc[c] = "up"}

\* There are finitely many of them.
LEMMA UpsFinite == IsFiniteSet(Ups) /\ Cardinality(Ups) \in Nat
<1>1. Ups \subseteq Cores
    BY DEF Ups
<1>2. IsFiniteSet(Ups)
    BY <1>1, FS_Subset, ConstantsAssumption
<1> QED
    BY <1>2, FS_CardinalityType

\* A helper comes to the raising of the semaphore, leaves it, or does neither.
LEMMA UpsChange ==
    ASSUME CoreTypes, NEW c \in Cores, NEW w, hpc' = [hpc EXCEPT ![c] = w]
    PROVE  /\ hpc[c] # "up" /\ w # "up" => Ups' = Ups
           /\ hpc[c] # "up" /\ w = "up" =>
                Cardinality(Ups') = Cardinality(Ups) + 1
           /\ hpc[c] = "up" /\ w # "up" =>
                Cardinality(Ups') = Cardinality(Ups) - 1
<1>1. CASE hpc[c] # "up" /\ w # "up"
    BY <1>1 DEF Ups, CoreTypes
<1>2. CASE hpc[c] # "up" /\ w = "up"
    <2>1. Ups' = Ups \union {c} /\ c \notin Ups
        BY <1>2 DEF Ups, CoreTypes
    <2> QED
        BY <1>2, <2>1, UpsFinite, FS_AddElement
<1>3. CASE hpc[c] = "up" /\ w # "up"
    <2>1. Ups' = Ups \ {c} /\ c \in Ups
        BY <1>3 DEF Ups, CoreTypes
    <2> QED
        BY <1>3, <2>1, UpsFinite, FS_RemoveElement
<1> QED
    BY <1>1, <1>2, <1>3

\* What the reaper has to come, and has taken already.
Token == IF ReaperHoldsToken THEN 1 ELSE 0

\* A step that takes no token away from the reaper's queue.
LEMMA TokensKept ==
    ASSUME IndInv, ReaperTokens, Ups' = Ups,
           n'[ReaperSem] = n[ReaperSem], Len(reaper_data') <= Len(reaper_data),
           Len(reaper_data') \in Nat,
           ReaperHoldsToken => ReaperHoldsToken'
    PROVE  ReaperTokens'
<1>1. n[ReaperSem] \in Nat /\ Len(reaper_data) \in Nat
    BY ConstantsAssumption, LenProperties DEF IndInv, TypeOK, NumberTypes, QueueTypes
<1>2. Len(reaper_data) <= n[ReaperSem] + Cardinality(Ups) + Token
    BY DEF ReaperTokens, Ups, Token
<1>3. Token \in {0, 1} /\ Token' \in {0, 1} /\ Token <= Token'
    BY DEF Token
<1>4. Len(reaper_data') <= n'[ReaperSem] + Cardinality(Ups') + Token'
    BY <1>1, <1>2, <1>3, UpsFinite
<1> QED
    BY <1>4 DEF ReaperTokens, Ups, Token

\* A step that adds no more to the queue than to its tokens.
LEMMA TokensMove ==
    ASSUME IndInv, ReaperTokens,
           n'[ReaperSem] \in Int, Cardinality(Ups') \in Int, Len(reaper_data') \in Int,
           Len(reaper_data') - Len(reaper_data) <=
                (n'[ReaperSem] - n[ReaperSem])
                + (Cardinality(Ups') - Cardinality(Ups)) + (Token' - Token)
    PROVE  ReaperTokens'
<1>1. n[ReaperSem] \in Int /\ Len(reaper_data) \in Int
    BY ConstantsAssumption, LenProperties DEF IndInv, TypeOK, NumberTypes, QueueTypes
<1>2. Len(reaper_data) <= n[ReaperSem] + Cardinality(Ups) + Token
    BY DEF ReaperTokens, Ups, Token
<1>3. Token \in Int /\ Token' \in Int /\ Cardinality(Ups) \in Int
    BY UpsFinite DEF Token
<1> DEFINE l == Len(reaper_data)
           k == n[ReaperSem]
           u == Cardinality(Ups)
           x == Token
           l1 == Len(reaper_data')
           k1 == n'[ReaperSem]
           u1 == Cardinality(Ups')
           x1 == Token'
<1>4. /\ l \in Int /\ k \in Int /\ u \in Int /\ x \in Int
      /\ l1 \in Int /\ k1 \in Int /\ u1 \in Int /\ x1 \in Int
      /\ l <= k + u + x
      /\ l1 - l <= (k1 - k) + (u1 - u) + (x1 - x)
    BY <1>1, <1>2, <1>3
<1>5. l1 <= k1 + u1 + x1
    <2> HIDE DEF l, k, u, x, l1, k1, u1, x1
    <2> QED
        BY <1>4
<1> QED
    BY <1>5 DEF ReaperTokens, Ups, Token

\* The reaper keeps its token as long as it stays, or goes on to a core.
LEMMA TokenStays ==
    ASSUME NEW t, NEW p, place \in [TCBs -> Places], pc'[Reaper] = pc[Reaper],
           call[Reaper].op # "down" => call'[Reaper].op # "down",
           place' = [place EXCEPT ![t] = p],
           \/ p \in {Ready} \union ({"cpu", "hand"} \X Cores)
           \/ place[t] \notin {Ready} \union ({"cpu", "hand"} \X Cores)
    PROVE  ReaperHoldsToken => ReaperHoldsToken'
<1>1. place'[Reaper] = IF Reaper = t THEN p ELSE place[Reaper]
    BY ConstantsAssumption
<1> QED
    BY <1>1 DEF ReaperHoldsToken

\* A step that leaves the queue and its semaphore alone and moves t, but not
\* away from a core.
LEMMA TokensMoved ==
    ASSUME IndInv, ReaperTokens, Ups' = Ups, n'[ReaperSem] = n[ReaperSem],
           reaper_data' = reaper_data, pc'[Reaper] = pc[Reaper],
           call[Reaper].op # "down" => call'[Reaper].op # "down",
           NEW t, NEW p, place' = [place EXCEPT ![t] = p],
           \/ p \in {Ready} \union ({"cpu", "hand"} \X Cores)
           \/ place[t] \notin {Ready} \union ({"cpu", "hand"} \X Cores)
    PROVE  ReaperTokens'
<1>1. Len(reaper_data) \in Nat /\ place \in [TCBs -> Places]
    BY LenProperties DEF IndInv, TypeOK, QueueTypes, TCBTypes
<1>2. ReaperHoldsToken => ReaperHoldsToken'
    BY <1>1, TokenStays
<1> QED
    BY <1>1, <1>2, TokensKept

\* A step that leaves the queue, its semaphore and the reaper alone.
LEMMA TokensSame ==
    ASSUME IndInv, ReaperTokens, Ups' = Ups, n'[ReaperSem] = n[ReaperSem],
           reaper_data' = reaper_data, pc'[Reaper] = pc[Reaper],
           call[Reaper].op # "down" => call'[Reaper].op # "down",
           place'[Reaper] = place[Reaper]
    PROVE  ReaperTokens'
<1>1. Len(reaper_data) \in Nat
    BY LenProperties DEF IndInv, TypeOK, QueueTypes
<1>2. ReaperHoldsToken => ReaperHoldsToken'
    BY DEF ReaperHoldsToken
<1> QED
    BY <1>1, <1>2, TokensKept

\* The places of a thread that has its token.
LEMMA OnItsWay ==
    ASSUME NEW c \in Cores
    PROVE  /\ OnCpu(c) \in {Ready} \union ({"cpu", "hand"} \X Cores)
           /\ InHand(c) \in {Ready} \union ({"cpu", "hand"} \X Cores)
           /\ Ready \in {Ready} \union ({"cpu", "hand"} \X Cores)
           /\ \A x : /\ Requesting(x) \notin {Ready} \union ({"cpu", "hand"} \X Cores)
                     /\ WaitingOn(x) \notin {Ready} \union ({"cpu", "hand"} \X Cores)
                     /\ Doomed(x) \notin {Ready} \union ({"cpu", "hand"} \X Cores)
BY DEF OnCpu, InHand, Ready, Requesting, WaitingOn, Doomed

\* Every step of a helper keeps the tokens.
LEMMA TokensHelper ==
    ASSUME IndInv, SwitchRuns, ReaperAlone, ReaperTokens, NEW c \in Cores, Helper(c)
    PROVE  ReaperTokens'
<1>0. /\ CoreTypes /\ QueueTypes /\ NumberTypes /\ TCBTypes /\ QueuePlaces
      /\ CorePlaces /\ HandFilled /\ ReaperRuns
    BY DEF IndInv, TypeOK
<1>1. n[ReaperSem] \in Nat /\ Len(reaper_data) \in Nat /\ Token \in {0, 1}
    BY <1>0, ConstantsAssumption, LenProperties DEF NumberTypes, QueueTypes, Token
<1>2. ASSUME NEW op, NEW w, DoIt(c, op, w)
      PROVE  /\ hand[c] \in TCBs
             /\ place[hand[c]] = InHand(c)
             /\ hpc[c] = "doit"
             /\ hpc' = [hpc EXCEPT ![c] = w]
             /\ call[hand[c]].op = op
             /\ call' = [call EXCEPT ![hand[c]] = NoCall]
             /\ call[Reaper].op # "down" => call'[Reaper].op # "down"
             /\ w # "up" => Ups' = Ups
             /\ hand[c] = Reaper /\ op # "none" => op = "down"
    <2>1. /\ hand[c] \in TCBs
          /\ place[hand[c]] = InHand(c)
          /\ hpc[c] = "doit"
          /\ hpc' = [hpc EXCEPT ![c] = w]
          /\ call[hand[c]].op = op
          /\ call' = [call EXCEPT ![hand[c]] = NoCall]
        BY <1>0, <1>2 DEF DoIt, HelperAt, CoreTypes, CorePlaces, HandFilled
    <2>2. call[Reaper].op # "down" => call'[Reaper].op # "down"
        BY <1>0, <2>1, ConstantsAssumption DEF TCBTypes, NoCall
    <2>3. w # "up" => Ups' = Ups
        BY <1>0, <2>1, UpsChange
    <2> QED
        BY <1>0, <2>1, <2>2, <2>3 DEF ReaperRuns
<1>3. CASE HelperResume(c) \/ HelperNoRequest(c) \/ HelperIdle(c) \/ HelperDispatch(c)
    <2>1. PICK w \in {"wakeup", "pick", "switch"} : hpc' = [hpc EXCEPT ![c] = w]
        BY <1>3 DEF HelperResume, HelperNoRequest, HelperIdle, HelperDispatch
    <2>2. hpc[c] # "up" /\ UNCHANGED <<n, reaper_data, pc, call, place>>
        BY <1>3 DEF HelperResume, HelperNoRequest, HelperIdle, HelperDispatch, HelperAt,
           queueVars, tcbVars
    <2>3. Ups' = Ups
        BY <1>0, <2>1, <2>2, UpsChange
    <2> QED
        BY <2>2, <2>3, TokensSame
<1>4. CASE HelperWakeup(c)
    <2>1. /\ place' = [place EXCEPT ![Head(sleep_queues[c])] = Ready]
          /\ UNCHANGED <<hpc, n, reaper_data, pc, call>>
        BY <1>4 DEF HelperWakeup, coreVars
    <2>2. Ups' = Ups
        BY <2>1 DEF Ups
    <2> QED
        BY <2>1, <2>2, TokensMoved, OnItsWay
<1>5. CASE HelperTakes(c)
    <2>1. PICK t \in TCBs : t = help_requests[c]
        BY <1>0, <1>5 DEF HelperTakes, CoreTypes
    <2>2. /\ place' = [place EXCEPT ![t] = InHand(c)]
          /\ hpc' = [hpc EXCEPT ![c] = "doit"] /\ hpc[c] # "up"
          /\ UNCHANGED <<n, reaper_data, pc, call>>
        BY <1>5, <2>1 DEF HelperTakes, HelperAt, queueVars
    <2>3. Ups' = Ups
        <3>1. hpc[c] # "up" /\ "doit" # "up"
            BY <2>2
        <3> QED
            BY <1>0, <2>2, <3>1, UpsChange
    <2> QED
        BY <2>2, <2>3, TokensMoved, OnItsWay
<1>10. CASE HelperYield(c) \/ HelperSleep(c) \/ HelperDownWaits(c)
    <2>1. PICK op \in {"yield", "sleep", "down"} : DoIt(c, op, "pick")
        BY <1>10 DEF HelperYield, HelperSleep, HelperDownWaits
    <2>2. PICK p : place' = [place EXCEPT ![hand[c]] = p]
        BY <1>10 DEF HelperYield, HelperSleep, HelperDownWaits, Waits
    <2>3. UNCHANGED <<n, reaper_data, pc>>
        BY <1>10 DEF HelperYield, HelperSleep, HelperDownWaits
    <2>4. Ups' = Ups
        BY <1>2, <2>1
    <2>5. CASE hand[c] = Reaper
        <3>1. ~ReaperHoldsToken
            BY <1>2, <2>1, <2>5 DEF ReaperHoldsToken
        <3> QED
            BY <1>1, <2>3, <2>4, <3>1, TokensKept
    <2>6. CASE hand[c] # Reaper
        <3>1. place'[Reaper] = place[Reaper]
            BY <1>0, <2>2, <2>6, ConstantsAssumption DEF TCBTypes
        <3>2. call[Reaper].op # "down" => call'[Reaper].op # "down"
            BY <1>2, <2>1
        <3> QED
            BY <2>3, <2>4, <3>1, <3>2, TokensSame
    <2> QED
        BY <2>5, <2>6
<1>6. CASE HelperDownTakes(c)
    <2>0. DoIt(c, "down", "add")
        BY <1>6 DEF HelperDownTakes
    <2>1. PICK t \in TCBs : t = hand[c]
        BY <1>2, <2>0
    <2>2. PICK s \in Sems : s = call[t].sem
        BY <1>0 DEF TCBTypes, Calls
    <2>3. /\ call[t].op = "down" /\ place[t] = InHand(c)
          /\ call' = [call EXCEPT ![t] = NoCall]
          /\ n' = [n EXCEPT ![s] = @ - 1]
          /\ UNCHANGED <<reaper_data, pc, place>>
        BY <1>2, <1>6, <2>0, <2>1, <2>2 DEF HelperDownTakes
    <2>4. Ups' = Ups /\ (call[Reaper].op # "down" => call'[Reaper].op # "down")
        BY <1>2, <2>0
    <2>5. CASE s # ReaperSem
        <3>1. n'[ReaperSem] = n[ReaperSem]
            BY <1>0, <2>3, <2>5, ConstantsAssumption DEF NumberTypes
        <3> QED
            BY <2>3, <2>4, <3>1, TokensSame
    <2>6. CASE s = ReaperSem
        <3>1. t = Reaper
            <4>1. Alone(t) /\ call[t].op = "down" /\ call[t].sem = ReaperSem
                BY <2>2, <2>3, <2>6 DEF ReaperAlone
            <4> QED
                BY <4>1 DEF Alone
        <3>2. pc[Reaper] # "switch"
            BY <1>0, <2>3, <3>1, ConstantsAssumption DEF SwitchRuns, CorePlaces, OnCpu,
               InHand
        <3>3. pc[Reaper] = "remove"
            BY <2>3, <3>1, <3>2 DEF ReaperAlone, Alone
        <3>4. ~ReaperHoldsToken
            BY <2>3, <3>1 DEF ReaperHoldsToken
        <3>5. call'[Reaper].op # "down" /\ pc'[Reaper] = "remove"
              /\ place'[Reaper] = InHand(c)
            BY <1>0, <2>3, <3>1, <3>3 DEF TCBTypes, NoCall
        <3>6. ReaperHoldsToken'
            BY <3>5, OnItsWay DEF ReaperHoldsToken
        <3>7. Token = 0 /\ Token' = 1
            BY <3>4, <3>6 DEF Token
        <3>8. n'[ReaperSem] = n[ReaperSem] - 1
            BY <1>0, <1>1, <2>3, <2>6 DEF NumberTypes
        <3> QED
            BY <1>1, <2>3, <2>4, <3>7, <3>8, UpsFinite, TokensMove
    <2> QED
        BY <2>5, <2>6
<1>7. CASE HelperStop(c)
    <2>0. DoIt(c, "stop", "up")
        BY <1>7 DEF HelperStop
    <2>1. PICK t \in TCBs : t = hand[c]
        BY <1>2, <2>0
    <2>2. /\ t # Reaper /\ hpc[c] # "up"
          /\ hpc' = [hpc EXCEPT ![c] = "up"]
          /\ reaper_data' = Append(reaper_data, t)
          /\ place' = [place EXCEPT ![t] = Reapable]
          /\ call[Reaper].op # "down" => call'[Reaper].op # "down"
          /\ UNCHANGED <<n, pc>>
        BY <1>2, <1>7, <2>0, <2>1 DEF HelperStop
    <2>3. place'[Reaper] = place[Reaper]
        BY <1>0, <2>2, ConstantsAssumption DEF TCBTypes
    <2>4. Token' - Token \in Nat
        BY <2>2, <2>3 DEF Token, ReaperHoldsToken
    <2>5. Cardinality(Ups') = Cardinality(Ups) + 1
        BY <1>0, <2>2, UpsChange
    <2>6. Len(reaper_data') = Len(reaper_data) + 1
        BY <1>0, <1>1, <2>2 DEF QueueTypes
    <2> QED
        BY <1>1, <2>2, <2>4, <2>5, <2>6, UpsFinite, TokensMove
<1>8. CASE HelperUp(c)
    <2>1. hpc[c] = "up" /\ UNCHANGED <<reaper_data, pc, call>>
        BY <1>8 DEF HelperUp, HelperAt
    <2>2. PICK w \in {"add", "pick"} : hpc' = [hpc EXCEPT ![c] = w]
        BY <1>8 DEF HelperUp
    <2>3. Cardinality(Ups') = Cardinality(Ups) - 1
        BY <1>0, <2>1, <2>2, UpsChange
    <2>5. CASE UpWakes(c, ReaperSem)
        <3>1. PICK t : t = Head(waiting[ReaperSem])
            OBVIOUS
        <3>2. /\ t \in TCBs /\ place[t] = WaitingOn(ReaperSem)
              /\ place' = [place EXCEPT ![t] = InHand(c)]
            BY <1>0, <2>5, <3>1, HeadPlace, ConstantsAssumption DEF UpWakes,
               QueueTypes, QueuePlaces
        <3>3. t = Reaper /\ pc[Reaper] = "remove"
            BY <3>2, ConstantsAssumption DEF ReaperAlone, Alone
        <3>r. call[Reaper].op # "down"
            <4>1. place[Reaper] = WaitingOn(ReaperSem) /\ Reaper # NoTCB
                BY <3>2, <3>3, ConstantsAssumption
            <4>2. \A d \in Cores : hand[d] # Reaper /\ place[Reaper] # Requesting(d)
                BY <1>0, <4>1, NotRequesting DEF CorePlaces
            <4>3. ~Pending(Reaper) /\ Alone(Reaper)
                BY <4>2, ConstantsAssumption DEF Pending, ReaperAlone
            <4> QED
                BY <3>3, <4>3 DEF Alone
        <3>4. ~ReaperHoldsToken
            BY <3>2, <3>3, OnItsWay DEF ReaperHoldsToken
        <3>5. ReaperHoldsToken'
            BY <1>0, <2>1, <3>2, <3>3, <3>r, OnItsWay DEF ReaperHoldsToken, TCBTypes
        <3>6. Token = 0 /\ Token' = 1
            BY <3>4, <3>5 DEF Token
        <3>7. n' = n
            BY <2>5 DEF UpWakes
        <3> QED
            BY <1>1, <2>1, <2>3, <3>6, <3>7, UpsFinite, TokensMove
    <2>6. CASE UpCounts(ReaperSem)
        <3>1. n'[ReaperSem] = n[ReaperSem] + 1
            BY <1>0, <2>6, ConstantsAssumption DEF UpCounts, NumberTypes
        <3>2. place' = place
            BY <2>6 DEF UpCounts
        <3>3. Token' = Token
            BY <2>1, <3>2 DEF Token, ReaperHoldsToken
        <3> QED
            BY <1>1, <2>1, <2>3, <3>1, <3>3, UpsFinite, TokensMove
    <2> QED
        BY <1>8, <2>5, <2>6 DEF HelperUp
<1>9. CASE HelperAdd(c) \/ HelperPick(c) \/ HelperSwitch(c)
    <2>1. /\ \E w \in {"pick", "dispatch", "sti"} : hpc' = [hpc EXCEPT ![c] = w]
          /\ hpc[c] # "up"
          /\ UNCHANGED <<n, reaper_data, pc, call>>
        BY <1>9 DEF HelperAdd, HelperPick, HelperSwitch, HelperAt, queueVars
    <2>2. PICK t, p : /\ place' = [place EXCEPT ![t] = p]
                      /\ p = Ready \/ p = InHand(c) \/ p = OnCpu(c)
        BY <1>9 DEF HelperAdd, AddReady, HelperPick, HelperSwitch
    <2>3. Ups' = Ups
        BY <1>0, <2>1, UpsChange
    <2>4. p \in {Ready} \union ({"cpu", "hand"} \X Cores)
        BY <2>2, OnItsWay
    <2> QED
        BY <2>1, <2>2, <2>3, <2>4, TokensMoved
<1> QED
    BY <1>3, <1>4, <1>5, <1>6, <1>7, <1>8, <1>9, <1>10 DEF Helper

\* A step of a thread other than the reaper.
LEMMA TokensOther ==
    ASSUME IndInv, ReaperAlone, ReaperTokens, NEW c \in Cores, Thread(c),
           cpu[c] # Reaper
    PROVE  ReaperTokens'
<1>0. QueueTypes /\ NumberTypes /\ TCBTypes /\ QueuePlaces /\ CorePlaces /\ ReaperRuns
    BY DEF IndInv, TypeOK
<1>1. PICK r : r = cpu[c]
    OBVIOUS
<1>2. r \in TCBs /\ r # Reaper /\ pc[r] \notin {"down", "remove", "delete"}
    BY <1>1, ThreadRuns, RunnerFacts DEF ReaperAlone, Alone
<1>3. ASSUME NEW w, pc' = [pc EXCEPT ![r] = w]
      PROVE  pc'[Reaper] = pc[Reaper]
    BY <1>0, <1>2, <1>3, ConstantsAssumption DEF TCBTypes
<1>4. ASSUME hpc' = hpc
      PROVE  Ups' = Ups
    BY <1>4 DEF Ups
<1>14. ASSUME NEW x, call' = [call EXCEPT ![r] = x]
       PROVE  call'[Reaper] = call[Reaper]
    BY <1>0, <1>2, <1>14, ConstantsAssumption DEF TCBTypes
<1>5. CASE CallYield(c) \/ CallSleep(c) \/ CallStop(c) \/ CallThread(c)
    <2>1. /\ pc' = [pc EXCEPT ![r] = "reaping"]
          /\ reaper_data' = <<>>
          /\ place' = [u \in TCBs |->
                          IF place[u] = Reapable THEN Doomed(r) ELSE place[u]]
          /\ \E x : call' = [call EXCEPT ![r] = x]
          /\ UNCHANGED <<hpc, n>>
        BY <1>1, <1>5 DEF CallYield, CallSleep, CallStop, CallThread, Reap, coreVars
    <2>2. place'[Reaper] = place[Reaper]
        BY <1>0, <2>1, ConstantsAssumption DEF ReaperRuns
    <2>3. ReaperHoldsToken => ReaperHoldsToken'
        BY <1>3, <1>14, <2>1, <2>2 DEF ReaperHoldsToken
    <2>4. /\ Len(reaper_data') = 0 /\ Len(reaper_data') \in Nat
          /\ Len(reaper_data') <= Len(reaper_data)
        BY <1>0, <2>1, LenProperties DEF QueueTypes
    <2> QED
        BY <1>4, <2>1, <2>3, <2>4, TokensKept
<1>6. CASE ReapDelete(c)
    <2>1. /\ place[Head(reaping[r])] = Doomed(r)
          /\ place' = [place EXCEPT ![Head(reaping[r])] = Free]
          /\ UNCHANGED <<hpc, n, reaper_data, pc, call>>
        BY <1>0, <1>1, <1>2, <1>6, HeadPlace DEF ReapDelete, QueueTypes, QueuePlaces,
           coreVars, queueVars
    <2>2. place[Head(reaping[r])] \notin {Ready} \union ({"cpu", "hand"} \X Cores)
        BY <2>1, OnItsWay
    <2> QED
        BY <1>4, <2>1, <2>2, TokensMoved
<1>7. CASE YieldReturns(c)
    <2>1. /\ pc' = [pc EXCEPT ![r] = "run"]
          /\ call' = [call EXCEPT ![r] = NoCall]
          /\ UNCHANGED <<hpc, n, reaper_data, place>>
        BY <1>1, <1>7 DEF YieldReturns, coreVars, queueVars
    <2> QED
        BY <1>3, <1>4, <1>14, <2>1, TokensSame
<1>8. CASE \/ YieldBlocks(c) \/ SleepBlocks(c) \/ StopBlocks(c)
           \/ \E s : DownBlocks(c, s)
    <2>1. PICK request : Block(c, request)
        BY <1>8 DEF YieldBlocks, SleepBlocks, StopBlocks, DownBlocks
    <2>2. /\ pc' = [pc EXCEPT ![r] = "switch"]
          /\ call' = [call EXCEPT ![r] = request]
          /\ UNCHANGED <<hpc, n, reaper_data, place>>
        BY <1>1, <2>1 DEF Block, queueVars
    <2> QED
        BY <1>3, <1>4, <1>14, <2>2, TokensSame
<1>15. CASE SwitchToHelper(c)
    <2>1. PICK w : pc' = [pc EXCEPT ![r] = w]
        BY <1>1, <1>15 DEF SwitchToHelper
    <2>2. /\ place' = [place EXCEPT ![r] = Requesting(c)]
          /\ UNCHANGED <<hpc, n, reaper_data, call>>
        BY <1>1, <1>15 DEF SwitchToHelper, queueVars
    <2>3. place'[Reaper] = place[Reaper]
        BY <1>0, <1>2, <2>2, ConstantsAssumption DEF TCBTypes
    <2> QED
        BY <1>3, <1>4, <2>1, <2>2, <2>3, TokensSame
<1>9. CASE ThreadAllocates(c)
    <2>1. PICK u \in TCBs :
            /\ place[u] = Free
            /\ place' = [place EXCEPT ![u] = InHand(c)]
            /\ pc' = [pc EXCEPT ![u] = "run", ![r] = "add"]
        BY <1>1, <1>9 DEF ThreadAllocates, Unallocated
    <2>2. UNCHANGED <<hpc, n, reaper_data>> /\ call' = [call EXCEPT ![r] = NoCall]
        BY <1>1, <1>9 DEF ThreadAllocates
    <2>3. u # Reaper
        BY <1>0, <2>1 DEF ReaperRuns
    <2>4. place'[Reaper] = place[Reaper] /\ pc'[Reaper] = pc[Reaper]
        BY <1>0, <1>2, <2>1, <2>3, ConstantsAssumption DEF TCBTypes
    <2> QED
        BY <1>4, <1>14, <2>2, <2>4, TokensSame
<1>10. CASE ThreadAdds(c)
    <2>1. /\ pc' = [pc EXCEPT ![r] = "run"]
          /\ place' = [place EXCEPT ![hand[c]] = Ready]
          /\ UNCHANGED <<hpc, n, reaper_data, call>>
        BY <1>1, <1>10 DEF ThreadAdds, AddReady
    <2> QED
        BY <1>3, <1>4, <2>1, TokensMoved, OnItsWay
<1>11. CASE ThreadDown(c)
    <2>1. PICK s \in Sems \ {ReaperSem} :
            DownTakes(c, s, "run") \/ DownBlocks(c, s)
        BY <1>11 DEF ThreadDown
    <2>2. CASE DownTakes(c, s, "run")
        <3>1. /\ pc' = [pc EXCEPT ![r] = "run"]
              /\ n' = [n EXCEPT ![s] = @ - 1]
              /\ UNCHANGED <<hpc, reaper_data, place, call>>
            BY <1>1, <2>2 DEF DownTakes, coreVars
        <3>2. n'[ReaperSem] = n[ReaperSem]
            BY <1>0, <2>1, <3>1, ConstantsAssumption DEF NumberTypes
        <3> QED
            BY <1>3, <1>4, <3>1, <3>2, TokensSame
    <2> QED
        BY <1>8, <2>1, <2>2
<1>12. CASE ThreadUp(c)
    <2>1. PICK s \in Sems \ {ReaperSem} :
            \/ UpWakes(c, s) /\ pc' = [pc EXCEPT ![r] = "add"]
            \/ UpCounts(s) /\ pc' = pc
        BY <1>1, <1>12 DEF ThreadUp
    <2>2. UNCHANGED <<hpc, reaper_data, call>> /\ pc'[Reaper] = pc[Reaper]
        BY <1>3, <1>12, <2>1 DEF ThreadUp
    <2>3. n'[ReaperSem] = n[ReaperSem]
        BY <1>0, <2>1, ConstantsAssumption DEF NumberTypes, UpWakes, UpCounts
    <2>4. CASE UpWakes(c, s)
        BY <1>4, <2>2, <2>3, <2>4, TokensMoved, OnItsWay DEF UpWakes
    <2>5. CASE UpCounts(s)
        BY <1>4, <2>2, <2>3, <2>5, TokensSame DEF UpCounts
    <2> QED
        BY <2>1, <2>4, <2>5
<1>13. ~ReaperDown(c) /\ ~ReaperRemoves(c) /\ ~ReaperFindsNothing(c)
       /\ ~ReaperDeletes(c)
    BY <1>1, <1>2 DEF ReaperDown, ReaperRemoves, ReaperFindsNothing, ReaperDeletes,
       Running
<1> QED
    BY <1>5, <1>6, <1>7, <1>8, <1>9, <1>10, <1>11, <1>12, <1>13, <1>15 DEF Thread

\* A step of the reaper.
LEMMA TokensReaper ==
    ASSUME IndInv, ReaperAlone, ReaperTokens, NEW c \in Cores, Thread(c),
           cpu[c] = Reaper
    PROVE  ReaperTokens'
<1>0. QueueTypes /\ NumberTypes /\ TCBTypes /\ QueuePlaces /\ CorePlaces /\ ReaperRuns
    BY DEF IndInv, TypeOK
<1>1. /\ place[Reaper] = OnCpu(c)
      /\ pc[Reaper] \in {"down", "switch", "remove", "delete"}
      /\ pc[Reaper] # "switch" => call[Reaper].op # "down"
      /\ Reaper \in TCBs
    BY <1>0, RunnerNotDown, ConstantsAssumption DEF CorePlaces, ReaperRuns
<1>2. n[ReaperSem] \in Nat /\ Len(reaper_data) \in Nat
    BY <1>0, ConstantsAssumption, LenProperties DEF NumberTypes, QueueTypes
<1>3. ASSUME hpc' = hpc
      PROVE  Ups' = Ups
    BY <1>3 DEF Ups
<1>4. ASSUME hpc' = hpc, n' = n, reaper_data' = reaper_data, ~ReaperHoldsToken
      PROVE  ReaperTokens'
    BY <1>2, <1>3, <1>4, TokensKept
<1>5. CASE ReaperDown(c)
    <2>0. pc[Reaper] = "down"
        BY <1>5 DEF ReaperDown, Running
    <2>1. ~ReaperHoldsToken
        BY <2>0 DEF ReaperHoldsToken
    <2>2. CASE DownTakes(c, ReaperSem, "remove")
        <3>1. /\ n' = [n EXCEPT ![ReaperSem] = @ - 1]
              /\ pc' = [pc EXCEPT ![Reaper] = "remove"]
              /\ UNCHANGED <<hpc, reaper_data, place, call>>
            BY <2>2 DEF DownTakes, coreVars
        <3>2. ReaperHoldsToken'
            BY <1>0, <1>1, <2>0, <3>1, OnItsWay DEF ReaperHoldsToken, TCBTypes
        <3>3. Token = 0 /\ Token' = 1
            BY <2>1, <3>2 DEF Token
        <3>4. n'[ReaperSem] = n[ReaperSem] - 1
            BY <1>0, <3>1, ConstantsAssumption DEF NumberTypes
        <3>5. Ups' = Ups
            BY <1>3, <3>1
        <3> QED
            BY <1>2, <3>1, <3>3, <3>4, <3>5, UpsFinite, TokensMove
    <2>3. CASE DownBlocks(c, ReaperSem)
        BY <1>4, <2>1, <2>3 DEF DownBlocks, Block, queueVars
    <2> QED
        BY <1>5, <2>2, <2>3 DEF ReaperDown
<1>6. CASE ReaperRemoves(c)
    <2>1. /\ pc[Reaper] = "remove"
          /\ reaper_data # <<>>
          /\ reaper_data' = Tail(reaper_data)
          /\ UNCHANGED <<hpc, n>>
        BY <1>6 DEF ReaperRemoves, Running, coreVars
    <2>2. ReaperHoldsToken
        BY <1>1, <2>1, OnItsWay DEF ReaperHoldsToken
    <2>3. Token = 1 /\ Token' \in {0, 1}
        BY <2>2 DEF Token
    <2>4. Len(reaper_data') = Len(reaper_data) - 1
        BY <1>0, <2>1 DEF QueueTypes
    <2>5. Ups' = Ups
        BY <1>3, <2>1
    <2> QED
        BY <1>2, <2>1, <2>3, <2>4, <2>5, UpsFinite, TokensMove
<1>7. CASE ReaperFindsNothing(c)
    <2>1. reaper_data' = <<>> /\ UNCHANGED <<hpc, n>>
        BY <1>7 DEF ReaperFindsNothing, coreVars, queueVars
    <2>2. Len(reaper_data') = 0 /\ Token' \in {0, 1}
        BY <2>1 DEF Token
    <2>3. Len(reaper_data') <= n'[ReaperSem] + Cardinality(Ups') + Token'
        BY <1>2, <1>3, <2>1, <2>2, UpsFinite
    <2> QED
        BY <2>3 DEF ReaperTokens, Ups, Token
<1>8. CASE ReaperDeletes(c)
    <2>1. pc[Reaper] = "delete" /\ UNCHANGED <<hpc, n, reaper_data>>
        BY <1>8 DEF ReaperDeletes, Running, coreVars, queueVars
    <2>2. ~ReaperHoldsToken
        BY <2>1 DEF ReaperHoldsToken
    <2> QED
        BY <1>4, <2>1, <2>2
<1>11. CASE SwitchToHelper(c)
    <2>1. pc[Reaper] = "switch" /\ UNCHANGED <<hpc, n, reaper_data>>
        BY <1>11 DEF SwitchToHelper, Running, queueVars
    <2>2. ~ReaperHoldsToken
        BY <2>1 DEF ReaperHoldsToken
    <2> QED
        BY <1>4, <2>1, <2>2
<1>9. /\ ~CallYield(c) /\ ~CallSleep(c) /\ ~CallStop(c) /\ ~CallThread(c)
      /\ ~ThreadDown(c) /\ ~ThreadUp(c)
    BY DEF CallYield, CallSleep, CallStop, CallThread, Reap, ThreadDown, ThreadUp,
       UserCall
<1>10. /\ ~ReapDelete(c) /\ ~YieldReturns(c) /\ ~YieldBlocks(c) /\ ~SleepBlocks(c)
       /\ ~StopBlocks(c) /\ ~ThreadAllocates(c) /\ ~ThreadAdds(c)
    BY <1>1 DEF ReapDelete, YieldReturns, YieldBlocks, SleepBlocks, StopBlocks,
       ThreadAllocates, ThreadAdds, Reaped, Running
<1> QED
    BY <1>5, <1>6, <1>7, <1>8, <1>9, <1>10, <1>11 DEF Thread

\* Every step keeps the tokens.
LEMMA TokensStep ==
    ASSUME IndInv, SwitchRuns, ReaperAlone, ReaperTokens, [Next]_vars
    PROVE  ReaperTokens'
<1>1. CASE Tick \/ UNCHANGED vars
    <2>1. UNCHANGED <<hpc, n, reaper_data, pc, call, place>>
        BY <1>1 DEF Tick, vars, coreVars, queueVars, tcbVars
    <2>2. Ups' = Ups
        BY <2>1 DEF Ups
    <2> QED
        BY <2>1, <2>2, TokensSame
<1>2. ASSUME NEW c \in Cores, Boot(c)
      PROVE  ReaperTokens'
    <2>1. /\ hpc[c] # "up"
          /\ hpc' = [hpc EXCEPT ![c] = "wakeup"]
          /\ UNCHANGED <<n, reaper_data, pc, call>>
          /\ place' = place \/ place' = [place EXCEPT ![Main] = Ready]
        BY <1>2 DEF Boot
    <2>2. CoreTypes /\ "wakeup" # "up"
        BY DEF IndInv, TypeOK
    <2>3. Ups' = Ups
        BY <2>1, <2>2, UpsChange
    <2>4. CASE place' = place
        BY <2>1, <2>3, <2>4, TokensSame
    <2>5. CASE place' = [place EXCEPT ![Main] = Ready]
        BY <1>2, <2>1, <2>3, <2>5, TokensMoved, OnItsWay
    <2> QED
        BY <2>1, <2>4, <2>5
<1> QED
    BY <1>1, <1>2, TokensHelper, TokensOther, TokensReaper DEF Next, Core

\* reap() empties the reaper's queue without taking tokens, and the helper
\* queues a stopped thread before it raises the semaphore; all the same every
\* TCB in the queue has a token, an up() that is still to come, or a reaper
\* that is on its way, so the reaper never sleeps on one.
THEOREM TokensSuffice == Spec => []ReaperTokens
<1>1. ASSUME Init
      PROVE  ReaperAlone /\ ReaperTokens
    <2>1. /\ reaper_data = <<>> /\ n = InitialN
          /\ call = [t \in TCBs |-> NoCall]
          /\ pc = [t \in TCBs |-> IF t = Reaper THEN "down" ELSE "run"]
          /\ place = [t \in TCBs |-> IF t = Reaper THEN Ready ELSE Free]
        BY <1>1 DEF Init
    <2>2. Len(reaper_data) = 0 /\ n[ReaperSem] = 0 /\ Token \in {0, 1}
        BY <2>1, ConstantsAssumption DEF Token
    <2>3. Len(reaper_data) <= n[ReaperSem] + Cardinality(Ups) + Token
        BY <2>2, UpsFinite
    <2>4. ReaperTokens
        BY <2>3 DEF ReaperTokens, Ups, Token
    <2>5. ASSUME NEW t \in TCBs
          PROVE  Alone(t)
        BY <2>1 DEF Alone, NoCall, Ready, Free, WaitingOn
    <2> QED
        BY <2>4, <2>5 DEF ReaperAlone
<1>2. IndInv /\ CoreInv /\ HeldInv /\ ReaperAlone /\ [Next]_vars => ReaperAlone'
    BY ReaperAloneStep DEF CoreInv, HeldInv
<1>3. IndInv /\ CoreInv /\ ReaperAlone /\ ReaperTokens /\ [Next]_vars => ReaperTokens'
    BY TokensStep DEF CoreInv
<1> QED
    BY <1>1, <1>2, <1>3, AlwaysCore, AlwaysHeld, PTL DEF Spec
=============================================================================
