-------------------------------- MODULE Fifo --------------------------------
(***************************************************************************)
(* What Queue of kernel/queue.h promises: a sequence, changed by one       *)
(* indivisible step per call, and the hand-over of each element between    *)
(* the cores and the queue.                                                *)
(***************************************************************************)
EXTENDS Sequences, Functions

CONSTANTS Cores, Nodes, Nil

VARIABLES queue,   \* the elements, first one first
          owner    \* the core an element belongs to; Nil: the queue

Init == /\ queue = <<>>
        /\ owner \in [Nodes -> Cores]

Add(c, t) == /\ owner[t] = c
             /\ queue' = Append(queue, t)
             /\ owner' = [owner EXCEPT ![t] = Nil]

AddFront(c, t) == /\ owner[t] = c
                  /\ queue' = <<t>> \o queue
                  /\ owner' = [owner EXCEPT ![t] = Nil]

Remove(c) == /\ queue # <<>>
             /\ queue' = Tail(queue)
             /\ owner' = [owner EXCEPT ![Head(queue)] = c]

RemoveAll(c) == /\ queue' = <<>>
                /\ owner' = [t \in Nodes |->
                                IF t \in Range(queue) THEN c ELSE owner[t]]

Next == \E c \in Cores :
            \/ \E t \in Nodes : Add(c, t) \/ AddFront(c, t)
            \/ Remove(c)
            \/ RemoveAll(c)

Spec == Init /\ [][Next]_<<queue, owner>>
=============================================================================
