-------------------------------- MODULE Heap --------------------------------
(***************************************************************************)
(* The kernel heap, kernel/heap.cc: an array of words cut into blocks.     *)
(* The first and the last word of a block hold its size, positive when it  *)
(* is available and negative when it is taken; an available block is also  *)
(* in a doubly linked list, with its links in the two words after the      *)
(* header.  A block is named by the index of its header.                   *)
(*                                                                         *)
(* malloc and free run under a blocking lock, so each is one step.         *)
(***************************************************************************)
EXTENDS Integers, Sequences, FiniteSets, SequencesExt

CONSTANTS
    len,         \* the words of the heap
    Requests,    \* the arguments malloc is called with, in bytes: not the
                 \* largest ones, to which it cannot add 3
    Candidates,  \* the value countDown starts with, 20 in the code
    Word         \* 2^32: size_t arithmetic wraps

ASSUME HeapAssumption ==
    /\ len \in Nat /\ len >= 8
    /\ Word \in Nat
    /\ Requests \subseteq 0..(Word - 4)
    /\ Candidates \in Nat \ {0}

VARIABLES
    array,   \* the words
    avail,   \* the first available block, 0 for none
    owned    \* the blocks the callers have, with the bytes they asked for

heapVars == <<array, avail, owned>>

Abs(x) == IF x < 0 THEN -x ELSE x

\* The operations below take the words and the list head as h.a and h.avail.
State == [a |-> array, avail |-> avail]

Size(h, i) == Abs(h.a[i])
Left(h, i) == (i - 1) - Size(h, i - 1) + 1
Right(h, i) == i + Size(h, i)
IsAvail(h, i) == h.a[i] > 0

\* remove(): out of the list, whether at its head, middle or end.
Unlink(h, i) ==
    LET next == h.a[i + 1]
        prev == h.a[i + 2]
        back == IF prev = 0 THEN h.a ELSE [h.a EXCEPT ![prev + 1] = next]
    IN  [avail |-> IF prev = 0 THEN next ELSE h.avail,
         a |-> IF next = 0 THEN back ELSE [back EXCEPT ![next + 2] = prev]]

MakeTaken(h, i, ints) ==
    [h EXCEPT !.a = [h.a EXCEPT ![i] = -ints, ![i + ints - 1] = -ints]]

\* Bug: the old head of the list keeps its prev.
MakeAvailOneWay(h, i, ints) ==
    [avail |-> i,
     a |-> [h.a EXCEPT ![i] = ints, ![i + ints - 1] = ints,
                       ![i + 1] = h.avail, ![i + 2] = 0]]

\* makeAvail(): tagged, and in front of the list.
MakeAvail(h, i, ints) ==
    LET tagged == [h.a EXCEPT ![i] = ints, ![i + ints - 1] = ints,
                              ![i + 1] = h.avail, ![i + 2] = 0]
    IN  [avail |-> i,
         a |-> IF h.avail = 0 THEN tagged
               ELSE [tagged EXCEPT ![h.avail + 2] = i]]

\* heapInit(): a taken block of two words at either end, so that no block
\* has to ask whether it has a neighbour.
InitialHeap ==
    LET zero == [a |-> [i \in 0..(len - 1) |-> 0], avail |-> 0]
    IN  MakeTaken(MakeAvail(MakeTaken(zero, 0, 2), 2, len - 4), len - 2, 2)

KernelInit ==
    /\ array = InitialHeap.a
    /\ avail = InitialHeap.avail
    /\ owned = << >>

-----------------------------------------------------------------------------

\* The list of available blocks from the head on; cut where a correct list,
\* of blocks of four words, must have ended.
FreeList(h) ==
    LET most == len \div 4
        node[k \in 1..most] ==
            IF k = 1 THEN h.avail
            ELSE LET p == node[k - 1] IN IF p = 0 THEN 0 ELSE h.a[p + 1]
    IN  [k \in 1..Cardinality({j \in 1..most : node[j] # 0}) |-> node[k]]

\* Bug: the tags are forgotten.
IntsNoTags(bytes) ==
    LET ints == ((bytes + 3) % Word) \div 4
    IN  IF ints < 4 THEN 4 ELSE ints

\* Words for the payload and the two tags; an available block needs four.
Ints(bytes) ==
    LET ints == ((bytes + 3) % Word) \div 4 + 2
    IN  IF ints < 4 THEN 4 ELSE ints

\* The places in the list of the blocks malloc compares: the first ones that
\* are large enough, countDown of them.
Fitting(h, ints, countDown) ==
    LET list == FreeList(h)
        fit == {k \in DOMAIN list : Size(h, list[k]) >= ints}
    IN  {k \in fit : Cardinality({j \in fit : j < k}) < countDown}

\* The smallest of them, the first one if there are several.
Best(h, fit) ==
    LET list == FreeList(h)
        size(k) == Size(h, list[k])
        smallest == CHOOSE k \in fit : \A j \in fit :
                        size(k) < size(j) \/ (size(k) = size(j) /\ k <= j)
    IN  list[smallest]

\* Bug: a remainder of one to three words is split off as well.
CarveSlivers(h, it, ints) ==
    LET sz == Size(h, it)
        h1 == Unlink(h, it)
    IN  IF sz > ints THEN MakeAvail(MakeTaken(h1, it, ints), it + ints, sz - ints)
        ELSE MakeTaken(h1, it, sz)

\* Take the block, and give back the rest if it can be a block.
Carve(h, it, ints) ==
    LET sz == Size(h, it)
        h1 == Unlink(h, it)
    IN  IF sz - ints >= 4
        THEN MakeAvail(MakeTaken(h1, it, ints), it + ints, sz - ints)
        ELSE MakeTaken(h1, it, sz)

\* The caller fills the block it got from word `from` on, each word with its
\* number, so that whoever writes there later is found out.
Fill(h, it, from) ==
    [h EXCEPT !.a = [k \in DOMAIN h.a |->
        IF k >= it + from /\ k < Right(h, it) - 1 THEN k - it ELSE h.a[k]]]

Update(h) == array' = h.a /\ avail' = h.avail

\* malloc(0) returns the heap itself and is not a block.
Malloc(bytes, countDown) ==
    /\ bytes > 0
    /\ LET fit == Fitting(State, Ints(bytes), countDown)
           it == Best(State, fit)
       IN  /\ fit # {}
           /\ Update(Fill(Carve(State, it, Ints(bytes)), it, 1))
           /\ owned' = [i \in DOMAIN owned \union {it} |->
                            IF i = it THEN bytes ELSE owned[i]]

\* malloc returns nullptr.
MallocFails(bytes, countDown) ==
    /\ bytes > 0
    /\ Fitting(State, Ints(bytes), countDown) = {}
    /\ UNCHANGED heapVars

\* Bug: the right neighbour is not merged.
MergeLeftOnly(h, i) ==
    LET l == Left(h, i)
        sz == Size(h, i) + (IF IsAvail(h, l) THEN Size(h, l) ELSE 0)
        h1 == IF IsAvail(h, l) THEN Unlink(h, l) ELSE h
    IN  MakeAvail(h1, IF IsAvail(h, l) THEN l ELSE i, sz)

\* Merge with the neighbours that are available.
Merge(h, i) ==
    LET l == Left(h, i)
        r == Right(h, i)
        sz == Size(h, i) + (IF IsAvail(h, l) THEN Size(h, l) ELSE 0)
                         + (IF IsAvail(h, r) THEN Size(h, r) ELSE 0)
        h1 == IF IsAvail(h, l) THEN Unlink(h, l) ELSE h
        h2 == IF IsAvail(h, r) THEN Unlink(h1, r) ELSE h1
    IN  MakeAvail(h2, IF IsAvail(h, l) THEN l ELSE i, sz)

\* What a freed block holds, the first of the list, is of no interest to
\* anybody and is not kept apart from its tags and links.
Forget(h) ==
    [h EXCEPT !.a = [k \in DOMAIN h.a |->
        IF k > h.avail + 2 /\ k < Right(h, h.avail) - 1 THEN 0 ELSE h.a[k]]]

Without(i) == [j \in DOMAIN owned \ {i} |-> owned[j]]

\* free, called with a block malloc returned; free(0) and free of the heap
\* itself do nothing.
FreeBlock(i) ==
    /\ i \in DOMAIN owned
    /\ Update(Forget(Merge(State, i)))
    /\ owned' = Without(i)

KernelNext ==
    \/ \E bytes \in Requests :
            Malloc(bytes, Candidates) \/ MallocFails(bytes, Candidates)
    \/ \E i \in DOMAIN owned : FreeBlock(i)

-----------------------------------------------------------------------------

\* The headers a walk over the sizes meets, from the left end of the heap.
Blocks ==
    LET most == len \div 2
        start[k \in 1..most] ==
            IF k = 1 THEN 0
            ELSE LET i == start[k - 1] IN
                 IF i >= len \/ array[i] = 0 THEN len ELSE Right(State, i)
    IN  {start[k] : k \in 1..most} \ {len}

\* The blocks fill the heap without gap or overlap, and the two tags of each
\* agree, so free() finds the true neighbours on both sides; and it has merged
\* them: no two neighbours are both available, so the memory of freed blocks
\* can be used for larger ones.
Tiled ==
    LET blocks == Blocks IN
    /\ \A i \in blocks : /\ Right(State, i) \in blocks \union {len}
                         /\ array[i] # 0
                         /\ array[i] = array[Right(State, i) - 1]
    /\ {0, len - 2} \subseteq blocks
    /\ \A i \in blocks \ {len - 2} :
            IsAvail(State, i) => ~IsAvail(State, Right(State, i))

\* The list holds exactly the available blocks, each of them once, and its
\* links agree in both directions.
FreeListExact ==
    LET list == FreeList(State) IN
    /\ ToSet(list) = {i \in Blocks : IsAvail(State, i)}
    /\ IsInjective(list)
    /\ \A k \in DOMAIN list :
            array[list[k] + 2] = IF k = 1 THEN 0 ELSE list[k - 1]

\* What malloc returned stays a taken block of its own, large enough for the
\* request and with the words its owner wrote, until it is freed, whatever is
\* allocated and freed around it.
OwnedIntact ==
    LET blocks == Blocks \ {0, len - 2} IN
    \A i \in DOMAIN owned :
        /\ i \in blocks
        /\ ~IsAvail(State, i)
        /\ 4 * (Size(State, i) - 2) >= owned[i]
        /\ \A k \in 1..((owned[i] + 3) \div 4) : array[i + k] = k

=============================================================================
