------------------------------ MODULE UserHeap ------------------------------
(***************************************************************************)
(* The heap of the user programs, my-test.dir/sbin/heap.c, next to the     *)
(* kernel's.  It has the same tags, free list and merging; its malloc      *)
(* takes the first block that is large enough, which is what the kernel's  *)
(* does when it compares one candidate only; and it has realloc.  There is *)
(* no lock: a user process has one thread.                                 *)
(***************************************************************************)
EXTENDS Heap

VARIABLE user   \* the heap is that of a user program

\* heap_init(), or the kernel's heapInit()
HeapsInit == KernelInit /\ user \in BOOLEAN

\* The first m bytes of what is behind header i, copied behind header it.
Copied(h, i, it, m) ==
    [h EXCEPT !.a = [k \in DOMAIN h.a |->
        IF k > it /\ k <= it + (m + 3) \div 4 THEN h.a[i + (k - it)] ELSE h.a[k]]]

\* The bytes of block i that realloc copies: tags included, of its whole size.
Kept(i, bytes) == IF bytes > 4 * Size(State, i) THEN 4 * Size(State, i) ELSE bytes

\* Where the caller has not yet written, its words being those of `owned`.
Unwritten(i) == (owned[i] + 3) \div 4 + 1

Replaced(i, it, bytes) ==
    owned' = [j \in (DOMAIN owned \ {i}) \union {it} |->
                IF j = it THEN bytes ELSE owned[j]]

\* Bug: the old block is freed before the bytes are copied.
ReallocFreesFirst(i, bytes) ==
    LET h0 == Forget(Merge(State, i))
        fit == Fitting(h0, Ints(bytes), 1)
        it == Best(h0, fit)
        h1 == Carve(h0, it, Ints(bytes))
    IN  /\ bytes > 0 /\ fit # {}
        /\ Update(Fill(Copied(h1, i, it, Kept(i, bytes)), it, Unwritten(i)))
        /\ Replaced(i, it, bytes)

\* realloc of block i: a new block, the bytes of the old one as far as they
\* fit, and the old one is freed.
Realloc(i, bytes) ==
    LET fit == Fitting(State, Ints(bytes), 1)
        it == Best(State, fit)
        h1 == Carve(State, it, Ints(bytes))
        h2 == Fill(Copied(h1, i, it, Kept(i, bytes)), it, Unwritten(i))
    IN  /\ bytes > 0 /\ fit # {}
        /\ Update(Forget(Merge(h2, i)))
        /\ Replaced(i, it, bytes)

\* Where malloc fails realloc returns 0, and has freed the old block all the
\* same, like realloc(p, 0).
ReallocFails(i, bytes) ==
    /\ bytes = 0 \/ Fitting(State, Ints(bytes), 1) = {}
    /\ FreeBlock(i)

UserNext ==
    \/ \E bytes \in Requests : Malloc(bytes, 1) \/ MallocFails(bytes, 1)
    \/ \E i \in DOMAIN owned :
        \/ FreeBlock(i)
        \/ \E bytes \in Requests : Realloc(i, bytes) \/ ReallocFails(i, bytes)

HeapsNext == /\ IF user THEN UserNext ELSE KernelNext
             /\ user' = user

HeapsSpec == HeapsInit /\ [][HeapsNext]_<<heapVars, user>>

=============================================================================
