------------------------------ MODULE Regions -------------------------------
(***************************************************************************)
(* What an address space promises to mmap and munmap: a set of regions     *)
(* that lie between two addresses and never overlap.  The promise ends     *)
(* when it is broken, and holds again for the next program.                *)
(***************************************************************************)
EXTENDS Integers

CONSTANTS Base, Limit, FrameSize

VARIABLES
    mapped,    \* the regions, with their first address and their pages
    promised   \* they are as promised

End(r) == r.start + r.pages * FrameSize

Addresses(r) == r.start..(End(r) - 1)

Region == [start : Base..Limit, pages : 0..((Limit - Base) \div FrameSize),
           user : BOOLEAN]

Init == mapped = {} /\ promised = TRUE

Map == /\ promised /\ promised' = TRUE
       /\ \E r \in mapped' \ mapped :
            /\ r \in Region
            /\ End(r) <= Limit
            /\ \A s \in mapped : Addresses(r) \cap Addresses(s) = {}
            /\ mapped' = mapped \union {r}

Unmap == /\ promised /\ promised' = TRUE
         /\ \E r \in mapped : mapped' = mapped \ {r}

\* The process starts another program.
Clear == mapped' = {} /\ promised' = TRUE

Break == promised' = FALSE

Next == Map \/ Unmap \/ Clear \/ Break

Spec == Init /\ [][Next]_<<mapped, promised>>
=============================================================================
