------------------------------ MODULE FileRead ------------------------------
(***************************************************************************)
(* Reading a file: read and read_all of kernel/block_io.cc, over the block *)
(* map of an ext2 node (Node::read_block, kernel/ext2.cc).  Module Ext2    *)
(* finds the file and starts the read.                                     *)
(*                                                                         *)
(* The blocks of a file are the leaves of the trees its i-node points to.  *)
(* A block of the disk is named here by its path: the pointer of the       *)
(* i-node, then the index in every block of references on the way.  A      *)
(* reference that is 0 on the disk is a path in `holes`.                   *)
(***************************************************************************)
EXTENDS Integers, Sequences, SequencesExt

CONSTANTS
    BlockSize,
    RefsPerBlock,  \* BlockSize / 4 in the code
    Direct,        \* the direct references of an i-node, 12 in the code
    FileSizes,     \* sizes of the files that are read, in bytes
    HoleSets,      \* their holes
    Offsets, Lengths  \* the arguments of read_all

\* The blocks an i-node has references for: behind them follow() fails the
\* assertion d2 < refs_per_block.
MaxBlocks ==
    LET r == RefsPerBlock IN Direct + r + r * r + r * r * r

ASSUME FileReadAssumption ==
    /\ BlockSize \in Nat \ {0} /\ RefsPerBlock \in Nat \ {0}
    /\ Direct \in Nat
    /\ FileSizes \subseteq 0..(MaxBlocks * BlockSize)
    /\ Offsets \subseteq Nat /\ Lengths \subseteq Nat

VARIABLES
    sz, holes,           \* the file
    from, want,          \* the arguments of read_all
    offset, n,           \* its variables ...
    total_count, buffer, \* ... and what it has read
    returned, result     \* whether it has returned, and what

file == <<sz, holes, from, want>>
reading == <<file, offset, n, total_count, buffer, returned, result>>

Hole == << >>

-----------------------------------------------------------------------------
(* Node::read_block *)

\* The reference at `path`, 0 (a hole) if it or a block above it is one.
Ref(path) ==
    IF \E k \in 1..Len(path) : SubSeq(path, 1, k) \in holes THEN Hole ELSE path

\* follow()
Follow(pbn, index) == IF pbn = Hole THEN Hole ELSE Ref(Append(pbn, index))

\* Bug: the direct blocks are not subtracted.
PbnNoDirect(lbn) ==
    IF lbn < Direct THEN Ref(<<"direct", lbn>>)
    ELSE IF lbn < RefsPerBlock THEN Follow(Ref(<<"indirect_1">>), lbn)
    ELSE Follow(Follow(Ref(<<"indirect_2">>), lbn \div RefsPerBlock),
                lbn % RefsPerBlock)

\* The physical block of logical block lbn.
Pbn(lbn) ==
    LET r == RefsPerBlock
        l1 == lbn - Direct
        l2 == l1 - r
        l3 == l2 - r * r
        t == l3 \div r
    IN  CASE lbn < Direct -> Ref(<<"direct", lbn>>)
          [] lbn >= Direct /\ l1 < r -> Follow(Ref(<<"indirect_1">>), l1)
          [] l1 >= r /\ l2 < r * r ->
                Follow(Follow(Ref(<<"indirect_2">>), l2 \div r), l2 % r)
          [] OTHER ->
                Follow(Follow(Follow(Ref(<<"indirect_3">>), t \div r), t % r),
                       l3 % r)

\* The bytes of a block: of a hole zeros, else the block and the position.
ReadBlock(lbn) ==
    [i \in 1..BlockSize |->
        IF Pbn(lbn) = Hole THEN <<Hole, 0>> ELSE <<Pbn(lbn), i - 1>>]

-----------------------------------------------------------------------------
(* BlockIO::read and read_all *)

\* The bytes read() gives: not past the end of the file or of the block.
ActualN(at, desired) ==
    LET left == sz - at
        k == IF desired < left THEN desired ELSE left
        inBlock == BlockSize - (at % BlockSize)
    IN  IF inBlock < k THEN inBlock ELSE k

\* What read() returns: an error behind the end of the file, nothing at it.
ReadCount(at, desired) ==
    IF at > sz THEN -1 ELSE IF at = sz THEN 0 ELSE ActualN(at, desired)

\* Bug: the loop does not look for a read() that gives nothing.
StopsOnError(cnt) == cnt < 0

\* The counts with which the loop in read_all ends.
Stops(cnt) == cnt <= 0

\* Nobody reads; what the file on the disk looks like is open.
ReadInit ==
    /\ sz \in FileSizes
    /\ holes \in HoleSets
    /\ from = 0 /\ want = 0
    /\ offset = 0 /\ n = 0
    /\ total_count = 0
    /\ buffer = << >>
    /\ returned = TRUE
    /\ result = 0

\* The variables of a read_all(at, k) that begins; with k = 0 those of none.
ReadBegins(at, k) ==
    /\ from' = at /\ want' = k
    /\ offset' = at /\ n' = k
    /\ total_count' = 0
    /\ buffer' = << >>
    /\ result' = 0
    /\ UNCHANGED <<sz, holes>>

\* One turn of the loop in read_all, with read() in it.
ReadStep ==
    LET cnt == ReadCount(offset, n)
        first == offset % BlockSize
    IN  /\ ~returned /\ n > 0 /\ ~Stops(cnt)
        /\ buffer' = buffer \o SubSeq(ReadBlock(offset \div BlockSize),
                                      first + 1, first + cnt)
        /\ total_count' = total_count + cnt
        /\ offset' = offset + cnt
        /\ n' = n - cnt
        /\ UNCHANGED <<file, returned, result>>

\* The turn in which read() gives an error, which read_all passes on, or
\* nothing, with which what was read before is all there is.
ReadStops ==
    LET cnt == ReadCount(offset, n) IN
    /\ ~returned /\ n > 0 /\ Stops(cnt)
    /\ returned' = TRUE
    /\ result' = IF cnt < 0 THEN cnt ELSE total_count
    /\ UNCHANGED <<file, offset, n, total_count, buffer>>

\* The loop is over: nothing is left to read.
ReadDone ==
    /\ ~returned /\ n = 0
    /\ returned' = TRUE
    /\ result' = total_count
    /\ UNCHANGED <<file, offset, n, total_count, buffer>>

ReadNext == ReadStep \/ ReadStops \/ ReadDone

\* A descriptor is read from; or it is given up, and nothing is left of it.
ReadCall == \E at \in Offsets, k \in Lengths : ReadBegins(at, k) /\ returned' = FALSE
ReadForgotten == ReadBegins(0, 0) /\ returned' = returned

-----------------------------------------------------------------------------
(* The reference: the leaves of the trees in order. *)

\* What the blocks of references in the sequence t refer to.
Below(t) == FlattenSeq([k \in DOMAIN t |->
                [i \in 1..RefsPerBlock |-> Append(t[k], i - 1)]])

\* All leaves `depth` levels under the blocks of the sequence s.
Under(s, depth) ==
    LET level[d \in 0..depth] == IF d = 0 THEN s ELSE Below(level[d - 1])
    IN  level[depth]

Leaves == [i \in 1..Direct |-> <<"direct", i - 1>>]
          \o Under(<< <<"indirect_1">> >>, 1)
          \o Under(<< <<"indirect_2">> >>, 2)
          \o Under(<< <<"indirect_3">> >>, 3)

Contents(i) ==
    LET leaf == Leaves[(i \div BlockSize) + 1] IN
    IF Ref(leaf) = Hole THEN <<Hole, 0>> ELSE <<leaf, i % BlockSize>>

\* block_io.h, "Read min(n,size_in_bytes - offset) bytes starting at offset":
\* what read_all puts together from partial reads of blocks found through up
\* to three levels of references are the bytes of the file, in order and none
\* twice, with zeros in the holes; and behind the end it is an error, which
\* read_all does not notice when no byte is asked for.
ReadAllExact ==
    returned =>
        LET k == IF want < sz - from THEN want ELSE sz - from IN
        IF from > sz
        THEN result = IF want = 0 THEN 0 ELSE -1
        ELSE /\ result = k
             /\ buffer = [i \in 1..k |-> Contents(from + i - 1)]

\* read_all ends, wherever in the file or behind it it begins and however much
\* is asked for: its loop only knows the bytes it still wants, not the size of
\* the file, and stops at the end because read() gives nothing there.
ReadEnds == ~returned ~> returned

=============================================================================
