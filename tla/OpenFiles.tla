----------------------------- MODULE OpenFiles ------------------------------
(***************************************************************************)
(* The file calls of kernel/sys.cc: open, close, len, seek, read and write *)
(* on the descriptor table of a process.  fork copies the table, so parent *)
(* and child share the OpenFiles in it, with one offset, and nothing locks *)
(* an OpenFile.                                                            *)
(***************************************************************************)
EXTENDS Integers, Sequences, FiniteSets, FiniteSetsExt

CONSTANTS
    Procs,      \* the processes
    First,      \* the one that runs first
    Size,       \* PCB_ARR_SIZE
    FileSize,   \* the bytes of a file
    Requests,   \* the third argument of read and write
    Seeks,      \* the offsets seek is called with
    Word,       \* 2^32, scaled down
    MaxFiles,   \* bound: the OpenFiles that are made
    MaxTotal    \* bound: a read begins while no more than this was read

ASSUME OpenFilesAssumption ==
    /\ First \in Procs
    /\ Size \in Nat /\ Size >= 3
    /\ Word \in Nat
    /\ FileSize \in 0..(Word - 1)
    /\ Requests \subseteq Nat
    /\ Seeks \subseteq 0..(Word - 1)
    /\ MaxFiles \in Nat /\ MaxFiles >= 3
    /\ MaxTotal \in Nat

Slots == 0..(Size - 1)

VARIABLES
    files,     \* the OpenFiles: a node and an offset
    fdt,       \* PCB::fdt, as indices into files; 0 is nullptr
    pc,        \* where a process is
    file,      \* the local variable open_file
    count,     \* the local variable bytes_read or bytes_written
    offset,    \* the offset `+=` has loaded
    panicked,  \* an ASSERT has stopped the machine
    \* The history of the OpenFiles:
    total,     \* the last seek plus the bytes of the calls that ended since
    overlapped, \* those read while another call was reading or writing them
    disturbed  \* those sought while one was, and those on which one failed

locals == <<pc, file, count, offset>>
history == <<total, overlapped, disturbed>>
vars == <<files, fdt, locals, panicked, history>>

OpenFile(node) == [node |-> node, offset |-> 0]

\* The constructor of a PCB opens stdin, stdout and stderr.
Init ==
    /\ files = <<OpenFile("stdin"), OpenFile("stdout"), OpenFile("stdout")>>
    /\ fdt = [p \in Procs |-> [i \in Slots |-> IF i < 3 THEN i + 1 ELSE 0]]
    /\ pc = [p \in Procs |-> IF p = First THEN "user" ELSE "unborn"]
    /\ file = [p \in Procs |-> 0]
    /\ count = [p \in Procs |-> 0]
    /\ offset = [p \in Procs |-> 0]
    /\ panicked = FALSE
    /\ total = <<0, 0, 0>>
    /\ overlapped = {}
    /\ disturbed = {}

User(p) == pc[p] = "user" /\ ~panicked

\* PCB::duplicate
Fork(p, q) ==
    /\ User(p) /\ pc[q] = "unborn"
    /\ fdt' = [fdt EXCEPT ![q] = fdt[p]]
    /\ pc' = [pc EXCEPT ![q] = "user"]
    /\ UNCHANGED <<files, file, count, offset, panicked, history>>

\* fs->find returns nullptr for a path that leads nowhere, and open makes an
\* OpenFile of that, too.
Open(p, node) ==
    LET unused == {i \in Slots : fdt[p][i] = 0} IN
    /\ User(p)
    /\ Len(files) < MaxFiles
    /\ unused # {}
    /\ files' = Append(files, OpenFile(node))
    /\ fdt' = [fdt EXCEPT ![p][Min(unused)] = Len(files) + 1]
    /\ total' = Append(total, 0)
    /\ UNCHANGED <<locals, panicked, overlapped, disturbed>>

Close(p, fd) ==
    /\ User(p)
    /\ fdt' = [fdt EXCEPT ![p][fd] = 0]
    /\ UNCHANGED <<files, locals, panicked, history>>

\* The offset of a console is stored but nothing depends on it, so that only
\* the one of a file is kept here.
SetOffset(i, to) ==
    files' = IF files[i].node = "file"
             THEN [files EXCEPT ![i].offset = to]
             ELSE files

Node(p, fd) == files[fdt[p][fd]].node

\* len looks at the descriptor but not at the node behind it.
LenPanics(p, fd) ==
    /\ User(p)
    /\ fdt[p][fd] # 0 /\ Node(p, fd) = "nullptr"
    /\ panicked' = TRUE
    /\ UNCHANGED <<files, fdt, locals, history>>

\* A process is in read or write of that file.
Busy(i) == \E q \in Procs : file[q] = i

\* History is kept of files, not of the consoles.
Also(set, i, cond) ==
    IF cond /\ files[i].node = "file" THEN set \union {i} ELSE set

\* History: from here on, so much was read.
Total(i, to) ==
    total' = IF files[i].node = "file" /\ i \notin disturbed
             THEN [total EXCEPT ![i] = to]
             ELSE total

Seek(p, fd, to) ==
    LET i == fdt[p][fd] IN
    /\ User(p)
    /\ i # 0
    /\ SetOffset(i, to)
    /\ Total(i, to)
    /\ disturbed' = Also(disturbed, i, Busy(i))
    /\ UNCHANGED <<fdt, locals, panicked, overlapped>>

-----------------------------------------------------------------------------
(* read and write *)

\* BlockIO::read_all, and that of the console.
ReadAll(f, k) ==
    IF f.node # "file" \/ k = 0 THEN 0
    ELSE IF f.offset > FileSize THEN -1
    ELSE Min({k, FileSize - f.offset})

\* Only stdout and stderr override BlockIO::write.
WriteNode(f, k) == IF f.node = "stdout" THEN k ELSE -1

\* The early returns of both.
Valid(p, fd) ==
    /\ User(p)
    /\ fdt[p][fd] # 0 /\ Node(p, fd) # "nullptr"

Transfer(p, i, bytes) ==
    /\ file' = [file EXCEPT ![p] = i]
    /\ count' = [count EXCEPT ![p] = bytes]
    /\ pc' = [pc EXCEPT ![p] = "load"]
    /\ overlapped' = Also(overlapped, i, Busy(i))
    /\ disturbed' = Also(disturbed, i, bytes < 0)
    /\ UNCHANGED <<files, fdt, offset, panicked, total>>

Read(p, fd, k) ==
    LET i == fdt[p][fd] IN
    /\ Valid(p, fd)
    /\ total[i] <= MaxTotal
    /\ Transfer(p, i, ReadAll(files[i], k))

Write(p, fd, k) ==
    LET i == fdt[p][fd] IN
    /\ Valid(p, fd)
    /\ Transfer(p, i, WriteNode(files[i], k))

\* open_file->offset += ..., a load and a store that another process may
\* come between.
Load(p) ==
    /\ pc[p] = "load" /\ ~panicked
    /\ offset' = [offset EXCEPT ![p] = files[file[p]].offset]
    /\ pc' = [pc EXCEPT ![p] = "store"]
    /\ UNCHANGED <<files, fdt, file, count, panicked, history>>

\* The transfer of p has ended.
Ended(p) ==
    /\ Total(file[p], total[file[p]] + count[p])
    /\ pc' = [pc EXCEPT ![p] = "user"]
    /\ file' = [file EXCEPT ![p] = 0]
    /\ count' = [count EXCEPT ![p] = 0]
    /\ offset' = [offset EXCEPT ![p] = 0]
    /\ UNCHANGED <<fdt, panicked, overlapped, disturbed>>

\* Bug: the bytes of this call are the new offset.
StoreAssigns(p) ==
    /\ pc[p] = "store" /\ ~panicked
    /\ SetOffset(file[p], count[p] % Word)
    /\ Ended(p)

Store(p) ==
    /\ pc[p] = "store" /\ ~panicked
    /\ SetOffset(file[p], (offset[p] + count[p]) % Word)
    /\ Ended(p)

Next ==
    \E p \in Procs :
        \/ \E q \in Procs : Fork(p, q)
        \/ \E node \in {"file", "nullptr"} : Open(p, node)
        \/ \E fd \in Slots :
            \/ Close(p, fd)
            \/ LenPanics(p, fd)
            \/ \E to \in Seeks : Seek(p, fd, to)
            \/ \E k \in Requests : Read(p, fd, k) \/ Write(p, fd, k)
        \/ Load(p) \/ Store(p)

Spec == Init /\ [][Next]_vars

-----------------------------------------------------------------------------

\* Parent and child go on in a file where the other one stopped: as long as
\* their calls on it do not overlap, its offset is the place of the last seek
\* plus all that was read since, in whichever process and whatever happens to
\* other files.  When reads do overlap, bytes are lost to both or read twice
\* (sys.cc:32 adds to an offset that another read has started from), but no
\* read is added to the offset twice.
PositionKept ==
    \A i \in DOMAIN files \ disturbed :
        files[i].node = "file" =>
            /\ files[i].offset <= total[i]
            /\ i \notin overlapped => files[i].offset = total[i]

=============================================================================
