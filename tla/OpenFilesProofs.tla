--------------------------- MODULE OpenFilesProofs ---------------------------
(***************************************************************************)
(* Proof about module OpenFiles, for any number of processes, files and    *)
(* requests and any size of a file: processes that share a file after fork *)
(* go on where the other one stopped, as long as their calls on it do not  *)
(* overlap, and no read is added to the offset twice when they do.         *)
(***************************************************************************)
EXTENDS OpenFiles, TLAPS

-----------------------------------------------------------------------------
(* The claim is not inductive: between the load and the store of `+=` the  *)
(* new offset is in two local variables.  The strengthening says what they *)
(* hold of each transfer, and that no other one writes the offset of a     *)
(* file whose calls never overlapped.                                      *)

File == [node : {"stdin", "stdout", "file", "nullptr"}, offset : Nat]

Types ==
    /\ files \in Seq(File) /\ Len(files) \in Nat
    /\ total \in Seq(Int) /\ Len(total) = Len(files)
    /\ fdt \in [Procs -> [Slots -> 0..Len(files)]]
    /\ pc \in [Procs -> {"unborn", "user", "load", "store"}]
    /\ file \in [Procs -> 0..Len(files)]
    /\ \A p \in Procs : pc[p] \in {"load", "store"} <=> file[p] # 0
    /\ count \in [Procs -> Int]
    /\ offset \in [Procs -> Nat]

\* The files of which the theorem speaks.
Whole == {i \in 1..Len(files) : files[i].node = "file" /\ i \notin disturbed}

\* What holds of such a file: the transfers on it do not take the offset past
\* what was read, and without an overlap there is one of them at most.
Sound(i) ==
    /\ files[i].offset < Word /\ files[i].offset <= total[i]
    /\ \A p \in Procs : file[p] = i =>
            count[p] >= 0 /\ (pc[p] = "store" => offset[p] <= total[i])
    /\ i \notin overlapped =>
        /\ files[i].offset = total[i]
        /\ \A p, q \in Procs : file[p] = i /\ file[q] = i => p = q
        /\ \A p \in Procs : file[p] = i =>
                /\ files[i].offset + count[p] < Word
                /\ pc[p] = "store" => offset[p] = files[i].offset

IndInv == Types /\ \A i \in Whole : Sound(i)

\* What the types say of a file and of its total.
LEMMA FileIs ==
    ASSUME Types, NEW i \in 1..Len(files)
    PROVE  /\ files[i] \in File /\ files[i].offset \in Nat /\ total[i] \in Int
<1>1. files[i] \in File
    BY DEF Types
<1>2. total[i] \in Int
    BY DEF Types
<1> QED
    BY <1>1, <1>2 DEF File

\* Facts about the constants.
LEMMA ConstantsAre == Word \in Nat /\ Word # 0 /\ FileSize \in Nat /\ FileSize < Word
BY OpenFilesAssumption

\* A file that a step leaves alone, with the transfers on it, stays as it is.
LEMMA Untouched ==
    ASSUME NEW i, Sound(i),
           files'[i].offset = files[i].offset, total'[i] = total[i],
           i \in overlapped' <=> i \in overlapped,
           \A r \in Procs : file'[r] = i =>
                /\ file[r] = i
                /\ pc'[r] = pc[r] /\ count'[r] = count[r] /\ offset'[r] = offset[r]
    PROVE  Sound(i)'
BY DEF Sound

\* A sum in a word.
LEMMA Remainder ==
    ASSUME NEW a \in Int, NEW w \in Nat, w # 0
    PROVE  /\ a % w \in Nat /\ a % w < w
           /\ a >= 0 => a % w <= a
           /\ a >= 0 /\ a < w => a % w = a
<1>1. a % w \in 0..(w - 1)
    OBVIOUS
<1>2. a >= 0 => a % w <= a
    OBVIOUS
<1>3. a >= 0 /\ a < w => a % w = a
    OBVIOUS
<1> QED
    BY <1>1, <1>2, <1>3

\* Storing an offset changes nothing else.
LEMMA OffsetSet ==
    ASSUME Types, NEW i \in 1..Len(files), NEW to \in Nat, SetOffset(i, to)
    PROVE  /\ files' \in Seq(File) /\ Len(files') = Len(files)
           /\ \A j \in 1..Len(files) : files'[j].node = files[j].node
           /\ \A j \in 1..Len(files) : j # i => files'[j].offset = files[j].offset
           /\ files[i].node = "file" => files'[i].offset = to
<1>1. files \in Seq(File)
    BY DEF Types
<1>2. CASE files[i].node = "file"
    <2>1. files' = [files EXCEPT ![i].offset = to]
        BY <1>2 DEF SetOffset
    <2>2. files[i] \in File
        BY <1>1
    <2>3. [files[i] EXCEPT !.offset = to] \in File
        BY <2>2 DEF File
    <2>4. PICK g : g = [files[i] EXCEPT !.offset = to]
        OBVIOUS
    <2>5. g \in File /\ g.node = files[i].node /\ g.offset = to
        BY <2>2, <2>3, <2>4 DEF File
    <2>6. files' = [files EXCEPT ![i] = g]
        BY <2>1, <2>4
    <2>7. /\ files' \in Seq(File) /\ Len(files') = Len(files)
          /\ \A j \in 1..Len(files) : files'[j] = IF j = i THEN g ELSE files[j]
        BY <1>1, <2>5, <2>6
    <2> QED
        BY <2>5, <2>7
<1>3. CASE files[i].node # "file"
    <2>1. files' = files
        BY <1>3 DEF SetOffset
    <2> QED
        BY <1>1, <1>3, <2>1
<1> QED
    BY <1>2, <1>3

\* Nor does counting what was read.
LEMMA TotalSet ==
    ASSUME Types, NEW i \in 1..Len(files), NEW to \in Int, Total(i, to)
    PROVE  /\ total' \in Seq(Int) /\ Len(total') = Len(total)
           /\ \A j \in 1..Len(files) : j # i => total'[j] = total[j]
           /\ i \in Whole => total'[i] = to
<1>1. total \in Seq(Int) /\ Len(total) = Len(files)
    BY DEF Types
<1>2. CASE i \in Whole
    <2>1. total' = [total EXCEPT ![i] = to]
        BY <1>2 DEF Total, Whole
    <2> QED
        BY <1>1, <2>1
<1>3. CASE i \notin Whole
    <2>1. total' = total
        BY <1>3 DEF Total, Whole
    <2> QED
        BY <1>1, <1>3, <2>1
<1> QED
    BY <1>2, <1>3

\* The smaller of two numbers.
LEMMA MinOfTwo ==
    ASSUME NEW a \in Int, NEW b \in Int
    PROVE  Min({a, b}) \in {a, b} /\ Min({a, b}) <= a /\ Min({a, b}) <= b
<1>1. \E x \in {a, b} : \A y \in {a, b} : x <= y
    <2>1. CASE a <= b
        BY <2>1
    <2>2. CASE b <= a
        BY <2>2
    <2> QED
        BY <2>1, <2>2
<1>2. Min({a, b}) = CHOOSE x \in {a, b} : \A y \in {a, b} : x <= y
    BY DEF Min
<1>3. Min({a, b}) \in {a, b} /\ \A y \in {a, b} : Min({a, b}) <= y
    BY <1>1, <1>2
<1> QED
    BY <1>3

\* A read that does not fail ends in a word.
LEMMA ReadFits ==
    ASSUME NEW f \in File, NEW k \in Nat
    PROVE  /\ ReadAll(f, k) \in Int
           /\ ReadAll(f, k) >= 0 /\ f.offset < Word => f.offset + ReadAll(f, k) < Word
<1>1. PICK d \in Int : d = FileSize - f.offset /\ f.offset \in Nat
    BY ConstantsAre DEF File
<1>2. PICK m : m = Min({k, d})
    OBVIOUS
<1>3. m \in {k, d} /\ m <= k /\ m <= d
    BY <1>2, MinOfTwo
<1>4. ReadAll(f, k) = IF f.node # "file" \/ k = 0 THEN 0
                      ELSE IF f.offset > FileSize THEN -1 ELSE m
    BY <1>1, <1>2 DEF ReadAll
<1> QED
    BY <1>1, <1>3, <1>4, ConstantsAre

-----------------------------------------------------------------------------
(* The actions *)

\* A step that changes no file and no transfer.
LEMMA Quiet ==
    ASSUME IndInv, UNCHANGED <<files, file, count, offset, history>>,
           fdt' \in [Procs -> [Slots -> 0..Len(files)]],
           pc' \in [Procs -> {"unborn", "user", "load", "store"}],
           \A r \in Procs : pc'[r] = pc[r] \/ (file[r] = 0 /\ pc'[r] = "user")
    PROVE  IndInv'
<1>1. /\ files' = files /\ file' = file /\ count' = count /\ offset' = offset
      /\ total' = total /\ overlapped' = overlapped /\ disturbed' = disturbed
    BY DEF history
<1>2. Types /\ Len(files) \in Nat
    BY DEF IndInv, Types
<1>3. Types'
    BY <1>1, <1>2 DEF Types
<1>4. ASSUME NEW i \in Whole'
      PROVE  Sound(i)'
    <2>1. i \in Whole /\ Sound(i) /\ i # 0
        BY <1>1, <1>2 DEF Whole, IndInv
    <2>2. \A r \in Procs : file'[r] = i =>
                /\ file[r] = i
                /\ pc'[r] = pc[r] /\ count'[r] = count[r] /\ offset'[r] = offset[r]
        BY <1>1, <2>1
    <2> QED
        BY <1>1, <2>1, <2>2, Untouched
<1> QED
    BY <1>3, <1>4 DEF IndInv

\* fork shares the files and leaves them alone.
LEMMA ForkKeeps ==
    ASSUME IndInv, NEW p \in Procs, NEW q \in Procs, Fork(p, q)
    PROVE  IndInv'
<1>1. /\ pc[q] = "unborn"
      /\ fdt' = [fdt EXCEPT ![q] = fdt[p]]
      /\ pc' = [pc EXCEPT ![q] = "user"]
      /\ UNCHANGED <<files, file, count, offset, history>>
    BY DEF Fork
<1>2. Types
    BY DEF IndInv
<1>3. fdt' \in [Procs -> [Slots -> 0..Len(files)]]
    BY <1>1, <1>2 DEF Types
<1>4. pc' \in [Procs -> {"unborn", "user", "load", "store"}]
    BY <1>1, <1>2 DEF Types
<1>5. file[q] = 0
    BY <1>1, <1>2 DEF Types
<1>6. \A r \in Procs : pc'[r] = pc[r] \/ (file[r] = 0 /\ pc'[r] = "user")
    BY <1>1, <1>2, <1>5 DEF Types
<1> QED
    BY <1>1, <1>3, <1>4, <1>6, Quiet

\* open makes a file that nobody has read.
LEMMA OpenKeeps ==
    ASSUME IndInv, NEW p \in Procs, NEW node \in {"file", "nullptr"}, Open(p, node)
    PROVE  IndInv'
<1>1. PICK at : /\ files' = Append(files, OpenFile(node))
                /\ fdt' = [fdt EXCEPT ![p][at] = Len(files) + 1]
                /\ total' = Append(total, 0)
                /\ UNCHANGED <<pc, file, count, offset, overlapped, disturbed>>
    BY DEF Open, locals
<1>2. OpenFile(node) \in File /\ OpenFile(node).offset = 0
    BY DEF OpenFile, File
<1>3. /\ files \in Seq(File) /\ Len(files) \in Nat
      /\ total \in Seq(Int) /\ Len(total) = Len(files)
      /\ fdt \in [Procs -> [Slots -> 0..Len(files)]]
      /\ file \in [Procs -> 0..Len(files)]
    BY DEF IndInv, Types
<1>4. /\ files' \in Seq(File) /\ Len(files') = Len(files) + 1
      /\ \A i \in 1..Len(files) : files'[i] = files[i]
      /\ files'[Len(files) + 1] = OpenFile(node)
    BY <1>1, <1>2, <1>3
<1>5. /\ total' \in Seq(Int) /\ Len(total') = Len(files) + 1
      /\ \A i \in 1..Len(files) : total'[i] = total[i]
      /\ total'[Len(files) + 1] = 0
    BY <1>1, <1>3
<1>6. 0..Len(files) \subseteq 0..(Len(files) + 1)
    BY <1>3
<1>7. fdt' \in [Procs -> [Slots -> 0..Len(files')]]
    <2>1. PICK g : g = [fdt[p] EXCEPT ![at] = Len(files) + 1]
        OBVIOUS
    <2>2. fdt' = [fdt EXCEPT ![p] = g]
        BY <1>1, <2>1
    <2>3. fdt[p] \in [Slots -> 0..Len(files)] /\ Len(files) + 1 \in 0..(Len(files) + 1)
        BY <1>3
    <2>4. g \in [Slots -> 0..(Len(files) + 1)]
        BY <1>6, <2>1, <2>3
    <2>5. fdt \in [Procs -> [Slots -> 0..(Len(files) + 1)]]
        BY <1>3, <1>6
    <2> QED
        BY <1>4, <2>2, <2>4, <2>5
<1>8. file' \in [Procs -> 0..Len(files')]
    BY <1>1, <1>3, <1>4, <1>6
<1>9. Types'
    BY <1>1, <1>4, <1>5, <1>7, <1>8 DEF IndInv, Types
<1>10. ASSUME NEW i \in Whole'
       PROVE  Sound(i)'
    <2>1. i \in 1..(Len(files) + 1)
        BY <1>4 DEF Whole
    <2>2. CASE i = Len(files) + 1
        <3>1. \A r \in Procs : file'[r] # i
            BY <1>1, <1>3, <2>2
        <3>2. files'[i].offset = 0 /\ total'[i] = 0
            BY <1>2, <1>4, <1>5, <2>2
        <3> QED
            BY <3>1, <3>2, ConstantsAre DEF Sound
    <2>3. CASE i \in 1..Len(files)
        <3>1. files'[i] = files[i] /\ total'[i] = total[i]
            BY <1>4, <1>5, <2>3
        <3>2. Sound(i)
            BY <1>1, <2>3, <3>1 DEF IndInv, Whole
        <3> QED
            BY <1>1, <3>1, <3>2, Untouched
    <2> QED
        BY <1>3, <2>1, <2>2, <2>3
<1> QED
    BY <1>9, <1>10 DEF IndInv

\* close and len.
LEMMA CloseKeeps ==
    ASSUME IndInv, NEW p \in Procs, NEW fd \in Slots, Close(p, fd) \/ LenPanics(p, fd)
    PROVE  IndInv'
<1>1. /\ fdt \in [Procs -> [Slots -> 0..Len(files)]] /\ Len(files) \in Nat
      /\ pc \in [Procs -> {"unborn", "user", "load", "store"}]
    BY DEF IndInv, Types
<1>2. CASE Close(p, fd)
    <2>1. /\ fdt' = [fdt EXCEPT ![p] = [fdt[p] EXCEPT ![fd] = 0]]
          /\ UNCHANGED <<files, pc, file, count, offset, history>>
        BY <1>2 DEF Close, locals
    <2>2. 0 \in 0..Len(files)
        BY <1>1
    <2>3. fdt' \in [Procs -> [Slots -> 0..Len(files)]]
        BY <1>1, <2>1, <2>2
    <2> QED
        BY <1>1, <2>1, <2>3, Quiet
<1>3. CASE LenPanics(p, fd)
    <2>1. UNCHANGED <<files, pc, file, count, offset, history>> /\ fdt' = fdt
        BY <1>3 DEF LenPanics, locals
    <2> QED
        BY <1>1, <2>1, Quiet
<1> QED
    BY <1>2, <1>3

\* seek puts the offset and the total at the same place, and disturbs the file
\* when somebody is in read or write of it.
LEMMA SeekKeeps ==
    ASSUME IndInv, NEW p \in Procs, NEW fd \in Slots, NEW to \in Seeks,
           Seek(p, fd, to)
    PROVE  IndInv'
<1>1. PICK f : f = fdt[p][fd]
    OBVIOUS
<1>2. /\ f # 0 /\ SetOffset(f, to) /\ Total(f, to)
      /\ disturbed' = Also(disturbed, f, Busy(f))
      /\ UNCHANGED <<fdt, pc, file, count, offset, overlapped>>
    BY <1>1 DEF Seek, locals
<1>3. Types /\ f \in 1..Len(files) /\ Len(files) \in Nat
    <2>1. Types /\ f \in 0..Len(files) /\ Len(files) \in Nat
        BY <1>1 DEF IndInv, Types
    <2> QED
        BY <1>2, <2>1
<1>4. to \in Nat /\ to \in Int /\ to < Word
    BY OpenFilesAssumption
<1>5. /\ files' \in Seq(File) /\ Len(files') = Len(files)
      /\ \A j \in 1..Len(files) : files'[j].node = files[j].node
      /\ \A j \in 1..Len(files) : j # f => files'[j].offset = files[j].offset
      /\ files[f].node = "file" => files'[f].offset = to
    BY <1>2, <1>3, <1>4, OffsetSet
<1>6. /\ total' \in Seq(Int) /\ Len(total') = Len(total)
      /\ \A j \in 1..Len(files) : j # f => total'[j] = total[j]
      /\ f \in Whole => total'[f] = to
    BY <1>2, <1>3, <1>4, TotalSet
<1>7. Types'
    BY <1>2, <1>3, <1>5, <1>6 DEF Types
<1>8. ASSUME NEW i \in Whole'
      PROVE  Sound(i)'
    <2>1. i \in 1..Len(files) /\ files[i].node = "file" /\ i \notin disturbed'
        BY <1>5 DEF Whole
    <2>2. i \in Whole
        BY <1>2, <2>1 DEF Whole, Also
    <2>3. CASE i = f
        <3>1. \A r \in Procs : file'[r] # i
            BY <1>2, <2>1, <2>3 DEF Also, Busy
        <3>2. files'[i].offset = to /\ total'[i] = to
            BY <1>5, <1>6, <2>1, <2>2, <2>3
        <3> QED
            BY <1>4, <3>1, <3>2 DEF Sound
    <2>4. CASE i # f
        <3>1. files'[i].offset = files[i].offset /\ total'[i] = total[i]
            BY <1>5, <1>6, <2>1, <2>4
        <3>2. Sound(i)
            BY <2>2 DEF IndInv
        <3> QED
            BY <1>2, <3>1, <3>2, Untouched
    <2> QED
        BY <2>3, <2>4
<1> QED
    BY <1>7, <1>8 DEF IndInv

\* read and write begin: nothing is promised of a file any more on which one
\* fails, and only the sum of a file on which another one is at work.
LEMMA TransferKeeps ==
    ASSUME IndInv, NEW p \in Procs, file[p] = 0, NEW f \in 1..Len(files),
           NEW bytes \in Int, Transfer(p, f, bytes),
           bytes >= 0 /\ files[f].node = "file" /\ files[f].offset < Word
                => files[f].offset + bytes < Word
    PROVE  IndInv'
<1>1. /\ file' = [file EXCEPT ![p] = f]
      /\ count' = [count EXCEPT ![p] = bytes]
      /\ pc' = [pc EXCEPT ![p] = "load"]
      /\ overlapped' = Also(overlapped, f, Busy(f))
      /\ disturbed' = Also(disturbed, f, bytes < 0)
      /\ UNCHANGED <<files, fdt, offset, total>>
    BY DEF Transfer
<1>2. Types /\ Len(files) \in Nat
    BY DEF IndInv, Types
<1>3. /\ file'[p] = f /\ count'[p] = bytes /\ pc'[p] = "load"
      /\ \A r \in Procs \ {p} : /\ file'[r] = file[r] /\ count'[r] = count[r]
                                /\ pc'[r] = pc[r]
    BY <1>1, <1>2 DEF Types
<1>4. Types'
    <2>1. \A r \in Procs : pc'[r] \in {"load", "store"} <=> file'[r] # 0
        <3>1. f # 0
            BY <1>2
        <3>2. \A r \in Procs : pc[r] \in {"load", "store"} <=> file[r] # 0
            BY <1>2 DEF Types
        <3> QED
            BY <1>3, <3>1, <3>2
    <2>2. file' \in [Procs -> 0..Len(files)] /\ count' \in [Procs -> Int]
        BY <1>1, <1>2 DEF Types
    <2>3. pc' \in [Procs -> {"unborn", "user", "load", "store"}]
        BY <1>1, <1>2 DEF Types
    <2> QED
        BY <1>1, <1>2, <2>1, <2>2, <2>3 DEF Types
<1>5. ASSUME NEW i \in Whole'
      PROVE  Sound(i)'
    <2>1. i \in 1..Len(files) /\ files[i].node = "file" /\ i \notin disturbed'
        BY <1>1 DEF Whole
    <2>2. i \in Whole /\ Sound(i)
        BY <1>1, <2>1 DEF Whole, Also, IndInv
    <2>3. CASE i = f
        <3>1. bytes >= 0 /\ files[f].offset + bytes < Word
            BY <1>1, <2>1, <2>2, <2>3 DEF Also, Sound
        <3>2. /\ files'[i].offset = files[i].offset /\ total'[i] = total[i]
              /\ files[i].offset < Word /\ files[i].offset <= total[i]
            BY <1>1, <2>2 DEF Sound
        <3>3. ASSUME NEW r \in Procs, file'[r] = i
              PROVE  count'[r] >= 0 /\ (pc'[r] = "store" => offset'[r] <= total'[i])
            <4>1. CASE r = p
                BY <1>3, <3>1, <4>1
            <4>2. CASE r # p
                BY <1>1, <1>3, <2>2, <3>3, <4>2 DEF Sound
            <4> QED
                BY <4>1, <4>2
        <3>4. ASSUME i \notin overlapped'
              PROVE  /\ files'[i].offset = total'[i]
                     /\ \A r \in Procs : file'[r] = i => r = p
                     /\ files'[i].offset + count'[p] < Word
            <4>1. i \notin overlapped /\ ~ Busy(i)
                BY <1>1, <2>1, <2>3, <3>4 DEF Also
            <4>2. \A r \in Procs : file'[r] = i => r = p
                BY <1>3, <4>1 DEF Busy
            <4>3. files[i].offset = total[i]
                BY <2>2, <4>1 DEF Sound
            <4> QED
                BY <1>3, <2>3, <3>1, <3>2, <4>2, <4>3
        <3> QED
            BY <1>3, <3>2, <3>3, <3>4 DEF Sound
    <2>4. CASE i # f
        <3>1. i \in overlapped' <=> i \in overlapped
            BY <1>1, <2>4 DEF Also
        <3>2. \A r \in Procs : file'[r] = i =>
                /\ file[r] = i
                /\ pc'[r] = pc[r] /\ count'[r] = count[r] /\ offset'[r] = offset[r]
            BY <1>1, <1>3, <2>4
        <3> QED
            BY <1>1, <2>2, <3>1, <3>2, Untouched
    <2> QED
        BY <2>3, <2>4
<1> QED
    BY <1>4, <1>5 DEF IndInv

\* read stays within a word, and write of a file fails.
LEMMA ReadWriteKeep ==
    ASSUME IndInv, NEW p \in Procs, NEW fd \in Slots, NEW k \in Requests,
           Read(p, fd, k) \/ Write(p, fd, k)
    PROVE  IndInv'
<1>1. PICK f : f = fdt[p][fd]
    OBVIOUS
<1>2. pc[p] = "user" /\ f # 0
    BY <1>1 DEF Read, Write, Valid, User
<1>3. Types /\ f \in 0..Len(files) /\ Len(files) \in Nat
    BY <1>1 DEF IndInv, Types
<1>4. file[p] = 0 /\ f \in 1..Len(files) /\ files[f] \in File /\ k \in Nat
    <2>1. f \in 1..Len(files)
        BY <1>2, <1>3
    <2>2. file[p] = 0
        BY <1>2, <1>3 DEF Types
    <2> QED
        BY <1>3, <2>1, <2>2, FileIs, OpenFilesAssumption
<1>5. CASE Read(p, fd, k)
    <2>1. PICK bytes \in Int : bytes = ReadAll(files[f], k)
        BY <1>4, ReadFits
    <2>2. bytes >= 0 /\ files[f].offset < Word => files[f].offset + bytes < Word
        BY <1>4, <2>1, ReadFits
    <2>3. Transfer(p, f, bytes)
        BY <1>1, <1>5, <2>1 DEF Read
    <2> QED
        BY <1>4, <2>2, <2>3, TransferKeeps
<1>6. CASE Write(p, fd, k)
    <2>1. PICK bytes \in Int : /\ bytes = WriteNode(files[f], k)
                               /\ files[f].node = "file" => bytes = -1
        BY <1>4 DEF WriteNode
    <2>2. Transfer(p, f, bytes)
        BY <1>1, <1>6, <2>1 DEF Write
    <2>3. ~ (bytes >= 0 /\ files[f].node = "file")
        BY <2>1
    <2> QED
        BY <1>4, <2>2, <2>3, TransferKeeps
<1> QED
    BY <1>5, <1>6

\* The load of `+=`.
LEMMA LoadKeeps ==
    ASSUME IndInv, NEW p \in Procs, Load(p)
    PROVE  IndInv'
<1>1. /\ pc[p] = "load"
      /\ offset' = [offset EXCEPT ![p] = files[file[p]].offset]
      /\ pc' = [pc EXCEPT ![p] = "store"]
      /\ UNCHANGED <<files, fdt, file, count, total, overlapped, disturbed>>
    BY DEF Load, history
<1>2. Types /\ Whole' = Whole
    BY <1>1 DEF IndInv, Whole
<1>3. /\ pc'[p] = "store" /\ offset'[p] = files[file[p]].offset
      /\ \A r \in Procs \ {p} : pc'[r] = pc[r] /\ offset'[r] = offset[r]
    BY <1>1, <1>2 DEF Types
<1>4. file[p] \in 1..Len(files)
    <2>1. file[p] \in 0..Len(files) /\ file[p] # 0 /\ Len(files) \in Nat
        BY <1>1, <1>2 DEF Types
    <2> QED
        BY <2>1
<1>5. Types'
    <2>1. offset' \in [Procs -> Nat]
        <3>1. files[file[p]].offset \in Nat
            BY <1>2, <1>4, FileIs
        <3> QED
            BY <1>1, <1>2, <3>1 DEF Types
    <2>2. pc' \in [Procs -> {"unborn", "user", "load", "store"}]
        BY <1>1, <1>2 DEF Types
    <2>3. \A r \in Procs : pc'[r] \in {"load", "store"} <=> file'[r] # 0
        BY <1>1, <1>2, <1>3 DEF Types
    <2> QED
        BY <1>1, <1>2, <2>1, <2>2, <2>3 DEF Types
<1>6. ASSUME NEW i \in Whole'
      PROVE  Sound(i)'
    <2>1. Sound(i)
        BY <1>2 DEF IndInv
    <2>2. /\ files'[i].offset = files[i].offset /\ total'[i] = total[i]
          /\ overlapped' = overlapped /\ file' = file /\ count' = count
        BY <1>1
    <2>3. ASSUME NEW r \in Procs, file[r] = i, pc'[r] = "store"
          PROVE  /\ offset'[r] <= total[i]
                 /\ i \notin overlapped => offset'[r] = files[i].offset
        <3>1. CASE r = p
            BY <1>3, <2>1, <2>3, <3>1 DEF Sound
        <3>2. CASE r # p
            BY <1>3, <2>1, <2>3, <3>2 DEF Sound
        <3> QED
            BY <3>1, <3>2
    <2> QED
        BY <2>1, <2>2, <2>3 DEF Sound
<1> QED
    BY <1>5, <1>6 DEF IndInv

\* The store of `+=`: what was loaded was no more than what was read before,
\* and the very offset unless another call was at work.
LEMMA StoreKeeps ==
    ASSUME IndInv, NEW p \in Procs, Store(p)
    PROVE  IndInv'
<1>1. PICK f, sum, to : /\ f = file[p] /\ sum = offset[p] + count[p]
                        /\ to = sum % Word
    OBVIOUS
<1>2. /\ pc[p] = "store" /\ SetOffset(f, to) /\ Total(f, total[f] + count[p])
      /\ pc' = [pc EXCEPT ![p] = "user"]
      /\ file' = [file EXCEPT ![p] = 0]
      /\ count' = [count EXCEPT ![p] = 0]
      /\ offset' = [offset EXCEPT ![p] = 0]
      /\ UNCHANGED <<fdt, overlapped, disturbed>>
    BY <1>1 DEF Store, Ended
<1>3. Types /\ Len(files) \in Nat /\ count[p] \in Int /\ offset[p] \in Nat
    BY DEF IndInv, Types
<1>4. f \in 1..Len(files)
    <2>1. f \in 0..Len(files) /\ f # 0
        BY <1>1, <1>2, <1>3 DEF Types
    <2> QED
        BY <1>3, <2>1
<1>5. /\ sum \in Int /\ to \in Nat /\ to < Word
      /\ sum >= 0 => to <= sum
      /\ sum >= 0 /\ sum < Word => to = sum
    <2>1. sum \in Int
        BY <1>1, <1>3
    <2>2. PICK word \in Nat : word = Word /\ word # 0
        BY ConstantsAre
    <2> QED
        BY <1>1, <2>1, <2>2, Remainder
<1>6. total[f] \in Int /\ total[f] + count[p] \in Int
    BY <1>3, <1>4, FileIs
<1>7. /\ files' \in Seq(File) /\ Len(files') = Len(files)
      /\ \A j \in 1..Len(files) : files'[j].node = files[j].node
      /\ \A j \in 1..Len(files) : j # f => files'[j].offset = files[j].offset
      /\ files[f].node = "file" => files'[f].offset = to
    BY <1>2, <1>3, <1>4, <1>5, OffsetSet
<1>8. /\ total' \in Seq(Int) /\ Len(total') = Len(total)
      /\ \A j \in 1..Len(files) : j # f => total'[j] = total[j]
      /\ f \in Whole => total'[f] = total[f] + count[p]
    BY <1>2, <1>3, <1>4, <1>6, TotalSet
<1>9. /\ pc'[p] = "user" /\ file'[p] = 0
      /\ \A r \in Procs \ {p} : /\ pc'[r] = pc[r] /\ file'[r] = file[r]
                                /\ count'[r] = count[r] /\ offset'[r] = offset[r]
    BY <1>2, <1>3 DEF Types
<1>10. Types'
    <2>1. file' \in [Procs -> 0..Len(files)]
        <3>1. 0 \in 0..Len(files)
            BY <1>3
        <3> QED
            BY <1>2, <1>3, <3>1 DEF Types
    <2>2. \A r \in Procs : pc'[r] \in {"load", "store"} <=> file'[r] # 0
        BY <1>3, <1>9 DEF Types
    <2>3. /\ count' \in [Procs -> Int] /\ offset' \in [Procs -> Nat]
          /\ pc' \in [Procs -> {"unborn", "user", "load", "store"}]
        BY <1>2, <1>3 DEF Types
    <2> QED
        BY <1>2, <1>3, <1>7, <1>8, <2>1, <2>2, <2>3 DEF Types
<1>11. ASSUME NEW i \in Whole'
       PROVE  Sound(i)'
    <2>1. i \in 1..Len(files) /\ i \in Whole /\ Sound(i) /\ i # 0
        BY <1>2, <1>3, <1>7 DEF Whole, IndInv
    <2>2. \A r \in Procs : file'[r] = i =>
                /\ file[r] = i /\ r # p
                /\ pc'[r] = pc[r] /\ count'[r] = count[r] /\ offset'[r] = offset[r]
        BY <1>9, <2>1
    <2>3. CASE i = f
        <3>1. files'[i].offset = to /\ total'[i] = total[i] + count[p]
            BY <1>7, <1>8, <2>1, <2>3 DEF Whole
        <3>2. count[p] >= 0 /\ offset[p] <= total[i]
            BY <1>1, <1>2, <2>1, <2>3 DEF Sound
        <3>3. total[i] \in Int /\ sum = offset[p] + count[p]
            BY <1>1, <1>6, <2>3
        <3>4. to <= total[i] + count[p]
            BY <1>3, <1>5, <3>2, <3>3
        <3>5. ASSUME NEW r \in Procs, file'[r] = i
              PROVE  count'[r] >= 0 /\ (pc'[r] = "store" => offset'[r] <= total'[i])
            <4>1. count[r] >= 0 /\ (pc[r] = "store" => offset[r] <= total[i])
                BY <2>1, <2>2, <3>5 DEF Sound
            <4>2. offset[r] \in Nat
                BY <1>3 DEF Types
            <4> QED
                BY <1>3, <2>2, <3>1, <3>2, <3>3, <3>5, <4>1, <4>2
        <3>6. ASSUME i \notin overlapped
              PROVE  /\ to = total[i] + count[p]
                     /\ \A r \in Procs : file'[r] # i
            <4>1. /\ files[i].offset = total[i] /\ offset[p] = files[i].offset
                  /\ files[i].offset + count[p] < Word
                BY <1>1, <1>2, <2>1, <2>3, <3>6 DEF Sound
            <4>2. to = total[i] + count[p]
                BY <1>3, <1>5, <3>2, <3>3, <4>1
            <4>3. \A r \in Procs : file[r] = i => r = p
                BY <1>1, <2>1, <2>3, <3>6 DEF Sound
            <4> QED
                BY <2>2, <4>2, <4>3
        <3> QED
            BY <1>2, <1>5, <3>1, <3>4, <3>5, <3>6 DEF Sound
    <2>4. CASE i # f
        <3>1. files'[i].offset = files[i].offset /\ total'[i] = total[i]
            BY <1>7, <1>8, <2>1, <2>4
        <3> QED
            BY <1>2, <2>1, <2>2, <3>1, Untouched
    <2> QED
        BY <2>3, <2>4
<1> QED
    BY <1>10, <1>11 DEF IndInv

-----------------------------------------------------------------------------

\* Every step keeps the inductive invariant.
LEMMA Inductive == IndInv /\ [Next]_vars => IndInv'
<1> SUFFICES ASSUME IndInv, [Next]_vars
             PROVE  IndInv'
    OBVIOUS
<1>1. CASE UNCHANGED vars
    <2>1. UNCHANGED <<files, fdt, pc, file, count, offset, history>>
        BY <1>1 DEF vars, locals
    <2>2. /\ fdt \in [Procs -> [Slots -> 0..Len(files)]]
          /\ pc \in [Procs -> {"unborn", "user", "load", "store"}]
        BY DEF IndInv, Types
    <2> QED
        BY <2>1, <2>2, Quiet
<1>2. ASSUME NEW p \in Procs, NEW q \in Procs, Fork(p, q)
      PROVE  IndInv'
    BY <1>2, ForkKeeps
<1>3. ASSUME NEW p \in Procs, NEW node \in {"file", "nullptr"}, Open(p, node)
      PROVE  IndInv'
    BY <1>3, OpenKeeps
<1>4. ASSUME NEW p \in Procs, NEW fd \in Slots, Close(p, fd) \/ LenPanics(p, fd)
      PROVE  IndInv'
    BY <1>4, CloseKeeps
<1>5. ASSUME NEW p \in Procs, NEW fd \in Slots, NEW to \in Seeks, Seek(p, fd, to)
      PROVE  IndInv'
    BY <1>5, SeekKeeps
<1>6. ASSUME NEW p \in Procs, NEW fd \in Slots, NEW k \in Requests,
             Read(p, fd, k) \/ Write(p, fd, k)
      PROVE  IndInv'
    BY <1>6, ReadWriteKeep
<1>7. ASSUME NEW p \in Procs, Load(p) \/ Store(p)
      PROVE  IndInv'
    BY <1>7, LoadKeeps, StoreKeeps
<1> QED
    BY <1>1, <1>2, <1>3, <1>4, <1>5, <1>6, <1>7 DEF Next

\* One process, with its three consoles.
LEMMA Starts == Init => IndInv
<1> SUFFICES ASSUME Init
             PROVE  IndInv
    OBVIOUS
<1>1. /\ files = <<OpenFile("stdin"), OpenFile("stdout"), OpenFile("stdout")>>
      /\ OpenFile("stdin") \in File /\ OpenFile("stdout") \in File
      /\ OpenFile("stdin").node # "file" /\ OpenFile("stdout").node # "file"
    BY DEF Init, OpenFile, File
<1>2. files \in Seq(File) /\ Len(files) = 3 /\ \A i \in 1..3 : files[i].node # "file"
    BY <1>1
<1>3. /\ pc = [p \in Procs |-> IF p = First THEN "user" ELSE "unborn"]
      /\ file = [p \in Procs |-> 0] /\ count = [p \in Procs |-> 0]
      /\ offset = [p \in Procs |-> 0]
      /\ total \in Seq(Int) /\ Len(total) = 3
    BY DEF Init
<1>4. fdt \in [Procs -> [Slots -> 0..3]]
    BY DEF Init, Slots
<1>5. Types
    BY <1>2, <1>3, <1>4 DEF Types
<1>6. Whole = {}
    BY <1>2 DEF Whole
<1> QED
    BY <1>5, <1>6 DEF IndInv

\* However many processes there are and whatever they call, the offset of a
\* file on which no call has failed and into whose calls no seek has come is no
\* more than what was read, and exactly that if no two calls overlapped.
THEOREM KeepsPosition == Spec => []PositionKept
<1>1. IndInv => PositionKept
    <2>1. ASSUME Types
          PROVE  DOMAIN files = 1..Len(files)
        BY <2>1 DEF Types
    <2> QED
        BY <2>1 DEF IndInv, PositionKept, Whole, Sound
<1> QED
    BY <1>1, Starts, Inductive, PTL DEF Spec

=============================================================================
