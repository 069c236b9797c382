------------------------------ MODULE Loading -------------------------------
(***************************************************************************)
(* Starting a program: execl (kernel/sys.cc), the second half of           *)
(* kernelMain and load_args (kernel/kernel.cc), and ELF::load              *)
(* (kernel/elf.cc), over the regions of module VME; then the program's own *)
(* mmap and munmap, and the next execl.                                    *)
(*                                                                         *)
(* What is written to the area is written through page faults, which end   *)
(* the process where there is no region (module Memory).                   *)
(***************************************************************************)
EXTENDS VME

CONSTANTS
    Programs,   \* files: whether the magic is right, and the program headers
    ArgLists,   \* for every argument its length, with the terminating zero
    StackSize   \* stack_size, 2^27 in the code

\* The fields of the headers of a file that ELF::load looks at; held: how much
\* of the filesz bytes of contents the file has, as offset tells.
ProgramHeader(type, vaddr, filesz, memsz, held) ==
    [type |-> type, vaddr |-> vaddr, filesz |-> filesz, memsz |-> memsz,
     held |-> held]
ElfHeader(magic, hs) == [elf |-> magic, headers |-> hs]

\* A file may say what it likes.
Uint32 == 0..(Word - 1)
HeaderType ==
    [type : Nat, vaddr : Uint32, filesz : Uint32, memsz : Uint32, held : Uint32]

ASSUME LoadingAssumption ==
    /\ StackSize \in Nat \ {0} /\ StackSize <= Base /\ Limit + StackSize < Word
    /\ StackSize % FrameSize = 0 /\ FrameSize % 16 = 0
    /\ \A f \in Programs : /\ f.headers \in Seq(HeaderType)
                           /\ \A i \in DOMAIN f.headers :
                                f.headers[i].held <= f.headers[i].filesz
    /\ ArgLists \subseteq Seq(Nat)

VARIABLES
    mode,     \* what the thread is doing
    headers,  \* the program headers that are not looked at yet
    argv,     \* k_argv
    stack,    \* stack_start
    esp,      \* userEsp
    loaded    \* history: the segments loaded

loading == <<headers, argv, stack, esp, loaded>>
vars == <<vme, mode, loading>>

Init == /\ VMEInit
        /\ mode = "boot"
        /\ headers = <<>> /\ argv = <<>>
        /\ stack = 0 /\ esp = 0
        /\ loaded = {}

\* The pages of [from, from + size) all belong to regions.
Mapped(from, size) ==
    \A page \in (from \div FrameSize)..((from + size - 1) \div FrameSize) :
        \E i \in DOMAIN entries :
            LET va == page * FrameSize IN
            entries[i].start <= va /\ va < End(entries[i])

\* What the first byte that cannot be written as it should does to a thread
\* that goes from one address to the next: below the area lies the kernel,
\* whose pages are all there.  (The regions that processes share, behind
\* Limit, are not in this module: a write that comes there finds no region.)
Write(from, size, next) ==
    CASE size > 0 /\ from < Base -> "kernel written"
      [] size > 0 /\ from >= Base /\ ~Mapped(from, size) -> "dead"
      [] OTHER -> next

-----------------------------------------------------------------------------

\* The file's headers are taken one after the other, or it is a panic if the
\* file is not a program.
ReadHeader(f) ==
    /\ headers' = f.headers
    /\ mode' = IF f.elf THEN "segment" ELSE "panic"

\* execl of a path that leads to a file, with arguments that are where user
\* data can be: the address space is cleared and the header read.  kernelMain
\* comes here with a new address space.
Exec(f, a) ==
    /\ mode \in {"boot", "user"}
    /\ avail' = Base /\ entries' = <<>> /\ free_entries' = <<>> /\ wrapped' = FALSE
    /\ argv' = a
    /\ ReadHeader(f)
    /\ stack' = 0 /\ esp' = 0 /\ loaded' = {}

\* A header of something that is not loaded.
SegmentSkip ==
    /\ mode = "segment" /\ headers # <<>>
    /\ Head(headers).type # 1
    /\ headers' = Tail(headers)
    /\ UNCHANGED <<vme, mode, argv, stack, esp, loaded>>

\* The comparison with the limit is one of words, and lets a segment pass that
\* goes around the end of the addresses.
Outside(h) == h.vaddr < Base \/ (h.vaddr + h.memsz) % Word >= Limit

\* A segment outside the area.
SegmentPanics ==
    LET h == Head(headers) IN
    /\ mode = "segment" /\ headers # <<>> /\ h.type = 1
    /\ Outside(h)
    /\ mode' = "panic"
    /\ UNCHANGED <<vme, loading>>

\* Everything up to the segment is mapped, if it is not the first; whether
\* that worked nobody looks.
SegmentGap ==
    LET h == Head(headers) IN
    /\ mode = "segment" /\ headers # <<>> /\ h.type = 1
    /\ ~Outside(h)
    /\ IF h.vaddr > Base THEN Add(h.vaddr - Base, FALSE) ELSE UNCHANGED vme
    /\ mode' = "mmap"
    /\ UNCHANGED loading

SegmentMmap ==
    /\ mode = "mmap"
    /\ Add(Head(headers).memsz, FALSE)
    /\ mode' = "read"
    /\ UNCHANGED loading

\* What is zeroed behind the contents: both are words.  bzero (machine.S)
\* compares its count as a signed number, and does nothing when the contents
\* are a little longer than the segment.
ZeroAt(h) == (h.vaddr + h.filesz) % Word
ZeroLen(h) == LET n == (h.memsz - h.filesz) % Word
              IN  IF n < Word \div 2 THEN n ELSE 0

\* The contents are read and the rest is zeroed, or the first page that is
\* missing ends the process.
SegmentRead ==
    LET h == Head(headers) IN
    /\ mode = "read"
    /\ mode' = Write(h.vaddr, h.held, Write(ZeroAt(h), ZeroLen(h), "segment"))
    /\ headers' = Tail(headers)
    /\ loaded' = loaded \union {h}
    /\ UNCHANGED <<vme, argv, stack, esp>>

\* The stack; the result of mmap, 0 for failure, is used as it is.
Stack ==
    /\ mode = "segment" /\ headers = <<>>
    /\ Add(StackSize, FALSE)
    /\ stack' = IF entries' = entries THEN 0
                ELSE (CHOOSE e \in ToSet(entries') \ ToSet(entries) : TRUE).start
    /\ mode' = "args"
    /\ UNCHANGED <<headers, argv, esp, loaded>>

\* The words and the strings of the arguments.
ArgBytes ==
    MapThenSumSet(LAMBDA i : argv[i], DOMAIN argv) + 4 * (Len(argv) + 2)

\* Rounded up to 16 bytes, and then taken from a pointer to 32 bit words.
ArgRoom == 4 * (((ArgBytes + 15) \div 16) * 16)

\* Bug: the room is not rounded up.
LoadArgsUnaligned ==
    LET at == stack + StackSize - 16 - 4 * ArgBytes IN
    /\ mode = "args"
    /\ esp' = at % Word
    /\ mode' = Write(at % Word, ArgBytes, "user")
    /\ UNCHANGED <<vme, headers, argv, stack, loaded>>

\* load_args.
LoadArgs ==
    LET at == stack + StackSize - 16 - ArgRoom IN
    /\ mode = "args"
    /\ esp' = at % Word
    /\ mode' = Write(at % Word, ArgBytes, "user")
    /\ UNCHANGED <<vme, headers, argv, stack, loaded>>

\* The system calls of the program.
Mmap(size) ==
    /\ mode = "user" /\ Len(entries) < MaxEntries
    /\ Add(size, TRUE)
    /\ UNCHANGED <<mode, loading>>

Unmap(va) ==
    /\ mode = "user"
    /\ Munmap(va, TRUE)
    /\ UNCHANGED <<mode, loading>>

\* Bound: what a process does between a region that goes around the end of the
\* addresses and its next execl is not followed.
Next ==
    \/ \E f \in Programs, a \in ArgLists : Exec(f, a)
    \/ /\ ~wrapped
       /\ \/ SegmentSkip \/ SegmentPanics \/ SegmentGap \/ SegmentMmap
          \/ SegmentRead \/ Stack \/ LoadArgs
          \/ \E size \in Sizes : Mmap(size)
          \/ \E va \in Probes : Unmap(va)

Spec == Init /\ [][Next]_vars

-----------------------------------------------------------------------------

\* What is written of a segment.
Bytes(h) == h.vaddr..(h.vaddr + h.held - 1)
                \union ZeroAt(h)..(ZeroAt(h) + ZeroLen(h) - 1)

\* The program stays where it is: as long as it runs, and no region has gone
\* around the end of the addresses, the pages that its segments were written
\* to and those of its stack belong to regions that its own munmap cannot
\* remove, although mmap put those regions wherever there was room and
\* nobody looked at the result.
ProgramStays ==
    mode = "user" /\ ~wrapped =>
        LET kernels == {i \in DOMAIN entries : ~entries[i].user}
            kept(va) == \E i \in kernels : Covers(entries[i], va)
        IN  /\ \A h \in loaded : \A va \in Bytes(h) : kept(va)
            /\ \A va \in Probes \cap stack..(stack + StackSize - 1) : kept(va)

\* kernel.cc, ASSERT(userEsp % 16 == 0): the stack pointer is aligned, and
\* the arguments lie in the stack and in no segment, if the stack is there,
\* they take no more than a quarter of it, and no region went around the end
\* of the addresses.
ArgsInStack ==
    mode \in {"user", "dead", "kernel written"} /\ esp # 0 /\ stack # 0
        /\ ArgRoom + 16 <= StackSize /\ ~wrapped =>
            /\ mode = "user"
            /\ esp % 16 = 0
            /\ stack <= esp /\ esp + ArgBytes <= stack + StackSize
            /\ \A h \in loaded : Bytes(h) \cap esp..(esp + ArgBytes - 1) = {}

=============================================================================
