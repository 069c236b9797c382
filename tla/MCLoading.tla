------------------------------ MODULE MCLoading -----------------------------
(* Programs of one and two segments, aligned and not, some that are too     *)
(* large for the area or lie outside it, and a file that is not a program.  *)
(* Segments with contents as long as they are or shorter, longer, and cut   *)
(* short by the end of the file; and segments that go around the end of the *)
(* addresses.                                                               *)
EXTENDS Loading

segment(vaddr, memsz) == ProgramHeader(1, vaddr, memsz, memsz, memsz)
zeroed(vaddr, memsz) == ProgramHeader(1, vaddr, 8, memsz, 8)
cut(vaddr, memsz) == ProgramHeader(1, vaddr, memsz, memsz, 8)
longer(vaddr, memsz, filesz, held) == ProgramHeader(1, vaddr, filesz, memsz, held)
note == ProgramHeader(4, 0, 0, 0, 0)
program(hs) == ElfHeader(TRUE, hs)

MCPrograms == {
    program(<<segment(Base, 40)>>),
    program(<<note, zeroed(Base + 10, 30)>>),
    program(<<segment(Base, 20), segment(Base + 64, 40)>>),
    program(<<zeroed(Base + 64, 40), segment(Base, 20)>>),
    program(<<segment(Base, 300)>>),
    program(<<segment(Base + 200, 100)>>),
    program(<<segment(Base + 280, 40), segment(Base, 64)>>),
    program(<<segment(Base - 16, 8)>>),
    program(<<segment(Base + 300, 500)>>),
    program(<<longer(Base, 20, 30, 30)>>),
    program(<<longer(Base, 20, 200, 200)>>),
    program(<<longer(Base + 64, 20, Word - 40, 16)>>),
    program(<<longer(Base, 20, Word - 40, 16)>>),
    program(<<cut(Base, Word - Base + 40)>>),
    program(<<cut(Base + 64, Word - Base)>>),
    program(<<segment(Word - 32, 40)>>),
    program(<<segment(Base, 100), segment(Word - 32, 40)>>),
    ElfHeader(FALSE, <<>>) }

MCArgLists == {<<>>, <<5>>, <<9, 2>>, <<60>>}
=============================================================================
