-------------------------------- MODULE MCElf --------------------------------
(***************************************************************************)
(* A small executable for a 32-bit build, scaled to 4-byte pages and an    *)
(* 8-bit size_t, off_t and uintptr_t: a text segment at 4 of 6 bytes, a    *)
(* data segment at 14 (not page aligned) with 3 file bytes and 4 bss bytes *)
(* sharing its last page, and a note.  The header may be good, claim one   *)
(* program header more than the file holds, count only the sections        *)
(* before the symbol table, fail a check, or be cut short.                 *)
(***************************************************************************)
EXTENDS Elf, Libkern, SequencesExt

Good == [read |-> 52, signature |-> TRUE, type |-> "ET_EXEC", machine |-> "native",
         phnum |-> 3, shnum |-> 7, entry |-> 4]
MCHeaders ==
    { Good,
      [Good EXCEPT !.phnum = 4],
      [Good EXCEPT !.shnum = 4],
      [Good EXCEPT !.signature = FALSE],
      [Good EXCEPT !.type = "ET_DYN"],
      [Good EXCEPT !.machine = "other"],
      [Good EXCEPT !.read = 10],
      [Good EXCEPT !.read = 0] }

MCPHs ==
    << [type |-> "LOAD", offset |-> 0, vaddr |-> 4, filesz |-> 6, memsz |-> 6, flags |-> {"R", "X"}],
       [type |-> "LOAD", offset |-> 6, vaddr |-> 14, filesz |-> 3, memsz |-> 7, flags |-> {"R", "W"}],
       [type |-> "NOTE", offset |-> 0, vaddr |-> 0, filesz |-> 0, memsz |-> 0, flags |-> {}] >>

Sec(t, al, ad) == [type |-> t, alloc |-> al, addr |-> ad]
MCSHs ==
    << Sec("NULL", FALSE, 0), Sec("PROGBITS", TRUE, 4), Sec("PROGBITS", TRUE, 14),
       Sec("NOBITS", TRUE, 17), Sec("SYMTAB", FALSE, 0), Sec("STRTAB", FALSE, 0),
       Sec("STRTAB", FALSE, 0) >>

Sym(v, n) == [value |-> v, name |-> n]
\* Unsorted, with two symbols at 8 and an undefined one at 0.
\* The kernel file: good, without a symbol table among the sections its
\* header counts, or with a bad signature.
MCKernelHeaders == {Good, [Good EXCEPT !.shnum = 4], [Good EXCEPT !.signature = FALSE]}

MCSymsOf == [k \in {5} |-> << Sym(0, 1), Sym(4, 2), Sym(8, 3), Sym(8, 4), Sym(6, 5) >>]


\* libkern's string routines, for the aarch32 build the run checks (an
\* unsigned plain char, CharSigned = FALSE in elf.cfg): strings of up to two bytes over 'a', 'b' and 200, and
\* numbers up to 300 with the 9-digit and 10-digit edges of stoi and the
\* greatest int.
MCStrs == BoundedSeq({97, 98, 200}, 2)
MCNumbers == (0 .. 300) \cup {4095, 65535, 999999999, 1000000000, 2147483647}
MCFormats == {<< >>, <<97>>, <<97, 10>>}

\* NumberFormatsRoundTrip and StringCompareExact (Libkern.tla) in every
\* state of the run.  The routines read none of the loader's state, so the
\* implication only makes each constant property a state predicate TLC
\* checks as an invariant.
NumbersRoundTrip == TypeOK => NumberFormatsRoundTrip
StringsCompareExact == TypeOK => StringCompareExact

====
