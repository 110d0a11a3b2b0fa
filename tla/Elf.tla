--------------------------------- MODULE Elf ---------------------------------
(***************************************************************************)
(* The ELF loader of kernel/tasking/elf.c: elf_load reading the header,   *)
(* the program headers (one memory zone per PT_LOAD) and the section      *)
(* headers (zone types), the zone forbidding address 0 and the stack;     *)
(* then _elf_load_page_content filling a page of a zone on its first      *)
(* fault, and the symbol lookup of elf_find_symtab_unchecked and          *)
(* elf_find_function_in_symtab used by the process dump.  One thread runs *)
(* the loader; pages are filled later, in any order.                      *)
(*                                                                         *)
(* The file is given by its header, its program and section headers and   *)
(* its length; a file byte is named by its offset.  memzone_new,           *)
(* memzone_find and the vfs read are outside src/ and follow spec.md:      *)
(* zones are page aligned and never overlap, and a read stops at the end  *)
(* of the file.                                                            *)
(***************************************************************************)
EXTENDS Integers, Sequences, FiniteSets

CONSTANTS
    PageSize,       \* VMM_PAGE_SIZE
    SizeBits,       \* width of size_t
    OffBits,        \* width of off_t
    PrevBits,       \* width of the uint32_t prev of elf_find_function_in_symtab,
                    \* against SizeBits for uintptr_t
    FileLen,        \* length of the executable file
    HeaderSize,     \* sizeof(elf_header_t)
    Headers,        \* the ELF headers the file may start with; .read is
                    \* what vfs_read returns for it (HeaderSize, or less
                    \* for a file shorter than a header)
    PHs,            \* the program headers present in the file
    SHs,            \* the section headers present in the file
    ShStrNdx,       \* e_shstrndx
    SymsOf,         \* the elf_sym_t entries of each SHT_SYMTAB section
    IPs,            \* instruction pointers the dump looks up
    StackTop,       \* where memzone_new_random_backward puts the stack
    StackSize,      \* USER_STACK_SIZE
    KernelHeaders   \* the headers /boot/kernel.bin may be read with; it
                    \* shares the executable's sections and symbols

ASSUME /\ PageSize \in Nat \ {0}
       /\ SizeBits \in Nat /\ OffBits \in Nat
       /\ \A i \in DOMAIN PHs : PHs[i].filesz <= PHs[i].memsz

VARIABLES
    pc,         \* where elf_load is
    hdr,        \* the header read from the file
    i,          \* the loop index of _elf_do_load
    zones,      \* the process's memory zones
    access,     \* THIS_CPU->data_access_type
    ret,        \* elf_load's return value
    entry,      \* the instruction pointer of the main thread
    mem,        \* contents of the pages filled so far: address -> byte
    found,      \* ghost: the last lookup, <<ip, symbol name or -1>>
    dpc,        \* where the dumper of dump.c is, "none" while the process runs
    khdr,       \* the header of the kernel file
    kmap,       \* kernel_file_mapping_zone.ptr # NULL
    kdata,      \* kernel_dump_data: its symbol table and whether its writer is set
    kpc         \* the kernel: "boot", "ready", or how dump_kernel went

vars == <<pc, hdr, i, zones, access, ret, entry, mem, found, dpc, khdr, kmap, kdata, kpc>>
kvars == <<khdr, kmap, kdata, kpc>>

ENOEXEC == -8
EBADARCH == -200
NoZone == [start |-> 0, len |-> 0]
\* The zero-initialised global kernel_dump_data.
NoDumpData == [syms |-> 0, writer |-> FALSE]

\* The bytes a page may hold: the file byte at offset o, zero, or what the
\* frame held before (vm_alloc_user_page_no_fill_locked does not clear it).
FileByte(o) == o + 1
Zero == 0
Junk == -1

-----------------------------------------------------------------------------
(* Integer conversions of the page-content arithmetic.                     *)

SizeT(n) == n % (2 ^ SizeBits)
\* rem_len > offset with rem_len a size_t and offset an off_t: a wider
\* off_t compares the values; otherwise offset is converted to size_t.
RemGreater(rem, off) == IF OffBits > SizeBits THEN rem > off ELSE rem > SizeT(off)

PageStart(a) == a - (a % PageSize)
PageEnd(a) == PageStart(a + PageSize - 1)

-----------------------------------------------------------------------------
(* The memory-zone registry (outside src/).                               *)

ZoneOf(a) == {z \in zones : z.start <= a /\ a < z.start + z.len}
Overlaps(s, e) == \E z \in zones : s < z.start + z.len /\ z.start < e

\* memzone_new: the page-aligned cover of [vaddr, vaddr + len), or NULL
\* when it meets a zone of the space.
MemzoneNew(vaddr, len) ==
    LET s == PageStart(vaddr)  e == PageEnd(vaddr + len)
    IN IF Overlaps(s, e) THEN NoZone
       ELSE [start |-> s, len |-> e - s, type |-> "null", flags |-> {},
             foff |-> 0, fsize |-> 0, elf |-> FALSE, ph |-> 0]

-----------------------------------------------------------------------------
(* The loader's operators.                                                 *)

\* elf_check_header: signature, then ET_EXEC, then the machine.
ElfCheckHeader(h) ==
    CASE ~h.signature         -> ENOEXEC
      [] h.type # "ET_EXEC"   -> ENOEXEC
      [] h.machine # "native" -> EBADARCH
      [] OTHER                -> 0

\* The zone flags of a PT_LOAD: non-privileged, plus X, R, W from p_flags.
ZoneFlags(ph) ==
    {"nonpriv"} \cup {f \in {"exec", "read", "write"} :
                        \/ f = "exec" /\ "X" \in ph.flags
                        \/ f = "read" /\ "R" \in ph.flags
                        \/ f = "write" /\ "W" \in ph.flags}

\* Mutant: the zone's file offset and size are the header's, not moved
\* back to the zone's page-aligned start.
LoadZoneNoSlack(k) ==
    LET ph == PHs[k]  z == MemzoneNew(ph.vaddr, ph.memsz)
    IN IF z = NoZone THEN z
       ELSE [z EXCEPT !.flags = ZoneFlags(ph), !.foff = ph.offset,
                      !.fsize = ph.filesz, !.elf = TRUE, !.ph = k]

\* _elf_load_interpret_program_header_entry for a PT_LOAD: a zone from
\* memzone_new, with the file offset and size moved back to the zone's
\* page-aligned start.
LoadZone(k) ==
    LET ph == PHs[k]  z == MemzoneNew(ph.vaddr, ph.memsz)
        slack == ph.vaddr - PageStart(ph.vaddr)
    IN IF z = NoZone THEN z
       ELSE [z EXCEPT !.flags = ZoneFlags(ph), !.foff = ph.offset - slack,
                      !.fsize = ph.filesz + slack, !.elf = TRUE, !.ph = k]

\* _elf_load_interpret_section_header_entry: the zone type an allocated
\* section gives the zone holding its address.
SectionType(sh) ==
    CASE sh.type = "PROGBITS" -> "code"
      [] sh.type = "NOBITS"   -> "bss"
      [] sh.type \in {"INIT_ARRAY", "FINI_ARRAY", "PREINIT_ARRAY"} -> "data"
      [] OTHER                -> "keep"

\* The vfs read of [off, off + len) into addresses from dst: one byte per
\* address, stopping at the end of the file.
ReadInto(dst, off, len) ==
    [a \in {dst + k : k \in 0 .. (IF len > FileLen - off THEN FileLen - off ELSE len) - 1} |-> FileByte(off + (a - dst))]

\* _elf_load_page_content for the page at pg of zone z: the page's bytes
\* after the memset and the read.
PageContent(z, pg) ==
    LET diff == pg - z.start
        off0 == z.foff + diff
        rem0 == IF z.fsize > diff THEN z.fsize - diff ELSE 0
        rem1 == IF rem0 < PageSize THEN rem0 ELSE PageSize
        neg  == off0 < 0
        rem  == IF ~neg THEN rem1
                ELSE IF RemGreater(rem1, off0) THEN SizeT(rem1 - (-off0)) ELSE 0
        dst  == IF neg THEN pg + (-off0) ELSE pg
        off  == IF neg THEN 0 ELSE off0
        base == [a \in pg .. pg + PageSize - 1 |-> IF rem < PageSize THEN Zero ELSE Junk]
        read == ReadInto(dst, off, rem)
    IN [a \in DOMAIN base \cup DOMAIN read |-> IF a \in DOMAIN read THEN read[a] ELSE base[a]]

\* elf_find_symtab_unchecked: the last SHT_SYMTAB section, and the last
\* SHT_STRTAB section that is not the section-name table (indices from 0).
FindSymtab(h) ==
    LET secs == 1 .. h.shnum
        st == {k \in secs : SHs[k].type = "SYMTAB"}
        sr == {k \in secs : SHs[k].type = "STRTAB" /\ ShStrNdx # k - 1}
        Last(S) == IF S = {} THEN 0 ELSE CHOOSE k \in S : \A m \in S : m <= k
    IN [symtab |-> Last(st), strtab |-> Last(sr)]

\* Mutant: the kept value replaces the name in the answer.
RECURSIVE FindFunctionValue(_, _, _, _, _)
FindFunctionValue(syms, n, ip, prev, ans) ==
    IF n > Len(syms) THEN ans
    ELSE IF prev <= syms[n].value /\ syms[n].value <= ip
         THEN FindFunctionValue(syms, n + 1, ip, syms[n].value % (2 ^ PrevBits), syms[n].value)
         ELSE FindFunctionValue(syms, n + 1, ip, prev, ans)

\* Mutant: a symbol whose value equals the kept one is skipped.
RECURSIVE FindFunctionStrict(_, _, _, _, _)
FindFunctionStrict(syms, n, ip, prev, ans) ==
    IF n > Len(syms) THEN ans
    ELSE IF prev < syms[n].value /\ syms[n].value <= ip
         THEN FindFunctionStrict(syms, n + 1, ip, syms[n].value % (2 ^ PrevBits), syms[n].name)
         ELSE FindFunctionStrict(syms, n + 1, ip, prev, ans)

\* elf_find_function_in_symtab: scan the symbols, keeping the name of the
\* last one whose value is at least the kept value and at most ip; the
\* kept value is stored in a uint32_t.
RECURSIVE FindFunction(_, _, _, _, _)
FindFunction(syms, n, ip, prev, ans) ==
    IF n > Len(syms) THEN ans
    ELSE IF prev <= syms[n].value /\ syms[n].value <= ip
         THEN FindFunction(syms, n + 1, ip, syms[n].value % (2 ^ PrevBits), syms[n].name)
         ELSE FindFunction(syms, n + 1, ip, prev, ans)

-----------------------------------------------------------------------------

Init ==
    /\ pc = "start"
    /\ hdr \in Headers
    /\ i = 0
    /\ zones = {}
    /\ access = "user"
    /\ ret = 0
    /\ entry = 0
    /\ mem = [a \in {} |-> 0]
    /\ found = << >>
    /\ dpc = "none"
    /\ khdr \in KernelHeaders
    /\ kmap = FALSE
    /\ kdata = NoDumpData
    /\ kpc = "boot"

\* elf_load: switch to kernel data access and read the header; a short
\* read restores the access type and returns what vfs_read returned.
ReadHeader ==
    /\ pc = "start"
    /\ IF hdr.read # HeaderSize
       THEN /\ pc' = "done" /\ ret' = hdr.read /\ access' = access
       ELSE /\ pc' = "check" /\ ret' = ret /\ access' = "kernel"
    /\ UNCHANGED <<hdr, i, zones, entry, mem, found, dpc>>

\* Mutant: the error return of elf_check_header leaves kernel data access.
CheckHeaderKeepAccess ==
    /\ pc = "check"
    /\ LET err == ElfCheckHeader(hdr) IN
       /\ pc' = IF err # 0 THEN "done" ELSE "ph"
       /\ ret' = err
       /\ access' = access
    /\ UNCHANGED <<hdr, i, zones, entry, mem, found, dpc>>

\* elf_check_header, returning its error with the access type restored.
CheckHeader ==
    /\ pc = "check"
    /\ LET err == ElfCheckHeader(hdr) IN
       /\ pc' = IF err # 0 THEN "done" ELSE "ph"
       /\ ret' = err
       /\ access' = IF err # 0 THEN "user" ELSE access
    /\ UNCHANGED <<hdr, i, zones, entry, mem, found, dpc>>

\* One iteration of the program-header loop.  A header the file does not
\* hold is a short read whose error the loop drops; a PT_LOAD whose zone
\* memzone_new refuses is dropped too.
ProgramHeader ==
    /\ pc = "ph" /\ i < hdr.phnum
    /\ zones' = IF i + 1 <= Len(PHs) /\ PHs[i + 1].type = "LOAD" /\ LoadZone(i + 1) # NoZone
                THEN zones \cup {LoadZone(i + 1)} ELSE zones
    /\ i' = i + 1
    /\ UNCHANGED <<pc, hdr, access, ret, entry, mem, found, dpc>>

ProgramHeadersDone ==
    /\ pc = "ph" /\ i = hdr.phnum
    /\ pc' = "sh" /\ i' = 0
    /\ UNCHANGED <<hdr, zones, access, ret, entry, mem, found, dpc>>

\* One iteration of the section-header loop: an SHF_ALLOC section whose
\* address lies in a zone sets the zone's type.
SectionHeader ==
    /\ pc = "sh" /\ i < hdr.shnum
    /\ LET sh == SHs[i + 1]
           t  == SectionType(sh)
       IN zones' = IF i + 1 <= Len(SHs) /\ sh.alloc /\ t # "keep"
                   THEN {IF z \in ZoneOf(sh.addr) THEN [z EXCEPT !.type = t] ELSE z : z \in zones}
                   ELSE zones
    /\ i' = i + 1
    /\ UNCHANGED <<pc, hdr, access, ret, entry, mem, found, dpc>>

\* After the loops: a zone over address 0 when none covers it, then the
\* stack zone, the entry point, and the return with the access restored.
FinishLoad ==
    /\ pc = "sh" /\ i = hdr.shnum
    /\ LET nullz == MemzoneNew(0, PageSize)
           z0    == IF ZoneOf(0) = {} /\ nullz # NoZone THEN zones \cup {nullz} ELSE zones
           stack == [start |-> StackTop - StackSize, len |-> StackSize, type |-> "stack",
                     flags |-> {"read", "write", "nonpriv"}, foff |-> 0, fsize |-> 0,
                     elf |-> FALSE, ph |-> 0]
       IN zones' = z0 \cup {stack}
    /\ entry' = hdr.entry
    /\ access' = "user"
    /\ ret' = 0
    /\ pc' = "done"
    /\ UNCHANGED <<hdr, i, mem, found, dpc>>

\* The first fault on a page of an ELF zone: a frame with whatever it held
\* before, then _elf_load_page_content.
LoadPageContent(z, pg) ==
    /\ pc = "done" /\ dpc = "none"
    /\ z \in zones /\ z.elf
    /\ pg \in {z.start + k * PageSize : k \in 0 .. (z.len \div PageSize) - 1}
    /\ pg \notin DOMAIN mem
    /\ LET c == PageContent(z, pg)
       IN mem' = [a \in DOMAIN mem \cup DOMAIN c |-> IF a \in DOMAIN c THEN c[a] ELSE mem[a]]
    /\ UNCHANGED <<pc, hdr, i, zones, access, ret, entry, found, dpc>>

-----------------------------------------------------------------------------
(* The process dump of dump.c, after a crash of the process elf_load      *)
(* started.                                                                *)

\* The size of the executable: a file shorter than a header is as long as
\* the header read of elf_load found it.
FileSize == IF hdr.read < HeaderSize THEN hdr.read ELSE FileLen

\* dump_and_kill: the process's threads are blocked and the dumper kernel
\* thread runs on its address space.
DumpAndKill ==
    /\ pc = "done" /\ ret = 0 /\ dpc = "none"
    /\ dpc' = "map"
    /\ UNCHANGED <<pc, hdr, i, zones, access, ret, entry, mem, found>>

\* dumper_map_elf_file: vfs_open fails, or memzone_new_random finds no
\* free range, and the dumper exits; otherwise a readable zone anywhere
\* free in the space holds the whole file.
DumperMapElfFile ==
    /\ dpc = "map"
    /\ LET len == PageEnd(FileSize)
           Free == {s \in {k * PageSize : k \in 0 .. (StackTop \div PageSize) - 1} :
                       s + len <= StackTop /\ ~Overlaps(s, s + len)}
       IN \/ dpc' = "dead" /\ zones' = zones
          \/ \E s \in Free :
                /\ dpc' = "check"
                /\ zones' = zones \cup {[start |-> s, len |-> len, type |-> "null", flags |-> {"read"},
                                         foff |-> 0, fsize |-> 0, elf |-> FALSE, ph |-> 0]}
    /\ UNCHANGED <<pc, hdr, i, access, ret, entry, mem, found>>

\* dumper: elf_check_header on the mapped file.  A file shorter than a
\* header maps no valid header.
DumperCheckHeader ==
    /\ dpc = "check"
    /\ dpc' = IF hdr.read < HeaderSize \/ ElfCheckHeader(hdr) # 0 THEN "dead" ELSE "symtab"
    /\ UNCHANGED <<pc, hdr, i, zones, access, ret, entry, mem, found>>

\* dumper: elf_find_symtab_unchecked; without a symbol table or a string
\* table the dumper exits.
DumperFindSymtab ==
    /\ dpc = "symtab"
    /\ dpc' = IF FindSymtab(hdr).symtab = 0 \/ FindSymtab(hdr).strtab = 0 THEN "dead" ELSE "dump"
    /\ UNCHANGED <<pc, hdr, i, zones, access, ret, entry, mem, found>>

\* dump_impl resolving an instruction pointer of the backtrace through the
\* sym_resolver, elf_find_function_in_symtab.
LookupSymbol(ip) ==
    /\ dpc = "dump"
    /\ found' = <<ip, FindFunction(SymsOf[FindSymtab(hdr).symtab], 1, ip, 0, -1)>>
    /\ UNCHANGED <<pc, hdr, i, zones, access, ret, entry, mem, dpc>>

\* dump_impl returned: proc_die and the dumper's exit.
DumperExit ==
    /\ dpc = "dump"
    /\ dpc' = "dead"
    /\ UNCHANGED <<pc, hdr, i, zones, access, ret, entry, mem, found>>

-----------------------------------------------------------------------------
(* The kernel's own dump: dump_prepare_kernel_data maps /boot/kernel.bin   *)
(* during kernel initialisation, before any process runs; a kernel panic  *)
(* later calls dump_kernel or dump_kernel_from_tf, and nothing runs after *)
(* it.                                                                     *)

\* dump_prepare_kernel_data with dump_map_kernel_elf_file: a failed
\* vfs_resolve_path, vfs_open or kmemzone_new maps nothing; otherwise the
\* file is read into the new zone, which stays mapped whatever follows.  A
\* failed elf_check_header returns its error and a missing symbol or
\* string table returns err, which is 0; only past both checks is
\* kernel_dump_data filled in.
PrepareKernelData ==
    /\ kpc = "boot"
    /\ \/ kmap' = FALSE /\ kdata' = kdata
       \/ /\ kmap' = TRUE
          /\ kdata' = IF \/ khdr.read < HeaderSize \/ ElfCheckHeader(khdr) # 0
                         \/ FindSymtab(khdr).symtab = 0 \/ FindSymtab(khdr).strtab = 0
                      THEN kdata
                      ELSE [syms |-> FindSymtab(khdr).symtab, writer |-> TRUE]
    /\ kpc' = "ready"
    /\ UNCHANGED <<pc, hdr, i, zones, access, ret, entry, mem, found, dpc, khdr>>

\* dump_kernel and dump_kernel_from_tf: without the mapping only the
\* message is written and -1 returned; with it dump_kernel_impl runs on
\* kernel_dump_data as it is, a zeroed one ("nullcall": NULL writer,
\* resolver and symbol table) included.
DumpKernel ==
    /\ kpc = "ready"
    /\ kpc' = CASE ~kmap        -> "raw"
                 [] kdata.writer -> "kdump"
                 [] OTHER        -> "nullcall"
    /\ UNCHANGED <<pc, hdr, i, zones, access, ret, entry, mem, found, dpc, khdr, kmap, kdata>>

\* dump_kernel_impl resolving a kernel instruction pointer through the
\* sym_resolver, elf_find_function_in_symtab, over the kernel's symbols.
LookupKernelSymbol(ip) ==
    /\ kpc = "kdump"
    /\ found' = <<ip, FindFunction(SymsOf[kdata.syms], 1, ip, 0, -1)>>
    /\ UNCHANGED <<pc, hdr, i, zones, access, ret, entry, mem, dpc, khdr, kmap, kdata, kpc>>

\* The process's life and its dump, between kernel initialisation and a
\* kernel panic.
ProcessStep ==
    \/ ReadHeader
    \/ CheckHeader
    \/ ProgramHeader
    \/ ProgramHeadersDone
    \/ SectionHeader
    \/ FinishLoad
    \/ \E z \in zones, pg \in 0 .. StackTop - 1 : LoadPageContent(z, pg)
    \/ DumpAndKill
    \/ DumperMapElfFile
    \/ DumperCheckHeader
    \/ DumperFindSymtab
    \/ \E ip \in IPs : LookupSymbol(ip)
    \/ DumperExit

Next ==
    \/ PrepareKernelData
    \/ kpc = "ready" /\ ProcessStep /\ UNCHANGED kvars
    \/ DumpKernel
    \/ \E ip \in IPs : LookupKernelSymbol(ip)

Spec == Init /\ [][Next]_vars

-----------------------------------------------------------------------------
(* Properties.                                                             *)

SymNames == UNION {{SymsOf[k][n].name : n \in DOMAIN SymsOf[k]} : k \in DOMAIN SymsOf}
ZoneTypes == {"null", "code", "bss", "data", "stack"}

TypeOK ==
    /\ pc \in {"start", "check", "ph", "sh", "done"}
    /\ i \in Nat
    /\ \A z \in zones : z.type \in ZoneTypes /\ z.start % PageSize = 0 /\ z.len % PageSize = 0
    /\ access \in {"user", "kernel"}
    /\ \A a \in DOMAIN mem : mem[a] \in {Zero, Junk} \cup {FileByte(o) : o \in 0 .. FileLen - 1}
    /\ dpc \in {"none", "map", "check", "symtab", "dump", "dead"}
    /\ found \in {<< >>} \cup (IPs \X (SymNames \cup {-1}))
    /\ kmap \in BOOLEAN
    /\ kdata \in [syms : {0} \cup DOMAIN SymsOf, writer : BOOLEAN]
    /\ kpc \in {"boot", "ready", "raw", "kdump", "nullcall"}

\* What the ELF layout puts at address a of PT_LOAD k: the file byte at
\* p_offset + (a - p_vaddr) below p_vaddr + p_filesz, zero above it.
SegmentByte(k, a) ==
    IF a < PHs[k].vaddr + PHs[k].filesz THEN FileByte(PHs[k].offset + (a - PHs[k].vaddr)) ELSE Zero

\* A filled page never shows what its frame held before, and every byte of
\* a loaded segment is its file byte or, past p_filesz, zero: the zone's
\* file offset and size set by the program-header loop and the offset,
\* length and memset of _elf_load_page_content agree on every page.
PageLoadExact ==
    /\ \A a \in DOMAIN mem : mem[a] # Junk
    /\ \A z \in zones :
          z.elf => \A a \in DOMAIN mem :
                      PHs[z.ph].vaddr <= a /\ a < PHs[z.ph].vaddr + PHs[z.ph].memsz
                         => mem[a] = SegmentByte(z.ph, a)

\* elf_load hands the CPU back with the data access type it found, on
\* every return: short header, bad header, and success.
AccessRestored ==
    pc = "done" => access = "user"

\* The symbol the dump names for ip is the one with the greatest value at
\* most ip (the last of equal ones), in the file's symbol table.
RefLookup(ip) ==
    LET syms == SymsOf[CHOOSE k \in DOMAIN SymsOf : TRUE]
        S == {n \in DOMAIN syms : syms[n].value <= ip}
        best == CHOOSE n \in S : \A m \in S : syms[m].value < syms[n].value
                                              \/ (syms[m].value = syms[n].value /\ m <= n)
    IN IF S = {} THEN -1 ELSE syms[best].name

SymbolLookupExact ==
    found # << >> => found[2] = RefLookup(found[1])

\* dump_kernel hands dump_kernel_impl a kernel_dump_data with its writer
\* and symbol table set, as dumper checks them before dump_impl for a
\* process.
KernelDumpComplete ==
    kpc # "nullcall"

====
