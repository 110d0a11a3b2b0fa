\* elf_load of MCElf's executable for a 32-bit build, then page faults on
\* every page of its segments, a crash and the dump's symbol lookups.  The
\* run ends: elf_load returns, and the dumped process dies.
CONSTANTS
    PageSize = 4
    SizeBits = 8
    OffBits = 8
    PrevBits = 8
    FileLen = 9
    HeaderSize = 52
    Headers <- MCHeaders
    PHs <- MCPHs
    SHs <- MCSHs
    ShStrNdx = 6
    SymsOf <- MCSymsOf
    IPs = {3, 7, 8, 9}
    StackTop = 48
    StackSize = 4
    KernelHeaders <- MCKernelHeaders
    CharSigned = FALSE
    Strs <- MCStrs
    Counts = {0, 1, 2, 3}
    Numbers <- MCNumbers
    Formats <- MCFormats
    Bytes = {10, 97}
SPECIFICATION Spec
CHECK_DEADLOCK FALSE
INVARIANTS TypeOK PageLoadExact AccessRestored SymbolLookupExact NumbersRoundTrip StringsCompareExact
