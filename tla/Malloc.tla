------------------------------- MODULE Malloc -------------------------------
(***************************************************************************)
(* The user-space allocator of src/libs/libc/malloc/malloc.c: mmap'ed     *)
(* blocks, each a doubly linked list of chunks whose malloc_header_t       *)
(* (flags, next, prev, size) sits in front of the chunk; first-fit        *)
(* search, splitting in malloc, coalescing in free, and calloc/realloc on *)
(* top.  The library is not thread safe and a process calls it from one   *)
(* thread, so each call is one atomic step; its loops are the recursive   *)
(* operators below.                                                        *)
(*                                                                         *)
(* A pointer is <<block, offset>>; size_t arithmetic wraps at 2^Width.    *)
(* Chunk payloads are abstracted away: a header that coalescing turns     *)
(* into payload leaves the domain of heap.                                 *)
(***************************************************************************)
EXTENDS Integers, FiniteSets, FiniteSetsExt, Bitwise

CONSTANTS
    Width,         \* bits of size_t
    HeaderSize,    \* sizeof(malloc_header_t) (malloc.h, outside src/)
    DefaultBlock,  \* MALLOC_DEFAULT_BLOCK_SIZE (malloc.h, outside src/)
    MaxBlocks,     \* MALLOC_MAX_ALLOCATED_BLOCKS (malloc.h, outside src/)
    Sizes,         \* sizes passed to malloc and realloc
    CallocArgs,    \* <<num, size>> pairs passed to calloc
    MaxHeld        \* bound: allocations the program holds at once

\* ALIGNMENT and DEVIDE_SPACE_BOUNDARY (malloc.c lines 9-10).
Alignment == 4
DivideBoundary == 32

SizeMod == 2 ^ Width

\* A size_t result.
Wrap(x) == x % SizeMod

NULL == <<-1, -1>>

Ptr == (0 .. MaxBlocks - 1) \X (0 .. SizeMod - 1)

Header == [allocated : BOOLEAN, next : Ptr \cup {NULL}, prev : Ptr \cup {NULL},
           size : 0 .. SizeMod - 1]

\* (uintptr_t)p + n inside one mmap'ed block.
Add(p, n) == <<p[1], p[2] + n>>

VARIABLES
    heap,      \* pointer -> malloc_header_t, for every header in some chain
    nblocks,   \* allocated_blocks; memory[i] is <<i, 0>>
    blockLen,  \* block -> the length mmap gave it
    held,      \* the allocations the program holds: [ptr, req]
    aborted    \* assert() at line 20 failed

vars == <<heap, nblocks, blockLen, held, aborted>>

TypeOK ==
    /\ DOMAIN heap \subseteq Ptr
    /\ \A p \in DOMAIN heap : heap[p] \in Header
    /\ nblocks \in 0 .. MaxBlocks
    /\ blockLen \in [0 .. MaxBlocks - 1 -> 0 .. SizeMod - 1]
    /\ held \subseteq [ptr : Ptr, req : Nat]
    /\ aborted \in BOOLEAN

Init ==
    /\ heap = [p \in {} |-> NULL]
    /\ nblocks = 0
    /\ blockLen = [i \in 0 .. MaxBlocks - 1 |-> 0]
    /\ held = {}
    /\ aborted = FALSE

-----------------------------------------------------------------------------
(* malloc (lines 52-106) as operators over the heap.                       *)

\* Mutant: the size rounded down instead of up.
RoundDown(sz) == Wrap(sz) & (SizeMod - Alignment)

\* Lines 57-58: round up to ALIGNMENT in size_t.
RoundUp(sz) == Wrap(sz + (Alignment - 1)) & (SizeMod - Alignment)

\* _malloc_need_to_divide_space (lines 41-44).
NeedDivide(h, a) == Wrap(a + DivideBoundary) <= h.size

\* _malloc_can_fit_allocation (lines 46-50).
CanFit(h, a) == h.size >= Wrap(a + IF NeedDivide(h, a) THEN HeaderSize ELSE 0)

\* Mutant: block_is_free left out of the search.
FitsAnyFlag(hp, p, a) == CanFit(hp[p], a)

Fits(hp, p, a) == ~hp[p].allocated /\ CanFit(hp[p], a)

\* Lines 68-75: walk one block's chain to its first free chunk that fits.
RECURSIVE FitIn(_, _, _)
FitIn(hp, p, a) ==
    IF Fits(hp, p, a) THEN p
    ELSE IF hp[p].next = NULL THEN NULL
    ELSE FitIn(hp, hp[p].next, a)

\* Lines 66-76: the first block, in memory[] order, with a fitting chunk.
FirstFit(hp, nb, a) ==
    LET hits == {i \in 0 .. nb - 1 : FitIn(hp, <<i, 0>>, a) # NULL}
    IN IF hits = {} THEN NULL ELSE FitIn(hp, <<Min(hits), 0>>, a)

\* _alloc_new_block lines 22-25: the length asked of mmap.
BlockSizeFor(sz) ==
    LET s == Wrap(sz + HeaderSize) IN IF s > DefaultBlock THEN s ELSE DefaultBlock

\* _alloc_new_block lines 31-37: the new block holds one free chunk.
NewBlockHeader(len) == [allocated |-> FALSE, next |-> NULL, prev |-> NULL,
                        size |-> Wrap(len - HeaderSize)]

\* Mutant: the split-off chunk's header placed right after the sz bytes,
\* over the allocated chunk's own header room.
CarveNoHeader(hp, ff, sz) ==
    LET cn == hp[ff].next
        nx == Add(ff, sz)
        split == [p \in DOMAIN hp \cup {nx} |->
                    CASE p = ff -> [hp[ff] EXCEPT !.allocated = TRUE, !.size = sz, !.next = nx]
                      [] p = nx -> [allocated |-> FALSE, size |-> Wrap(hp[ff].size - sz),
                                    next |-> cn, prev |-> ff]
                      [] p = cn -> [hp[cn] EXCEPT !.prev = nx]
                      [] OTHER  -> hp[p]]
    IN IF NeedDivide(hp[ff], sz) THEN split
       ELSE [hp EXCEPT ![ff].allocated = TRUE]

\* Lines 86-103: mark the chunk allocated and split off the rest as a new
\* free chunk when it is at least DEVIDE_SPACE_BOUNDARY larger.
Carve(hp, ff, sz) ==
    LET cn == hp[ff].next
        cs == hp[ff].size
        nx == Add(ff, sz + HeaderSize)
        rest == [allocated |-> FALSE, size |-> Wrap(cs - sz - HeaderSize),
                 next |-> cn, prev |-> ff]
        split == [p \in DOMAIN hp \cup {nx} |->
                    CASE p = ff -> [hp[ff] EXCEPT !.allocated = TRUE, !.size = sz, !.next = nx]
                      [] p = nx -> rest
                      [] p = cn -> [hp[cn] EXCEPT !.prev = nx]
                      [] OTHER  -> hp[p]]
    IN IF NeedDivide(hp[ff], sz) THEN split
       ELSE [hp EXCEPT ![ff].allocated = TRUE]

\* The outcomes of malloc(sz): records [heap, nblocks, blockLen, ptr,
\* abort] (ptr NULL when malloc returns NULL).  slab_alloc and slab_free
\* (outside src/) are taken to serve nothing, so line 60 always falls
\* through and every block is a chunk of the mmap'ed lists.
MallocOutcomes(hp, nb, bl, sz0) ==
    LET sz == RoundUp(sz0)
        ff == FirstFit(hp, nb, sz)
        len == BlockSizeFor(sz)
        grown == [p \in DOMAIN hp \cup {<<nb, 0>>} |->
                    IF p = <<nb, 0>> THEN NewBlockHeader(len) ELSE hp[p]]
        none == [heap |-> hp, nblocks |-> nb, blockLen |-> bl, ptr |-> NULL, abort |-> FALSE]
    IN CASE sz0 = 0 -> {none}
         [] ff # NULL ->
              {[none EXCEPT !.heap = Carve(hp, ff, sz), !.ptr = ff]}
         [] nb >= MaxBlocks -> {[none EXCEPT !.abort = TRUE]}
         [] OTHER ->
              \* mmap may fail (line 28), and malloc returns NULL.
              {none,
               [none EXCEPT !.heap = Carve(grown, <<nb, 0>>, sz), !.nblocks = nb + 1,
                            !.blockLen = [bl EXCEPT ![nb] = len], !.ptr = <<nb, 0>>]}
-----------------------------------------------------------------------------
(* free (lines 108-134) as operators over the heap.                        *)

\* Mutant: free does not walk back over free predecessors.
BackNone(hp, p) == p

\* Lines 121-123: back over free predecessors.
RECURSIVE Back(_, _)
Back(hp, p) ==
    IF hp[p].prev # NULL /\ ~hp[hp[p].prev].allocated THEN Back(hp, hp[p].prev) ELSE p

\* Mutant: the absorbed header's bytes are not added to the size.
RECURSIVE GlueNoHeader(_, _)
GlueNoHeader(hp, p) ==
    IF hp[p].next = NULL \/ hp[hp[p].next].allocated THEN hp
    ELSE LET n == hp[p].next
             nn == hp[n].next
             h1 == [hp EXCEPT ![p].size = Wrap(@ + hp[n].size), ![p].next = nn]
             h2 == IF nn = NULL THEN h1 ELSE [h1 EXCEPT ![nn].prev = p]
         IN GlueNoHeader([q \in DOMAIN h2 \ {n} |-> h2[q]], p)

\* Lines 126-133: absorb free successors into p, header and all.
RECURSIVE Glue(_, _)
Glue(hp, p) ==
    IF hp[p].next = NULL \/ hp[hp[p].next].allocated THEN hp
    ELSE LET n == hp[p].next
             nn == hp[n].next
             h1 == [hp EXCEPT ![p].size = Wrap(@ + hp[n].size + HeaderSize), ![p].next = nn]
             h2 == IF nn = NULL THEN h1 ELSE [h1 EXCEPT ![nn].prev = p]
         IN Glue([q \in DOMAIN h2 \ {n} |-> h2[q]], p)

\* free(mem) for the chunk header p (block_rem_flags at line 120).
FreeHeap(hp, p) ==
    LET h0 == [hp EXCEPT ![p].allocated = FALSE]
    IN Glue(h0, Back(h0, p))

-----------------------------------------------------------------------------
(* The program's calls.                                                     *)

Live == ~aborted

\* The program keeps what malloc returned (a NULL result keeps nothing).
Keep(r, req) == IF r.ptr = NULL THEN held ELSE held \cup {[ptr |-> r.ptr, req |-> req]}

\* The program holds at most MaxHeld allocations.
Room == Cardinality(held) < MaxHeld

Apply(r, hld) ==
    /\ heap' = r.heap
    /\ nblocks' = r.nblocks
    /\ blockLen' = r.blockLen
    /\ aborted' = r.abort
    /\ held' = hld

\* malloc(sz), and realloc(NULL, sz) which is the same call (line 150).
Malloc ==
    /\ Live /\ Room
    /\ \E sz \in Sizes : \E r \in MallocOutcomes(heap, nblocks, blockLen, sz) :
         Apply(r, Keep(r, sz))

\* calloc(num, size) (lines 136-145): num * size is computed in size_t; the
\* memset covers the same wrapped count inside the chunk.
Calloc ==
    /\ Live /\ Room
    /\ \E a \in CallocArgs : \E r \in MallocOutcomes(heap, nblocks, blockLen, Wrap(a[1] * a[2])) :
         Apply(r, Keep(r, a[1] * a[2]))

\* free(mem) of a held pointer (free(NULL) returns at line 111).
Free ==
    /\ Live
    /\ \E h \in held :
         /\ heap' = FreeHeap(heap, h.ptr)
         /\ held' = held \ {h}
         /\ UNCHANGED <<nblocks, blockLen, aborted>>

\* realloc(ptr, new_size) (lines 147-167): old_size is the chunk's size;
\* equal sizes return ptr (no change); a NULL malloc keeps ptr; otherwise
\* memcpy of the smaller size, then free(ptr).
Realloc ==
    /\ Live
    /\ \E h \in held, sz \in Sizes :
         /\ heap[h.ptr].size # sz
         /\ \E r \in MallocOutcomes(heap, nblocks, blockLen, sz) :
              IF r.ptr = NULL \/ r.abort THEN Apply(r, held)
              ELSE Apply([r EXCEPT !.heap = FreeHeap(r.heap, h.ptr)],
                         (held \ {h}) \cup {[ptr |-> r.ptr, req |-> sz]})

Next == Malloc \/ Calloc \/ Free \/ Realloc

Spec == Init /\ [][Next]_vars

-----------------------------------------------------------------------------
\* The chunks of every block tile it: each next header sits right after
\* the previous chunk, prev links mirror next links, and the last chunk
\* ends where the mmap'ed block ends.  Splitting in malloc and coalescing
\* in free must both keep every size and link consistent.
HeapTiled ==
    \A p \in DOMAIN heap :
        /\ (heap[p].prev = NULL) <=> (p[2] = 0)
        /\ heap[p].next # NULL =>
              /\ heap[p].next = Add(p, heap[p].size + HeaderSize)
              /\ heap[p].next \in DOMAIN heap
              /\ heap[heap[p].next].prev = p
        /\ heap[p].next = NULL => p[2] + heap[p].size + HeaderSize = blockLen[p[1]]

\* free leaves no two neighbouring free chunks: it walks back to the first
\* free predecessor and glues everything free after it.
Coalesced ==
    \A p \in DOMAIN heap :
        heap[p].next # NULL => heap[p].allocated \/ heap[heap[p].next].allocated

\* The chunks marked allocated are exactly the ones the program holds, and
\* no chunk is handed out twice.
HeldExact ==
    /\ {h.ptr : h \in held} = {p \in DOMAIN heap : heap[p].allocated}
    /\ Cardinality({h.ptr : h \in held}) = Cardinality(held)

\* Every chunk the program holds has at least the bytes it asked malloc or
\* calloc for.
MallocBigEnough ==
    \A h \in held : heap[h.ptr].size >= h.req
-----------------------------------------------------------------------------
(* The heap as the program sees it.                                        *)

\* A region's addresses in its block: the chunk header free and realloc
\* read in front of the pointer, and the bytes asked for.
MExtent(r) == {<<r.at[1], r.at[2] + k>> : k \in 0 .. HeaderSize + r.size - 1}

\* Refinement mapping: the process holds a region per held allocation, at
\* its chunk header and of the size it asked for; the arena is every
\* offset a size_t can reach in every block mmap may give.
Heap == INSTANCE Allocator WITH
          Owners  <- {"process"},
          Regions <- [at : Ptr, size : Sizes \cup {a[1] * a[2] : a \in CallocArgs}],
          Extent  <- MExtent,
          Arena   <- Ptr,
          held    <- [o \in {"process"} |-> {[at |-> h.ptr, size |-> h.req] : h \in held}],
          stopped <- aborted

\* Every sequence of malloc, calloc, free and realloc behaves as an
\* allocator: what malloc and calloc return never meets a held allocation
\* or its header, realloc swaps the old allocation for the new one in one
\* step, and the assert on the block count is the only other outcome.
ImplementsAllocator == Heap!Spec
=============================================================================
