------------------------------ MODULE Kmalloc ------------------------------
(***************************************************************************)
(* The kernel heap of src/kernel/kernel/mem/kmalloc.c: a bitmap of        *)
(* KMALLOC_BLOCK_SIZE blocks guarded by _kmalloc_lock, a size_t header in *)
(* front of every allocation, and the four entry points kmalloc, kfree,   *)
(* krealloc and kmalloc_aligned called concurrently by kernel threads.    *)
(*                                                                         *)
(* Addresses are byte offsets from _kmalloc_zone.start.  The spinlock is  *)
(* never held across a sleep or another lock, so each critical section    *)
(* (find + set range, unset range) is one atomic action; what runs outside *)
(* the lock (the header write, the header read in kfree, the memcpy of     *)
(* krealloc) is an action of its own.  Memory contents other than the     *)
(* headers are abstracted away.                                            *)
(***************************************************************************)
EXTENDS Integers, FiniteSets

CONSTANTS
    Threads,      \* kernel threads calling the heap
    NBlocks,      \* KMALLOC_SPACE_SIZE / KMALLOC_BLOCK_SIZE
    BlockSize,    \* KMALLOC_BLOCK_SIZE
    HeaderSize,   \* sizeof(kmalloc_header_t)
    BitmapLen,    \* _kmalloc_bitmap_len, in bytes
    Sizes,        \* sizes passed to kmalloc and krealloc
    MaxHeld,      \* bound: allocations a thread holds at once
    PtrSize,      \* sizeof(void*)
    Alignments    \* alignments passed to kmalloc_aligned

ASSUME BlockSize > 0 /\ HeaderSize > 0 /\ NBlocks > 0 /\ MaxHeld > 0

Blocks == 0 .. NBlocks - 1

\* Mutant: the block count rounded down.
BlocksForFloor(len) == len \div BlockSize

\* Integer ceiling used by kmalloc (line 64) and kfree (line 103).
BlocksFor(len) == (len + BlockSize - 1) \div BlockSize

\* The blocks of an allocation [start |-> s, n |-> k, len |-> act_size,
\* size |-> the size its caller asked for and takes it to hold].
Span(a) == a.start .. a.start + a.n - 1

\* The range [s, s + k) that bitmap_set_range / bitmap_unset_range touch.
Range(s, k) == {b \in Blocks : s <= b /\ b < s + k}

\* The bitmap region itself is marked busy at boot (_kmalloc_init_bitmap).
BitmapBlocks == Range(0, BlocksFor(BitmapLen))

Alloc == [start : Blocks, n : 1 .. NBlocks, len : Nat, size : Nat]

VARIABLES
    bitmap,   \* block -> BOOLEAN, the allocation bitmap
    hdr,      \* block -> the len field of a header written at that block
    owned,    \* thread -> allocations it got back from kmalloc and has not freed
    pc,       \* thread -> program counter
    loc,      \* thread -> locals of the call in progress
    halted    \* system_stop() was called

vars == <<bitmap, hdr, owned, pc, loc, halted>>

NoAlloc == [start |-> 0, n |-> 0, len |-> 0, size |-> 0]

Locals == [caller : {"kmalloc", "krealloc"}, size : Sizes \cup {0},
           new : Alloc \cup {NoAlloc}, src : Alloc \cup {NoAlloc},
           old : Nat, cnt : Nat]

Idle == [caller |-> "kmalloc", size |-> 0, new |-> NoAlloc,
         src |-> NoAlloc, old |-> 0, cnt |-> 0]

TypeOK ==
    /\ bitmap \in [Blocks -> BOOLEAN]
    /\ hdr \in [Blocks -> Nat]
    /\ owned \in [Threads -> SUBSET Alloc]
    /\ pc \in [Threads -> {"idle", "km_find", "km_hdr", "rl_copy", "kf_unset"}]
    /\ loc \in [Threads -> Locals]
    /\ halted \in BOOLEAN

\* kmalloc_init / _kmalloc_init_bitmap (lines 38-57): the bitmap is zeroed
\* and its own blocks set.
Init ==
    /\ bitmap = [b \in Blocks |-> b \in BitmapBlocks]
    /\ hdr = [b \in Blocks |-> 0]
    /\ owned = [t \in Threads |-> {}]
    /\ pc = [t \in Threads |-> "idle"]
    /\ loc = [t \in Threads |-> Idle]
    /\ halted = FALSE

\* bitmap_find_space (algo/bitmap.h, outside src/): some start of a run of
\* k clear bits, or -1.  Any free run may be returned.
FreeRuns(bm, k) == {s \in Blocks : s + k <= NBlocks /\ \A b \in Range(s, k) : ~bm[b]}

SetRange(bm, s, k) == [b \in Blocks |-> IF b \in Range(s, k) THEN TRUE ELSE bm[b]]

UnsetRange(bm, s, k) == [b \in Blocks |-> IF b \in Range(s, k) THEN FALSE ELSE bm[b]]

Running(t) == ~halted /\ pc[t] = "idle"

\* A thread enters kmalloc(size).
KmallocCall(t) ==
    /\ Running(t)
    /\ Cardinality(owned[t]) < MaxHeld
    /\ \E s \in Sizes :
         /\ pc' = [pc EXCEPT ![t] = "km_find"]
         /\ loc' = [loc EXCEPT ![t] = [Idle EXCEPT !.size = s]]
    /\ UNCHANGED <<bitmap, hdr, owned, halted>>

\* kmalloc lines 61-74, under _kmalloc_lock: size the request, find a free
\* run, set the range and unlock.
KmFind(t) ==
    LET act_size == loc[t].size + HeaderSize
        k == BlocksFor(act_size)
    IN /\ ~halted
       /\ pc[t] = "km_find"
       /\ \E s \in FreeRuns(bitmap, k) :
            /\ bitmap' = SetRange(bitmap, s, k)
            /\ pc' = [pc EXCEPT ![t] = "km_hdr"]
            /\ loc' = [loc EXCEPT ![t].new = [start |-> s, n |-> k, len |-> act_size,
                                               size |-> loc[t].size]]
       /\ UNCHANGED <<hdr, owned, halted>>

\* Mutant: no system_stop() after a failed search, so kmalloc goes on with
\* start = -1.
KmNoSpaceNoStop(t) ==
    LET k == BlocksFor(loc[t].size + HeaderSize)
    IN /\ ~halted
       /\ pc[t] = "km_find"
       /\ FreeRuns(bitmap, k) = {}
       /\ bitmap' = SetRange(bitmap, -1, k)
       /\ pc' = [pc EXCEPT ![t] = "km_hdr"]
       /\ loc' = [loc EXCEPT ![t].new = [start |-> -1, n |-> k, len |-> loc[t].size + HeaderSize,
                                           size |-> loc[t].size]]
       /\ UNCHANGED <<hdr, owned, halted>>

\* kmalloc lines 67-70: bitmap_find_space found no run, and system_stop()
\* halts the machine.
KmNoSpace(t) ==
    /\ ~halted
    /\ pc[t] = "km_find"
    /\ FreeRuns(bitmap, BlocksFor(loc[t].size + HeaderSize)) = {}
    /\ halted' = TRUE
    /\ UNCHANGED <<bitmap, hdr, owned, pc, loc>>

\* kmalloc lines 76-78, after the unlock: space->len = act_size and return
\* &space[1]; krealloc (line 126) goes on to its memcpy.
KmHeader(t) ==
    LET a == loc[t].new
    IN /\ ~halted
       /\ pc[t] = "km_hdr"
       /\ hdr' = [hdr EXCEPT ![a.start] = a.len]
       /\ owned' = [owned EXCEPT ![t] = @ \cup {a}]
       /\ pc' = [pc EXCEPT ![t] = IF loc[t].caller = "krealloc" THEN "rl_copy" ELSE "idle"]
       /\ UNCHANGED <<bitmap, loc, halted>>

\* Mutant: kfree rounds the header's length down to whole blocks.
KfreeCallFloor(t) ==
    /\ Running(t)
    /\ \E a \in owned[t] :
         /\ owned' = [owned EXCEPT ![t] = @ \ {a}]
         /\ pc' = [pc EXCEPT ![t] = "kf_unset"]
         /\ loc' = [loc EXCEPT ![t] = [Idle EXCEPT !.src = a, !.cnt = BlocksForFloor(hdr[a.start])]]
    /\ UNCHANGED <<bitmap, hdr, halted>>

\* kfree lines 95-103: the header in front of an owned pointer is read
\* without the lock.
KfreeCall(t) ==
    /\ Running(t)
    /\ \E a \in owned[t] :
         /\ owned' = [owned EXCEPT ![t] = @ \ {a}]
         /\ pc' = [pc EXCEPT ![t] = "kf_unset"]
         /\ loc' = [loc EXCEPT ![t] = [Idle EXCEPT !.src = a, !.cnt = BlocksFor(hdr[a.start])]]
    /\ UNCHANGED <<bitmap, hdr, halted>>

\* kfree lines 104-106, under _kmalloc_lock: unset the blocks the header
\* names, starting at the header's block.
KfUnset(t) ==
    /\ ~halted
    /\ pc[t] = "kf_unset"
    /\ bitmap' = UnsetRange(bitmap, loc[t].src.start, loc[t].cnt)
    /\ pc' = [pc EXCEPT ![t] = "idle"]
    /\ loc' = [loc EXCEPT ![t] = Idle]
    /\ UNCHANGED <<hdr, owned, halted>>

\* krealloc lines 119-126: read old_size from the header, which counts the
\* header itself.  When it equals new_size the pointer is returned as it
\* is, and the caller takes it to hold new_size bytes (lines 122-123);
\* otherwise kmalloc(new_size) is called.
KreallocCall(t) ==
    /\ Running(t)
    /\ \E a \in owned[t], s \in Sizes :
         \/ /\ hdr[a.start] = s
            /\ owned' = [owned EXCEPT ![t] = (@ \ {a}) \cup {[a EXCEPT !.size = s]}]
            /\ UNCHANGED <<pc, loc>>
         \/ /\ hdr[a.start] # s
            /\ pc' = [pc EXCEPT ![t] = "km_find"]
            /\ loc' = [loc EXCEPT ![t] = [Idle EXCEPT !.caller = "krealloc", !.size = s,
                                                      !.src = a, !.old = hdr[a.start]]]
            /\ UNCHANGED owned
    /\ UNCHANGED <<bitmap, hdr, halted>>

\* The byte count krealloc hands to memcpy (line 131).
CopyCount(t) == IF loc[t].size > loc[t].old THEN loc[t].size ELSE loc[t].old

\* krealloc lines 131-132: memcpy(new_area, ptr, CopyCount), then kfree(ptr)
\* reads ptr's header (the unset follows as KfUnset).
RlCopy(t) ==
    LET a == loc[t].src
    IN /\ ~halted
       /\ pc[t] = "rl_copy"
       /\ owned' = [owned EXCEPT ![t] = @ \ {a}]
       /\ pc' = [pc EXCEPT ![t] = "kf_unset"]
       /\ loc' = [loc EXCEPT ![t].cnt = BlocksFor(hdr[a.start])]
       /\ UNCHANGED <<bitmap, hdr, halted>>

Next ==
    \E t \in Threads :
        \/ KmallocCall(t) \/ KmFind(t) \/ KmNoSpace(t) \/ KmHeader(t)
        \/ KfreeCall(t) \/ KfUnset(t)
        \/ KreallocCall(t) \/ RlCopy(t)

Spec == Init /\ [][Next]_vars

-----------------------------------------------------------------------------
\* Allocations that hold blocks, tagged with the thread holding them: owned
\* ones, ones between find and header write, and ones between the header
\* read and the unset of kfree.
Live ==
    UNION {{[by |-> t, a |-> a] : a \in owned[t]} : t \in Threads}
    \cup {[by |-> t, a |-> loc[t].new] : t \in {u \in Threads : pc[u] = "km_hdr"}}
    \cup {[by |-> t, a |-> loc[t].src] : t \in {u \in Threads : pc[u] = "kf_unset"}}

\* The bytes an allocation uses: its header and the size bytes asked for.
Bytes(a) == a.start * BlockSize .. a.start * BlockSize + a.len - 1

\* The bytes of two live allocations never meet, and none reaches into the
\* bitmap: threads racing through kmalloc, kfree and krealloc never get
\* the same memory, and a header and payload fit in the blocks reserved.
NoOverlap ==
    \A x, y \in Live :
        /\ x # y => Bytes(x.a) \cap Bytes(y.a) = {}
        /\ Bytes(x.a) \subseteq UNION {b * BlockSize .. b * BlockSize + BlockSize - 1 : b \in Span(x.a)}
        /\ Span(x.a) \cap BitmapBlocks = {}

\* The bitmap marks exactly the bitmap region and the live allocations:
\* every kfree clears what its kmalloc set, so no block leaks and none is
\* handed out twice.
BitmapExact ==
    \A b \in Blocks : bitmap[b] <=> b \in BitmapBlocks \cup UNION {Span(x.a) : x \in Live}

\* The memcpy of krealloc reads only the source allocation's payload and
\* writes only the new allocation's payload.
Payload(a) == a.n * BlockSize - HeaderSize

ReallocCopyInBounds ==
    \A t \in Threads :
        pc[t] = "rl_copy" => CopyCount(t) <= Payload(loc[t].new) /\ CopyCount(t) <= Payload(loc[t].src)

-----------------------------------------------------------------------------
(* The heap as its callers see it.                                         *)

\* The region a caller holds for allocation a: the pointer &space[1] past
\* the header and the size it asked kmalloc or krealloc for.
KRegion(a) == [at |-> a.start * BlockSize + HeaderSize, size |-> a.size]

\* A region's addresses: the header kfree and krealloc read in front of
\* the pointer, and the bytes asked for.
KExtent(r) == r.at - HeaderSize .. r.at + r.size - 1

\* Refinement mapping: a thread holds the regions of the allocations it
\* owns; an allocation between its search and its header write, and a
\* freed one between the header read and the unset, are held by no one.
Heap == INSTANCE Allocator WITH
          Owners  <- Threads,
          Regions <- [at : 0 .. NBlocks * BlockSize - 1, size : Sizes],
          Extent  <- KExtent,
          Arena   <- BlocksFor(BitmapLen) * BlockSize .. NBlocks * BlockSize - 1,
          held    <- [t \in Threads |-> {KRegion(a) : a \in owned[t]}],
          stopped <- halted

\* kmalloc, kfree and krealloc, split into the steps their lock and their
\* unlocked header accesses give them and interleaved across threads,
\* behave as an allocator whose calls are atomic: every region a call
\* returns is disjoint from every region held, krealloc is a resize, and
\* system_stop is the only other outcome.  Not a property of any run: the
\* equal-size return of krealloc (line 122) compares the header-inclusive
\* length with the caller's size, so kmalloc(1) then krealloc(p, 5) keeps
\* the 2 blocks of a 1-byte request and hands them back as 5 bytes.
ImplementsAllocator == Heap!Spec

-----------------------------------------------------------------------------
(* kmalloc_aligned (lines 81-88) and kfree_aligned (lines 109-117) as pure *)
(* arithmetic on the pointer kmalloc returned.                            *)

\* Mutant: the slot for the saved pointer left out of the request.
AlignedAllocSizeShort(size, al) == size + al

\* The size kmalloc_aligned asks kmalloc for (line 83).
AlignedAllocSize(size, al) == size + al + PtrSize

\* The pointer kmalloc_aligned returns for kmalloc's result ptr (84-85).
AlignedPtr(ptr, al) ==
    LET max_addr == ptr + PtrSize + al IN max_addr - (max_addr % al)

\* Reference: the first multiple of al past the PtrSize-byte slot where
\* line 86 saves ptr for kfree_aligned.
AlignedRef(ptr, al) ==
    CHOOSE m \in ptr + PtrSize + 1 .. ptr + PtrSize + al : m % al = 0

\* The pointers kmalloc has returned and that are still held.
HeldPtrs == {a.start * BlockSize + HeaderSize : a \in UNION {owned[t] : t \in Threads}}

\* For every pointer kmalloc has returned, every size and alignment, the
\* aligned pointer is the reference one, and the saved ptr slot in front
\* of it and the size bytes after it both lie inside what kmalloc_aligned
\* asked kmalloc for, so kfree_aligned finds ptr again.
AlignedInBounds ==
    \A ptr \in HeldPtrs, size \in Sizes, al \in Alignments :
        LET p == AlignedPtr(ptr, al)
        IN /\ p = AlignedRef(ptr, al)
           /\ ptr <= p - PtrSize
           /\ p + size <= ptr + AlignedAllocSize(size, al)
=============================================================================
