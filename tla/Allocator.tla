----------------------------- MODULE Allocator -----------------------------
(***************************************************************************)
(* What a heap allocator promises the code that calls it: the contract    *)
(* that kmalloc, kfree and krealloc of kernel/mem/kmalloc.c and malloc,   *)
(* calloc, free and realloc of libs/libc/malloc/malloc.c both implement.  *)
(*                                                                         *)
(* An allocation hands its caller a region of the size asked for, inside  *)
(* the arena, sharing no address with any region handed out before and   *)
(* still held.  A free gives a held region back.  A resize swaps a held   *)
(* region for one of the new size in one step; the new region may reuse  *)
(* the old one's addresses, but no one else's.  The allocator may instead *)
(* stop everything (system_stop, a failed assert); an allocation that     *)
(* fails with NULL changes nothing.  Nothing else changes what is held.   *)
(***************************************************************************)
CONSTANTS
    Owners,     \* who holds regions: kernel threads, or one process
    Regions,    \* the regions an allocation may hand out
    Extent(_),  \* the addresses a region occupies
    Arena       \* the addresses the allocator manages

VARIABLES
    held,       \* held[o]: the regions o got back and has not given back
    stopped     \* the allocator stopped the system

vars == <<held, stopped>>

\* The addresses of the regions held by anyone, leaving out those in ex.
InUse(ex) == UNION {Extent(x) : x \in UNION {held[o] : o \in Owners} \ ex}

\* r lies in the arena and shares no address with a held region outside ex.
Fits(r, ex) == Extent(r) \subseteq Arena /\ Extent(r) \cap InUse(ex) = {}

Init ==
    /\ held = [o \in Owners |-> {}]
    /\ stopped = FALSE

\* The actions name the region a step adds or removes by comparing the two
\* states, (held'[o] \ held[o] and held[o] \ held'[o]); this is the same
\* as choosing it among Regions, and checks a step of an implementation in
\* time independent of how many regions there are.
Allocate(o) ==
    /\ ~stopped
    /\ \E r \in held'[o] \ held[o] :
         /\ held' = [held EXCEPT ![o] = @ \cup {r}]
         /\ r \in Regions
         /\ Fits(r, {})
    /\ UNCHANGED stopped

Release(o) ==
    /\ ~stopped
    /\ \E r \in held[o] \ held'[o] : held' = [held EXCEPT ![o] = @ \ {r}]
    /\ UNCHANGED stopped

Resize(o) ==
    /\ ~stopped
    /\ \E r \in held[o] \ held'[o], n \in held'[o] \ held[o] :
         /\ held' = [held EXCEPT ![o] = (@ \ {r}) \cup {n}]
         /\ n \in Regions
         /\ Fits(n, {r})
    /\ UNCHANGED stopped

Stop ==
    /\ ~stopped
    /\ stopped' = TRUE
    /\ UNCHANGED held

Next ==
    \/ \E o \in Owners : Allocate(o) \/ Release(o) \/ Resize(o)
    \/ Stop

Spec == Init /\ [][Next]_vars
=============================================================================
