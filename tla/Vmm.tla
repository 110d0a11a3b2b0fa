-------------------------------- MODULE Vmm --------------------------------
(***************************************************************************)
(* The 32-bit virtual memory manager of opuntiaOS (kernel/mem/bits32/      *)
(* vmm32.c): address spaces with one top-level directory each, user page  *)
(* tables shared copy-on-write after fork, the page-fault handler, CoW     *)
(* resolution, swap-out and swap-in, and the out-of-memory retry loop      *)
(* (_vmm_sleep_locked) that drops the address-space lock and re-takes it. *)
(*                                                                         *)
(* One user table slot of the directory is modelled (x86: one 4 KiB table *)
(* per directory entry, ptables_per_page = 1); Pages are the entries of    *)
(* that table.  Frames serve both as data pages and as page tables, as in  *)
(* the code, where tables come from the same physical allocator.  A leaf   *)
(* entry keeps the code's encoding: a not-present entry whose frame field  *)
(* is non-zero holds a swap id (_vmm_is_page_swapped_entity).              *)
(***************************************************************************)
EXTENDS Naturals, FiniteSets

CONSTANTS
    Threads,      \* kernel threads running user processes (one CPU each)
    Aspaces,      \* address-space slots (vm_address_space_t)
    Frames,       \* physical frames handed out by the pmm
    SwapIds,      \* swap-file slots, a set of positive integers
    Pages,        \* leaf entries of the user table, 1..N
    Zone,         \* Zone[p]: type of the memzone covering page p
    FillOf,       \* FillOf[z]: content a first fault of zone z produces
    Junk,         \* content of a frame nobody has written yet
    WriteVal,     \* WriteVal[t]: the value thread t stores
    KernelCalls,  \* the VMM API calls kernel clients make: "ensure_write",
                  \* "tune", "alloc_page", "copy_to"
    InitAspace,   \* the address space of the first process
    InitThreads,  \* its threads
    NoThread, NoAspace, NoFrame, Untouched

ASSUME
    /\ InitAspace \in Aspaces
    /\ KernelCalls \subseteq {"ensure_write", "tune", "alloc_page", "copy_to"}
    /\ InitThreads \subseteq Threads
    /\ SwapIds \subseteq Nat \ {0}
    /\ Pages \subseteq Nat \ {0}
    /\ Zone \in [Pages -> {"anon", "elf", "device", "none"}]

VARIABLES
    pdir,      \* pdir[a]: the user directory entry of a
    ptab,      \* ptab[f]: leaf entries held by frame f when it is a table
    mem,       \* mem[f]: content of frame f
    free,      \* frames the pmm can hand out
    swap,      \* swap-file slots
    alive,     \* address spaces in use
    pdirOf,    \* frame holding the directory of each forked address space
    lock,      \* lock[a]: owner of a's spinlock, or NoThread
    asp,       \* asp[t]: address space of t's process (its active one)
    pc,        \* control point of each thread
    loc,       \* locals of each thread
    expected   \* ghost: what each process last stored at each page

vars == <<pdir, ptab, mem, free, swap, alive, pdirOf, lock, asp, pc, loc, expected>>

-----------------------------------------------------------------------------
(* Entries.                                                                 *)

\* Contents a frame can hold.
Values == {Junk, 0} \cup {FillOf[z] : z \in DOMAIN FillOf} \cup {WriteVal[t] : t \in Threads}

\* The frame field of an entry: a frame, a swap id, or 0.  A present
\* entry names a frame; a not-present one a swap id or nothing.
FrameField == Frames \cup SwapIds \cup {0}
Entry == {e \in [present : BOOLEAN, rw : BOOLEAN, frame : FrameField] :
             IF e.present THEN e.frame \in Frames ELSE e.frame \in SwapIds \cup {0}}
InvalidEntry == [present |-> FALSE, rw |-> FALSE, frame |-> 0]
DirEntry == [present : BOOLEAN, cow : BOOLEAN, table : Frames \cup {NoFrame}]
InvalidDir == [present |-> FALSE, cow |-> FALSE, table |-> NoFrame]

\* Zone flags used for user mappings (zone->mmu_flags).
ZoneWritable(p) == Zone[p] \in {"anon", "elf", "device"}

\* vm_get_entity(vaddr, PTABLE_LV0): the leaf entry, or none without a table.
Leaf(a, p) == IF pdir[a].present THEN ptab[pdir[a].table][p] ELSE InvalidEntry

\* _vmm_is_page_present / _vmm_is_page_swapped_entity
IsPresent(e) == e.present
IsSwapped(e) == ~e.present /\ e.frame # 0
Mapped(a, p)  == IsPresent(Leaf(a, p))
Swapped(a, p) == IsSwapped(Leaf(a, p))

\* vmm_is_copy_on_write: the COW bit of the directory entry.
IsCow(a) == pdir[a].cow

-----------------------------------------------------------------------------
(* Thread locals and control points.                                        *)

Labels == {"idle", "sleep", "np", "np_swap", "np_alloc", "np_fill",
           "rs_alloc", "rs_load", "map", "map_pt",
           "cw_snap", "cw_force", "cw_pt", "cw_copy", "cw_fill", "cw_done",
           "wr", "fk_alloc", "fk_fill", "ew_chk", "ew_alloc", "ew_fill",
           "ap_unlock", "ap_fill", "ct_copy"}

Locals == [pg : Pages \cup {0}, mpg : Pages \cup {0},
           frm : Frames \cup {NoFrame}, sid : SwapIds \cup {0},
           snapF : Frames \cup {NoFrame}, snap : [Pages -> Entry],
           idx : Nat, err : BOOLEAN, rw : BOOLEAN, mret : Labels, rret : Labels,
           resume : Labels, after : Labels, kret : Labels,
           home : Aspaces \cup {NoAspace}]

NoLocals == [pg |-> 0, mpg |-> 0, frm |-> NoFrame, sid |-> 0,
             snapF |-> NoFrame, snap |-> [p \in Pages |-> InvalidEntry],
             idx |-> 0, err |-> FALSE, rw |-> FALSE, mret |-> "idle", rret |-> "idle",
             resume |-> "idle", after |-> "idle", kret |-> "idle", home |-> NoAspace]

Goto(t, l) == pc' = [pc EXCEPT ![t] = l]
Set(t, r)  == loc' = [loc EXCEPT ![t] = r]

\* spinlock_acquire(&active_address_space->lock)
CanAcquire(t) == lock[asp[t]] = NoThread
Acquire(t)    == lock' = [lock EXCEPT ![asp[t]] = t]

\* Return from the handler: release the lock, drop the locals.  A fault the
\* kernel's own access to user memory took (kret) returns to that access,
\* which is retried; any other returns the thread to idle.
Resume(l) == IF l.kret = "idle" THEN NoLocals
             ELSE [NoLocals EXCEPT !.pg = l.pg, !.kret = l.kret, !.home = l.home]

Finish(t) ==
    /\ lock' = [lock EXCEPT ![asp[t]] = NoThread]
    /\ pc' = [pc EXCEPT ![t] = loc[t].kret]
    /\ loc' = [loc EXCEPT ![t] = Resume(loc[t])]

\* _vmm_sleep_locked: release the active space's lock, resched, retake it.
\* The release does not check who holds the lock.
Sleep(t, l) ==
    /\ lock' = [lock EXCEPT ![asp[t]] = NoThread]
    /\ pc' = [pc EXCEPT ![t] = "sleep"]
    /\ loc' = [loc EXCEPT ![t].resume = l]

\* Mutant: the thread resumes without waiting for the lock to be free.
WakeNoCheck(t) ==
    /\ pc[t] = "sleep"
    /\ Acquire(t)
    /\ Goto(t, loc[t].resume)
    /\ UNCHANGED <<pdir, ptab, mem, free, swap, alive, pdirOf, asp, loc, expected>>

Wake(t) ==
    /\ pc[t] = "sleep"
    /\ CanAcquire(t)
    /\ Acquire(t)
    /\ Goto(t, loc[t].resume)
    /\ UNCHANGED <<pdir, ptab, mem, free, swap, alive, pdirOf, asp, loc, expected>>

\* A frame from the pmm, or _vmm_sleep_locked when there is none: the
\* allocation loops of the code (do { ... } while (!paddr)).
OutOfFrames == free = {}

-----------------------------------------------------------------------------
(* The user program touches page p.  The MMU either performs the write or  *)
(* raises a fault that enters vmm_page_fault_handler with the not-present *)
(* or the write bit (vm_arch_parse_pf_info).                               *)

UserWrite(t, p) ==
    LET a == asp[t] IN
    /\ pc[t] = "idle"
    /\ a # NoAspace
    /\ \/ /\ Mapped(a, p) /\ Leaf(a, p).rw
          /\ mem' = [mem EXCEPT ![Leaf(a, p).frame] = WriteVal[t]]
          /\ expected' = [expected EXCEPT ![a][p] = WriteVal[t]]
          /\ UNCHANGED <<pc, loc>>
       \/ /\ ~Mapped(a, p)
          /\ Goto(t, "np") /\ Set(t, [loc[t] EXCEPT !.pg = p])
          /\ UNCHANGED <<mem, expected>>
       \/ /\ Mapped(a, p) /\ ~Leaf(a, p).rw
          /\ Goto(t, "wr") /\ Set(t, [loc[t] EXCEPT !.pg = p])
          /\ UNCHANGED <<mem, expected>>
    /\ UNCHANGED <<pdir, ptab, free, swap, alive, pdirOf, lock, asp>>

-----------------------------------------------------------------------------
(* _vmm_on_page_not_present_locked, entered with the lock taken.            *)

PfNotPresent(t) ==
    LET a == asp[t]  p == loc[t].pg IN
    /\ pc[t] = "np"
    /\ CanAcquire(t)
    /\ \/ /\ Mapped(a, p)                   \* already present: return 0
          /\ Finish(t)
       \/ /\ ~Mapped(a, p) /\ Zone[p] = "none"   \* no zone: -EFAULT
          /\ Finish(t)
       \/ /\ ~Mapped(a, p) /\ Zone[p] # "none" /\ IsCow(a)
          /\ Acquire(t) /\ Goto(t, "cw_snap")
          /\ Set(t, [loc[t] EXCEPT !.rret = "np_swap"])
       \/ /\ ~Mapped(a, p) /\ Zone[p] # "none" /\ ~IsCow(a)
          /\ Acquire(t) /\ Goto(t, "np_swap")
          /\ UNCHANGED loc
    /\ UNCHANGED <<pdir, ptab, mem, free, swap, alive, pdirOf, asp, expected>>

\* if (_vmm_is_page_swapped(vaddr)) restore, else allocate a fresh page.
NpSwapCheck(t) ==
    LET a == asp[t]  p == loc[t].pg IN
    /\ pc[t] = "np_swap"
    /\ \/ /\ Swapped(a, p)
          /\ Goto(t, "rs_alloc")
          /\ Set(t, [loc[t] EXCEPT !.sid = Leaf(a, p).frame])
       \/ /\ ~Swapped(a, p)
          /\ Goto(t, "np_alloc") /\ UNCHANGED loc
    /\ UNCHANGED <<pdir, ptab, mem, free, swap, alive, pdirOf, lock, asp, expected>>

\* vm_alloc_user_page_no_fill_locked: a frame, then vmm_map_page_locked.
NpAlloc(t) ==
    /\ pc[t] = "np_alloc"
    /\ \/ /\ ~OutOfFrames
          /\ \E f \in free :
                /\ free' = free \ {f}
                /\ Set(t, [loc[t] EXCEPT !.frm = f, !.mpg = loc[t].pg,
                                         !.rw = ZoneWritable(loc[t].pg),
                                         !.mret = "np_fill"])
          /\ Goto(t, "map") /\ UNCHANGED lock
       \/ /\ OutOfFrames /\ Sleep(t, "np_alloc") /\ UNCHANGED free
    /\ UNCHANGED <<pdir, ptab, mem, swap, alive, pdirOf, asp, expected>>

\* load_page_content of the zone (ELF file data) or memset 0; the first
\* fault of a page defines what the process sees there.
NpFill(t) ==
    LET a == asp[t]  p == loc[t].pg  v == FillOf[Zone[p]] IN
    /\ pc[t] = "np_fill"
    /\ IF loc[t].err
         THEN UNCHANGED <<mem, expected>>
         ELSE /\ mem' = [mem EXCEPT ![loc[t].frm] = v]
              /\ expected' = IF expected[a][p] = Untouched
                               THEN [expected EXCEPT ![a][p] = v]
                               ELSE expected
    /\ Finish(t)
    /\ UNCHANGED <<pdir, ptab, free, swap, alive, pdirOf, asp>>

-----------------------------------------------------------------------------
(* _vmm_restore_swapped_page_locked: the swap id was read before the        *)
(* allocation, which may sleep.                                            *)

RsAlloc(t) ==
    /\ pc[t] = "rs_alloc"
    /\ \/ /\ ~OutOfFrames
          /\ \E f \in free :
                /\ free' = free \ {f}
                /\ Set(t, [loc[t] EXCEPT !.frm = f, !.mpg = loc[t].pg,
                                         !.rw = ZoneWritable(loc[t].pg),
                                         !.mret = "rs_load"])
          /\ Goto(t, "map") /\ UNCHANGED lock
       \/ /\ OutOfFrames /\ Sleep(t, "rs_alloc") /\ UNCHANGED free
    /\ UNCHANGED <<pdir, ptab, mem, swap, alive, pdirOf, asp, expected>>

\* swapfile_load(vaddr, id) copies the slot into the page and drops one
\* reference; the last reference frees the slot.
SwapLoad(s) ==
    [swap EXCEPT ![s] = [used |-> @.refs > 1, data |-> @.data,
                         refs |-> IF @.refs > 0 THEN @.refs - 1 ELSE 0]]

RsLoad(t) ==
    /\ pc[t] = "rs_load"
    /\ IF loc[t].err
         THEN UNCHANGED <<mem, swap>>
         ELSE /\ mem' = [mem EXCEPT ![loc[t].frm] = swap[loc[t].sid].data]
              /\ swap' = SwapLoad(loc[t].sid)
    /\ Finish(t)
    /\ UNCHANGED <<pdir, ptab, free, alive, pdirOf, asp, expected>>

\* A fresh table installed in the directory without the COW bit
\* (_vmm_table_desc_init_from_allocated_state), its frame zeroed by the
\* memset of _vmm_allocate_ptable_locked: whatever the frame held is gone.
InstallTable(a, f, tab) ==
    /\ pdir' = [pdir EXCEPT ![a] = [present |-> TRUE, cow |-> FALSE, table |-> f]]
    /\ ptab' = [ptab EXCEPT ![f] = tab]
    /\ mem' = [mem EXCEPT ![f] = 0]

EmptyTable == [q \in Pages |-> InvalidEntry]

-----------------------------------------------------------------------------
(* vmm_map_page_locked(mpg, frm, flags), returning to mret; the flags are  *)
(* the zone's mmu_flags on every path but vmm_tune_page's.                 *)

NewLeaf(t) == [present |-> TRUE, rw |-> loc[t].rw,
               frame |-> loc[t].frm]

MapPage(t) ==
    LET a == asp[t] IN
    /\ pc[t] = "map"
    /\ \/ /\ IsCow(a)                         \* -EBUSY
          /\ Set(t, [loc[t] EXCEPT !.err = TRUE])
          /\ Goto(t, loc[t].mret) /\ UNCHANGED ptab
       \/ /\ ~IsCow(a) /\ pdir[a].present
          /\ ptab' = [ptab EXCEPT ![pdir[a].table][loc[t].mpg] = NewLeaf(t)]
          /\ Set(t, [loc[t] EXCEPT !.err = FALSE])
          /\ Goto(t, loc[t].mret)
       \/ /\ ~IsCow(a) /\ ~pdir[a].present
          /\ Goto(t, "map_pt") /\ UNCHANGED <<ptab, loc>>
    /\ UNCHANGED <<pdir, mem, free, swap, alive, pdirOf, lock, asp, expected>>

\* _vmm_allocate_ptable_locked: the table is taken after the allocation
\* loop, with no second look at the directory entry.
MapAllocTable(t) ==
    LET a == asp[t] IN
    /\ pc[t] = "map_pt"
    /\ \/ /\ ~OutOfFrames
          /\ \E f \in free :
                /\ free' = free \ {f}
                /\ InstallTable(a, f, [EmptyTable EXCEPT ![loc[t].mpg] = NewLeaf(t)])
          /\ Set(t, [loc[t] EXCEPT !.err = FALSE])
          /\ Goto(t, loc[t].mret) /\ UNCHANGED lock
       \/ /\ OutOfFrames /\ Sleep(t, "map_pt") /\ UNCHANGED <<free, pdir, ptab, mem>>
    /\ UNCHANGED <<swap, alive, pdirOf, asp, expected>>

-----------------------------------------------------------------------------
(* _vmm_resolve_copy_on_write(vaddr, PTABLE_LV_TOP), lock held, returning  *)
(* to rret ("idle" ends the handler).                                      *)

\* vm_alloc_mapped_zone for the copy of the old table, then the memcpy of
\* the table the directory points at now.
CowSnapshot(t) ==
    LET a == asp[t] IN
    /\ pc[t] = "cw_snap"
    /\ \/ /\ ~OutOfFrames
          /\ \E f \in free :
                /\ free' = free \ {f}
                /\ Set(t, [loc[t] EXCEPT
                     !.snapF = f,
                     !.snap = IF pdir[a].present THEN ptab[pdir[a].table]
                              ELSE [q \in Pages |-> InvalidEntry],
                     \* orig_table_desc: no copy at all if it was not present
                     !.idx = IF pdir[a].present THEN 1 ELSE 0])
          /\ Goto(t, "cw_force") /\ UNCHANGED lock
       \/ /\ OutOfFrames /\ Sleep(t, "cw_snap") /\ UNCHANGED free
    /\ UNCHANGED <<pdir, ptab, mem, swap, alive, pdirOf, asp, expected>>


\* _vmm_force_allocate_ptable_locked: invalidate the directory entry, then
\* allocate; the entry stays invalid while the allocation sleeps.
CowForceAlloc(t) ==
    LET a == asp[t] IN
    /\ pc[t] = "cw_force"
    /\ \/ /\ ~OutOfFrames
          /\ \E f \in free : free' = free \ {f} /\ InstallTable(a, f, EmptyTable)
          /\ Goto(t, "cw_copy") /\ UNCHANGED <<lock, loc>>
       \/ /\ OutOfFrames
          /\ pdir' = [pdir EXCEPT ![a] = InvalidDir]
          /\ Sleep(t, "cw_pt") /\ UNCHANGED <<free, ptab, mem>>
    /\ UNCHANGED <<swap, alive, pdirOf, asp, expected>>

CowAllocTable(t) ==
    LET a == asp[t] IN
    /\ pc[t] = "cw_pt"
    /\ \/ /\ ~OutOfFrames
          /\ \E f \in free : free' = free \ {f} /\ InstallTable(a, f, EmptyTable)
          /\ Goto(t, "cw_copy") /\ UNCHANGED <<lock, loc>>
       \/ /\ OutOfFrames /\ Sleep(t, "cw_pt") /\ UNCHANGED <<free, pdir, ptab, mem>>
    /\ UNCHANGED <<swap, alive, pdirOf, asp, expected>>

\* One entry of the old table: a swapped entry is shared by taking a new
\* swap reference (swapfile_new_ref), a present one is copied into a new
\* frame (_vmm_copy_page_to_resolve_cow), device pages are mapped again.
\* A present page outside every zone kpanics (line 610): no step follows.
NextIdx(t) == Set(t, [loc[t] EXCEPT !.idx = @ + 1])

\* Mutant: the swapped entry is copied without swapfile_new_ref.
NewSwapRefMissing(s) == swap

\* swapfile_new_ref(id) for the swapped entry copied into the new table.
NewSwapRef(s) == [swap EXCEPT ![s].refs = @ + 1]

CowCopy(t) ==
    LET a == asp[t]  i == loc[t].idx  e == loc[t].snap[i] IN
    /\ pc[t] = "cw_copy"
    /\ i \in Pages
    /\ \/ /\ IsSwapped(e)
          /\ swap' = NewSwapRef(e.frame)
          /\ ptab' = [ptab EXCEPT ![pdir[a].table][i] = e]
          /\ NextIdx(t) /\ UNCHANGED <<pc, free, lock>>
       \/ /\ ~IsSwapped(e) /\ ~IsPresent(e)
          /\ NextIdx(t) /\ UNCHANGED <<pc, free, swap, ptab, lock>>
       \/ /\ IsPresent(e) /\ Zone[i] = "device"
          /\ Set(t, [loc[t] EXCEPT !.frm = e.frame, !.mpg = i, !.rw = ZoneWritable(i),
                                   !.mret = "cw_fill"])
          /\ Goto(t, "map") /\ UNCHANGED <<free, swap, ptab, lock>>
       \/ /\ IsPresent(e) /\ Zone[i] \notin {"device", "none"}
          /\ \/ /\ ~OutOfFrames
                /\ \E f \in free :
                      /\ free' = free \ {f}
                      /\ Set(t, [loc[t] EXCEPT !.frm = f, !.mpg = i,
                                               !.rw = ZoneWritable(i),
                                               !.mret = "cw_fill"])
                /\ Goto(t, "map") /\ UNCHANGED lock
             \/ /\ OutOfFrames /\ Sleep(t, "cw_copy") /\ UNCHANGED free
          /\ UNCHANGED <<swap, ptab>>
    /\ UNCHANGED <<pdir, mem, alive, pdirOf, asp, expected>>

\* Mutant: the new page is zeroed but the memcpy is left out.
CowFillNoCopy(t) ==
    LET i == loc[t].idx IN
    /\ pc[t] = "cw_fill"
    /\ mem' = IF Zone[i] = "device" THEN mem ELSE [mem EXCEPT ![loc[t].frm] = 0]
    /\ NextIdx(t) /\ Goto(t, "cw_copy")
    /\ UNCHANGED <<pdir, ptab, free, swap, alive, pdirOf, lock, asp, expected>>

\* memset of the new page, then memcpy from the old frame through a
\* scratch kernel mapping (device pages keep the old frame: no copy).
CowFill(t) ==
    LET i == loc[t].idx IN
    /\ pc[t] = "cw_fill"
    /\ mem' = IF Zone[i] = "device" THEN mem
              ELSE [mem EXCEPT ![loc[t].frm] = mem[loc[t].snap[i].frame]]
    /\ NextIdx(t) /\ Goto(t, "cw_copy")
    /\ UNCHANGED <<pdir, ptab, free, swap, alive, pdirOf, lock, asp, expected>>

\* vm_free_mapped_zone(src_ptable_zone), then back to the caller.
CowDone(t) ==
    /\ pc[t] = "cw_copy"
    /\ loc[t].idx \notin Pages
    /\ free' = free \cup {loc[t].snapF}
    /\ IF loc[t].rret = "idle"
         THEN Finish(t)
         ELSE /\ Goto(t, loc[t].rret)
              /\ Set(t, [loc[t] EXCEPT !.snapF = NoFrame, !.idx = 0,
                                       !.snap = NoLocals.snap])
              /\ UNCHANGED lock
    /\ UNCHANGED <<pdir, ptab, mem, swap, alive, pdirOf, asp, expected>>

-----------------------------------------------------------------------------
(* _vmm_pf_on_writing_locked: only a CoW table is resolved; any other      *)
(* write fault yields -EFAULT, which vmm_page_fault_handler drops.         *)

PfOnWrite(t) ==
    LET a == asp[t] IN
    /\ pc[t] = "wr"
    /\ CanAcquire(t)
    /\ \/ /\ IsCow(a)
          /\ Acquire(t) /\ Goto(t, "cw_snap")
          /\ Set(t, [loc[t] EXCEPT !.rret = "idle"])
       \/ /\ ~IsCow(a)
          /\ Finish(t)
    /\ UNCHANGED <<pdir, ptab, mem, free, swap, alive, pdirOf, asp, expected>>

-----------------------------------------------------------------------------
(* vmm_ensure_writing_to_active_address_space(vaddr, length) for a range   *)
(* inside page p, as the syscall layer and the core dump (dump.c) call it  *)
(* before the kernel writes to user memory, under the active space's lock: *)
(* _vmm_ensure_write_to_page resolves CoW first (_vmm_ensure_cow_for_page, *)
(* its error dropped), then allocates a page if none is present            *)
(* (vm_alloc_page_with_perm -> vm_alloc_user_page_locked).  The kernel's   *)
(* own bytes are not what a process reads back here, so the write itself  *)
(* leaves the modelled content alone.                                      *)

EnsureWrite(t, p) ==
    LET a == asp[t] IN
    /\ "ensure_write" \in KernelCalls
    /\ pc[t] = "idle"
    /\ a # NoAspace
    /\ CanAcquire(t)
    /\ Acquire(t)
    /\ \/ /\ IsCow(a)
          /\ Goto(t, "cw_snap")
          /\ Set(t, [loc[t] EXCEPT !.pg = p, !.rret = "ew_chk", !.after = "ew_fill"])
       \/ /\ ~IsCow(a)
          /\ Goto(t, "ew_chk") /\ Set(t, [loc[t] EXCEPT !.pg = p, !.after = "ew_fill"])
    /\ UNCHANGED <<pdir, ptab, mem, free, swap, alive, pdirOf, asp, expected>>

\* if (!_vmm_is_page_present(vaddr)): a page for it, or -EFAULT when no
\* zone covers it.  A swapped entry is not present either.
EwCheck(t) ==
    LET a == asp[t]  p == loc[t].pg IN
    /\ pc[t] = "ew_chk"
    /\ \/ /\ Mapped(a, p) /\ Finish(t)
       \/ /\ ~Mapped(a, p) /\ Zone[p] = "none" /\ Finish(t)
       \/ /\ ~Mapped(a, p) /\ Zone[p] # "none"
          /\ Goto(t, "ew_alloc") /\ UNCHANGED lock
          /\ Set(t, [loc[t] EXCEPT !.rw = ZoneWritable(p)])
    /\ UNCHANGED <<pdir, ptab, mem, free, swap, alive, pdirOf, asp, expected>>

\* vmm_alloc_page_no_fill_locked(vaddr, flags): the allocation loop, then
\* vmm_map_page_locked over whatever the entry held, returning to the
\* caller's next step (after).
EwAlloc(t) ==
    /\ pc[t] = "ew_alloc"
    /\ \/ /\ ~OutOfFrames
          /\ \E f \in free :
                /\ free' = free \ {f}
                /\ Set(t, [loc[t] EXCEPT !.frm = f, !.mpg = loc[t].pg,
                                         !.mret = loc[t].after])
          /\ Goto(t, "map") /\ UNCHANGED lock
       \/ /\ OutOfFrames /\ Sleep(t, "ew_alloc") /\ UNCHANGED free
    /\ UNCHANGED <<pdir, ptab, mem, swap, alive, pdirOf, asp, expected>>

\* vmm_alloc_page_locked: memset 0 of the new page unless the map failed,
\* then the lock is released.  This is the first touch of the page when
\* the process never faulted it: what it reads there from now on is what
\* a first fault would have given it, the zone's content.
EwFill(t) ==
    LET a == asp[t]  p == loc[t].pg IN
    /\ pc[t] = "ew_fill"
    /\ IF loc[t].err
         THEN UNCHANGED <<mem, expected>>
         ELSE /\ mem' = [mem EXCEPT ![loc[t].frm] = 0]
              /\ expected' = IF expected[a][p] = Untouched
                               THEN [expected EXCEPT ![a][p] = FillOf[Zone[p]]]
                               ELSE expected
    /\ Finish(t)
    /\ UNCHANGED <<pdir, ptab, free, swap, alive, pdirOf, asp>>

\* vmm_tune_page(vaddr, flags) for a page of a zone (the callers outside
\* src/ change a zone's permissions), the writable bit as the flags: under
\* the lock, a CoW table gives -EBUSY and changes nothing; a present entry
\* gets the new flags and keeps its frame; otherwise vmm_alloc_page_locked
\* maps a zeroed page with them, its error dropped.
TunePage(t, p, w) ==
    LET a == asp[t] IN
    /\ "tune" \in KernelCalls
    /\ pc[t] = "idle"
    /\ a # NoAspace
    /\ Zone[p] # "none"
    /\ CanAcquire(t)
    /\ ~IsCow(a)
    /\ \/ /\ Mapped(a, p)
          /\ ptab' = [ptab EXCEPT ![pdir[a].table][p].rw = w]
          /\ UNCHANGED <<lock, pc, loc>>
       \/ /\ ~Mapped(a, p)
          /\ Acquire(t) /\ Goto(t, "ew_alloc")
          /\ Set(t, [loc[t] EXCEPT !.pg = p, !.rw = w, !.after = "ew_fill"])
          /\ UNCHANGED ptab
    /\ UNCHANGED <<pdir, mem, free, swap, alive, pdirOf, asp, expected>>

\* A kernel access to user page p through the MMU of the active space (the
\* memset of vmm_alloc_page, the memcpy of vmm_copy_to_address_space), made
\* without the lock: it writes v, or it faults and the handler returns to
\* label l, where the access is retried.
KernelAccess(t, p, v, l) ==
    LET a == asp[t] IN
    \/ /\ Mapped(a, p) /\ Leaf(a, p).rw
       /\ mem' = [mem EXCEPT ![Leaf(a, p).frame] = v]
       /\ expected' = [expected EXCEPT ![a][p] = v]
       /\ Goto(t, "idle") /\ Set(t, NoLocals)
    \/ /\ ~Mapped(a, p)
       /\ Goto(t, "np") /\ Set(t, [loc[t] EXCEPT !.pg = p, !.kret = l])
       /\ UNCHANGED <<mem, expected>>
    \/ /\ Mapped(a, p) /\ ~Leaf(a, p).rw
       /\ Goto(t, "wr") /\ Set(t, [loc[t] EXCEPT !.pg = p, !.kret = l])
       /\ UNCHANGED <<mem, expected>>

\* vmm_alloc_page(vaddr, flags) with writable flags, as the callers outside
\* src/ map a zeroed user page: under the lock, a present page gives
\* -EALREADY and changes nothing (so it is not a step here); otherwise
\* vmm_alloc_page_no_fill_locked maps a page over whatever the entry held
\* (a swapped entry included) and the lock is released.
AllocPage(t, p) ==
    LET a == asp[t] IN
    /\ "alloc_page" \in KernelCalls
    /\ pc[t] = "idle"
    /\ a # NoAspace
    /\ CanAcquire(t)
    /\ ~Mapped(a, p)
    /\ Acquire(t) /\ Goto(t, "ew_alloc")
    /\ Set(t, [loc[t] EXCEPT !.pg = p, !.rw = TRUE, !.after = "ap_unlock"])
    /\ UNCHANGED <<pdir, ptab, mem, free, swap, alive, pdirOf, asp, expected>>

\* The lock is released before the map's error is looked at: on -EBUSY
\* the call returns, and the frame taken for the page is never freed.
ApUnlock(t) ==
    /\ pc[t] = "ap_unlock"
    /\ lock' = [lock EXCEPT ![asp[t]] = NoThread]
    /\ IF loc[t].err
         THEN Goto(t, "idle") /\ Set(t, NoLocals)
         ELSE Goto(t, "ap_fill") /\ Set(t, [NoLocals EXCEPT !.pg = loc[t].pg])
    /\ UNCHANGED <<pdir, ptab, mem, free, swap, alive, pdirOf, asp, expected>>

\* memset(dest, 0, VMM_PAGE_SIZE) after the unlock, through the MMU: a
\* fork or a swap-out in between makes it fault; what the process reads
\* there afterwards is the zeroed page.
ApFill(t) ==
    /\ pc[t] = "ap_fill"
    /\ KernelAccess(t, loc[t].pg, 0, "ap_fill")
    /\ UNCHANGED <<pdir, ptab, free, swap, alive, pdirOf, lock, asp>>

\* vmm_switch_address_space_locked: the thread's active space becomes b.
SwitchTo(t, b) == asp' = [asp EXCEPT ![t] = b]

\* vmm_copy_to_address_space(b, src, vaddr, length) for a range inside page
\* p of space b (exec and signal delivery, outside src/, give it a new or
\* another process's space): b's lock is taken, b becomes the active
\* space, _vmm_ensure_write_to_range runs as in EnsureWrite and the lock is
\* released; the memcpy follows (ct_copy), then the switch back.  The
\* copy of src to a kernel buffer first touches only kernel memory.
CopyTo(t, b, p) ==
    /\ "copy_to" \in KernelCalls
    /\ pc[t] = "idle"
    /\ asp[t] # NoAspace
    /\ b \in alive
    /\ lock[b] = NoThread
    /\ lock' = [lock EXCEPT ![b] = t]
    /\ SwitchTo(t, b)
    /\ LET l == [loc[t] EXCEPT !.pg = p, !.after = "ew_fill", !.kret = "ct_copy",
                                !.home = asp[t]] IN
       \/ /\ IsCow(b)
          /\ Goto(t, "cw_snap") /\ Set(t, [l EXCEPT !.rret = "ew_chk"])
       \/ /\ ~IsCow(b)
          /\ Goto(t, "ew_chk") /\ Set(t, l)
    /\ UNCHANGED <<pdir, ptab, mem, free, swap, alive, pdirOf, expected>>

\* memcpy(dest, ksrc, length) in b without the lock, then the switch back
\* to the caller's space.
CtCopy(t) ==
    /\ pc[t] = "ct_copy"
    /\ KernelAccess(t, loc[t].pg, WriteVal[t], "ct_copy")
    /\ IF pc'[t] = "idle" THEN SwitchTo(t, loc[t].home) ELSE UNCHANGED asp
    /\ UNCHANGED <<pdir, ptab, free, swap, alive, pdirOf, lock>>

-----------------------------------------------------------------------------
(* vmm_new_forked_address_space: _vmm_alloc_new_address_space_locked      *)
(* (called without the lock, yet sleeping through _vmm_sleep_locked), then *)
(* _vmm_fill_up_forked_address_space under the parent's lock.             *)

CanFork(t) ==
    /\ Aspaces \ alive # {}
    /\ \E c \in Threads : asp[c] = NoAspace

ForkStart(t) ==
    /\ pc[t] = "idle"
    /\ asp[t] # NoAspace
    /\ CanFork(t)
    /\ Goto(t, "fk_alloc")
    /\ UNCHANGED <<pdir, ptab, mem, free, swap, alive, pdirOf, lock, asp, loc, expected>>

ForkAlloc(t) ==
    /\ pc[t] = "fk_alloc"
    /\ \/ /\ ~OutOfFrames
          /\ \E f \in free : free' = free \ {f} /\ Set(t, [loc[t] EXCEPT !.frm = f])
          /\ Goto(t, "fk_fill") /\ UNCHANGED lock
       \/ /\ OutOfFrames /\ Sleep(t, "fk_alloc") /\ UNCHANGED free
    /\ UNCHANGED <<pdir, ptab, mem, swap, alive, pdirOf, asp, expected>>

\* Copy the directory entry, mark it COW in both spaces, and drop the write
\* permission of every present page of the shared table (_vmm_tables_set_cow).
\* Mutant: _vmm_tables_set_cow leaves the leaf pages writable.
ReadOnlyKeepsWrite(tab) == tab

ReadOnly(tab) == [q \in Pages |-> IF tab[q].present THEN [tab[q] EXCEPT !.rw = FALSE]
                                                    ELSE tab[q]]

ForkFill(t) ==
    LET a == asp[t]  d == pdir[a] IN
    /\ pc[t] = "fk_fill"
    /\ CanAcquire(t)
    /\ CanFork(t)
    /\ \E b \in Aspaces \ alive, c \in {x \in Threads : asp[x] = NoAspace} :
          /\ pdir' = [pdir EXCEPT ![a] = IF d.present THEN [d EXCEPT !.cow = TRUE] ELSE d,
                                  ![b] = IF d.present THEN [d EXCEPT !.cow = TRUE] ELSE d]
          /\ ptab' = IF d.present THEN [ptab EXCEPT ![d.table] = ReadOnly(@)] ELSE ptab
          /\ alive' = alive \cup {b}
          /\ pdirOf' = [pdirOf EXCEPT ![b] = loc[t].frm]
          /\ asp' = [asp EXCEPT ![c] = b]
          /\ expected' = [expected EXCEPT ![b] = expected[a]]
    /\ Finish(t)
    /\ UNCHANGED <<mem, free, swap>>

-----------------------------------------------------------------------------
(* vmm_swap_page(page_desc, zone, vaddr), called by the swap-out policy    *)
(* for a present page of the active space a, under a's lock.  A zone whose *)
(* swap_page_mode is SWAP_NOT_ALLOWED (a device) is refused with -EPERM,   *)
(* and a full swap file returns -1; both leave the state as it was.        *)

\* Mutants: invalidate clears only the present bit and keeps the frame;
\* the entry is not rewritten at all.
EvictEntryKeepFrame(e, s) == [e EXCEPT !.present = FALSE]
EvictEntryKeepPresent(e, s) == e

\* vm_ptable_entity_invalidate, then the swap id into the frame field.
EvictEntry(e, s) == [present |-> FALSE, rw |-> FALSE, frame |-> s]

\* Mutant: vm_free_page_paddr of the evicted frame is left out.
EvictFreeNothing(e) == free

\* vm_free_page_paddr(frame of the evicted page).
EvictFree(e) == free \cup {e.frame}

SwapOut(a, p) ==
    LET e == Leaf(a, p) IN
    /\ a \in alive
    /\ lock[a] = NoThread
    /\ IsPresent(e)
    /\ Zone[p] \notin {"none", "device"}
    /\ \E s \in SwapIds :
          /\ ~swap[s].used
          /\ swap' = [swap EXCEPT ![s] = [used |-> TRUE, data |-> mem[e.frame], refs |-> 1]]
          /\ free' = EvictFree(e)
          /\ ptab' = [ptab EXCEPT ![pdir[a].table][p] = EvictEntry(e, s)]
    /\ UNCHANGED <<pdir, mem, alive, pdirOf, lock, asp, pc, loc, expected>>

-----------------------------------------------------------------------------

Init ==
    /\ pdir = [a \in Aspaces |-> InvalidDir]
    /\ ptab = [f \in Frames |-> [q \in Pages |-> InvalidEntry]]
    /\ mem = [f \in Frames |-> Junk]
    /\ free = Frames
    /\ swap = [s \in SwapIds |-> [used |-> FALSE, data |-> Junk, refs |-> 0]]
    /\ alive = {InitAspace}
    /\ pdirOf = [a \in Aspaces |-> NoFrame]
    /\ lock = [a \in Aspaces |-> NoThread]
    /\ asp = [t \in Threads |-> IF t \in InitThreads THEN InitAspace ELSE NoAspace]
    /\ pc = [t \in Threads |-> "idle"]
    /\ loc = [t \in Threads |-> NoLocals]
    /\ expected = [a \in Aspaces |-> [q \in Pages |-> Untouched]]

Step(t) ==
    \/ \E p \in Pages : UserWrite(t, p)
    \/ PfNotPresent(t) \/ NpSwapCheck(t) \/ NpAlloc(t) \/ NpFill(t)
    \/ RsAlloc(t) \/ RsLoad(t)
    \/ MapPage(t) \/ MapAllocTable(t)
    \/ CowSnapshot(t) \/ CowForceAlloc(t) \/ CowAllocTable(t)
    \/ CowCopy(t) \/ CowFill(t) \/ CowDone(t)
    \/ PfOnWrite(t)
    \/ (\E p \in Pages : EnsureWrite(t, p)) \/ EwCheck(t) \/ EwAlloc(t) \/ EwFill(t)
    \/ \E p \in Pages, w \in BOOLEAN : TunePage(t, p, w)
    \/ (\E p \in Pages : AllocPage(t, p)) \/ ApUnlock(t) \/ ApFill(t)
    \/ (\E b \in Aspaces, p \in Pages : CopyTo(t, b, p)) \/ CtCopy(t)
    \/ ForkStart(t) \/ ForkAlloc(t) \/ ForkFill(t)
    \/ Wake(t)

Next ==
    \/ \E t \in Threads : Step(t)
    \/ \E a \in Aspaces, p \in Pages : SwapOut(a, p)

Spec == Init /\ [][Next]_vars

-----------------------------------------------------------------------------

TypeOK ==
    /\ pdir \in [Aspaces -> DirEntry]
    /\ ptab \in [Frames -> [Pages -> Entry]]
    /\ free \subseteq Frames
    /\ mem \in [Frames -> Values]
    /\ swap \in [SwapIds -> [used : BOOLEAN, data : Values, refs : Nat]]
    /\ alive \subseteq Aspaces
    /\ lock \in [Aspaces -> Threads \cup {NoThread}]
    /\ asp \in [Threads -> Aspaces \cup {NoAspace}]
    /\ pc \in [Threads -> Labels]
    /\ loc \in [Threads -> Locals]
    /\ expected \in [Aspaces -> [Pages -> Values \cup {Untouched}]]

-----------------------------------------------------------------------------
(* Properties.                                                              *)

\* A page some thread of a is filling right now (the lock holder between
\* vmm_map_page_locked and the memset, load or memcpy that follows it).
InFlight(a, p) ==
    \E t \in Threads : asp[t] = a /\ pc[t] \in {"np_fill", "rs_load", "cw_fill", "ew_fill"}
                     /\ loc[t].mpg = p

\* Tables reachable from a live directory.
LiveTables == {pdir[a].table : a \in {x \in alive : pdir[x].present}}

\* Every process reads back what it last stored, or what the first fault of
\* the page produced: the fault handler, CoW resolution after fork and
\* swap-out/swap-in by other address spaces never change a process's data
\* (pages of device zones are shared on purpose and left out).
MemoryCoherent ==
    \A a \in alive, p \in Pages :
        (/\ Zone[p] # "device"
         /\ expected[a][p] # Untouched
         /\ ~InFlight(a, p))
        => /\ Mapped(a, p) => mem[Leaf(a, p).frame] = expected[a][p]
           /\ Swapped(a, p) => swap[Leaf(a, p).frame].data = expected[a][p]

\* Two address spaces never map one frame when either mapping is writable,
\* except device zones: fork must leave every shared page read-only until
\* CoW resolution gives the writer its own copy.
NoWritableSharing ==
    \A a, b \in alive, p, q \in Pages :
        (/\ a # b /\ Mapped(a, p) /\ Mapped(b, q)
         /\ Leaf(a, p).frame = Leaf(b, q).frame
         /\ Leaf(a, p).rw \/ Leaf(b, q).rw)
        => Zone[p] = "device" /\ Zone[q] = "device"

\* No frame the pmm can hand out again is still a live table or a present
\* page of a live table (swap-out frees the frame of the table it edits).
NoUseAfterFree ==
    /\ LiveTables \cap free = {}
    /\ \A t \in LiveTables, p \in Pages :
          ptab[t][p].present => ptab[t][p].frame \notin free

\* A swap slot is in use and holds at least one reference for every live
\* table entry naming it, so swapfile_load of one process never frees a
\* slot that another table, shared or copied at CoW resolution, still names.
SwapRefsCover ==
    \A s \in SwapIds :
        LET users == {<<t, p>> \in LiveTables \X Pages :
                         IsSwapped(ptab[t][p]) /\ ptab[t][p].frame = s}
        IN users # {} => swap[s].used /\ Cardinality(users) <= swap[s].refs

\* Frames some thread holds in a local: a page or table being installed,
\* the copy of the old table during CoW resolution, a new directory.
Held == UNION {{loc[t].frm, loc[t].snapF} : t \in Threads} \ {NoFrame}

\* Every frame taken from the pmm is still reachable: a live table, a page
\* of one, a directory, or a thread's local.  A frame nobody can reach is
\* never returned to the pmm.
NoFrameLeak ==
    Frames \ free \subseteq
        LiveTables
        \cup {ptab[t][p].frame : <<t, p>> \in {x \in LiveTables \X Pages : ptab[x[1]][x[2]].present}}
        \cup ({pdirOf[a] : a \in alive} \ {NoFrame})
        \cup Held

\* Control points between spinlock_acquire and spinlock_release of the
\* active space's lock (the handler bodies and vmm_map_page_locked).
LockedLabels == {"ap_unlock", "np_swap", "np_alloc", "np_fill", "rs_alloc", "rs_load",
                 "map", "map_pt", "cw_snap", "cw_force", "cw_pt", "cw_copy",
                 "cw_fill", "ew_chk", "ew_alloc", "ew_fill"}

\* A thread holds its address space's spinlock exactly while it runs the
\* locked part of a handler: _vmm_sleep_locked must give the lock back
\* only to the thread that released it, and no path returns holding it
\* (otherwise another thread of the process edits the tables concurrently,
\* or the thread spins forever on its own lock).
LockDiscipline ==
    \A t \in Threads :
        asp[t] # NoAspace => (lock[asp[t]] = t <=> pc[t] \in LockedLabels)

\* Once a directory entry points at a private (not CoW) table, it keeps
\* pointing at that table (fork may set the COW bit on it): the allocation
\* loops of _vmm_allocate_ptable_locked and of CoW resolution may sleep and
\* must not invalidate or replace a table another thread installed
\* meanwhile, which would drop every page mapped through it.
PrivateTableStable ==
    [][\A a \in alive :
          (pdir[a].present /\ ~pdir[a].cow)
          => pdir'[a].present /\ pdir'[a].table = pdir[a].table]_pdir

=============================================================================
