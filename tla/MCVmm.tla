------------------------------- MODULE MCVmm -------------------------------
(* Instantiation of Vmm for TLC.  Each .cfg picks one of the sets below.  *)
EXTENDS Vmm, TLC

CONSTANTS f1, f2, f3, f4, f5, f6, f7, t1, t2, t3, A1, A2

\* Physical memory: small enough that the allocation loops run dry and
\* _vmm_sleep_locked is taken, large enough that fork and CoW complete.
Frames2 == {f1, f2}
Frames3 == {f1, f2, f3}
Frames4 == {f1, f2, f3, f4}
Frames5 == {f1, f2, f3, f4, f5}
Frames6 == {f1, f2, f3, f4, f5, f6}
Frames7 == {f1, f2, f3, f4, f5, f6, f7}

OneThread == {t1}
TwoThreads == {t1, t2}
ThreeThreads == {t1, t2, t3}
OneSpace == {A1}
TwoSpaces == {A1, A2}

NoSwap == {}
OneSlot == {1}
TwoSlots == {1, 2}

Pages2 == {1, 2}
\* page 1: anonymous memory (stack, heap); page 2: an ELF data segment
AnonElf == [p \in Pages2 |-> IF p = 1 THEN "anon" ELSE "elf"]
\* page 2 in a device zone instead (shared, never copied nor swapped)
AnonDevice == [p \in Pages2 |-> IF p = 1 THEN "anon" ELSE "device"]
\* page 2 outside every zone (a stray access: -EFAULT)
AnonNone == [p \in Pages2 |-> IF p = 1 THEN "anon" ELSE "none"]

Pages3 == {1, 2, 3}
\* anonymous, ELF data and a page outside every zone
AnonElfNone == [p \in Pages3 |-> CASE p = 1 -> "anon" [] p = 2 -> "elf" [] OTHER -> "none"]

Fill == [z \in {"anon", "elf", "device", "none"} |-> IF z = "elf" THEN 5 ELSE 0]
\* every thread stores its own value, so a value tells who wrote it
Writes == [t \in ThreeThreads |-> IF t = t1 THEN 1 ELSE IF t = t2 THEN 2 ELSE 3]

\* One value for every store and every first fill, for a run that checks
\* no data property: no step of Vmm branches on a frame's content.
ZeroFill == [z \in {"anon", "elf", "device", "none"} |-> 0]
SameWrites == [t \in ThreeThreads |-> 0]

FrameSymmetry == Permutations(Frames)

\* State constraint for searches where the forked child only exists: its
\* thread never runs, so only the parent's threads and swap-out interleave.
ChildIdle == pc[t3] = "idle"
=============================================================================
