CONSTANTS
    f1 = f1
    f2 = f2
    f3 = f3
    f4 = f4
    f5 = f5
    f6 = f6
    f7 = f7
    t1 = t1
    t2 = t2
    t3 = t3
    A1 = A1
    A2 = A2
    NoThread = NoThread
    NoAspace = NoAspace
    NoFrame = NoFrame
    Untouched = Untouched
    Junk = 9
    Pages <- Pages2
    FillOf <- ZeroFill
    WriteVal <- SameWrites
    KernelCalls = {"ensure_write", "tune", "alloc_page", "copy_to"}
    InitAspace = A1
    Frames <- Frames2
    Threads <- TwoThreads
    Aspaces <- OneSpace
    SwapIds <- TwoSlots
    Zone <- AnonNone
    InitThreads = {t1, t2}
SPECIFICATION Spec
SYMMETRY FrameSymmetry
INVARIANT TypeOK NoUseAfterFree NoFrameLeak LockDiscipline
