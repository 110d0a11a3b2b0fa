CONSTANTS
    t1 = t1
    t2 = t2
    Threads <- KThreads
    NBlocks = 7
    BlockSize = 4
    HeaderSize = 4
    BitmapLen = 1
    Sizes = {1, 5}
    MaxHeld = 2
    PtrSize = 4
    Alignments = {8, 16}
SPECIFICATION Spec
SYMMETRY ThreadSymmetry
INVARIANTS TypeOK  BitmapExact AlignedInBounds
CHECK_DEADLOCK FALSE
