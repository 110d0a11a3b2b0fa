CONSTANTS
    Width = 8
    HeaderSize = 16
    DefaultBlock = 128
    MaxBlocks = 2
    Sizes = {0, 6, 20, 100}
    CallocArgs <- CallocSmall
    MaxHeld = 3
SPECIFICATION Spec
INVARIANTS HeapTiled Coalesced HeldExact MallocBigEnough
PROPERTY ImplementsAllocator
CHECK_DEADLOCK FALSE
