\* The view tree of MCView under every event Window::receive_event
\* dispatches to it.
CONSTANTS
    R = R
    A = A
    B = B
    C = C
    Views <- MCViews
    Root = R
    InitSubviews <- MCInitSubviews
    Frame <- MCFrame
    Grid <- MCGrid
    InvalRects <- MCInvalRects
    WheelHandlers <- MCWheelNone
    Resizes <- MCResizes
    Rgba = TRUE
    MaxPending = 1
    None = None
    Out = Out
    GlyphI = GlyphI
    GlyphM = GlyphM
    GlyphDot = GlyphDot
    Advance <- MCAdvance
    Dot = GlyphDot
    SizeBits = 16
    Texts <- MCTexts
    InsetValues = {0, 1, 4}
    Alignments = {"Left", "Center", "Right"}
SPECIFICATION Spec
INVARIANTS TypeOK HoverExact ActiveImpliesHovered InvalidationNotLost LayoutExact LabelShowsText
