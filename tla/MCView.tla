------------------------------- MODULE MCView -------------------------------
(***************************************************************************)
(* A window of 4x3 points: the root view, a panel A with a child C, and a  *)
(* view B added after A that overlaps A's right column (so B is on top    *)
(* there).                                                                 *)
(***************************************************************************)
EXTENDS View, Label

CONSTANTS R, A, B, C, GlyphI, GlyphM, GlyphDot

MCViews == {R, A, B, C}
MCInitSubviews == [v \in MCViews |->
                     CASE v = R -> <<A, B>>
                       [] v = A -> <<C>>
                       [] OTHER -> << >>]
MCFrame == [v \in MCViews |->
              CASE v = R -> Rect(0, 0, 4, 3)
                [] v = A -> Rect(0, 0, 3, 3)
                [] v = B -> Rect(2, 0, 2, 2)
                [] OTHER -> Rect(1, 1, 2, 2)]
MCGrid == (0..3) \X (0..2)
\* set_needs_display of a whole view, and of a 2x2 rect at (1, 1)
MCInvalRects == {Rect(0, 0, 4, 3), Rect(1, 1, 2, 2)}
\* the window shrunk by a column and a row (a second one keeps the size)
MCResizes == {Rect(0, 0, 3, 2)}
\* a resize that keeps the pixel count: 4x3 to 3x4 (needs a 4x4 grid)
MCResizesSameArea == {Rect(0, 0, 3, 4)}
MCGrid4 == (0..3) \X (0..3)
MCWheelNone == {}
MCWheelAB == {A, B}

\* Labels: a narrow and a wide glyph and the dot, every text of up to three
\* glyphs, insets 0, 1 and 4 on either side (4 is two dot advances).
MCAdvance == [g \in {GlyphI, GlyphM, GlyphDot} |->
                CASE g = GlyphI -> 2 [] g = GlyphM -> 5 [] OTHER -> 2]
MCTexts == BoundedSeq({GlyphI, GlyphM}, 3)

\* FittedLabelShowsText (Label.tla) in every state of the window: a label
\* sized by recalc_bounds shows its whole text.  Label::display reads none
\* of the view tree's state, so the implication only makes the constant
\* property a state predicate TLC checks as an invariant.
LabelShowsText == TypeOK => FittedLabelShowsText

====
