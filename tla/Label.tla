------------------------------- MODULE Label --------------------------------
(***************************************************************************)
(* The text layout of UI::Label (src/libs/libui/src/Label.cpp): the width *)
(* recalc_bounds gives a label, and where display draws its glyphs and    *)
(* its "..." when the text does not fit.  Both are pure functions of the  *)
(* label's width, its content insets, its alignment and its text, so they *)
(* are operators here, checked over every input of small bounded sets.    *)
(*                                                                         *)
(* A glyph is a model value with the advance the font gives it; the font  *)
(* itself (libg, outside src/) is the constant Advance.  The y coordinate *)
(* and the colours are left out: no property is about them.  The size_t  *)
(* arithmetic of display is kept modulo 2^SizeBits.                        *)
(***************************************************************************)
EXTENDS Integers, Sequences

CONSTANTS
    Advance,      \* glyph -> f.glyph(g).advance()
    Dot,          \* the glyph '.'
    SizeBits,     \* width of size_t
    Texts,        \* texts a label may hold (m_text)
    InsetValues,  \* values of content_edge_insets().left() and .right()
    Alignments    \* a subset of {"Left", "Center", "Right"}

ASSUME Dot \in DOMAIN Advance /\ SizeBits \in Nat \ {0}

SizeT(n) == n % (2 ^ SizeBits)

\* C's int division, which truncates toward zero.
CDiv(a, b) == IF a >= 0 THEN a \div b ELSE -((-a) \div b)

IntMax(a, b) == IF a >= b THEN a ELSE b

\* Label::text_width (lines 74-87): the sum of the glyphs' advances.
RECURSIVE TextWidth(_)
TextWidth(text) == IF text = << >> THEN 0 ELSE Advance[Head(text)] + TextWidth(Tail(text))

\* Mutant: recalc_bounds leaves out the right inset.
RecalcBoundsNoRight(text, ins) == SizeT(TextWidth(text) + ins.left)

\* Label::recalc_bounds (lines 66-72): the width set_width is given.
RecalcBounds(text, ins) == SizeT(TextWidth(text) + ins.left + ins.right)

\* display, line 32: the content width, in size_t.
LabelWidth(w, ins) == SizeT(w - ins.left - ins.right)

\* display, lines 42-49: the x of the first glyph for each alignment.
TextStart(w, ins, align, text) ==
    CASE align = "Left"   -> ins.left
      [] align = "Center" -> IntMax(ins.left, CDiv(w - TextWidth(text), 2))
      [] align = "Right"  -> IntMax(ins.left, w - TextWidth(text))

\* display, lines 52-63: draw glyphs from x on; once the text was found
\* too wide (need) and the next glyph would pass stop, draw three dots and
\* return.  Each drawn glyph is [x |-> its x, g |-> the glyph].
RECURSIVE DrawFrom(_, _, _, _)
DrawFrom(text, x, need, stop) ==
    IF text = << >> THEN << >>
    ELSE IF need /\ SizeT(x + Advance[Head(text)]) > stop
         THEN [j \in 1 .. 3 |-> [x |-> x + (j - 1) * Advance[Dot], g |-> Dot]]
         ELSE <<[x |-> x, g |-> Head(text)]>>
                \o DrawFrom(Tail(text), x + Advance[Head(text)], need, stop)

\* Label::display (lines 26-64) of a label w wide.
Display(w, ins, align, text) ==
    LET lw == LabelWidth(w, ins)
        need == TextWidth(text) > lw                                  \* line 37
        stop == SizeT(ins.left + lw - Advance[Dot])                   \* line 38
    IN DrawFrom(text, TextStart(w, ins, align, text), need, stop)

Insets == [left : InsetValues, right : InsetValues]

-----------------------------------------------------------------------------
\* A label sized by recalc_bounds to its own text must show that text
\* whole: display draws every glyph of m_text, in order, each one advance
\* after the last, and the last one ends inside the label's bounds.  This
\* ties the size_t content width of display (line 32) and its stop test
\* (lines 37, 54) to the width recalc_bounds computes (line 68).
FittedLabelShowsText ==
    \A text \in Texts, ins \in Insets, align \in Alignments :
        LET w == RecalcBounds(text, ins)
            d == Display(w, ins, align, text)
        IN /\ Len(d) = Len(text)
           /\ \A k \in 1 .. Len(d) : d[k].g = text[k]
           /\ \A k \in 1 .. Len(d) - 1 : d[k + 1].x = d[k].x + Advance[text[k]]
           /\ \A k \in 1 .. Len(d) : 0 <= d[k].x /\ d[k].x + Advance[d[k].g] <= w

\* A truncated text and its "..." end inside the label's content width:
\* display reserves room (line 38) for what it draws at lines 55-58.
\* Not a property of any run: display reserves one dot's advance and draws
\* three, so the dots pass the content edge by up to two advances.
TruncationWithinLabel ==
    \A text \in Texts, ins \in Insets, align \in Alignments :
        \A w \in ins.left + ins.right .. ins.left + ins.right + TextWidth(text) - 1 :
            LET d == Display(w, ins, align, text)
            IN \A k \in 1 .. Len(d) : d[k].x + Advance[d[k].g] <= w - ins.right
====
