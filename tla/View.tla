-------------------------------- MODULE View --------------------------------
(***************************************************************************)
(* libui's view tree (libs/libui/src/View.cpp) as Window::receive_event    *)
(* (libs/libui/src/Window.cpp) drives it: mouse moves, leaves and button   *)
(* actions, display and layout events, resizes, and a view removing       *)
(* itself from its superview.  Every event is handled to completion by the window's    *)
(* event loop, so each handler, with all its recursion over the tree, is   *)
(* one action.  Rects are LG::Rect values on a small grid.                 *)
(***************************************************************************)
EXTENDS Integers, SequencesExt, FiniteSetsExt

CONSTANTS
    Views,          \* the View objects of one window
    Root,           \* the window's m_superview
    InitSubviews,   \* m_subviews of every view when events start arriving
    Frame,          \* m_frame of every view, in its superview's coordinates
    Grid,           \* the window's points
    WheelHandlers,  \* views whose mouse_wheel_event returns Handled
    InvalRects,     \* rects (in a view's own coordinates) passed to set_needs_display
    Resizes,        \* bounds of the ResizeEvents the window server sends
    Rgba,           \* the window's bitmap format is LG::PixelBitmapFormat::RGBA
    MaxPending,     \* bound on display messages in flight to the window server
    None,           \* a null View pointer
    Out             \* no pointer position: the mouse has left the window


ASSUME /\ Root \in Views /\ None \notin Views /\ Out \notin Grid
       /\ InitSubviews \in [Views -> Seq(Views)]
       /\ MaxPending \in Nat

VARIABLES
    subviews,   \* m_subviews
    hovered,    \* views whose m_hovered is set
    active,     \* views whose m_active is set
    pointer,    \* the window point of the last mouse event, Out after a leave
    pending,    \* display messages sent to the window server, not yet back
    dirty,      \* window points each view asked to repaint and has not repainted
    scrolled,   \* views whose mouse_wheel_event handled the last event
    laid,       \* the last event's layout target and the views whose
                \* layout_subviews it ran (target None after other events)
    win,        \* Window::m_bounds, also the frame and bounds of m_superview
    bufSize,    \* m_buffer.size(), in pixels
    bitmap      \* m_bitmap's width and height

vars == <<subviews, hovered, active, pointer, pending, dirty, scrolled, laid,
          win, bufSize, bitmap>>

-----------------------------------------------------------------------------
(* LG::Rect: x, y, width, height; max_x = x + width - 1.                   *)

Rect(x, y, w, h) == [x |-> x, y |-> y, w |-> w, h |-> h]
EmptyRect == Rect(0, 0, 0, 0)
RectContains(r, q) == /\ r.x <= q[1] /\ q[1] <= r.x + r.w - 1
                  /\ r.y <= q[2] /\ q[2] <= r.y + r.h - 1
Intersect(a, b) ==
    LET x0 == Max({a.x, b.x})          y0 == Max({a.y, b.y})
        x1 == Min({a.x + a.w, b.x + b.w})  y1 == Min({a.y + a.h, b.y + b.h})
    IN IF x1 <= x0 \/ y1 <= y0 THEN EmptyRect ELSE Rect(x0, y0, x1 - x0, y1 - y0)
Intersects(a, b) == Intersect(a, b) # EmptyRect
OffsetBy(r, o) == [r EXCEPT !.x = @ + o[1], !.y = @ + o[2]]
Minus(o) == <<-o[1], -o[2]>>
Pts(r) == {q \in Grid : RectContains(r, q)}

-----------------------------------------------------------------------------
(* View's geometry and tree.  remove_view never resets the child's        *)
(* m_superview, so the superview is fixed by the tree views were built in.*)

\* The window's superview has the window's bounds, which a resize changes.
Bounds(v) == IF v = Root THEN Rect(0, 0, win.w, win.h) ELSE Rect(0, 0, Frame[v].w, Frame[v].h)
Origin(v) == <<Frame[v].x, Frame[v].y>>
Superview(v) ==
    IF \E u \in Views : v \in Range(InitSubviews[u])
    THEN CHOOSE u \in Views : v \in Range(InitSubviews[u]) ELSE None

\* Views reachable from the window's superview through m_subviews.
RECURSIVE Below(_)
Below(v) == {v} \cup UNION {Below(s) : s \in Range(subviews[v])}
Attached == Below(Root)

\* frame_in_window: the origin of v in window coordinates.
RECURSIVE WinOrigin(_)
WinOrigin(v) == IF Superview(v) = None THEN <<0, 0>>
                ELSE LET o == WinOrigin(Superview(v))
                     IN <<o[1] + Frame[v].x, o[2] + Frame[v].y>>

RECURSIVE Ancestors(_)
Ancestors(v) == IF Superview(v) = None THEN {} ELSE {Superview(v)} \cup Ancestors(Superview(v))

\* The window points where v's rect r shows: inside v and every ancestor.
VisibleWin(v, r) ==
    {q \in Pts(OffsetBy(r, WinOrigin(v))) :
        \A a \in {v} \cup Ancestors(v) : RectContains(OffsetBy(Bounds(a), WinOrigin(a)), q)}

-----------------------------------------------------------------------------
(* receive_mouse_leave_event: a hovered view passes the leave to its       *)
(* hovered subviews, then mouse_exited clears its hovered and active bits. *)
\* Mutant: the leave is not passed on to the hovered subviews.
LeftShallow(v) == IF v \notin hovered THEN {} ELSE {v}

RECURSIVE Left(_)
Left(v) == IF v \notin hovered THEN {}
           ELSE {v} \cup UNION {Left(s) : s \in Range(subviews[v])}

\* receive_mouse_move_event at v, q in v's coordinates: mouse_entered if
\* not hovered; each subview the point misses that is hovered gets a leave,
\* each one it hits gets the move in its own coordinates.
RECURSIVE Moved(_, _)
Moved(v, q) ==
    LET hit(s) == RectContains(Frame[s], q)
        subs   == Range(subviews[v])
        deeper == {Moved(s, <<q[1] - Frame[s].x, q[2] - Frame[s].y>>) : s \in {x \in subs : hit(x)}}
    IN [enter |-> {v} \cup UNION {d.enter : d \in deeper},
        exit  |-> UNION {Left(s) : s \in {x \in subs : x \in hovered /\ ~hit(x)}}
                  \cup UNION {d.exit : d \in deeper}]

\* hit_test: the last (topmost) subview whose frame holds the point, down
\* to a view none of whose subviews does (subview_at walks m_subviews from
\* the back).
RECURSIVE HitTest(_, _)
HitTest(v, q) ==
    LET hits == {i \in DOMAIN subviews[v] : RectContains(Frame[subviews[v][i]], q)}
    IN IF hits = {} THEN v
       ELSE LET s == subviews[v][Max(hits)]
            IN HitTest(s, <<q[1] - Frame[s].x, q[2] - Frame[s].y>>)

\* receive_mouse_wheel_event: every hovered subview gets the event; only
\* when none of them reports a target does the view try mouse_wheel_event.
\* The result is the set of views whose mouse_wheel_event handled it.
RECURSIVE Wheeled(_)
\* Mutant: mouse_wheel_event's response is not checked for Handled.
WheeledAnyResponse(v) ==
    LET below == UNION {Wheeled(s) : s \in {x \in Range(subviews[v]) : x \in hovered}}
    IN IF below # {} THEN below ELSE {v}

Wheeled(v) ==
    LET below == UNION {Wheeled(s) : s \in {x \in Range(subviews[v]) : x \in hovered}}
    IN IF below # {} THEN below ELSE {v} \cap WheelHandlers

\* set_needs_display: clip to the view's bounds, move to the superview's
\* coordinates and pass it up; the window's superview sends the message.
RECURSIVE UpRect(_, _)
\* Mutant: the rect is passed up without subview_location's offset.
UpRectNoOffset(v, r) ==
    LET d == Intersect(r, Bounds(v))
    IN IF Superview(v) = None THEN d ELSE UpRect(Superview(v), d)

UpRect(v, r) ==
    LET d == Intersect(r, Bounds(v))
    IN IF Superview(v) = None THEN d ELSE UpRect(Superview(v), OffsetBy(d, Origin(v)))

\* receive_display_event at v with rect b in v's coordinates, o the window
\* origin of v: the event's bounds are clipped to v's bounds and v paints
\* them; every subview whose frame meets the clipped rect gets it in its
\* own coordinates.  The result is the set of <<view, window rect>> painted.
RECURSIVE Paints(_, _, _)
Paints(v, b, o) ==
    LET c == Intersect(b, Bounds(v))
    IN {<<v, OffsetBy(c, o)>>}
       \cup UNION {Paints(s, OffsetBy(c, Minus(Origin(s))), <<o[1] + Frame[s].x, o[2] + Frame[s].y>>) :
                     s \in {x \in Range(subviews[v]) : Intersects(c, Frame[x])}}

\* receive_layout_event(event, force): a view lays out when it is the
\* target or is forced; its subviews are visited in order, forced when it
\* laid out, and the visit stops after a subview that reports it laid out
\* unless this view did (foreach_subview stops on a false return).
RECURSIVE Layout(_, _, _)
RECURSIVE LayoutSubs(_, _, _, _)
\* Mutant: foreach_subview's callback returns !found_target alone.
LayoutSubsStopOnFound(v, t, need, i) ==
    IF i > Len(subviews[v]) THEN {}
    ELSE LET r == Layout(subviews[v][i], t, need)
         IN r.laid \cup (IF ~r.found THEN LayoutSubs(v, t, need, i + 1) ELSE {})

LayoutSubs(v, t, need, i) ==
    IF i > Len(subviews[v]) THEN {}
    ELSE LET r == Layout(subviews[v][i], t, need)
         IN r.laid \cup (IF need \/ ~r.found THEN LayoutSubs(v, t, need, i + 1) ELSE {})
Layout(v, t, force) ==
    LET need == v = t \/ force
    IN [found |-> need, laid |-> (IF need THEN {v} ELSE {}) \cup LayoutSubs(v, t, need, 1)]

-----------------------------------------------------------------------------

NoLayout == [target |-> None, views |-> {}]

Init ==
    /\ subviews = InitSubviews
    /\ hovered = {}
    /\ active = {}
    /\ pointer = Out
    /\ pending = {}
    /\ dirty = [v \in Views |-> {}]
    /\ laid = NoLayout
    /\ scrolled = {}
    /\ win = Frame[Root]
    /\ bufSize = Frame[Root].w * Frame[Root].h
    /\ bitmap = [w |-> Frame[Root].w, h |-> Frame[Root].h]

\* mouse_entered on the views in E and mouse_exited on those in X: m_hovered
\* set on E, m_hovered and m_active cleared on X (the gesture manager is
\* not modelled).
Hover(E, X) ==
    /\ hovered' = (hovered \ X) \cup E
    /\ active' = active \ X

\* mouse_down sets m_active of the view, mouse_up clears it.
MouseButton(t, pressed) == IF pressed THEN active \cup {t} ELSE active \ {t}

\* Mutant: mouse_exited does not clear m_active.
ReceiveMouseMoveKeepActive(p) ==
    LET m == Moved(Root, p) IN
    /\ hovered' = (hovered \ m.exit) \cup m.enter
    /\ active' = active
    /\ pointer' = p
    /\ laid' = NoLayout
    /\ scrolled' = {}
    /\ UNCHANGED <<win, bufSize, bitmap, subviews, pending, dirty>>

\* Window::receive_event, MouseEvent: m_superview->receive_mouse_move_event.
ReceiveMouseMove(p) ==
    LET m == Moved(Root, p) IN
    /\ Hover(m.enter, m.exit)
    /\ pointer' = p
    /\ laid' = NoLayout
    /\ scrolled' = {}
    /\ UNCHANGED <<win, bufSize, bitmap, subviews, pending, dirty>>

\* MouseLeaveEvent: m_superview->receive_mouse_leave_event.
ReceiveMouseLeave ==
    /\ pointer # Out
    /\ Hover({}, Left(Root))
    /\ pointer' = Out
    /\ laid' = NoLayout
    /\ scrolled' = {}
    /\ UNCHANGED <<win, bufSize, bitmap, subviews, pending, dirty>>

\* MouseActionEvent: the window hit-tests the event's point from its
\* superview and hands the event to that view alone.
MouseActionTarget(p) == HitTest(Root, p)

\* receive_mouse_action_event on the target, at the pointer: mouse_down
\* sets m_active, mouse_up clears it.
ReceiveMouseAction(pressed) ==
    /\ pointer # Out
    /\ LET t == MouseActionTarget(pointer) IN
       active' = MouseButton(t, pressed)
    /\ laid' = NoLayout
    /\ scrolled' = {}
    /\ UNCHANGED <<win, bufSize, bitmap, subviews, hovered, pointer, pending, dirty>>

\* MouseWheelEvent: m_superview->receive_mouse_wheel_event.
ReceiveMouseWheel ==
    /\ pointer # Out
    /\ scrolled' = Wheeled(Root)
    /\ laid' = NoLayout
    /\ UNCHANGED <<win, bufSize, bitmap, subviews, hovered, active, pointer, pending, dirty>>

\* set_needs_display(r) on a view: the message the window's superview
\* sends, and the part of r the view shows on screen, now to repaint.
SetNeedsDisplay(v, r) ==
    /\ Cardinality(pending) < MaxPending
    /\ pending' = pending \cup {UpRect(v, r)}
    /\ dirty' = IF v \in Attached
                THEN [dirty EXCEPT ![v] = @ \cup VisibleWin(v, r)]
                ELSE dirty
    /\ laid' = NoLayout
    /\ scrolled' = {}
    /\ UNCHANGED <<win, bufSize, bitmap, subviews, hovered, active, pointer>>

\* fill_with_opaque(rect): the rect clipped to the window's bounds, and for
\* each of its rows y, fast_set from &m_bitmap[y][min_x] for len_x pixels.
\* A PixelBitmap row y starts at y * width of the bitmap's own size.  The
\* result pairs each buffer index written with the index of the pixel the
\* window means, y * m_bounds.width() + x.
FillWithOpaque(r) ==
    LET d == Intersect(r, Rect(0, 0, win.w, win.h)) IN
    {<<y * bitmap.w + x, y * win.w + x>> : x \in d.x .. d.x + d.w - 1, y \in d.y .. d.y + d.h - 1}

\* DisplayEvent for a message the window server sent back: an RGBA window
\* first fills the event's bounds with opaque colour (FillWithOpaque; pixel
\* contents are not modelled, so the fill leaves no state), then its
\* superview paints them.
ReceiveDisplay(m) ==
    LET painted == Paints(Root, m, <<0, 0>>) IN
    /\ pending' = pending \ {m}
    /\ dirty' = [v \in Views |-> dirty[v] \ UNION {Pts(pr[2]) : pr \in {x \in painted : x[1] = v}}]
    /\ laid' = NoLayout
    /\ scrolled' = {}
    /\ UNCHANGED <<win, bufSize, bitmap, subviews, hovered, active, pointer>>

\* did_buffer_change: m_bitmap takes the buffer's data and the window's
\* bounds as its size (the SetBufferMessage to the server carries the same).
\* Mutant: only set_data is called and the bitmap keeps its old size.
DidBufferChangeKeepSize(r) == bitmap' = bitmap

DidBufferChange(r) == bitmap' = [w |-> r.w, h |-> r.h]

\* ResizeEvent: Window::resize sets m_bounds and m_superview's frame and
\* bounds, asks for a layout (set_needs_layout, outside src/, posts a
\* LayoutEvent, which ReceiveLayout delivers), and resizes the buffer and
\* calls did_buffer_change only when the pixel count changes.  Points a
\* shrink takes out of the window leave the repaint record: the buffer
\* they were in no longer holds them.
Resize(r) ==
    /\ win' = r
    /\ IF bufSize # r.w * r.h
         THEN bufSize' = r.w * r.h /\ DidBufferChange(r)
         ELSE UNCHANGED <<bufSize, bitmap>>
    /\ dirty' = [v \in Views |-> dirty[v] \cap Pts(r)]
    /\ laid' = NoLayout
    /\ scrolled' = {}
    /\ UNCHANGED <<subviews, hovered, active, pointer, pending>>

\* LayoutEvent for target t: m_superview->receive_layout_event(event).
ReceiveLayout(t) ==
    /\ laid' = [target |-> t, views |-> Layout(Root, t, FALSE).laid]
    /\ scrolled' = {}
    /\ UNCHANGED <<win, bufSize, bitmap, subviews, hovered, active, pointer, pending, dirty>>

\* remove_from_superview: std::find, then erase from the superview's list;
\* a view no longer in it returns early.
RemoveFromSuperview(v) ==
    LET p == Superview(v) IN
    /\ p # None
    /\ v \in Range(subviews[p])
    /\ subviews' = [subviews EXCEPT ![p] = RemoveFirst(@, v)]
    /\ dirty' = [u \in Views |-> IF u \in Below(v) THEN {} ELSE dirty[u]]
    /\ laid' = NoLayout
    /\ scrolled' = {}
    /\ UNCHANGED <<win, bufSize, bitmap, hovered, active, pointer, pending>>

Next ==
    \/ \E p \in Pts(win) : ReceiveMouseMove(p)
    \/ ReceiveMouseLeave
    \/ \E b \in BOOLEAN : ReceiveMouseAction(b)
    \/ ReceiveMouseWheel
    \/ \E v \in Views, r \in InvalRects : SetNeedsDisplay(v, r)
    \/ \E m \in pending : ReceiveDisplay(m)
    \/ \E t \in Views : ReceiveLayout(t)
    \/ \E v \in Views : RemoveFromSuperview(v)
    \/ \E r \in Resizes : Resize(r)

Spec == Init /\ [][Next]_vars

-----------------------------------------------------------------------------
(* Properties.                                                             *)

TypeOK ==
    /\ subviews \in [Views -> Seq(Views)]
    /\ hovered \subseteq Views /\ active \subseteq Views
    /\ pointer \in Grid \cup {Out}
    /\ \A m \in pending : m \in [x : Int, y : Int, w : Int, h : Int]
    /\ dirty \in [Views -> SUBSET Grid]
    /\ scrolled \subseteq WheelHandlers
    /\ laid.target \in Views \cup {None} /\ laid.views \subseteq Views
    /\ win \in Resizes \cup {Frame[Root]} /\ bufSize \in Nat
    /\ bitmap \in [w : Nat, h : Nat]

\* The fill_with_opaque that an RGBA window runs for any display event in
\* flight, were it delivered now, writes inside m_buffer, and each pixel it
\* writes is the window pixel it means: after any sequence of resizes,
\* m_bitmap's row width is the window's (Window::resize calls
\* did_buffer_change, which resizes the bitmap, only when the buffer's
\* pixel count changes).
OpaqueFillExact ==
    Rgba => \A m \in pending : \A o \in FillWithOpaque(m) : o[1] = o[2] /\ o[1] < bufSize

\* The frame of a (non-root) view in window coordinates.
WinFrame(a) == OffsetBy(Frame[a], WinOrigin(Superview(a)))

\* Hover is exact: after any sequence of moves, leaves and removals, a view
\* in the window's tree is hovered iff the pointer is in the window and
\* inside its frame and every ancestor's (receive_mouse_move_event and
\* receive_mouse_leave_event keep m_hovered in step with the pointer).
HoverExact ==
    \A v \in Attached :
        v \in hovered <=>
            /\ pointer # Out
            /\ \A a \in ({v} \cup Ancestors(v)) \ {Root} : RectContains(WinFrame(a), pointer)

\* A view of the window's tree is only active (pressed) while hovered:
\* mouse_down reaches the hit-test target, and mouse_exited clears m_active
\* on every view a move or leave takes the pointer out of.
ActiveImpliesHovered ==
    \A v \in Attached : v \in active => v \in hovered

\* No repaint is lost: every window point that a view of the tree asked to
\* repaint with set_needs_display and has not yet repainted lies in a
\* display message still in flight, so the DisplayEvent that comes back
\* repaints it (set_needs_display's rect going up, receive_display_event's
\* clipping going down).
InvalidationNotLost ==
    \A v \in Attached : dirty[v] \subseteq UNION {Pts(m) : m \in pending}

\* A layout event lays out exactly the target's subtree when the target is
\* in the window's tree, and nothing otherwise (receive_layout_event's
\* forcing and its early stop in foreach_subview).
LayoutExact ==
    laid.target # None =>
        laid.views = IF laid.target \in Attached THEN Below(laid.target) ELSE {}

\* One wheel event scrolls at most one view (the comment in
\* receive_mouse_wheel_event: a view handles the event when no child can).
ScrollsAtMostOne ==
    Cardinality(scrolled) <= 1

====
