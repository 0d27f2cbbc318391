------------------------------ MODULE TextFrame -------------------------------
(***************************************************************************)
(* A frame of an editor (Layout in internal/ui/workspace/editor.go and     *)
(* response.go): what is made of its size before the events of the frame   *)
(* are handled, where a caret is on the wrapped screen and a click in the  *)
(* text, and what is painted after them.                                   *)
(***************************************************************************)
EXTENDS TextEdit

-----------------------------------------------------------------------------
(* Words are coloured unless the text is plain.                            *)

\* The language is taken from the text: one that starts with a bracket has one.
IsPlain(t) == t = <<>> \/ t[1] # "("

\* What the highlighter finds: the words.
WordStarts(t) == {i \in RuneStarts(t) : i < Len(t) /\ t[i + 1] \in WordBytes /\ (i = 0 \/ t[i] \notin WordBytes)}
Words(t) == [k \in DOMAIN Sorted(WordStarts(t)) |->
                <<Sorted(WordStarts(t))[k], RightOver(t, Sorted(WordStarts(t))[k], WordBytes)>>]

Tokenized(e) == [e EXCEPT !.tokens = [known |-> TRUE, of |-> Words(e.text), txt |-> Len(e.text), dirty |-> FALSE]]

StaleTokens(e) == e.tokens.dirty \/ e.tokens.txt # Len(e.text)

\* A small body at once, a large one and any response when no change came for a while ("calm").
Tokenize(e, calm) ==
    IF IsPlain(e.text)
    THEN IF e.tokens.known THEN [e EXCEPT !.tokens = [NoTokens EXCEPT !.dirty = e.tokens.dirty]] ELSE e
    ELSE IF ~e.tokens.known \/ (StaleTokens(e) /\ (calm \/ (e.kind = "request" /\ Len(e.text) <= SyncMax)))
    THEN Tokenized(e)
    ELSE [e EXCEPT !.tokens.dirty = StaleTokens(e)]

-----------------------------------------------------------------------------
(* Rows and columns.  A caret after a full last row stays on that row.     *)

Columns(t, start, i) == RuneCount(t, start, i)

RowOf(t, start, end, i, width) ==
    LET n == Columns(t, start, i)
    IN  IF i >= end /\ n > 0 /\ n % width = 0 THEN n \div width - 1 ELSE n \div width

CaretInRows(t, start, end, i, width) ==
    <<Columns(t, start, i) - RowOf(t, start, end, i, width) * width, RowOf(t, start, end, i, width)>>

LastRow(t, start, end, width) == RowsFor(Columns(t, start, end), width) - 1

PlaceInRows(t, start, end, x, row, width) ==
    Max({i \in RuneStarts(t) : /\ start <= i /\ i <= end
            /\ Columns(t, start, i) <= AtMost(row, LastRow(t, start, end, width)) * width + AtMost(x, width)})

\* A long line is looked up in the piece of its plan.
WrapPlanFor(e, n) ==
    LET line == LineBounds(e.text, e.lineStarts, n)
    IN  EnsureWrapPlan(e.wrapPlans[n], e.text, line[1], line[2], e.view.width)

IsLong(e, n) ==
    LineBounds(e.text, e.lineStarts, n)[2] - LineBounds(e.text, e.lineStarts, n)[1] >= LongLine

PlanSubForByte(p, rel) == Max({1} \cup {k \in DOMAIN p.starts : p.starts[k] <= rel})
PlanSubForWrapLine(p, row) ==
    Min({Len(p.starts)} \cup {k \in DOMAIN p.subs : row < SumTo(p.subs, k)})
PlanSubBounds(p, k, line) ==
    <<line[1] + p.starts[k], IF k < Len(p.starts) THEN line[1] + p.starts[k + 1] ELSE line[2]>>

CaretInPiece(t, p, k, piece, i, width) ==
    LET at == CaretInRows(t, piece[1], piece[2], i, width)
    IN  <<at[1], SumTo(p.subs, k - 1) + at[2]>>

CaretInPlan(t, p, line, i, width) ==
    LET k == PlanSubForByte(p, i - line[1])
    IN  CaretInPiece(t, p, k, PlanSubBounds(p, k, line), i, width)

WrapCaretXY(e, n, i) ==
    LET line == LineBounds(e.text, e.lineStarts, n)
        at == AtLeast(i, line[1])
    IN  IF IsLong(e, n) THEN CaretInPlan(e.text, WrapPlanFor(e, n), line, at, e.view.width)
        ELSE CaretInRows(e.text, line[1], line[2], at, e.view.width)

PlaceInPlan(t, p, line, x, row, width) ==
    LET k == PlanSubForWrapLine(p, row)
        piece == PlanSubBounds(p, k, line)
    IN  PlaceInRows(t, piece[1], piece[2], x, row - SumTo(p.subs, k - 1), width)

WrapByteAt(e, n, x, row) ==
    LET line == LineBounds(e.text, e.lineStarts, n)
    IN  IF IsLong(e, n) THEN PlaceInPlan(e.text, WrapPlanFor(e, n), line, x, row, e.view.width)
        ELSE PlaceInRows(e.text, line[1], line[2], x, row, e.view.width)

WrapMaxLineOf(e, n) ==
    IF IsLong(e, n) THEN AtLeast(PlanRows(WrapPlanFor(e, n)), 1) - 1
    ELSE LastRow(e.text, LineBounds(e.text, e.lineStarts, n)[1], LineBounds(e.text, e.lineStarts, n)[2], e.view.width)

\* Looking a line up leaves its plan behind.
PlanKept(e, n) == IF IsLong(e, n) THEN [e EXCEPT !.wrapPlans[n] = WrapPlanFor(e, n)] ELSE e

\* The place a row above or below, at column x.
RowAbove(e, n, row, x) ==
    IF row > 0 THEN WrapByteAt(e, n, x, row - 1)
    ELSE IF n = 1 THEN 0 ELSE WrapByteAt(e, n - 1, x, WrapMaxLineOf(e, n - 1))

RowBelow(e, n, row, x) ==
    IF row < WrapMaxLineOf(e, n) THEN WrapByteAt(e, n, x, row + 1)
    ELSE IF n = Len(e.lineStarts) THEN Len(e.text) ELSE WrapByteAt(e, n + 1, x, 0)

RowBeside(e, n, row, x, dir) == IF dir < 0 THEN RowAbove(e, n, row, x) ELSE RowBelow(e, n, row, x)

MoveXFrom(e, n, i, x, dir) == RowBeside(e, n, WrapCaretXY(e, n, i)[2], x, dir)

WrapLineMoveX(e, i, x, dir) == MoveXFrom(e, LineForByteOffset(e.lineStarts, i), i, x, dir)

VisualXAt(e, i) == WrapCaretXY(e, LineForByteOffset(e.lineStarts, i), i)[1]

\* The lines a row's move looks up leave their plans behind.
LineReached(e, n, row, dir) ==
    IF dir < 0 /\ row = 0 THEN AtLeast(n - 1, 1)
    ELSE IF dir > 0 /\ row = WrapMaxLineOf(e, n) THEN AtMost(n + 1, Len(e.lineStarts)) ELSE n

BothPlansKept(e, n, other) == PlanKept(PlanKept(e, n), other)

PlansUsedFrom(e, n, i, dir) == BothPlansKept(e, n, LineReached(e, n, WrapCaretXY(e, n, i)[2], dir))

PlansUsed(e, i, dir) == PlansUsedFrom(e, LineForByteOffset(e.lineStarts, i), i, dir)

RowStep(e, i, x, col, dir) ==
    IF e.view.wrap THEN WrapLineMoveX(e, i, x, dir)
    ELSE IF dir < 0 THEN LineUp(e.text, i, col) ELSE LineDown(e.text, i, col)

\* Once for an arrow, a screen's rows for a page; the column is that of the start.
RowsMoved(e, x, col, dir, times) ==
    FoldLeft(LAMBDA w, k : [ed |-> IF e.view.wrap THEN PlansUsed(w.ed, w.at, dir) ELSE w.ed,
                            at |-> RowStep(w.ed, w.at, x, col, dir)],
             [ed |-> e, at |-> e.selEnd], [k \in 1..times |-> k])

MovedTo(w, extend) == MoveCaret(w.ed, w.at, extend)

RowMove(e, dir, times, extend) ==
    MovedTo(RowsMoved(e, IF e.view.wrap THEN VisualXAt(e, e.selEnd) ELSE 0, ColumnAt(e.text, e.selEnd),
                      dir, times), extend)

-----------------------------------------------------------------------------
(* A press at column x of row y of the screen.                             *)

\* Heights not known are estimated.
Estimated(e, n) == EstimateHeight(e.text, e.lineStarts, n, e.view)
Filled(e) == [k \in DOMAIN e.chunkHeights |-> IF e.chunkHeights[k] > 0 THEN e.chunkHeights[k] ELSE Estimated(e, k)]

LineAtRow(e, y) == AtMost(FirstChunkAt(Filled(e), y + e.scrollY), Len(e.chunkHeights))

CoordToByteOffset(e, x, y) ==
    LET n == LineAtRow(e, y)
        line == LineBounds(e.text, e.lineStarts, n)
    IN  IF e.view.wrap
        THEN WrapByteAt(e, n, x, AtLeast(y + e.scrollY - SumTo(Filled(e), n - 1), 0))
        ELSE Max({i \in RuneStarts(e.text) : line[1] <= i /\ i <= line[2] /\ Columns(e.text, line[1], i) <= x})

\* A press soon after another in the same place counts with it, up to four.
ResolveClickCount(e, again) == IF again /\ e.clicks < 4 THEN e.clicks + 1 ELSE 1

Pressed(e, i, shift) ==
    LET line == SourceLineBoundsAt(e.text, i)
        word == WordBoundsAt(e.text, i)
    IN  CASE e.clicks = 4 -> [Select(e, 0, Len(e.text)) EXCEPT !.dragActive = FALSE]
          [] e.clicks = 3 -> [Select(e, line[1], line[2]) EXCEPT !.dragActive = FALSE]
          [] e.clicks = 2 -> [Select(e, word[1], word[2]) EXCEPT !.dragActive = FALSE]
          [] OTHER -> [Select(e, IF shift THEN e.selStart ELSE i, i) EXCEPT !.dragActive = TRUE]

\* Dragged beyond an edge, the text scrolls a row first.
DragScrolled(e, y) ==
    IF y \in 0..(Rows - 1) THEN e ELSE ClampScroll(ScrollTo(e, e.scrollY + (IF y < 0 THEN -1 ELSE 1)))

-----------------------------------------------------------------------------
(* Before the events: another width or way of wrapping, and all heights.   *)

WasAtBottom(e) == e.lastTotalH > 0 /\ e.scrollY > 0 /\ e.scrollY >= e.lastTotalH - Rows - 1

AnchorOf(e) == AnchorByte(e.text, e.lineStarts, Filled(e), e.scrollY, e.view)

PaintedHeight(e, n) ==
    IF e.view.wrap /\ IsLong(e, n) THEN PlanRows(WrapPlanFor(e, n))
    ELSE MeasuredHeight(e.text, e.lineStarts, n, e.view)

WithHeight(e, n, h) == [e EXCEPT !.chunkHeights[n] = h]

Measured(e, n) == WithHeight(IF e.view.wrap THEN PlanKept(e, n) ELSE e, n, PaintedHeight(e, n))

\* The last lines, up to a screen and a row of them, so that the end stays where it is.
MeasureTailChunks(e) ==
    IF ~e.view.wrap THEN e
    ELSE FoldLeft(LAMBDA f, n : IF SumTo(Reverse(f.chunkHeights), Len(f.chunkHeights) - n) < Rows + 1
                                THEN Measured(f, n) ELSE f,
                  e, Reverse([n \in DOMAIN e.lineStarts |-> n]))

Unsized(e, view) ==
    [e EXCEPT !.view = view, !.chunkHeights = Pad(<<>>, Len(e.lineStarts), 0),
              !.wrapPlans = [k \in DOMAIN @ |-> [@[k] EXCEPT !.valid = FALSE]],
              !.anchor = IF @ < 0 THEN AnchorOf(e) ELSE @,
              !.geoFrame = TRUE, !.stickBottom = WasAtBottom(e)]

\* The end stays where it is, or else what was on top.
Anchored(e) ==
    IF e.stickBottom THEN MeasureTailChunks(e)
    ELSE [e EXCEPT !.scrollY = ScrollForByte(e.text, e.lineStarts, Filled(e), e.anchor, e.view)]

Resized(e, view) == Anchored(Unsized(e, view))

Padded(e) == [e EXCEPT !.chunkHeights = Pad(@, Len(e.lineStarts), 0),
                       !.wrapPlans = Pad(@, Len(e.lineStarts), NoPlan)]

TotalledAs(e, heights, total) ==
    [e EXCEPT !.chunkHeights = heights, !.lastTotalH = total,
              !.scrollY = IF e.stickBottom THEN total - Rows ELSE @]

Totalled(e) == TotalledAs(e, Filled(e), AtLeast(SumTo(Filled(e), Len(e.chunkHeights)), Rows))

NeedsResize(e, view) == view.wrap # e.view.wrap \/ (view.wrap /\ view.width # e.view.width)

Fitted(e, view) == IF NeedsResize(e, view) THEN Resized(Padded(e), view) ELSE e

Scrolled(e, by) == ClampScroll(IF by = 0 THEN e ELSE ScrollTo(e, e.scrollY + by))

BeginFrame(e, view, scrolled, calm) ==
    Scrolled(Totalled(Padded(Fitted(IF e.kind = "response" THEN Tokenize(e, calm) ELSE e, view))), scrolled)

-----------------------------------------------------------------------------
(* After the events: the match to show, and what painting found.           *)

Revealed(e, top) ==
    LET inset == AtMost(e.inset, (Rows - 1) \div 3)
        f == ClampScroll(IF top < e.scrollY + inset \/ top + 1 > e.scrollY + Rows - inset
                         THEN ScrollTo(e, top - (Rows - 1) \div 2) ELSE e)
    IN  [f EXCEPT !.reveal = <<>>, !.revealY = top - f.scrollY]

RevealRow(e, n, start) ==
    SumTo(Filled(e), n - 1) + (IF e.view.wrap THEN WrapCaretXY(e, n, start)[2] ELSE 0)

RevealLine(e, n, start) == Revealed(IF e.view.wrap THEN PlanKept(e, n) ELSE e, RevealRow(e, n, start))

RevealAt(e, start) == RevealLine(e, LineForByteOffset(e.lineStarts, start), start)

ApplyReveal(e) ==
    IF e.reveal = <<>> THEN e
    ELSE RevealAt(e, AtMost(AtMost(e.reveal[1], e.reveal[2]), Len(e.text)))

\* From the first line on the screen until the screen is full.
HeightFrom(e, from, n) == SumTo(e.chunkHeights, n - 1) - SumTo(e.chunkHeights, from - 1)

PaintedFrom(e, from, top) ==
    FoldLeft(LAMBDA f, n : IF n >= from /\ top + HeightFrom(f, from, n) < e.scrollY + Rows
                           THEN Measured(f, n) ELSE f,
             e, [n \in DOMAIN e.lineStarts |-> n])

PaintedBelow(e, from) == PaintedFrom(e, from, SumTo(Filled(e), from - 1))

Painted(e) == PaintedBelow(e, FirstChunkAt(Filled(e), AtLeast(e.scrollY, 0)))

Settled(e) ==
    LET anchored == e.anchor < 0 \/ e.scrollY # e.prevFrameScrY
    IN  [e EXCEPT !.geoFrame = FALSE, !.prevFrameScrY = e.scrollY,
                  !.anchor = IF ~e.geoFrame /\ anchored THEN AnchorOf(e) ELSE @]

EndFrame(e, calm) == Settled(Painted(ApplyReveal(IF e.kind = "request" THEN Tokenize(e, calm) ELSE e)))
=============================================================================
