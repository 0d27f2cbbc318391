------------------------------- MODULE TextCore -------------------------------
(***************************************************************************)
(* What the request editor and the response viewer share                   *)
(* (internal/ui/workspace/textcore.go, response.go): the places of a text, *)
(* its lines, their heights on the screen and how long lines are wrapped.  *)
(*                                                                         *)
(* A text is a sequence of bytes, a place in it the number of bytes before *)
(* it.  One character has two bytes, Lead and Trail; the others are bytes   *)
(* of their own.  The font is monospaced: a row of the screen holds        *)
(* "width" characters, and heights are counted in rows.                    *)
(***************************************************************************)
EXTENDS Integers, Sequences, FiniteSets, SequencesExt, FiniteSetsExt

CONSTANTS Letters,   \* the bytes of words besides the two of the wide character
          LongLine,  \* longLineThresholdBytes: from here a line is wrapped by a plan
          SubLines   \* subLinesPerWrapChunk: rows in one piece of a plan

Lead == "e1"
Trail == "e2"
Brackets == {"(", ")"}
LineEnds == {"nl", "cr"}
Blanks == {"sp", "tab"}
Separators == LineEnds \cup Blanks \cup Brackets
WordBytes == Letters \cup {Lead, Trail}
Bytes == Separators \cup WordBytes

Part(t, i, j) == SubSeq(t, i + 1, j)
AtLeast(n, m) == IF n < m THEN m ELSE n
AtMost(n, m) == IF n > m THEN m ELSE n

-----------------------------------------------------------------------------
(* Characters and words.                                                   *)

RuneStarts(t) == {i \in 0..Len(t) : i = Len(t) \/ t[i + 1] # Trail}
RuneCount(t, i, j) == Cardinality({k \in (i + 1)..j : t[k] # Trail})
ByteToRune(t, i) == RuneCount(t, 0, AtMost(i, Len(t)))
RuneIdxToByte(t, n) == Max({i \in RuneStarts(t) : RuneCount(t, 0, i) <= n})

CharLeft(t, i) == IF i <= 0 THEN 0 ELSE Max({j \in RuneStarts(t) : j < i})
CharRight(t, i) == IF i >= Len(t) THEN Len(t) ELSE Min({j \in RuneStarts(t) : j > i})

\* The ends of the run of bytes of S before and after a place.
LeftOver(t, i, S) == Min({j \in 0..i : \A k \in (j + 1)..i : t[k] \in S})
RightOver(t, i, S) == Max({j \in i..Len(t) : \A k \in (i + 1)..j : t[k] \in S})

WordLeft(t, i) == LeftOver(t, LeftOver(t, i, Separators), WordBytes)

\* The next word, unless the line ends before it; from the end of a line into the next one.
WordRight(t, i) ==
    LET gap == Separators \ LineEnds
        next == RightOver(t, RightOver(t, i, WordBytes), gap)
    IN  IF next > i THEN next ELSE RightOver(t, RightOver(t, i, LineEnds), gap)

WordBoundsAt(t, i) ==
    CASE i >= Len(t) -> <<LeftOver(t, Len(t), WordBytes), Len(t)>>
      [] i < Len(t) /\ t[i + 1] \in LineEnds ->
            IF LeftOver(t, i, Blanks) < i THEN <<LeftOver(t, i, Blanks), i>>
            ELSE <<LeftOver(t, i, WordBytes), i>>
      [] i < Len(t) /\ t[i + 1] \in Blanks -> <<LeftOver(t, i, Blanks), RightOver(t, i, Blanks)>>
      [] i < Len(t) /\ t[i + 1] \in Brackets -> <<i, i + 1>>
      [] OTHER -> <<LeftOver(t, i, WordBytes), RightOver(t, i, WordBytes)>>

WithoutCR(t, start, end) == IF end > start /\ t[end] = "cr" THEN end - 1 ELSE end

SourceLineBoundsAt(t, i) ==
    LET start == LeftOver(t, i, Bytes \ {"nl"})
    IN  <<start, WithoutCR(t, start, RightOver(t, i, Bytes \ {"nl"}))>>

ColumnAt(t, i) == RuneCount(t, SourceLineBoundsAt(t, i)[1], i)

OffsetAtColumn(t, start, col) ==
    Max({i \in RuneStarts(t) : /\ start <= i /\ i <= AtLeast(SourceLineBoundsAt(t, start)[2], start)
                               /\ RuneCount(t, start, i) <= col})

LineUp(t, i, col) ==
    LET start == SourceLineBoundsAt(t, i)[1]
    IN  IF start = 0 THEN 0 ELSE OffsetAtColumn(t, SourceLineBoundsAt(t, start - 1)[1], col)

Past(t, i, c) == IF i < Len(t) /\ t[i + 1] = c THEN i + 1 ELSE i

LineDown(t, i, col) ==
    LET next == Past(t, Past(t, SourceLineBoundsAt(t, i)[2], "cr"), "nl")
    IN  IF next >= Len(t) THEN Len(t) ELSE OffsetAtColumn(t, next, col)

-----------------------------------------------------------------------------
(* The starts of the lines, kept up to date edit by edit.                  *)

Sorted(S) == SetToSortSeq(S, <)

\* The starts of lines that the line ends among the bytes i+1 to j begin.
StartsWithin(t, i, j) == Sorted({k \in (i + 1)..j : t[k] = "nl"})

\* What all of a text amounts to.
LineStarts(t) == <<0>> \o StartsWithin(t, 0, Len(t))

RebuildLineStarts(t) == <<0>> \o StartsWithin(t, 0, Len(t))

AppendLineStartsFrom(lines, t, start) ==
    LET kept == SelectSeq(lines, LAMBDA s : s <= start \/ s = 0)
    IN  kept \o StartsWithin(t, Last(kept), Len(t))

LineStartsInsert(lines, t, pos, length) ==
    LET kept == SelectSeq(lines, LAMBDA s : s <= pos)
        moved == SubSeq(lines, Len(kept) + 1, Len(lines))
    IN  kept \o StartsWithin(t, pos, pos + length) \o [i \in DOMAIN moved |-> moved[i] + length]

\* Mutant: the line behind a deleted line end stays a line.
LineStartsDeleteKeeps(lines, start, length) ==
    LET kept == SelectSeq(lines, LAMBDA s : s <= start)
        moved == SelectSeq(lines, LAMBDA s : s >= start + length)
    IN  kept \o [i \in DOMAIN moved |-> moved[i] - length]

LineStartsDelete(lines, start, length) ==
    LET kept == SelectSeq(lines, LAMBDA s : s <= start)
        moved == SelectSeq(lines, LAMBDA s : s > start + length)
    IN  kept \o [i \in DOMAIN moved |-> moved[i] - length]

LineForByteOffset(lines, i) == Max({n \in DOMAIN lines : lines[n] <= i})

NextStart(t, lines, n) == IF n < Len(lines) THEN lines[n + 1] ELSE Len(t)

WithoutLineEnd(t, start, end) ==
    WithoutCR(t, start, IF end > start /\ t[end] = "nl" THEN end - 1 ELSE end)

LineBounds(t, lines, n) == <<lines[n], WithoutLineEnd(t, lines[n], NextStart(t, lines, n))>>

-----------------------------------------------------------------------------
(* Heights, and what scrolling makes of them.  0: not known.               *)

\* One value per line; an edit drops those from its line on.
Pad(s, n, v) == IF Len(s) < n THEN s \o [i \in 1..(n - Len(s)) |-> v] ELSE SubSeq(s, 1, n)
CutFrom(s, lines, pos) == SubSeq(s, 1, AtMost(LineForByteOffset(lines, pos) - 1, Len(s)))

RowsFor(runes, width) == AtLeast((runes + width - 1) \div width, 1)

\* A view: [wrap, width].
EstimateHeight(t, lines, n, view) ==
    IF ~view.wrap THEN 1 ELSE RowsFor(RuneCount(t, lines[n], NextStart(t, lines, n)), view.width)

\* What painting a line takes: the line end is not painted.
MeasuredHeight(t, lines, n, view) ==
    LET line == LineBounds(t, lines, n)
    IN  IF ~view.wrap THEN 1 ELSE RowsFor(RuneCount(t, line[1], line[2]), view.width)

SumTo(h, n) == FoldLeft(+, 0, SubSeq(h, 1, n))

FirstChunkAt(h, y) ==
    IF \E n \in DOMAIN h : SumTo(h, n) > y THEN Min({n \in DOMAIN h : SumTo(h, n) > y}) ELSE Len(h) + 1

\* The byte at the top of the screen.
AnchorByte(t, lines, h, scroll, view) ==
    LET n == IF scroll <= 0 THEN 1 ELSE FirstChunkAt(h, scroll)
        row == scroll - SumTo(h, n - 1)
        line == LineBounds(t, lines, n)
        behind == {i \in RuneStarts(t) : i <= line[2] /\ RuneCount(t, line[1], i) <= row * view.width}
    IN  IF n > Len(lines) THEN Len(t)
        ELSE IF ~view.wrap \/ scroll <= 0 \/ row <= 0 THEN line[1]
        ELSE Max(behind)

ScrollForByte(t, lines, h, off, view) ==
    LET i == AtMost(off, Len(t))
        n == LineForByteOffset(lines, i)
        row == RuneCount(t, lines[n], i) \div view.width
    IN  SumTo(h, n - 1) + (IF view.wrap THEN AtLeast(AtMost(row, h[n] - 1), 0) ELSE 0)

-----------------------------------------------------------------------------
(* The plan of a long line: where its pieces of SubLines rows start,       *)
(* counted from the start of the line.                                     *)

NoPlan == [valid |-> FALSE, width |-> 0, covered |-> 0, scanned |-> 0, mono |-> FALSE,
           starts |-> <<>>, subs |-> <<>>]

PlainASCIIRun(t, i, j) == \A k \in (i + 1)..j : t[k] \in Letters \cup Brackets

\* How far the line was found to be plain, which a longer line need not repeat.
MonoScan(p, t, start, end) ==
    LET from == IF end - start < p.scanned THEN 0 ELSE p.scanned
        mono == (from = 0 \/ p.mono) /\ PlainASCIIRun(t, start + from, end)
    IN  [p EXCEPT !.mono = mono,
                  !.scanned = IF (from = 0 \/ p.mono) /\ from < end - start THEN end - start ELSE from]

\* Rows begun within the pieces that start at "starts", up to the end of the line.
RowsFrom(t, start, from, end, width) ==
    {i \in RuneStarts(t) : from <= i /\ i < end /\ RuneCount(t, start, i) % width = 0}

PiecesFrom(t, start, from, end, width) ==
    {i \in RowsFrom(t, start, from, end, width) : RuneCount(t, start, i) % (width * SubLines) = 0}

PieceSizes(t, start, from, end, width) ==
    LET at == Sorted(PiecesFrom(t, start, from, end, width))
        to(k) == IF k < Len(at) THEN at[k + 1] ELSE end
    IN  [k \in DOMAIN at |-> Cardinality(RowsFrom(t, start, at[k], to(k), width))]

PlanFrom(p, kept, t, start, from, end, width) ==
    LET at == Sorted(PiecesFrom(t, start, from, end, width))
    IN  [p EXCEPT !.starts = SubSeq(p.starts, 1, kept) \o [k \in DOMAIN at |-> at[k] - start],
                  !.subs = SubSeq(p.subs, 1, kept) \o PieceSizes(t, start, from, end, width)]

\* One byte, one column.
BuildMonoPlan(p, span, width) ==
    LET rows == RowsFor(span, width)
        pieces == RowsFor(rows, SubLines)
    IN  [p EXCEPT !.starts = [k \in 1..pieces |-> (k - 1) * SubLines * width],
                  !.subs = [k \in 1..pieces |-> AtMost(rows - (k - 1) * SubLines, SubLines)]]

Covering(p, span, width) == [p EXCEPT !.valid = TRUE, !.width = width, !.covered = span]

\* A plan of a shorter line is continued from its last piece.
ShapedPlan(p, reusable, t, start, end, width) ==
    IF reusable /\ p.covered < end - start /\ p.starts # <<>>
    THEN PlanFrom(p, Len(p.starts) - 1, t, start, start + Last(p.starts), end, width)
    ELSE PlanFrom(p, 0, t, start, start, end, width)

EnsureWrapPlan(p, t, start, end, width) ==
    LET reusable == p.valid /\ p.width = width
        q == MonoScan(p, t, start, end)
    IN  IF reusable /\ p.covered = end - start THEN p
        ELSE Covering(IF q.mono THEN BuildMonoPlan(q, end - start, width)
                      ELSE ShapedPlan(q, reusable, t, start, end, width), end - start, width)

PlanRows(p) == SumTo(p.subs, Len(p.subs))
=============================================================================
