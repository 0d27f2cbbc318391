------------------------------- MODULE TextEdit -------------------------------
(***************************************************************************)
(* The request body's editor and the response's viewer                     *)
(* (internal/ui/workspace/editor.go, response.go, textcore.go): what each  *)
(* call does to an editor.  An editor is a record:                         *)
(*                                                                         *)
(*   kind        "request" (can be edited, has a history) or "response"    *)
(*   text        its bytes; lineStarts, chunkHeights, wrapPlans and tokens *)
(*               are kept per line, or per word, beside them               *)
(*   view        how it was last laid out: [wrap, width]                   *)
(*   scrollY     the first row on the screen; lastTotalH all rows, if known*)
(*   anchor      the byte that stays on top when the width changes, or -1  *)
(*   selStart..  the selection, its end being the caret; highlight and     *)
(*               spans: the search's present match, and all of them        *)
(*   undo, redo  edits: what was deleted and inserted where, the selection *)
(*               before and the caret after                                *)
(***************************************************************************)
EXTENDS TextCore

CONSTANTS MaxBytes,   \* RequestBodyMaxBytes
          UndoLimit,  \* requestEditorUndoLimit
          SyncMax,    \* requestEditorSyncTokenizeMaxBytes
          Rows        \* rows on the screen

NoTokens == [known |-> FALSE, of |-> <<>>, txt |-> 0, dirty |-> FALSE]

NewEditor(kind) ==
    [kind |-> kind, text |-> <<>>, lineStarts |-> <<0>>, chunkHeights |-> <<>>, wrapPlans |-> <<>>,
     view |-> [wrap |-> FALSE, width |-> 0], scrollY |-> 0, lastTotalH |-> 0, stickBottom |-> FALSE,
     anchor |-> -1, geoFrame |-> FALSE, prevFrameScrY |-> 0, selStart |-> 0, selEnd |-> 0,
     highlight |-> <<0, 0>>, spans |-> <<>>, reveal |-> <<>>, revealY |-> -1, inset |-> 0,
     tokens |-> NoTokens, runes |-> <<>>, dragActive |-> FALSE, clicks |-> 0,
     undo |-> <<>>, redo |-> <<>>, dirty |-> FALSE, over |-> FALSE, echo |-> -1]

-----------------------------------------------------------------------------
(* The text as a whole.                                                    *)

InvalidateRuneCaches(e) == [e EXCEPT !.runes = <<>>, !.tokens.dirty = TRUE]

\* What a text put in anew leaves of an editor.
Fresh(e, s) ==
    [InvalidateRuneCaches(e) EXCEPT
        !.text = s, !.lineStarts = RebuildLineStarts(s),
        !.chunkHeights = Pad(<<>>, Len(RebuildLineStarts(s)), 0),
        !.wrapPlans = Pad(<<>>, Len(RebuildLineStarts(s)), NoPlan),
        !.lastTotalH = 0, !.scrollY = 0, !.stickBottom = FALSE, !.anchor = -1,
        !.highlight = <<0, 0>>, !.spans = <<>>, !.selStart = 0, !.selEnd = 0, !.dragActive = FALSE,
        !.reveal = <<>>, !.revealY = -1, !.undo = <<>>, !.redo = <<>>]

SetText(e, s) ==
    IF e.kind = "response" THEN Fresh(e, s)
    ELSE IF Len(s) > MaxBytes THEN [e EXCEPT !.over = TRUE]
    ELSE [Fresh(e, s) EXCEPT !.over = FALSE]

\* A file that cannot be read, or is too large, leaves a message and the text there was.
LoadFromReader(e, s, fails) ==
    IF fails \/ Len(s) > MaxBytes THEN [e EXCEPT !.over = TRUE] ELSE SetText(e, s)

Grown(e, t, lines) ==
    [InvalidateRuneCaches(e) EXCEPT
        !.text = t, !.lineStarts = lines,
        !.chunkHeights = Pad(IF e.chunkHeights = <<>> THEN <<>>
                             ELSE [e.chunkHeights EXCEPT ![Len(e.chunkHeights)] = 0], Len(lines), 0),
        !.wrapPlans = Pad(e.wrapPlans, Len(lines), NoPlan), !.lastTotalH = 0]

Appended(e, s) ==
    IF s = <<>> THEN e
    ELSE Grown(e, e.text \o s, AppendLineStartsFrom(e.lineStarts, e.text \o s, Len(e.text)))

-----------------------------------------------------------------------------
(* Edits of the request's body.                                            *)

\* Where a place ends up when the bytes before "from" change by delta.
Adjust(i, from, delta) ==
    IF i >= from THEN i + delta
    ELSE IF delta < 0 /\ i > from + delta THEN from + delta ELSE i

ShiftRanges(e, from, delta) ==
    [e EXCEPT !.selStart = AtMost(Adjust(@, from, delta), Len(e.text)),
              !.selEnd = AtMost(Adjust(@, from, delta), Len(e.text)),
              !.highlight = IF @[2] > 0 THEN <<Adjust(@[1], from, delta), Adjust(@[2], from, delta)>> ELSE @]

\* The end of a token at the place of an insertion stays.
AdjustEnd(i, from, delta) ==
    IF delta > 0 THEN (IF i > from THEN i + delta ELSE i) ELSE Adjust(i, from, delta)

ShiftedToken(tok, from, delta, n) ==
    <<AtMost(Adjust(tok[1], from, delta), n), AtMost(AdjustEnd(tok[2], from, delta), n)>>

ShiftTokens(e, from, delta) ==
    LET moved == [k \in DOMAIN e.tokens.of |-> ShiftedToken(e.tokens.of[k], from, delta, Len(e.text))]
    IN  [e EXCEPT !.tokens.of = SelectSeq(moved, LAMBDA tok : tok[2] > tok[1])]

\* The bookkeeping of an edit: from its line on nothing is known of heights and plans.
Relined(e, lines, pos) ==
    [e EXCEPT !.lineStarts = lines,
              !.chunkHeights = Pad(CutFrom(e.chunkHeights, e.lineStarts, pos), Len(lines), 0),
              !.wrapPlans = Pad(CutFrom(e.wrapPlans, e.lineStarts, pos), Len(lines), NoPlan),
              !.lastTotalH = 0, !.dirty = TRUE]

WithText(e, t) == [InvalidateRuneCaches(e) EXCEPT !.text = t]

BareInsert(e, pos, s) ==
    LET t == Part(e.text, 0, pos) \o s \o Part(e.text, pos, Len(e.text))
        w == ShiftTokens(ShiftRanges(WithText(e, t), pos, Len(s)), pos, Len(s))
    IN  IF s = <<>> THEN e
        ELSE IF Len(t) > MaxBytes THEN [e EXCEPT !.over = TRUE]
        ELSE Relined(w, LineStartsInsert(e.lineStarts, t, pos, Len(s)), pos)

BareDelete(e, start, end) ==
    LET t == Part(e.text, 0, start) \o Part(e.text, end, Len(e.text))
        w == ShiftTokens(ShiftRanges(WithText(e, t), end, start - end), end, start - end)
    IN  IF start = end THEN e ELSE Relined(w, LineStartsDelete(e.lineStarts, start, end - start), start)

\* An edit of the history.
Edit(e, pos, deleted, inserted) ==
    [pos |-> pos, deleted |-> deleted, inserted |-> inserted,
     selBefore |-> e.selStart, endBefore |-> e.selEnd, selAfter |-> pos + Len(inserted)]

IsInsertion(edit) == edit.inserted # <<>> /\ edit.deleted = <<>>
IsDeletion(edit) == edit.deleted # <<>> /\ edit.inserted = <<>>
NoBreak(s) == \A k \in DOMAIN s : s[k] \notin {"nl", "tab", "sp"}

\* Mutant: typing goes on wherever it happens.
CanMergeAnywhere(prev, edit) ==
    \/ /\ IsInsertion(prev) /\ IsInsertion(edit)
       /\ NoBreak(prev.inserted) /\ NoBreak(edit.inserted)
    \/ /\ IsDeletion(prev) /\ IsDeletion(edit)
       /\ NoBreak(prev.deleted) /\ NoBreak(edit.deleted)
       /\ prev.pos \in {edit.pos, edit.pos + Len(edit.deleted)}

\* Typing on, or deleting on to either side, within a word.
CanMergeEdit(prev, edit) ==
    \/ /\ IsInsertion(prev) /\ IsInsertion(edit)
       /\ NoBreak(prev.inserted) /\ NoBreak(edit.inserted)
       /\ edit.pos = prev.pos + Len(prev.inserted)
    \/ /\ IsDeletion(prev) /\ IsDeletion(edit)
       /\ NoBreak(prev.deleted) /\ NoBreak(edit.deleted)
       /\ prev.pos \in {edit.pos, edit.pos + Len(edit.deleted)}

MergeEditInto(prev, edit) ==
    LET before == edit.pos + Len(edit.deleted) = prev.pos
    IN  IF IsInsertion(prev)
        THEN [prev EXCEPT !.inserted = @ \o edit.inserted, !.selAfter = edit.selAfter]
        ELSE [prev EXCEPT !.deleted = IF before THEN edit.deleted \o @ ELSE @ \o edit.deleted,
                          !.pos = IF before THEN edit.pos ELSE @, !.selAfter = edit.selAfter]

Recorded(undo, edit) ==
    IF undo # <<>> /\ CanMergeEdit(Last(undo), edit)
    THEN Front(undo) \o <<MergeEditInto(Last(undo), edit)>> ELSE undo \o <<edit>>

RecordEdit(e, edit) ==
    LET undo == Recorded(e.undo, edit)
    IN  [e EXCEPT !.dirty = TRUE, !.redo = <<>>,
                  !.undo = IF Len(undo) > UndoLimit THEN SubSeq(undo, Len(undo) - UndoLimit + 1, Len(undo))
                           ELSE undo]

DeleteRange(e, start, end) ==
    IF start = end THEN e
    ELSE RecordEdit(BareDelete(e, start, end), Edit(e, start, Part(e.text, start, end), <<>>))

\* What a deletion and an insertion in its place would exceed is refused before either.
Fits(e, start, end, s) == Len(e.text) - (end - start) + Len(s) <= MaxBytes

Replace(e, start, end, s) ==
    IF ~Fits(e, start, end, s) THEN [e EXCEPT !.over = TRUE]
    ELSE IF start = end /\ s = <<>> THEN e
    ELSE RecordEdit(BareInsert(BareDelete(e, start, end), start, s),
                    Edit(e, start, Part(e.text, start, end), s))

Select(e, start, end) == [e EXCEPT !.selStart = start, !.selEnd = end]

Undone(e, edit) ==
    Select(BareInsert(BareDelete(e, edit.pos, edit.pos + Len(edit.inserted)), edit.pos, edit.deleted),
           edit.selBefore, edit.endBefore)

Redone(e, edit) ==
    Select(BareInsert(BareDelete(e, edit.pos, edit.pos + Len(edit.deleted)), edit.pos, edit.inserted),
           edit.selAfter, edit.selAfter)

Undo(e) ==
    IF e.undo = <<>> THEN e
    ELSE [Undone(e, Last(e.undo)) EXCEPT !.undo = Front(@), !.redo = @ \o <<Last(e.undo)>>]

Redo(e) ==
    IF e.redo = <<>> THEN e
    ELSE [Redone(e, Last(e.redo)) EXCEPT !.redo = Front(@), !.undo = @ \o <<Last(e.redo)>>]

-----------------------------------------------------------------------------
(* The caret, the match the search shows, and the screen.                  *)

RequestReveal(e, start, end) == [e EXCEPT !.reveal = <<start, end>>]

\* The viewer selects the match it is shown, the editor keeps its caret.
SetCaret(e, start, end) ==
    LET at == <<AtMost(start, Len(e.text)), AtMost(end, Len(e.text))>>
        shown == RequestReveal([e EXCEPT !.highlight = at], at[1], at[2])
    IN  IF e.kind = "response" THEN Select(shown, at[1], at[2]) ELSE shown

ClearSearchCaret(e) ==
    LET match == e.highlight
        cleared == [e EXCEPT !.highlight = <<0, 0>>, !.reveal = <<>>, !.revealY = -1]
    IN  IF match[2] > match[1] /\ <<e.selStart, e.selEnd>> = match THEN Select(cleared, 0, 0) ELSE cleared

\* All rows are known only once the heights are.
ClampScroll(e) ==
    LET top == AtLeast(e.scrollY, 0)
    IN  [e EXCEPT !.scrollY = IF e.lastTotalH > 0 THEN AtMost(top, AtLeast(e.lastTotalH - Rows, 0)) ELSE top]

ScrollTo(e, y) == [e EXCEPT !.scrollY = y, !.stickBottom = FALSE, !.anchor = -1]

SetScrollY(e, y) == ClampScroll(ScrollTo(e, y))

\* A height not known counts as one row.
RowsAt(e, n) == IF e.chunkHeights[n] > 0 THEN e.chunkHeights[n] ELSE 1
RowsAbove(e, n) == SumTo([k \in DOMAIN e.chunkHeights |-> RowsAt(e, k)], n - 1)

IntoView(e, y, h) ==
    ClampScroll(IF y < e.scrollY THEN ScrollTo(e, y)
                ELSE IF y + h > e.scrollY + Rows THEN ScrollTo(e, y + h - Rows) ELSE e)

CaretLine(e) == LineForByteOffset(e.lineStarts, e.selEnd)
EnsureCaretVisible(e) == IntoView(e, RowsAbove(e, CaretLine(e)), RowsAt(e, CaretLine(e)))

PushIMEState(e) ==
    IF e.kind = "response" THEN e
    ELSE [e EXCEPT !.runes = <<\A k \in DOMAIN e.text : e.text[k] # Lead, RuneCount(e.text, 0, Len(e.text))>>]

Shown(e) == PushIMEState(EnsureCaretVisible(e))

CollapseSelection(e) == [e EXCEPT !.selStart = e.selEnd, !.dragActive = FALSE]

MoveCaret(e, pos, extend) ==
    Shown([Select(e, IF extend THEN e.selStart ELSE pos, pos) EXCEPT !.dragActive = FALSE])
=============================================================================
