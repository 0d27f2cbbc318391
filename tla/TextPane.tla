------------------------------- MODULE TextPane -------------------------------
(***************************************************************************)
(* A text on the screen with its search box, used frame by frame: the      *)
(* request's body, the response, or the inspector's body of one flow or    *)
(* another (internal/ui/workspace, internal/ui/mitm/ui_inspector.go).      *)
(* A frame first looks after the tab (changes, answers, the search box),   *)
(* then lays the text out, then handles the mouse, the keys that edit and  *)
(* the keys that move, in this order, and paints.                          *)
(***************************************************************************)
EXTENDS SearchBox

CONSTANTS Sessions,  \* texts and what is done to them: [kind, text, wrap, width, steps, does]
          Typed,     \* what is typed at once
          Loads,     \* bodies loaded from files, answers, and what is pasted
          Queries,   \* what is typed in the search box
          Docs       \* the inspector's bodies: [key -> text]

VARIABLES
    session,  \* what this behaviour is about
    ed,       \* the editor
    box,      \* its search box
    view,     \* whether and where lines are wrapped now
    stage,    \* "idle" between frames, else what was handled last
    left,     \* steps left
    base,     \* the oldest text undoing leads to
    tip,      \* the newest text redoing leads to
    loaded    \* a text was put in since the box was last told of a change

vars == <<session, ed, box, view, stage, left, base, tip, loaded>>

W == [ed |-> ed, box |-> box]

Init ==
    /\ session \in Sessions
    /\ ed = SetText(NewEditor(session.kind), session.text)
    /\ box = NewBox
    /\ view = [wrap |-> session.wrap, width |-> session.width]
    /\ stage = "idle" /\ left = session.steps
    /\ base = session.text /\ tip = session.text /\ loaded = FALSE

Does(what) == what \in session.does /\ left > 0 /\ left' = left - 1

-----------------------------------------------------------------------------
(* Between frames.                                                         *)

\* A body loaded from a file: the search box is not told.
Load ==
    \E s \in Loads, fails \in BOOLEAN :
        /\ stage = "idle" /\ Does("load")
        /\ ed' = LoadFromReader(ed, s, fails)
        /\ base' = IF fails \/ Len(s) > MaxBytes THEN base ELSE s
        /\ tip' = IF fails \/ Len(s) > MaxBytes THEN tip ELSE s
        /\ loaded' = (loaded \/ ~(fails \/ Len(s) > MaxBytes))
        /\ UNCHANGED <<session, box, view, stage>>

\* The shortcut of the search, with the focus in the box or not.
HandleSearchShortcut ==
    \E focused \in BOOLEAN : \E w \in {Toggle(W, focused)} :
        /\ stage = "idle" /\ Does("search")
        /\ session.kind = "inspector" => box.docKey # ""
        /\ ed' = w.ed /\ box' = w.box
        /\ UNCHANGED <<session, view, stage, base, tip, loaded>>

-----------------------------------------------------------------------------
(* The start of a frame.                                                   *)

\* The tab notices that its body was changed.
Noticed == [ed |-> [ed EXCEPT !.dirty = FALSE], box |-> IF ed.dirty THEN Invalidate(box) ELSE box]

\* The inspector shows the body it showed before.
Looked(use, q) ==
    IF session.kind = "inspector" THEN InspectorPane(W, box.docKey, Docs[box.docKey], use, q, "")
    ELSE Process(Noticed, use, q)

Begin(w, v, scrolled, calm) ==
    /\ ed' = BeginFrame(w.ed, v, scrolled, calm)
    /\ box' = w.box
    /\ stage' = "mouse"

PlainFrame ==
    \E calm \in BOOLEAN :
        /\ stage = "idle"
        /\ session.kind = "inspector" => box.docKey # ""
        /\ Begin(Looked("nothing", <<>>), view, 0, calm)
        /\ loaded' = (loaded /\ ~ed.dirty)
        /\ UNCHANGED <<session, view, left, base, tip>>

Scroll ==
    \E d \in {-1, 1} :
        /\ stage = "idle" /\ Does("scroll")
        /\ Begin(Looked("nothing", <<>>), view, d, FALSE)
        /\ loaded' = (loaded /\ ~ed.dirty)
        /\ UNCHANGED <<session, view, base, tip>>

\* The scroll bar, dragged.
DragScrollBar ==
    \E y \in 0..AtLeast(ed.lastTotalH - Rows, 0) :
        /\ stage = "idle" /\ Does("scroll") /\ ed.scrollY # y
        /\ ed' = SetScrollY(ed, y)
        /\ UNCHANGED <<session, box, view, stage, base, tip, loaded>>

Resize ==
    \E width \in {2, 3}, wrap \in BOOLEAN :
        /\ stage = "idle" /\ Does("resize")
        /\ view' = [wrap |-> wrap, width |-> width] /\ view' # view
        /\ Begin(Looked("nothing", <<>>), view', 0, FALSE)
        /\ loaded' = (loaded /\ ~ed.dirty)
        /\ UNCHANGED <<session, base, tip>>

\* More of the answer, or another answer.
Arrive ==
    \E s \in Loads, more \in BOOLEAN :
      \E w \in {[ed |-> IF more THEN Appended(ed, s) ELSE SetText(ed, s), box |-> Invalidate(box)]} :
        /\ stage = "idle" /\ Does("arrive") /\ Len(w.ed.text) <= MaxBytes
        /\ Begin(Process(w, "nothing", <<>>), view, 0, FALSE)
        /\ UNCHANGED <<session, view, base, tip, loaded>>

Search ==
    \E use \in {"case", "word", "next", "previous", "query", "close"}, q \in Queries :
        /\ stage = "idle" /\ box.open /\ Does("search")
        /\ use # "query" => q = <<>>
        /\ Begin(Looked(use, q), view, 0, FALSE)
        /\ loaded' = (loaded /\ ~ed.dirty)
        /\ UNCHANGED <<session, view, base, tip>>

\* The inspector shows the body of a flow.
Inspect ==
    \E key \in DOMAIN Docs, victim \in DOMAIN box.docs \cup {""} :
        /\ stage = "idle" /\ Does("inspect")
        /\ (victim = "") = (box.docs = <<>>)
        /\ Begin(InspectorPane(W, key, Docs[key], "nothing", <<>>, victim), view, 0, FALSE)
        /\ UNCHANGED <<session, view, base, tip, loaded>>

-----------------------------------------------------------------------------
(* The mouse.                                                              *)

Touched(e, next) ==
    /\ ed' = e
    /\ stage' = next
    /\ UNCHANGED <<session, box, view, base, tip, loaded>>

Press ==
    \E x \in 0..2, y \in 0..(Rows - 1), again \in BOOLEAN, shift \in BOOLEAN :
        /\ stage = "mouse" /\ Does("mouse")
        /\ again => ed.clicks > 0
        /\ Touched(PushIMEState(Pressed([PlanKept(ed, LineAtRow(ed, y)) EXCEPT
                        !.clicks = ResolveClickCount(ed, again), !.echo = -1],
                    CoordToByteOffset(ed, x, y), shift)), "mouse")

Drag ==
    \E x \in 0..2, y \in -1..Rows :
        /\ stage = "mouse" /\ ed.dragActive /\ Does("mouse")
        /\ Touched([DragScrolled(ed, y) EXCEPT !.selEnd = CoordToByteOffset(DragScrolled(ed, y), x, y)], "mouse")

Release == stage = "mouse" /\ ed.dragActive /\ left' = left /\ Touched([ed EXCEPT !.dragActive = FALSE], "mouse")

-----------------------------------------------------------------------------
(* Keys that edit.  An edit other than undoing makes its text the newest;  *)
(* what the limit of the history drops moves the oldest one.               *)

Back(t, edit) == Part(t, 0, edit.pos) \o edit.deleted \o Part(t, edit.pos + Len(edit.inserted), Len(t))
Ahead(t, edit) == Part(t, 0, edit.pos) \o edit.inserted \o Part(t, edit.pos + Len(edit.deleted), Len(t))

AllUndone(e) == FoldRight(LAMBDA edit, t : Back(t, edit), e.undo, e.text)
AllRedone(e) == FoldRight(LAMBDA edit, t : Ahead(t, edit), e.redo, e.text)

OldestAfter(e) ==
    IF Len(ed.undo) = UndoLimit /\ AllUndone(e) # base THEN Ahead(base, Head(ed.undo)) ELSE base

Edited(e) ==
    /\ stage \in {"mouse", "edit"} /\ stage' = "edit"
    /\ ed' = e
    /\ base' = OldestAfter(e)
    /\ tip' = IF e.undo # ed.undo \/ e.text # ed.text THEN e.text ELSE tip
    /\ UNCHANGED <<session, box, view, loaded>>

SelFrom == AtMost(ed.selStart, ed.selEnd)
SelTo == AtLeast(ed.selStart, ed.selEnd)
NoEcho == [ed EXCEPT !.echo = -1]
CaretAt(e, i) == Shown(Select(e, i, i))

\* Put in place of the selection, if there is room for it.
Put(s) ==
    IF Fits(ed, SelFrom, SelTo, s) THEN CaretAt(Replace(NoEcho, SelFrom, SelTo, s), SelFrom + Len(s))
    ELSE Replace(NoEcho, SelFrom, SelTo, s)

\* A bracket typed over a selection is put around it, and the input method reports the caret after it.
Surround(s) ==
    LET e == Replace(NoEcho, SelFrom, SelTo, <<"(">> \o SelectedText(ed) \o <<")">>)
    IN  IF ~Fits(ed, SelFrom, SelTo, SelectedText(ed) \o <<"(", ")">>) THEN e
        ELSE Shown([Select(e, ed.selStart + 1, ed.selEnd + 1) EXCEPT !.echo = ByteToRune(e.text, SelFrom) + 1])

Type ==
    \E s \in Typed :
        /\ Does("type")
        /\ Edited(IF s[1] \in Brackets /\ Len(s) = 1 /\ SelFrom < SelTo THEN Surround(s) ELSE Put(s))

Paste == \E s \in Loads : Does("clip") /\ Edited(Put(s))
BreakLine == \E c \in {"nl", "tab"} : Does("break") /\ Edited(Put(<<c>>))

EraseSelection == CaretAt(DeleteRange(NoEcho, SelFrom, SelTo), SelFrom)

Cut == SelFrom < SelTo /\ Does("clip") /\ Edited(EraseSelection)

BackTo(word) == IF word THEN WordLeft(ed.text, ed.selEnd) ELSE CharLeft(ed.text, ed.selEnd)
OnTo(word) == IF word THEN WordRight(ed.text, ed.selEnd) ELSE CharRight(ed.text, ed.selEnd)

Backspace ==
    \E word \in BOOLEAN :
        /\ Does("erase")
        /\ Edited(IF SelFrom < SelTo THEN EraseSelection
                  ELSE IF ed.selEnd = 0 THEN Shown(NoEcho)
                  ELSE CaretAt(DeleteRange(NoEcho, BackTo(word), ed.selEnd), BackTo(word)))

DeleteForward ==
    \E word \in BOOLEAN :
        /\ Does("erase")
        /\ Edited(IF SelFrom < SelTo THEN EraseSelection
                  ELSE IF ed.selEnd >= Len(ed.text) THEN Shown(NoEcho)
                  ELSE Shown(DeleteRange(NoEcho, ed.selEnd, OnTo(word))))

\* The input method moves the selection, unless it only repeats what a bracket did.
Selection ==
    \E i, j \in 0..RuneCount(ed.text, 0, Len(ed.text)) :
        /\ Does("ime") /\ stage \in {"mouse", "edit"}
        /\ Touched(IF ed.echo # -1 /\ i = ed.echo /\ j = ed.echo THEN NoEcho
                   ELSE EnsureCaretVisible(Select(NoEcho, RuneIdxToByte(ed.text, i), RuneIdxToByte(ed.text, j))),
                   "edit")

LoseFocus ==
    /\ Does("focus") /\ stage \in {"mouse", "edit"}
    /\ Touched(CollapseSelection(NoEcho), "edit")

-----------------------------------------------------------------------------
(* Keys that move, and the history.                                        *)

Moved(e) == stage # "idle" /\ Does("move") /\ Touched(e, "move")

SelectAll == Moved(PushIMEState([Select(ed, 0, Len(ed.text)) EXCEPT !.dragActive = FALSE]))

UndoKey == stage # "idle" /\ ed.undo # <<>> /\ Does("history") /\ Touched(Shown(Undo(ed)), "move")
RedoKey == stage # "idle" /\ ed.redo # <<>> /\ Does("history") /\ Touched(Shown(Redo(ed)), "move")

\* In the request's body an arrow first leaves the selection, to its side.
Sideways(dir, word, extend) ==
    IF ed.kind = "request" /\ ~extend /\ ~word /\ ed.selStart # ed.selEnd
    THEN IF dir < 0 THEN SelFrom ELSE SelTo
    ELSE IF dir < 0 THEN BackTo(word) ELSE OnTo(word)

Arrow == \E dir \in {-1, 1}, word \in BOOLEAN, extend \in BOOLEAN :
            Moved(MoveCaret(ed, Sideways(dir, word, extend), extend))

VerticalArrow == \E dir \in {-1, 1}, times \in {1, Rows}, extend \in BOOLEAN :
            Moved(RowMove(ed, dir, times, extend))

HomeOrEnd ==
    \E home \in BOOLEAN, all \in BOOLEAN, extend \in BOOLEAN :
        Moved(MoveCaret(ed, IF all THEN IF home THEN 0 ELSE Len(ed.text)
                            ELSE SourceLineBoundsAt(ed.text, ed.selEnd)[IF home THEN 1 ELSE 2], extend))

-----------------------------------------------------------------------------

\* Painting; the panel of an open box has its size from then on.
Paint ==
    \E calm \in BOOLEAN :
        /\ stage # "idle" /\ stage' = "idle"
        /\ ed' = EndFrame(ed, calm)
        /\ box' = [box EXCEPT !.panelH = IF box.open THEN PanelRows ELSE @]
        /\ UNCHANGED <<session, view, left, base, tip, loaded>>

Next ==
    \/ Load \/ HandleSearchShortcut
    \/ PlainFrame \/ Scroll \/ DragScrollBar \/ Resize \/ Arrive \/ Search \/ Inspect
    \/ Press \/ Drag \/ Release
    \/ Type \/ Paste \/ BreakLine \/ Cut \/ Backspace \/ DeleteForward \/ Selection \/ LoseFocus
    \/ SelectAll \/ UndoKey \/ RedoKey \/ Arrow \/ VerticalArrow \/ HomeOrEnd
    \/ Paint

Spec == Init /\ [][Next]_vars

-----------------------------------------------------------------------------
(* Properties.                                                             *)

\* However edits were merged, undone, done again or dropped at the limit of
\* the history: undoing all that is left gives the oldest text kept, doing all
\* again the newest.  (canMergeEdit, mergeEditInto, Undo, Redo.)
EditsReversible == ed.kind = "request" => AllUndone(ed) = base /\ AllRedone(ed) = tip

\* A height that is known is the estimate for the text there is now, or what painting it takes.
HeightsFollow ==
    \A n \in DOMAIN ed.chunkHeights :
        ed.chunkHeights[n] \in {0, Estimated(ed, n), MeasuredHeight(ed.text, ed.lineStarts, n, ed.view)}

\* The pieces of a long line put the caret where the whole line would.
PlansFollow ==
    \A n \in DOMAIN ed.wrapPlans :
        LET p == ed.wrapPlans[n]
            line == LineBounds(ed.text, ed.lineStarts, n)
            known == <<line[1], line[1] + p.covered>>
        IN  p.valid =>
            /\ p.width = ed.view.width /\ p.covered <= line[2] - line[1]
            /\ p.covered = line[2] - line[1] =>
                \A i \in {k \in RuneStarts(ed.text) : known[1] <= k /\ k <= known[2]} :
                    CaretInPlan(ed.text, p, known, i, p.width)
                    = CaretInRows(ed.text, known[1], known[2], i, p.width)

\* Words keep their order, and are those of the text unless a change is still to be looked at.
TokensFollow ==
    /\ \A k \in 2..Len(ed.tokens.of) : ed.tokens.of[k - 1][2] <= ed.tokens.of[k][1]
    /\ ed.tokens.known /\ ~ed.tokens.dirty => ed.tokens.of = Words(ed.text)

\* Selection and match are within the text and between its characters; once a
\* text was put in behind the search's back the match may be anywhere in it.
PlacesFollow ==
    /\ {ed.selStart, ed.selEnd} \subseteq RuneStarts(ed.text)
    /\ ~loaded => {ed.highlight[1], ed.highlight[2]} \subseteq RuneStarts(ed.text)

\* Whatever was typed, deleted, undone, appended, loaded, wrapped or scrolled,
\* what the editor keeps beside its text is about the text it has now: lines,
\* heights, wrapping, words, counts, selection and match.
EditorSound ==
    /\ ed.lineStarts = LineStarts(ed.text) /\ Len(ed.chunkHeights) = Len(ed.lineStarts)
    /\ HeightsFollow /\ PlansFollow /\ TokensFollow /\ PlacesFollow
    /\ ed.runes # <<>> => ed.runes[2] = Cardinality(RuneStarts(ed.text)) - 1

\* The places where a query is, case and whole words minded as chosen.
Occurs(i) ==
    LET n == Len(box.query)
        same(k) == IF box.caseSensitive THEN ed.text[i + k] = box.query[k]
                   ELSE FoldForSearch(ed.text)[i + k] = FoldForSearch(box.query)[k]
    IN  /\ \A k \in 1..n : same(k)
        /\ box.wholeWord => WholeWordAt(ed.text, i, i + n)

Places == IF box.query = <<>> THEN {} ELSE {i \in 0..(Len(ed.text) - Len(box.query)) : Occurs(i)}

\* All that is found is there, and what is there and not found overlaps an earlier find.
SpansExact ==
    /\ \A k \in DOMAIN box.spans :
        /\ box.spans[k][1] \in Places /\ box.spans[k][2] = box.spans[k][1] + Len(box.query)
        /\ k > 1 => box.spans[k - 1][2] <= box.spans[k][1]
    /\ \A i \in Places : \E k \in DOMAIN box.spans : box.spans[k][1] <= i /\ i < box.spans[k][2]

\* An open box that was told of all changes shows the matches of what is typed
\* in it in the text there is now, one of them as the present one if there is
\* any; the match revealed is on the screen; a closed box leaves no match behind.
SearchFollows ==
    /\ box.open /\ ~box.cacheDirty /\ ~ed.dirty /\ ~loaded =>
        /\ box.query = box.typed /\ SpansExact /\ ed.spans = box.spans
        /\ box.current \in DOMAIN box.spans \/ (box.spans = <<>> /\ box.current = 0)
        /\ ed.highlight = IF box.spans = <<>> THEN <<0, 0>> ELSE box.spans[box.current]
    /\ ~box.open => ed.spans = <<>> /\ ed.highlight = <<0, 0>>
    /\ ed.revealY \in -1..(Rows - 1)
=============================================================================
