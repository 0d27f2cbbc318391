------------------------------ MODULE SearchBox -------------------------------
(***************************************************************************)
(* The search box of an editor (internal/ui/workspace/search.go).  A box   *)
(* is a record: what is typed in it, the query its matches ("spans") were  *)
(* found for, the lower-case copy of the text they were found in ("cache", *)
(* dirty once the text changed), the match shown, and what the documents   *)
(* shown before left behind ("docs").  Operators take and return a pair    *)
(* w of the box and the editor it searches.                                *)
(***************************************************************************)
EXTENDS TextFrame

CONSTANTS PanelRows,  \* rows under the panel
          MaxDocs     \* maxSearchDocs

NewBox ==
    [open |-> FALSE, caseSensitive |-> FALSE, wholeWord |-> FALSE, typed |-> <<>>, query |-> <<>>,
     spans |-> <<>>, current |-> 0, cache |-> <<>>, cacheDirty |-> FALSE, panelH |-> 0,
     docKey |-> "", docs |-> <<>>]

Invalidate(box) == [box EXCEPT !.cacheDirty = TRUE]

-----------------------------------------------------------------------------
(* Finding the matches.  A span is a pair of places; matches are numbered  *)
(* from 1, and no match is number 0.                                       *)

FoldForSearch(s) == [k \in DOMAIN s |-> IF s[k] = "A" THEN "a" ELSE s[k]]

At(hay, needle, i) == Part(hay, i, i + Len(needle)) = needle

IsSeparatorAt(t, k) == t[k] \in Separators

WholeWordAt(hay, start, end) ==
    /\ start > 0 => IsSeparatorAt(hay, start) \/ IsSeparatorAt(hay, start + 1)
    /\ end < Len(hay) => IsSeparatorAt(hay, end + 1) \/ IsSeparatorAt(hay, end)

Matches(hay, needle, whole) ==
    LET found(at, i) ==
            IF i >= at.off /\ At(hay, needle, i) /\ (whole => WholeWordAt(hay, i, i + Len(needle)))
            THEN [off |-> i + Len(needle), spans |-> at.spans \o <<<<i, i + Len(needle)>>>>] ELSE at
    IN  FoldLeft(found, [off |-> 0, spans |-> <<>>],
                 [k \in 1..AtLeast(Len(hay) - Len(needle) + 1, 0) |-> k - 1]).spans

ClampCurrent(box) ==
    [box EXCEPT !.current = IF box.spans = <<>> THEN 0 ELSE AtMost(AtLeast(@, 1), Len(box.spans))]

\* Mutant: a text of the same length is taken for the same text.
RefoldedByLength(box, t) ==
    [box EXCEPT !.cache = IF Len(@) = Len(t) THEN @ ELSE FoldForSearch(t), !.cacheDirty = FALSE]

Refolded(box, t) ==
    IF box.cacheDirty \/ Len(box.cache) # Len(t)
    THEN [box EXCEPT !.cache = FoldForSearch(t), !.cacheDirty = FALSE] ELSE box

SpansIn(box, t) ==
    IF box.query = <<>> THEN <<>>
    ELSE Matches(IF box.caseSensitive THEN t ELSE box.cache,
                 IF box.caseSensitive THEN box.query ELSE FoldForSearch(box.query), box.wholeWord)

Searched(box, t) == ClampCurrent([box EXCEPT !.spans = SpansIn(box, t)])

Recompute(box, t) == Searched([Refolded(box, t) EXCEPT !.query = box.typed], t)

-----------------------------------------------------------------------------
(* Showing a match.                                                        *)

ShowMatch(ed, match, inset) == SetCaret([ed EXCEPT !.inset = inset], match[1], match[2])

Marked(ed, box) ==
    IF box.current \notin DOMAIN box.spans THEN ClearSearchCaret(ed)
    ELSE ShowMatch(ed, box.spans[box.current], box.panelH)

ApplyMatch(w) == [w EXCEPT !.ed = Marked([w.ed EXCEPT !.spans = w.box.spans], w.box)]

FirstOf(box) == [box EXCEPT !.current = IF box.spans = <<>> THEN 0 ELSE 1]

\* The box, searched again, with the match to show.
Found(box, t, resetToFirst) == IF resetToFirst THEN FirstOf(Recompute(box, t)) ELSE Recompute(box, t)

Refresh(w, resetToFirst) == ApplyMatch([w EXCEPT !.box = Found(w.box, w.ed.text, resetToFirst)])

\* Past the last match comes the first.
Turned(n, dir, len) == IF n + dir > len THEN 1 ELSE IF n + dir < 1 THEN len ELSE n + dir

Navigate(w, dir) ==
    IF w.box.spans = <<>> THEN w
    ELSE ApplyMatch([w EXCEPT !.box.current = Turned(@, dir, Len(w.box.spans))])

ClearedOf(ed) == ClearSearchCaret([ed EXCEPT !.spans = <<>>, !.inset = 0])

CloseOn(w) ==
    [w EXCEPT !.box.open = FALSE, !.box.spans = <<>>, !.box.current = 0, !.ed = ClearedOf(w.ed)]

Close(w) == IF w.box.open THEN CloseOn(w) ELSE w

SelectedText(e) == Part(e.text, AtMost(e.selStart, e.selEnd), AtLeast(e.selStart, e.selEnd))

\* The shortcut: closes the box that has the focus, else opens it with what is selected.
Toggle(w, focused) ==
    LET sel == SelectedText(w.ed)
        seeded == sel # <<>> /\ \A k \in DOMAIN sel : sel[k] # "nl"
    IN  IF w.box.open /\ focused THEN CloseOn(w)
        ELSE Refresh([w EXCEPT !.box.open = TRUE, !.box.typed = IF seeded THEN sel ELSE @], seeded)

\* One use of the box in a frame; "query" types q.
Chosen(w, use) ==
    IF use = "case" THEN [w EXCEPT !.box.caseSensitive = ~@] ELSE [w EXCEPT !.box.wholeWord = ~@]

Used(w, use, q) ==
    CASE use \in {"case", "word"} -> Refresh(Chosen(w, use), FALSE)
      [] use = "next" -> Navigate(w, 1)
      [] use = "previous" -> Navigate(w, -1)
      [] use = "query" -> [w EXCEPT !.box.typed = q]
      [] OTHER -> w

\* A changed query starts at its first match, a changed text stays at the match it was on.
CaughtUp(w, queryChanged) ==
    IF queryChanged \/ w.box.cacheDirty THEN Refresh(w, queryChanged) ELSE w

Process(w, use, q) ==
    IF ~w.box.open THEN w
    ELSE IF use = "close" THEN CloseOn(w)
    ELSE CaughtUp(Used(w, use, q), use = "query" /\ q # w.box.query)

-----------------------------------------------------------------------------
(* One viewer for several documents.                                       *)

Kept(box) == [open |-> box.open, query |-> box.typed, current |-> box.current]

\* With room for no more, one document (the victim) is forgotten.
ParkDoc(box, victim) ==
    LET key == box.docKey
        others == [k \in DOMAIN box.docs \ {key} |-> box.docs[k]]
        full == key \notin DOMAIN box.docs /\ Cardinality(DOMAIN box.docs) >= MaxDocs
    IN  IF ~box.open /\ box.typed = <<>> THEN [box EXCEPT !.docs = others]
        ELSE [box EXCEPT !.docs = (key :> Kept(box)) @@
                  (IF full THEN [k \in DOMAIN others \ {victim} |-> others[k]] ELSE others)]

SwitchTo(box, key, st) ==
    [box EXCEPT !.docKey = key, !.open = st.open, !.query = st.query, !.typed = st.query,
                !.current = st.current, !.spans = <<>>, !.cacheDirty = TRUE]

NewDoc == [open |-> FALSE, query |-> <<>>, current |-> 0]

DocOf(box, key) == IF key \in DOMAIN box.docs THEN box.docs[key] ELSE NewDoc

Switched(box, key, ed) ==
    [box |-> SwitchTo(box, key, DocOf(box, key)), ed |-> IF DocOf(box, key).open THEN ed ELSE ClearedOf(ed)]

SetDocument(w, key, victim) ==
    IF key = w.box.docKey THEN w
    ELSE Switched(IF w.box.docKey = "" THEN w.box ELSE ParkDoc(w.box, victim), key, w.ed)

\* The inspector's pane: another document, or another version of it, is put in before the box is told.
PutIn(w, key, shown) ==
    IF key = w.box.docKey /\ shown = w.ed.text THEN w
    ELSE [box |-> Invalidate(w.box), ed |-> SetText(w.ed, shown)]

PaneUsed(w, empty, use, q) == IF empty THEN Close(w) ELSE Process(w, use, q)

InspectorPane(w, key, shown, use, q, victim) ==
    PaneUsed(SetDocument(PutIn(w, key, shown), key, victim), shown = <<>>, use, q)
=============================================================================
