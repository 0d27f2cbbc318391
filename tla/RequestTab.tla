------------------------------ MODULE RequestTab ------------------------------
(***************************************************************************)
(* A request tab (internal/ui/workspace: http.go, preview.go, tab.go): the *)
(* UI thread sends, cancels and shows, one goroutine per request fetches   *)
(* the response into a temp file, and loaders read further batches of that *)
(* file for the preview.  Request and response texts are left out: a piece *)
(* of text is named by the response it comes from and its batch.           *)
(***************************************************************************)
EXTENDS Integers, Sequences, SequencesExt

CONSTANTS MaxReq,     \* bound: requests sent
          Batches,    \* bound: batches of previewBatchSize in a response
          ChanCap,    \* capacity of appendChan
          Loaders,    \* slots for loader goroutines
          Sessions    \* what is done in the tab: [modes, batches, loaders, shown, multiple]

ASSUME BoundsAssumption ==
    /\ MaxReq \in Nat /\ Batches \in Nat \ {0} /\ ChanCap \in Nat \ {0}
    /\ Sessions \subseteq [modes : SUBSET {"view", "file"}, batches : 1..Batches,
                            loaders : SUBSET Loaders, shown : Nat, multiple : BOOLEAN]

VARIABLES
    session,     \* what this behaviour may do: ExecuteRequest or ExecuteRequestToFile ("modes"),
                 \* answers of how many batches, loaders at a time, saved examples shown, "Multiple"
    ui,          \* the UI thread: a phase of the frame, or a point in beginRequest
    mode,        \* what the request being begun is
    reqID, requesting, cancelFn, closed,
    respChan, previewChan, appendChan,
    respFile, respSize, previewLoaded, previewLoading, previewEnabled,
    editor,      \* RespEditor: the pieces shown
    base,        \* BaseState while an example is shown
    shown,       \* examples shown so far
    overtaken,   \* a request was sent while a loader was at work
    snd,         \* the goroutine of each request
    cancelled,   \* requests whose context is cancelled
    files,       \* the temp files that exist, each named by its request
    ldr          \* the loaders

paneVars == <<respFile, respSize, previewLoaded, previewEnabled, editor>>
chanVars == <<respChan, previewChan, appendChan>>
exVars   == <<session, base, shown, overtaken>>
reqVars  == <<mode, reqID, requesting, cancelFn, closed, exVars>>
vars == <<ui, reqVars, chanVars, paneVars, previewLoading, snd, cancelled, files, ldr>>

Reqs == 1..MaxReq

\* The text of batch b of the response to request r; batch 0 is the live preview.
Piece(r, b) == [of |-> r, batch |-> b]
Example == Piece(0, 0)

NoLoader == [pc |-> "none", kind |-> "more", file |-> 0, offset |-> 0, id |-> 0]
NoSender == [pc |-> "none", mode |-> "view", ok |-> FALSE]
NoBase == [valid |-> FALSE, file |-> 0, size |-> 0, loaded |-> 0, enabled |-> TRUE, text |-> <<>>]

\* os.Remove of a temp file, where 0 is the empty path.
Removed(f) == files \ {f}
Queued == {respChan[i].file : i \in DOMAIN respChan}

Init ==
    /\ session \in Sessions
    /\ ui = "app"
    /\ mode = "view"
    /\ reqID = 0
    /\ requesting = FALSE
    /\ cancelFn = 0
    /\ closed = FALSE
    /\ respChan = <<>> /\ previewChan = <<>> /\ appendChan = <<>>
    /\ respFile = 0
    /\ respSize = 0
    /\ previewLoaded = 0
    /\ previewLoading = FALSE
    /\ previewEnabled = TRUE
    /\ editor = <<>>
    /\ base = NoBase
    /\ shown = 0
    /\ overtaken = FALSE
    /\ snd = [r \in Reqs |-> NoSender]
    /\ cancelled = {}
    /\ files = {}
    /\ ldr = [l \in Loaders |-> NoLoader]

-----------------------------------------------------------------------------
(* The frame: app.go's clicks, then Layout in its order.                   *)

\* Send, or the writer of a save dialog: beginRequest up to requestID.Add.
BeginRequest(m) ==
    /\ ui = "app"
    /\ reqID < MaxReq
    /\ cancelled' = IF cancelFn = 0 THEN cancelled ELSE cancelled \cup {cancelFn}
    /\ cancelFn' = 0
    /\ reqID' = reqID + 1
    /\ mode' = m
    /\ ui' = "drain"
    /\ overtaken' = (overtaken \/ \E l \in Loaders : ldr[l].pc # "none")
    /\ UNCHANGED <<session, requesting, closed, base, shown, chanVars, paneVars, previewLoading, snd, files,
                   ldr>>

\* The channels are drained one after the other and the pane is cleared.
BeginDrain ==
    /\ ui = "drain"
    /\ appendChan' = <<>>
    /\ files' = files \ Queued
    /\ respChan' = <<>>
    /\ previewChan' = <<>>
    /\ previewLoading' = FALSE
    /\ editor' = <<>>
    /\ requesting' = TRUE
    /\ respSize' = 0
    /\ ui' = "clean"
    /\ UNCHANGED <<mode, reqID, cancelFn, closed, exVars, respFile, previewLoaded, previewEnabled,
                   snd, cancelled, ldr>>

\* cleanupRespFile, and what beginRequest does after it.
BeginClean ==
    /\ ui = "clean"
    /\ files' = (files \ Queued) \ {respFile}
    /\ respChan' = <<>>
    /\ respFile' = 0
    /\ previewEnabled' = (mode = "view")
    /\ previewLoaded' = 0
    /\ ui' = "start"
    /\ UNCHANGED <<reqVars, previewChan, appendChan, respSize, editor, previewLoading, snd,
                   cancelled, ldr>>

\* prepareRequest may fail; otherwise the goroutine is started.
StartSender ==
    /\ ui = "start"
    /\ \/ /\ requesting' = FALSE
          /\ UNCHANGED <<cancelFn, snd>>
       \/ /\ cancelFn' = reqID
          /\ snd' = [snd EXCEPT ![reqID] = [pc |-> "do", mode |-> mode, ok |-> FALSE]]
          /\ UNCHANGED requesting
    /\ ui' = "chunks"
    /\ UNCHANGED <<mode, reqID, closed, exVars, chanVars, paneVars, previewLoading, cancelled, files,
                   ldr>>

CancelRequest ==
    /\ ui = "app"
    /\ requesting
    /\ cancelFn # 0
    /\ cancelled' = cancelled \cup {cancelFn}
    /\ cancelFn' = 0
    /\ ui' = "chunks"
    /\ UNCHANGED <<mode, reqID, requesting, closed, exVars, chanVars, paneVars, previewLoading, snd,
                   files, ldr>>

\* The tab is closed: CancelRequest, MarkClosed, cleanupRespFile; no frame follows.
MarkClosed ==
    /\ ui = "app"
    /\ cancelled' = IF cancelFn = 0 THEN cancelled ELSE cancelled \cup {cancelFn}
    /\ cancelFn' = 0
    /\ closed' = TRUE
    /\ files' = (files \ Queued) \ {respFile}
    /\ respChan' = <<>>
    /\ respFile' = 0
    /\ ui' = "closed"
    /\ UNCHANGED <<mode, reqID, requesting, exVars, previewChan, appendChan, respSize, previewLoaded,
                   previewEnabled, editor, previewLoading, snd, ldr>>

NoClick ==
    /\ ui = "app"
    /\ ui' = "chunks"
    /\ UNCHANGED <<reqVars, chanVars, paneVars, previewLoading, snd, cancelled, files, ldr>>

\* Layout appends the queued chunks of the current request, while more of them may come.
TakeChunk ==
    /\ ui = "chunks" /\ appendChan # <<>>
    /\ editor' = IF Head(appendChan).id = reqID THEN Append(editor, Head(appendChan).text) ELSE editor
    /\ appendChan' = Tail(appendChan)
    /\ UNCHANGED <<ui, reqVars, respChan, previewChan, respFile, respSize, previewLoaded,
                   previewEnabled, previewLoading, snd, cancelled, files, ldr>>

NoMoreChunks ==
    /\ ui = "chunks" /\ appendChan = <<>>
    /\ ui' = "response"
    /\ UNCHANGED <<reqVars, chanVars, paneVars, previewLoading, snd, cancelled, files, ldr>>

\* The answer of the current request: its file, and its first batch if it is viewed.
Accept(res) ==
    /\ appendChan' = <<>>
    /\ respFile' = res.file
    /\ respSize' = IF res.file = 0 THEN 0 ELSE session.batches
    /\ previewLoaded' = IF res.viewed THEN 1 ELSE 0
    /\ requesting' = FALSE
    /\ cancelFn' = 0
    /\ editor' = CASE ~previewEnabled -> <<>>
                   [] res.viewed      -> <<Piece(res.id, 1)>>
                   [] OTHER           -> editor

\* An answer of another request is dropped.
TakeResponse ==
    /\ ui = "response"
    /\ IF respChan # <<>> /\ respChan[1].id = reqID
       THEN Accept(respChan[1])
       ELSE UNCHANGED <<appendChan, respFile, respSize, previewLoaded, requesting, cancelFn, editor>>
    /\ respChan' = <<>>
    /\ ui' = "preview"
    /\ UNCHANGED <<mode, reqID, closed, exVars, previewChan, previewEnabled, previewLoading, snd,
                   cancelled, files, ldr>>

\* The first batch of a saved file, loaded on demand.
TakePreview ==
    /\ ui = "preview"
    /\ IF previewChan = <<>>
       THEN UNCHANGED <<previewLoading, previewLoaded, editor>>
       ELSE LET pr == previewChan[1]
            IN  /\ previewLoading' = FALSE
                /\ IF pr.id = reqID
                   THEN /\ previewLoaded' = pr.loaded
                        /\ editor' = [b \in 1..pr.loaded |-> Piece(pr.file, b)]
                   ELSE UNCHANGED <<previewLoaded, editor>>
    /\ previewChan' = <<>>
    /\ ui' = "click"
    /\ UNCHANGED <<reqVars, respChan, appendChan, respFile, respSize, previewEnabled, snd, cancelled,
                   files, ldr>>

-----------------------------------------------------------------------------
(* The clicks Layout handles last.                                         *)

Spawn(l, kind, offset) ==
    /\ l \in session.loaders /\ ldr[l].pc = "none"
    /\ ldr' = [ldr EXCEPT ![l] = [pc |-> "read", kind |-> kind, file |-> respFile,
                                  offset |-> offset, id |-> reqID]]

\* "Show in app", for a response saved to a file.
LoadPreviewForSavedFile(l) ==
    /\ ui = "click"
    /\ ~previewEnabled /\ ~requesting
    /\ respFile # 0 /\ respSize # 0
    /\ ~previewLoading
    /\ previewLoading' = TRUE
    /\ previewEnabled' = TRUE
    /\ Spawn(l, "saved", 0)
    /\ ui' = "app"
    /\ UNCHANGED <<reqVars, chanVars, respFile, respSize, previewLoaded, editor, snd, cancelled,
                   files>>

\* "Load more", shown while a part of the response is loaded.
LoadMorePreview(l) ==
    /\ ui = "click"
    /\ previewEnabled
    /\ 0 < previewLoaded /\ previewLoaded < respSize
    /\ respFile # 0
    /\ ~previewLoading
    /\ previewLoading' = TRUE
    /\ Spawn(l, "more", previewLoaded)
    /\ ui' = "app"
    /\ UNCHANGED <<reqVars, chanVars, paneVars, snd, cancelled, files>>

\* An example is shown in place of the response, which is set aside the first time.
ShowExample ==
    /\ ui = "click"
    /\ shown < session.shown
    /\ shown' = shown + 1
    /\ base' = IF base.valid THEN base
               ELSE [valid |-> TRUE, file |-> respFile, size |-> respSize, loaded |-> previewLoaded,
                     enabled |-> previewEnabled, text |-> editor]
    /\ appendChan' = <<>>
    /\ requesting' = FALSE
    /\ cancelFn' = 0
    /\ respFile' = 0
    /\ respSize' = 1
    /\ previewLoaded' = 1
    /\ previewEnabled' = TRUE
    /\ editor' = <<Example>>
    /\ ui' = "app"
    /\ UNCHANGED <<session, mode, reqID, closed, overtaken, respChan, previewChan, previewLoading, snd, cancelled,
                   files, ldr>>

RestoreBaseState ==
    /\ ui = "click"
    /\ base.valid
    /\ base' = NoBase
    /\ respFile' = base.file
    /\ respSize' = base.size
    /\ previewLoaded' = base.loaded
    /\ previewEnabled' = base.enabled
    /\ editor' = base.text
    /\ ui' = "app"
    /\ UNCHANGED <<session, mode, reqID, requesting, cancelFn, closed, shown, overtaken, chanVars, previewLoading, snd,
                   cancelled, files, ldr>>

EndFrame ==
    /\ ui = "click"
    /\ ui' = "app"
    /\ UNCHANGED <<reqVars, chanVars, paneVars, previewLoading, snd, cancelled, files, ldr>>

-----------------------------------------------------------------------------
(* The goroutine of request r.                                             *)

sndOnly == <<ui, reqVars, paneVars, previewLoading, previewChan, cancelled, ldr>>

SenderAt(r, from, to) ==
    /\ snd[r].pc = from
    /\ snd' = [snd EXCEPT ![r].pc = to]

\* The client's Do fails or is cancelled, or no temp file can be made.
DoFails(r) ==
    /\ SenderAt(r, "do", "answer")
    /\ UNCHANGED <<sndOnly, respChan, appendChan, files>>

DoSucceeds(r) ==
    /\ SenderAt(r, "do", "stream")
    /\ files' = files \cup {r}
    /\ UNCHANGED <<sndOnly, respChan, appendChan>>

\* A chunk for the live preview, dropped when the channel is full.
StreamChunk(r) ==
    /\ snd[r].mode = "view"
    /\ SenderAt(r, "stream", "streamed")
    /\ appendChan' = IF Len(appendChan) < ChanCap
                     THEN Append(appendChan, [id |-> r, text |-> Piece(r, 0)])
                     ELSE appendChan
    /\ UNCHANGED <<sndOnly, respChan, files>>

\* The stream breaks; a save removes its temp file at once, a view when it exits.
StreamFails(r) ==
    /\ snd[r].pc \in {"stream", "streamed"}
    /\ snd' = [snd EXCEPT ![r].pc = "answer"]
    /\ files' = IF snd[r].mode = "file" THEN Removed(r) ELSE files
    /\ UNCHANGED <<sndOnly, respChan, appendChan>>

StreamEnds(r) ==
    /\ snd[r].pc \in {"stream", "streamed"}
    /\ snd' = [snd EXCEPT ![r].pc = "answer", ![r].ok = TRUE]
    /\ UNCHANGED <<sndOnly, respChan, appendChan, files>>

\* sendResponse under respMu: the request may be stale, or the tab closed.
SendRefused(r) ==
    /\ \A q \in Reqs : snd[q].pc # "locked"
    /\ r # reqID \/ closed
    /\ snd[r].pc = "answer"
    /\ snd' = [snd EXCEPT ![r].pc = "exit", ![r].ok = FALSE]
    /\ UNCHANGED <<sndOnly, respChan, appendChan, files>>

SendChecked(r) ==
    /\ \A q \in Reqs : snd[q].pc # "locked"
    /\ r = reqID /\ ~closed
    /\ SenderAt(r, "answer", "locked")
    /\ UNCHANGED <<sndOnly, respChan, appendChan, files>>

Answer(r) ==
    [id |-> r,
     file |-> IF snd[r].ok THEN r ELSE 0,
     viewed |-> snd[r].ok /\ snd[r].mode = "view"]

\* An older answer is taken out with its file, and this one is put in.
SendStored(r) ==
    /\ SenderAt(r, "locked", "exit")
    /\ files' = files \ (Queued \ {r})
    /\ respChan' = <<Answer(r)>>
    /\ UNCHANGED <<sndOnly, appendChan>>

\* The deferred cleanup removes the temp file unless it was handed over.
SenderExits(r) ==
    /\ SenderAt(r, "exit", "done")
    /\ files' = IF snd[r].ok THEN files ELSE Removed(r)
    /\ UNCHANGED <<sndOnly, respChan, appendChan>>

-----------------------------------------------------------------------------
(* The loaders.                                                            *)

ldrOnly == <<ui, reqVars, respChan, respFile, respSize, previewEnabled, editor, snd, cancelled, files>>

LoaderAt(l, from, to) ==
    /\ ldr[l].pc = from
    /\ ldr' = [ldr EXCEPT ![l].pc = to]

\* The file is opened and read; without it loadMorePreview returns.
ReadBatch(l) ==
    /\ ldr[l].kind = "more"
    /\ LoaderAt(l, "read", IF ldr[l].file \in files THEN "add" ELSE "release")
    /\ UNCHANGED <<ldrOnly, previewChan, appendChan, previewLoaded, previewLoading>>

AddLoaded(l) ==
    /\ LoaderAt(l, "add", "send")
    /\ previewLoaded' = previewLoaded + 1
    /\ UNCHANGED <<ldrOnly, previewChan, appendChan, previewLoading>>

\* streamToEditor blocks while the channel is full.
StreamToEditor(l) ==
    /\ LoaderAt(l, "send", "release")
    /\ Len(appendChan) < ChanCap
    /\ appendChan' = Append(appendChan, [id |-> ldr[l].id, text |-> Piece(ldr[l].file, ldr[l].offset + 1)])
    /\ UNCHANGED <<ldrOnly, previewChan, previewLoaded, previewLoading>>

ReleaseLoader(l) ==
    /\ ldr[l].pc = "release"
    /\ previewLoading' = FALSE
    /\ ldr' = [ldr EXCEPT ![l] = NoLoader]
    /\ UNCHANGED <<ldrOnly, previewChan, appendChan, previewLoaded>>

\* A saved file: the result replaces an older one; offset carries what was loaded.
ReadSaved(l) ==
    /\ ldr[l].kind = "saved"
    /\ ldr[l].pc = "read"
    /\ ldr' = [ldr EXCEPT ![l].pc = "replace", ![l].offset = IF ldr[l].file \in files THEN 1 ELSE 0]
    /\ UNCHANGED <<ldrOnly, previewChan, appendChan, previewLoaded, previewLoading>>

DropOldPreview(l) ==
    /\ LoaderAt(l, "replace", "put")
    /\ previewChan' = <<>>
    /\ UNCHANGED <<ldrOnly, appendChan, previewLoaded, previewLoading>>

PutPreview(l) ==
    /\ ldr[l].pc = "put"
    /\ previewChan = <<>>
    /\ previewChan' = <<[id |-> ldr[l].id, file |-> ldr[l].file, loaded |-> ldr[l].offset]>>
    /\ ldr' = [ldr EXCEPT ![l] = NoLoader]
    /\ UNCHANGED <<ldrOnly, appendChan, previewLoaded, previewLoading>>

-----------------------------------------------------------------------------

BeginStep ==
    \/ \E m \in session.modes : BeginRequest(m)
    \/ BeginDrain
    \/ BeginClean
    \/ StartSender

TabFrame ==
    \/ CancelRequest
    \/ NoClick
    \/ TakeChunk
    \/ NoMoreChunks
    \/ TakeResponse
    \/ TakePreview
    \/ \E l \in Loaders : LoadPreviewForSavedFile(l)
    \/ \E l \in Loaders : LoadMorePreview(l)
    \/ ShowExample
    \/ RestoreBaseState
    \/ EndFrame

FrameStep == MarkClosed \/ TabFrame

\* Steps a goroutine takes whatever the server does.
SenderStep(r) ==
    \/ SendRefused(r)
    \/ SendChecked(r)
    \/ SendStored(r)
    \/ SenderExits(r)

\* Steps that need the server, or a cancelled context.
FetchStep(r) ==
    \/ DoFails(r)
    \/ DoSucceeds(r)
    \/ StreamChunk(r)
    \/ StreamFails(r)
    \/ StreamEnds(r)

LoaderStep(l) ==
    \/ ReadBatch(l)
    \/ AddLoaded(l)
    \/ StreamToEditor(l)
    \/ ReleaseLoader(l)
    \/ ReadSaved(l)
    \/ DropOldPreview(l)
    \/ PutPreview(l)

Next ==
    \/ BeginStep
    \/ FrameStep
    \/ \E r \in Reqs : SenderStep(r) \/ FetchStep(r)
    \/ \E l \in Loaders : LoaderStep(l)

Spec == Init /\ [][Next]_vars

\* Frames follow one another (every goroutine invalidates the window), some goroutine that
\* can run does, and a cancelled fetch returns; the server may never answer.
Fairness ==
    /\ WF_vars(BeginStep \/ FrameStep)
    /\ WF_vars(\/ \E r \in Reqs : SenderStep(r) \/ (r \in cancelled /\ FetchStep(r))
               \/ \E l \in Loaders : LoaderStep(l))

FairSpec == Spec /\ Fairness

-----------------------------------------------------------------------------
(* Properties.                                                             *)

Pieces == [of : 0..MaxReq, batch : 0..Batches]

TypeOK ==
    /\ ui \in {"app", "drain", "clean", "start", "chunks", "response", "preview", "click", "closed"}
    /\ mode \in {"view", "file"}
    /\ reqID \in 0..MaxReq
    /\ requesting \in BOOLEAN /\ closed \in BOOLEAN
    /\ cancelFn \in 0..MaxReq
    /\ Len(respChan) <= 1 /\ Len(previewChan) <= 1 /\ Len(appendChan) <= ChanCap
    /\ \A i \in DOMAIN appendChan : appendChan[i] \in [id : 0..MaxReq, text : Pieces]
    /\ respFile \in 0..MaxReq
    /\ respSize \in 0..Batches
    /\ previewLoaded \in Nat
    /\ previewLoading \in BOOLEAN /\ previewEnabled \in BOOLEAN
    /\ \A i \in DOMAIN editor : editor[i] \in Pieces
    /\ snd \in [Reqs -> [pc : {"none", "do", "stream", "streamed", "answer", "locked", "exit", "done"},
                         mode : {"view", "file"}, ok : BOOLEAN]]
    /\ cancelled \subseteq Reqs /\ files \subseteq Reqs
    /\ ldr \in [Loaders -> [pc : {"none", "read", "add", "send", "release", "replace", "put"},
                            kind : {"more", "saved"}, file : 0..MaxReq, offset : 0..Batches,
                            id : 0..MaxReq]]

Fetching(r) == snd[r].pc \in {"do", "stream", "streamed", "answer", "locked"}
InFrame == ui \in {"app", "chunks", "response", "preview", "click"}

\* The file the pane shows exists, and so does the one set aside for an example: no
\* cleanup of a goroutine or of an older answer removes it.
ShownFileExists ==
    /\ respFile # 0 /\ ui # "closed" => respFile \in files
    /\ base.valid /\ base.file # 0 => base.file \in files

\* While the tab says a request is in flight, its goroutine is at work or its answer is
\* queued: the answer cannot get lost between the two.
AnswerOnItsWay ==
    requesting /\ InFrame =>
        Fetching(reqID) \/ \E i \in DOMAIN respChan : respChan[i].id = reqID

\* Everything the pane shows belongs to the request the tab counts as the current one,
\* whatever the goroutines of older requests still send.
PaneIsCurrent ==
    InFrame /\ shown = 0 =>
        /\ \A i \in DOMAIN editor : editor[i].of = reqID
        /\ respFile \in {0, reqID}

\* One loader at a time works on the preview of the current response.
OneLoader ==
    ~overtaken =>
        \A l, m \in Loaders :
            /\ ldr[l].pc # "none" /\ ldr[l].id = reqID
            /\ ldr[m].pc # "none" /\ ldr[m].id = reqID
            => l = m

\* Loading in batches is exact: one loader at a time, and with none at work and no chunk
\* queued the pane of a viewed response holds its first previewLoaded batches, in order.
PreviewExact ==
    /\ OneLoader
    /\ (/\ InFrame /\ ~requesting /\ previewEnabled /\ shown = 0 /\ ~overtaken
        /\ respFile # 0 /\ ~previewLoading
        /\ appendChan = <<>> /\ previewChan = <<>>
        /\ \A l \in Loaders : ldr[l].pc = "none") =>
           editor = [b \in 1..previewLoaded |-> Piece(respFile, b)]

\* The answer is on its way as long as the tab waits for it, and once it is shown its file
\* is there: neither an answer nor the text it left on disk is lost.
NothingLost == ShownFileExists /\ AnswerOnItsWay

\* What the pane shows is of the current request, and it is an exact prefix of its body.
PaneExact == PaneIsCurrent /\ PreviewExact

\* Nothing of the current request gets lost, and nothing else is shown.
TabExact == NothingLost /\ PaneExact

\* A cancelled request stops being in flight, even if the server never answers.
CancelEnds == (requesting /\ reqID \in cancelled) ~> (~requesting \/ reqID \notin cancelled \/ closed)
=============================================================================
