----------------------------- MODULE Interceptor -----------------------------
(***************************************************************************)
(* The manual-interception queue of the MITM proxy                         *)
(* (internal/ui/mitm/manual_intercept.go), the proxy goroutines that park  *)
(* a message in it (pipeline.go) and the UI thread that decides the parked *)
(* messages (ui_events.go, ui_intercept.go).                               *)
(*                                                                         *)
(* A message is one Held object.  Each is carried by a proxy goroutine     *)
(* that reads the switch twice (once in processRequest, once in Hold),     *)
(* creates the resume channel, appends itself to the queue under the lock  *)
(* and then blocks on the channel.  The UI thread runs one frame after the *)
(* other: widget events first, then layout.                                *)
(***************************************************************************)
EXTENDS Naturals, SequencesExt

CONSTANTS Msgs,    \* the messages the proxy goroutines carry
          None     \* no message: HeldEditorFor = 0, no head, ...

ASSUME NoneAssumption == None \notin Msgs

VARIABLES
    on,         \* Interceptor.on
    doResp,     \* Interceptor.doResp
    queue,      \* Interceptor.queue
    nextHeldID, \* Interceptor.nextID
    mid,        \* Held.ID of each message (0 until it is queued)
    resume,     \* Held.resume: the buffered channel (capacity 1) of each message
    at,         \* where the goroutine carrying the message is
    got,        \* what Hold returned to the goroutine
    frame,      \* where the UI thread is in its frame
    drained,    \* drainAll's local q: taken from the queue, not yet sent
    head,       \* handleInterceptDecisions' local head
    found,      \* resolve's local found, with the result it is about to send
    editor,     \* HeldEditor/HeldEditorFor: the message whose text it shows
    buttons     \* the Forward and Drop buttons were laid out by the last frame

inVars == <<on, doResp, queue, nextHeldID, mid, resume>>
carrierVars == <<at, got>>
frameVars == <<frame, drained, head, found, editor, buttons>>
queueVars == <<inVars, carrierVars, frameVars>>

\* heldResult: the text that is sent on, named by the message it was read
\* from, and the drop flag.
Result(text, drop) == [text |-> text, drop |-> drop]
Results == [text : Msgs \cup {None}, drop : BOOLEAN]
NoResult == Result(None, FALSE)
NoFound  == [msg |-> None, res |-> NoResult]

MsgKinds == {"request", "response"}

UIStates == {"events", "drain", "send", "decide", "clicks", "resolve", "layout"}

QueueInit ==
    /\ on = FALSE
    /\ doResp = FALSE
    /\ queue = <<>>
    /\ nextHeldID = 0
    /\ mid = [m \in Msgs |-> 0]
    /\ resume = [m \in Msgs |-> <<>>]
    /\ at = [m \in Msgs |-> "new"]
    /\ got = [m \in Msgs |-> NoResult]
    /\ frame = "events"
    /\ drained = <<>>
    /\ head = None
    /\ found = NoFound
    /\ editor = None
    /\ buttons = FALSE

-----------------------------------------------------------------------------
(* The proxy goroutines.                                                   *)

\* processRequest and processResponse: the message matches the scope and the
\* intercept rules, and the switch is read for the first time.  A message that
\* finds it off passes through and never reaches Hold.
Process(m, kind) ==
    /\ at[m] = "new"
    /\ IF on /\ (kind = "response" => doResp)
       THEN at' = [at EXCEPT ![m] = "hold"] /\ UNCHANGED got
       ELSE at' = [at EXCEPT ![m] = "done"] /\ got' = [got EXCEPT ![m] = Result(m, FALSE)]
    /\ UNCHANGED <<inVars, frameVars>>

\* Hold reads the switch again: off returns the raw bytes at once, on makes
\* the channel.
HoldCheck(m) ==
    /\ at[m] = "hold"
    /\ IF on
       THEN /\ at' = [at EXCEPT ![m] = "enqueue"]
            /\ resume' = [resume EXCEPT ![m] = <<>>]
            /\ UNCHANGED got
       ELSE /\ at' = [at EXCEPT ![m] = "done"]
            /\ got' = [got EXCEPT ![m] = Result(m, FALSE)]
            /\ UNCHANGED resume
    /\ UNCHANGED <<on, doResp, queue, nextHeldID, mid, frameVars>>

\* Mutant: the new message goes to the front of the queue.
HoldEnqueuePrepends(m) ==
    /\ at[m] = "enqueue"
    /\ nextHeldID' = nextHeldID + 1
    /\ mid' = [mid EXCEPT ![m] = nextHeldID + 1]
    /\ queue' = <<m>> \o queue
    /\ at' = [at EXCEPT ![m] = "parked"]
    /\ UNCHANGED <<on, doResp, resume, got, frameVars>>

\* Mutant: the number is taken before the counter moves, so that the first message gets 0.
HoldEnqueueFromZero(m) ==
    /\ at[m] = "enqueue"
    /\ nextHeldID' = nextHeldID + 1
    /\ mid' = [mid EXCEPT ![m] = nextHeldID]
    /\ queue' = Append(queue, m)
    /\ at' = [at EXCEPT ![m] = "parked"]
    /\ UNCHANGED <<on, doResp, resume, got, frameVars>>

\* Hold's critical section: number the message and append it.
HoldEnqueue(m) ==
    /\ at[m] = "enqueue"
    /\ nextHeldID' = nextHeldID + 1
    /\ mid' = [mid EXCEPT ![m] = nextHeldID + 1]
    /\ queue' = Append(queue, m)
    /\ at' = [at EXCEPT ![m] = "parked"]
    /\ UNCHANGED <<on, doResp, resume, got, frameVars>>

\* res := <-h.resume, and Hold returns.
HoldReceive(m) ==
    /\ at[m] = "parked"
    /\ resume[m] # <<>>
    /\ got' = [got EXCEPT ![m] = Head(resume[m])]
    /\ resume' = [resume EXCEPT ![m] = Tail(@)]
    /\ at' = [at EXCEPT ![m] = "done"]
    /\ UNCHANGED <<on, doResp, queue, nextHeldID, mid, frameVars>>

-----------------------------------------------------------------------------
(* The UI thread: handleEvents.                                            *)

\* The responses switch was toggled since the last frame.
SetInterceptResponses(b) ==
    /\ frame = "decide"
    /\ doResp' = b
    /\ UNCHANGED <<on, queue, nextHeldID, mid, resume, carrierVars, frameVars>>

\* The Intercept switch was toggled: SetOn stores the flag first, and turning
\* off goes on to drainAll.
SetOn(b) ==
    /\ frame = "events"
    /\ on' = b
    /\ frame' = IF b THEN "decide" ELSE "drain"
    /\ UNCHANGED <<doResp, queue, nextHeldID, mid, resume, carrierVars, drained, head, found,
                   editor, buttons>>

\* Neither switch moved (or no more of them): go on to the Forward/Drop buttons.
NoToggle ==
    /\ frame = "events"
    /\ frame' = "decide"
    /\ UNCHANGED <<inVars, carrierVars, drained, head, found, editor, buttons>>

\* drainAll's critical section takes the whole queue.
DrainTake ==
    /\ frame = "drain"
    /\ drained' = queue
    /\ queue' = <<>>
    /\ frame' = "send"
    /\ UNCHANGED <<on, doResp, nextHeldID, mid, resume, carrierVars, head, found, editor, buttons>>

\* Mutant: drainAll answers the same message again and again.
DrainSendRepeats ==
    /\ frame = "send"
    /\ drained # <<>>
    /\ resume' = [resume EXCEPT ![Head(drained)] = Append(@, Result(Head(drained), FALSE))]
    /\ UNCHANGED <<on, doResp, queue, nextHeldID, mid, carrierVars, frame, drained, head, found,
                   editor, buttons>>

\* h.resume <- heldResult{edited: h.Raw, drop: false}, blocking on a full channel.
DrainSend ==
    /\ frame = "send"
    /\ drained # <<>>
    /\ resume[Head(drained)] = <<>>
    /\ resume' = [resume EXCEPT ![Head(drained)] = <<Result(Head(drained), FALSE)>>]
    /\ drained' = Tail(drained)
    /\ UNCHANGED <<on, doResp, queue, nextHeldID, mid, carrierVars, frame, head, found, editor, buttons>>

\* Mutant: drainAll stops before its list is empty.
DrainDoneEarly ==
    /\ frame = "send"
    /\ frame' = "decide"
    /\ UNCHANGED <<inVars, carrierVars, drained, head, found, editor, buttons>>

DrainDone ==
    /\ frame = "send"
    /\ drained = <<>>
    /\ frame' = "decide"
    /\ UNCHANGED <<inVars, carrierVars, drained, head, found, editor, buttons>>

\* handleInterceptDecisions snapshots the queue and keeps its head; an empty
\* queue is an early return.
TakeHead ==
    /\ frame = "decide"
    /\ IF queue = <<>>
       THEN frame' = "layout" /\ head' = None
       ELSE frame' = "clicks" /\ head' = Head(queue)
    /\ UNCHANGED <<inVars, carrierVars, drained, found, editor, buttons>>

\* resolve's critical section: the first message whose ID is id leaves the queue
\* and becomes found; an unknown ID changes nothing.
Resolve(m, res) ==
    \/ \E i \in DOMAIN queue :
           /\ mid[queue[i]] = mid[m]
           /\ \A j \in 1..(i - 1) : mid[queue[j]] # mid[m]
           /\ queue' = RemoveAt(queue, i)
           /\ found' = [msg |-> queue[i], res |-> res]
           /\ frame' = "resolve"
    \/ /\ \A i \in DOMAIN queue : mid[queue[i]] # mid[m]
       /\ UNCHANGED <<queue, found, frame>>

\* A click on Forward sends the text of the editor, a click on Drop the message's
\* own bytes with the drop flag.  The buttons take a click only when the last
\* frame laid them out.
Forward ==
    /\ frame = "clicks"
    /\ buttons
    /\ Resolve(head, Result(editor, FALSE))
    /\ UNCHANGED <<on, doResp, nextHeldID, mid, resume, carrierVars, drained, head, editor, buttons>>

Drop ==
    /\ frame = "clicks"
    /\ buttons
    /\ Resolve(head, Result(head, TRUE))
    /\ UNCHANGED <<on, doResp, nextHeldID, mid, resume, carrierVars, drained, head, editor, buttons>>

\* Mutant: the decision to drop is lost on the way to the channel.
ResolveSendForwards ==
    /\ frame = "resolve"
    /\ resume[found.msg] = <<>>
    /\ resume' = [resume EXCEPT ![found.msg] = <<Result(found.res.text, FALSE)>>]
    /\ found' = NoFound
    /\ frame' = "clicks"
    /\ UNCHANGED <<on, doResp, queue, nextHeldID, mid, carrierVars, drained, head, editor, buttons>>

\* found.resume <- heldResult{...}, outside the lock.
ResolveSend ==
    /\ frame = "resolve"
    /\ resume[found.msg] = <<>>
    /\ resume' = [resume EXCEPT ![found.msg] = <<found.res>>]
    /\ found' = NoFound
    /\ frame' = "clicks"
    /\ UNCHANGED <<on, doResp, queue, nextHeldID, mid, carrierVars, drained, head, editor, buttons>>

NoMoreClicks ==
    /\ frame = "clicks"
    /\ frame' = "layout"
    /\ head' = None
    /\ UNCHANGED <<inVars, carrierVars, drained, found, editor, buttons>>

\* Layout: the Intercept view, when it is the one shown, lays out the editor and
\* the buttons for the first message of the queue, and loads the editor once per
\* message.
Layout(shown) ==
    /\ frame = "layout"
    /\ buttons' = (shown /\ on /\ queue # <<>>)
    /\ editor' = IF buttons' THEN Head(queue) ELSE editor
    /\ frame' = "events"
    /\ UNCHANGED <<inVars, carrierVars, drained, head, found>>

-----------------------------------------------------------------------------

Goroutine(m) ==
    \/ \E kind \in MsgKinds : Process(m, kind)
    \/ HoldCheck(m)
    \/ HoldEnqueue(m)
    \/ HoldReceive(m)

\* What the UI thread does in a frame that has begun, whatever the user clicked.
UIFrame ==
    \/ DrainTake
    \/ DrainSend
    \/ DrainDone
    \/ TakeHead
    \/ ResolveSend
    \/ NoMoreClicks
    \/ \E shown \in BOOLEAN : Layout(shown)

\* A frame begins, with or without clicks.
UIClick ==
    \/ NoToggle
    \/ \E b \in BOOLEAN : SetOn(b) \/ SetInterceptResponses(b)
    \/ Forward
    \/ Drop

QueueNext ==
    \/ \E m \in Msgs : Goroutine(m)
    \/ UIFrame
    \/ UIClick

QueueSpec == QueueInit /\ [][QueueNext]_queueVars

\* Goroutines are scheduled and a frame that has begun ends; no frame has to
\* begin, nobody has to click and no message has to arrive.
QueueFairness ==
    /\ \A m \in Msgs : WF_queueVars(HoldCheck(m) \/ HoldEnqueue(m) \/ HoldReceive(m))
    /\ WF_queueVars(UIFrame)

QueueFairSpec == QueueSpec /\ QueueFairness

-----------------------------------------------------------------------------
(* Properties.                                                             *)

QueueTypes ==
    /\ on \in BOOLEAN
    /\ doResp \in BOOLEAN
    /\ queue \in Seq(Msgs)
    /\ nextHeldID \in Nat
    /\ mid \in [Msgs -> Nat]
    /\ resume \in [Msgs -> Seq(Results)]
    /\ at \in [Msgs -> {"new", "hold", "enqueue", "parked", "done"}]
    /\ got \in [Msgs -> Results]
    /\ frame \in UIStates
    /\ drained \in Seq(Msgs)
    /\ head \in Msgs \cup {None}
    /\ found \in [msg : Msgs \cup {None}, res : Results]
    /\ editor \in Msgs \cup {None}
    /\ buttons \in BOOLEAN

\* Messages are numbered from 1: an editor of message 0 is an editor of none
\* (HeldEditorFor), and every message in the queue has its number.
QueueTypeOK == QueueTypes /\ \A m \in Range(queue) : mid[m] \in 1..nextHeldID

Answered(m) == resume[m] # <<>>

\* A goroutine blocked in Hold has exactly one way out: its message is queued,
\* or in the list drainAll is working through, or in resolve's hands, or its
\* answer is in the channel.  Without it a message is lost for good (no way
\* out) or answered twice (two ways), by resolve racing drainAll on one Held.
OneWayOut ==
    /\ \A m \in Msgs : at[m] = "parked" <=>
           \/ m \in Range(queue)
           \/ m \in Range(drained)
           \/ found.msg = m
           \/ Answered(m)
    /\ \A m \in Msgs : m \in Range(queue) => m \notin Range(drained) /\ found.msg # m
    /\ \A m \in Msgs : m \in Range(drained) => found.msg # m

\* The UI thread never blocks sending an answer: the channel of a message it is
\* about to answer is empty, so the buffered send goes through at once.
SendNeverBlocks ==
    \A m \in Msgs : Answered(m) =>
        /\ m \notin Range(queue)
        /\ m \notin Range(drained)
        /\ found.msg # m

\* A held message is answered, once: it keeps one way out until it is, and none after.
AnsweredOnce == OneWayOut /\ SendNeverBlocks

\* The queue holds no message twice and is in the order of the IDs, so its first
\* message, the one the Intercept view shows, is the one held longest.
OldestFirst ==
    \A i, j \in DOMAIN queue : i < j => mid[queue[i]] < mid[queue[j]]

\* IDs are not reused: resolving an ID a second time, after its message has
\* left the queue, must not hit another message.
UniqueIDs ==
    \A m, n \in Msgs : mid[m] = mid[n] => m = n \/ mid[m] = 0

\* Switching interception off releases what was queued at that moment, whatever
\* the goroutines do meanwhile: drainAll's sends all go through.
DrainReleases ==
    \A m \in Msgs : (frame = "drain" /\ m \in Range(queue)) ~> (at[m] = "done")

\* ui_intercept.go:140, next to Forward: "edit the message above, then Forward".
\* What is forwarded is the text of the message that is released.
ForwardsWhatItShows ==
    \A m \in Msgs : at[m] = "done" => got[m].text = m

-----------------------------------------------------------------------------
(* The queue, the channels and the frames implement HeldMessages.  The     *)
(* verdict on a message is reached when it leaves the queue: from then on  *)
(* it is fixed, although it still has to travel through the list drainAll  *)
(* holds or resolve's local variable, and the channel.                     *)

Named(drop) == IF drop THEN "drop" ELSE "forward"

AbsVerdict(m) ==
    CASE mid[m] = 0         -> "none"
      [] m \in Range(queue)    -> "waiting"
      [] m \in Range(drained)  -> "forward"
      [] found.msg = m      -> Named(found.res.drop)
      [] Answered(m)        -> Named(Head(resume[m]).drop)
      [] OTHER              -> Named(got[m].drop)

AbsOut(m) == IF at[m] = "done" THEN Named(got[m].drop) ELSE "pending"

Held == INSTANCE HeldMessages
            WITH verdict <- [m \in Msgs |-> AbsVerdict(m)],
                 out <- [m \in Msgs |-> AbsOut(m)]

\* Every behaviour of the queue is one HeldMessages allows: one verdict per
\* message, never revised and never applied to another message, and nothing
\* goes out before the verdict.
ImplementsHeldMessages == Held!Spec
=============================================================================
