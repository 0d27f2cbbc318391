------------------------------ MODULE WSChannel ------------------------------
(***************************************************************************)
(* The WebSocket tab seen from near: the frames on the connection of a     *)
(* session (internal/ws/conn.go).  A server sends frames, readLoop puts    *)
(* them together and answers pings and the close, and the UI thread        *)
(* writes beside it, under writeMu.  view chooses, once and for all: from  *)
(* afar several sessions follow each other and a message is one step; from *)
(* near there is one session, and each frame is seen.                      *)
(***************************************************************************)
EXTENDS WSSession, WSFrames, SequencesExt

CONSTANTS MaxTraffic,   \* bound: frames the server and the user send
          MaxWire       \* bound: frames on their way

ASSUME ChannelAssumption == MaxTraffic \in Nat /\ MaxWire \in Nat \ {0}

VARIABLES
    view,       \* "sessions" from afar, "frames" from near
    ext,        \* ExtParams of the connection; from near compression is negotiated, and a
                \* frame may be compressed or not
    \* The server and the wire to the client.
    wire,       \* frames sent and not yet read
    frames,     \* how many were sent
    half,       \* the message the server is in the middle of
    shist,      \* the history of its compressor
    whole,      \* the data messages it finished
    pings,      \* the pings it sent
    last,       \* why it sends no more: "close", "cut" or a broken "rule"; else "none"
    \* Conn, for the goroutine of the session.
    reasm,      \* Conn.reasm
    inhist,     \* Conn.inflater.history
    mid,        \* what readLoop is about
    owes,       \* the payload it has to answer with
    got,        \* the messages it was handed
    \* Conn, for those who write.
    lock,       \* Conn.writeMu: who holds it, and the frame in the making
    outhist,    \* Conn.deflater.history
    out,        \* the writes to the socket: the head and the body of each frame
    writes,     \* frames written by the user
    said        \* WSDisconnect has written its close frame

serverVars == <<wire, frames, half, shist, whole, pings, last>>
readVars == <<reasm, inhist, mid, owes, got>>
writeVars == <<lock, outhist, out, writes, said>>
nearVars == <<view, ext, serverVars, readVars, writeVars>>
allVars == <<vars, nearVars>>

Free == [by |-> "none", op |-> "none", part |-> [n |-> 0, dict |-> Raw]]

ChannelInit ==
    /\ Init
    /\ view \in {"sessions", "frames"}
    /\ ext \in ExtParams
    /\ ext.negotiated = (view = "frames")
    /\ ~ext.negotiated => ~ext.fresh
    /\ wire = <<>> /\ frames = 0
    /\ half = NoMessage
    /\ shist = <<>> /\ whole = <<>> /\ pings = <<>>
    /\ last = "none"
    /\ reasm = NoMessage
    /\ inhist = <<>>
    /\ mid = "reads"
    /\ owes = 0
    /\ got = <<>>
    /\ lock = Free
    /\ outhist = <<>> /\ out = <<>>
    /\ writes = 0
    /\ said = FALSE

Near == view = "frames"
Live == sock[1] = "open"

-----------------------------------------------------------------------------
(* The server (external).  It keeps the rules until it breaks one.         *)

Frame(op, fin, rsv1, dict) ==
    [op |-> op, fin |-> fin, rsv1 |-> rsv1, masked |-> FALSE, long |-> FALSE,
     part |-> [n |-> frames + 1, dict |-> dict]]

\* What is sent when nobody will read it any more is left out.
Listens == Near /\ pc[1] = "read" /\ Live /\ mid \notin {"failed", "over"}

Sends(f) ==
    /\ Listens /\ last = "none"
    /\ frames + writes < MaxTraffic /\ Len(wire) < MaxWire
    /\ frames' = frames + 1
    /\ wire' = Append(wire, f)
    /\ UNCHANGED <<vars, view, ext, readVars, writeVars>>

\* A message the server completed is remembered, and its compressor remembers it too.
Completes(m) ==
    /\ half' = NoMessage
    /\ whole' = Append(whole, Numbers(m.buf))
    /\ shist' = IF m.compressed THEN Kept(ext.fresh, shist, m.buf) ELSE shist

ServerBegins ==
    \E fin \in BOOLEAN, rsv1 \in {FALSE, ext.negotiated} :
        LET f == Frame("data", fin, rsv1, IF rsv1 THEN DictOf(ext.fresh, shist) ELSE Raw)
            m == [open |-> TRUE, op |-> "data", compressed |-> rsv1, buf |-> <<f.part>>]
        IN  /\ ~half.open
            /\ Sends(f)
            /\ IF fin THEN Completes(m) ELSE half' = m /\ UNCHANGED <<shist, whole>>
            /\ UNCHANGED <<pings, last>>

\* A message may be longer than this side takes.
ServerContinues ==
    \E fin \in BOOLEAN :
        LET f == Frame("continuation", fin, FALSE, half.buf[1].dict)
            m == [half EXCEPT !.buf = Append(@, f.part)]
        IN  /\ half.open
            /\ Sends(f)
            /\ IF fin /\ Len(m.buf) <= MaxParts
               THEN Completes(m)
               ELSE half' = m /\ UNCHANGED <<shist, whole>>
            /\ last' = IF Len(m.buf) > MaxParts THEN "rule" ELSE "none"
            /\ UNCHANGED pings

ServerPings ==
    /\ Sends(Frame("ping", TRUE, FALSE, Raw))
    /\ pings' = Append(pings, frames')
    /\ UNCHANGED <<half, shist, whole, last>>

ServerCloses ==
    /\ Sends(Frame("close", TRUE, FALSE, Raw))
    /\ last' = "close"
    /\ UNCHANGED <<half, shist, whole, pings>>

\* A frame that no server may send at this point.
BrokenFrames ==
    {IF half.open THEN Frame("data", TRUE, FALSE, Raw) ELSE Frame("continuation", TRUE, FALSE, Raw),
     [Frame("ping", TRUE, FALSE, Raw) EXCEPT !.fin = FALSE],
     [Frame("data", TRUE, FALSE, Raw) EXCEPT !.long = TRUE],
     [Frame("data", TRUE, FALSE, Raw) EXCEPT !.masked = TRUE]}
        \cup (IF half.open THEN {Frame("continuation", TRUE, TRUE, half.buf[1].dict)} ELSE {})

ServerBreaks ==
    /\ \E f \in BrokenFrames : Sends(f)
    /\ last' = "rule"
    /\ UNCHANGED <<half, shist, whole, pings>>

\* The connection is cut; what was sent still arrives.
ServerLeaves ==
    /\ Listens /\ last = "none"
    /\ last' = "cut"
    /\ UNCHANGED <<vars, view, ext, wire, frames, half, shist, whole, pings, readVars, writeVars>>

-----------------------------------------------------------------------------
(* readLoop.                                                               *)

\* ReadMessage takes the next frame; the log of what it hands out is seen from afar.
ReadNext ==
    LET f == Head(wire)
        s == Step(reasm, f)
        m == s.out[1]
    IN  /\ Near /\ pc[1] = "read" /\ Live
        /\ mid = "reads" /\ wire # <<>>
        /\ wire' = Tail(wire)
        /\ reasm' = IF Refused(f) THEN reasm ELSE s.reasm
        /\ IF Refused(f) \/ s.err
           THEN mid' = "failed" /\ UNCHANGED <<inhist, owes, got>>
           ELSE IF s.out = <<>>
           THEN UNCHANGED <<inhist, mid, owes, got>>
           ELSE /\ inhist' = InflatedHistory(ext, inhist, m)
                /\ IF m.op \in Control
                   THEN mid' = m.op /\ owes' = m.parts[1].n /\ UNCHANGED got
                   ELSE /\ got' = Append(got, [n |-> Numbers(m.parts),
                                               legible |-> Legible(ext, inhist, m)])
                        /\ UNCHANGED <<mid, owes>>
        /\ UNCHANGED <<vars, view, ext, frames, half, shist, whole, pings, last, writeVars>>

\* ReadMessage fails, the peer was answered, or the connection is gone.
ReadStops ==
    /\ Near
    /\ \/ mid \in {"failed", "over"}
       \/ mid = "reads" /\ (~Live \/ (last = "cut" /\ wire = <<>>))
    /\ ReadEnds(1)
    /\ UNCHANGED nearVars

-----------------------------------------------------------------------------
(* Writing a frame: WriteMessage, by the UI thread or by readLoop.         *)

\* Mutant: the frame is compressed before the lock is taken.
LockAndWriteHeadUnlocked(by, op, n) ==
    /\ Live
    /\ LET part == DeflatedPart(ext, outhist, op, n) IN
       /\ lock' = [by |-> by, op |-> op, part |-> part]
       /\ outhist' = DeflatedHistory(ext, outhist, op, part)
       /\ out' = Append(out, [half |-> "head", op |-> op, part |-> part])

\* Under the lock, on a connection not closed: compress, and write the head.
LockAndWriteHead(by, op, n) ==
    /\ lock = Free
    /\ Live
    /\ LET part == DeflatedPart(ext, outhist, op, n) IN
       /\ lock' = [by |-> by, op |-> op, part |-> part]
       /\ outhist' = DeflatedHistory(ext, outhist, op, part)
       /\ out' = Append(out, [half |-> "head", op |-> op, part |-> part])

\* The body, and Unlock; the connection may have been closed in between.
WriteBody(by) ==
    /\ lock.by = by
    /\ out' = IF Live THEN Append(out, [half |-> "body", op |-> lock.op, part |-> lock.part])
              ELSE out
    /\ lock' = Free
    /\ UNCHANGED outhist

\* WriteMessage finds the connection closed.
WriteRefused == lock = Free /\ ~Live

\* wsSend: a text; the ping it may also send is written like the pong of readLoop.
UIWritesHead ==
    /\ Near /\ ui = "send"
    /\ LockAndWriteHead("ui", "data", writes + 1)
    /\ writes' = writes + 1
    /\ UNCHANGED <<vars, view, ext, serverVars, readVars, said>>

UIWritesBody ==
    /\ Near /\ ui = "send"
    /\ WriteBody("ui")
    /\ SendWrite
    /\ UNCHANGED <<view, ext, serverVars, readVars, writes, said>>

UISendFails ==
    /\ Near
    /\ WriteRefused
    /\ SendWrite
    /\ UNCHANGED nearVars

\* WSDisconnect writes its close frame before it cancels and closes.
UIWritesClose ==
    /\ Near /\ ui = "close" /\ took.conn # 0 /\ ~said
    /\ LockAndWriteHead("ui", "close", 0)
    /\ said' = TRUE
    /\ UNCHANGED <<vars, view, ext, serverVars, readVars, writes>>

UICloseWritten ==
    /\ Near /\ ui = "close"
    /\ WriteBody("ui")
    /\ UNCHANGED <<vars, view, ext, serverVars, readVars, writes, said>>

UIDisconnects ==
    /\ Near
    /\ lock.by # "ui"
    /\ said \/ took.conn = 0 \/ WriteRefused
    /\ DisconnectClose
    /\ UNCHANGED nearVars

\* readLoop answers a ping with its payload, and a close with a close.
Answer == IF mid = "ping" THEN "pong" ELSE "close"
ReaderGoesOn == mid' = IF mid = "ping" THEN "reads" ELSE "over"

ReaderWritesHead ==
    /\ Near /\ mid \in {"ping", "close"}
    /\ LockAndWriteHead("reader", Answer, owes)
    /\ UNCHANGED <<vars, view, ext, serverVars, readVars, writes, said>>

ReaderWritesBody ==
    /\ Near
    /\ WriteBody("reader")
    /\ ReaderGoesOn
    /\ UNCHANGED <<vars, view, ext, serverVars, reasm, inhist, owes, got, writes, said>>

\* The error of an answer is ignored.
ReaderCannotWrite ==
    /\ Near /\ mid \in {"ping", "close"}
    /\ WriteRefused
    /\ ReaderGoesOn
    /\ UNCHANGED <<vars, view, ext, serverVars, reasm, inhist, owes, got, writeVars>>

-----------------------------------------------------------------------------
(* The sessions, from afar and from near.                                  *)

Afar == view = "sessions" /\ UNCHANGED nearVars

\* What the UI thread goes on with, but for the frames it writes.
UIGoesOn == Connect \/ DisconnectState \/ DisconnectTake \/ SendCheck

\* From near there is one session, and the log is not cleared.
NearSession ==
    /\ Near
    /\ \/ count = 0 /\ ConnectCheck
       \/ frames + writes < MaxTraffic /\ SendTake
       \/ DisconnectCheck
       \/ UIGoesOn
       \/ MarkClosed
       \/ DialSucceeds(1) \/ OwnStep(1)
    /\ UNCHANGED nearVars

ServerStep ==
    \/ ServerBegins \/ ServerContinues \/ ServerPings
    \/ ServerCloses \/ ServerBreaks \/ ServerLeaves

UIWrites ==
    \/ UIWritesHead \/ UIWritesBody \/ UISendFails
    \/ UIWritesClose \/ UICloseWritten \/ UIDisconnects

ReaderAnswers == ReaderWritesHead \/ ReaderWritesBody \/ ReaderCannotWrite

ChannelNext ==
    \/ Afar /\ Next
    \/ NearSession
    \/ ServerStep
    \/ ReadNext
    \/ ReadStops
    \/ UIWrites
    \/ ReaderAnswers

ChannelSpec == ChannelInit /\ [][ChannelNext]_allVars

\* As in WSSession; a write of the UI thread or of readLoop ends, taken by the peer or
\* refused because the connection was closed.
ChannelFairness ==
    /\ WF_allVars((UIStep \/ SendWrite) /\ Afar)
    /\ WF_allVars(Near /\ UIGoesOn /\ UNCHANGED nearVars)
    /\ WF_allVars(UIWrites)
    /\ WF_allVars(ReaderAnswers)
    /\ WF_allVars(ReadStops)
    /\ \A s \in Sessions :
           /\ WF_allVars(OwnStep(s) /\ UNCHANGED nearVars)
           /\ WF_allVars(ReadsClosed(s) /\ ReadEnds(s) /\ Afar)

FairChannelSpec == ChannelSpec /\ ChannelFairness

-----------------------------------------------------------------------------
(* Properties.                                                             *)

\* Messages come out whole, in the order sent and decoded with the history they were
\* coded with, whatever fragments and control frames are mixed.
ReadsExactly ==
    /\ \A i \in DOMAIN got : got[i].legible
    /\ IsPrefix([i \in DOMAIN got |-> got[i].n], whole)

\* Reading fails only on a server that broke a rule.
RefusesForCause == mid = "failed" => last = "rule" \/ last = "cut"

\* Two writers never tear a frame: each head is followed by its own body, but for the
\* last, whose writer is at it or lost the connection.
FramesWhole ==
    /\ \A i \in DOMAIN out :
           /\ out[i].half = IF i % 2 = 1 THEN "head" ELSE "body"
           /\ i % 2 = 0 => out[i].part = out[i - 1].part
    /\ Len(out) % 2 = 1 => lock # Free \/ ~Live

\* The history the server has when it decodes frame i: what the compressed frame before
\* it leaves, or none.
Compressed(i) == out[i].half = "head" /\ Deflates(ext, out[i].op)
Earlier(i) == {j \in 1..(i - 1) : Compressed(j)}

HistoryOnWire(i) ==
    LET j == Max(Earlier(i))
    IN  IF Earlier(i) = {} THEN <<>> ELSE Kept(ext.fresh, out[j].part.dict, <<out[j].part>>)

\* Each compressed frame was coded with the history of those that are on the wire before it.
WritesLegibly ==
    \A i \in DOMAIN out :
        Compressed(i) => out[i].part.dict = DictOf(ext.fresh, HistoryOnWire(i))

\* The pongs on the wire up to a place.
Pongs(i) == {j \in 1..i : out[j].half = "body" /\ out[j].op = "pong"}

\* Pongs carry the payloads of the pings, in their order and each once.
PongsInOrder ==
    \A i \in Pongs(Len(out)) :
        /\ Cardinality(Pongs(i)) \in DOMAIN pings
        /\ out[i].part.n = pings[Cardinality(Pongs(i))]

FramesTypeOK ==
    /\ view \in {"sessions", "frames"} /\ ext \in ExtParams
    /\ frames \in 0..MaxTraffic /\ writes \in 0..MaxTraffic
    /\ last \in {"none", "close", "cut", "rule"}
    /\ reasm.open \in BOOLEAN /\ Len(reasm.buf) <= MaxParts
    /\ Len(inhist) <= Window /\ Len(outhist) <= Window
    /\ mid \in {"reads", "ping", "close", "over", "failed"}
    /\ lock.by \in {"none", "ui", "reader"}
    /\ said \in BOOLEAN

\* Both directions of a connection carry exactly what was meant, between any two steps of
\* the server, readLoop and the UI thread.
FramesExact ==
    /\ FramesTypeOK
    /\ ReadsExactly
    /\ RefusesForCause
    /\ FramesWhole
    /\ WritesLegibly
    /\ PongsInOrder
=============================================================================
