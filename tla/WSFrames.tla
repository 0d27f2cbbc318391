------------------------------ MODULE WSFrames -------------------------------
(***************************************************************************)
(* Frames and messages of a WebSocket connection (internal/ws): what       *)
(* ReadFrame refuses, how the Reassembler puts fragments together, and the *)
(* histories by which permessage-deflate is coded and decoded.  Nothing    *)
(* here is a step; WSChannel has those.                                    *)
(*                                                                         *)
(* A payload is a sequence of parts [n, dict]: the number that stands for  *)
(* its data, and the history its coder had, Raw if it was not compressed.  *)
(***************************************************************************)
EXTENDS Integers, Sequences

CONSTANTS MaxParts,   \* MaxMessageSize, in parts
          Window      \* flateHistorySize, in parts

ASSUME FramesAssumption == MaxParts \in Nat \ {0} /\ Window \in Nat \ {0}

Control == {"ping", "pong", "close"}

\* ExtParams as negotiated: whether messages are compressed, and whether each is coded
\* with an empty history.  The two directions may differ in that; since neither depends
\* on the other they have one flag here.
ExtParams == [negotiated : BOOLEAN, fresh : BOOLEAN]

Raw == <<0>>
Numbers(parts) == [i \in DOMAIN parts |-> parts[i].n]

AppendHistory(history, fresh) ==
    LET all == history \o fresh
        n   == Len(all)
    IN  IF n > Window THEN SubSeq(all, n - Window + 1, n) ELSE all

\* The history a coder uses for the next message, and the one it keeps after it.
DictOf(fresh, history) == IF fresh THEN <<>> ELSE history
Kept(fresh, history, parts) ==
    IF fresh THEN history ELSE AppendHistory(history, Numbers(parts))

-----------------------------------------------------------------------------
(* Reading.                                                                *)

\* ReadFrame: a control frame is short and final, and no frame exceeds a message
\* (long stands for both limits).  ReadMessage: a server does not mask.
Refused(f) ==
    \/ f.op \in Control /\ ~f.fin
    \/ f.long
    \/ f.masked

NoMessage == [open |-> FALSE, op |-> "none", compressed |-> FALSE, buf |-> <<>>]

\* What Step returns: the Reassembler, the messages it puts out, whether it fails.
Stepped(r, out, err) == [reasm |-> r, out |-> out, err |-> err]
Message(op, parts, compressed) == [op |-> op, parts |-> parts, compressed |-> compressed]

\* Mutant: the message put out stays open.
ContinueStaysOpen(r, f) ==
    LET all == Append(r.buf, f.part)
    IN  IF f.rsv1
        THEN Stepped(r, <<>>, TRUE)
        ELSE IF Len(all) > MaxParts
        THEN Stepped(NoMessage, <<>>, TRUE)
        ELSE IF f.fin
        THEN Stepped(r, <<Message(r.op, all, r.compressed)>>, FALSE)
        ELSE Stepped([r EXCEPT !.buf = all], <<>>, FALSE)

Continue(r, f) ==
    LET all == Append(r.buf, f.part)
    IN  IF f.rsv1
        THEN Stepped(r, <<>>, TRUE)
        ELSE IF Len(all) > MaxParts
        THEN Stepped(NoMessage, <<>>, TRUE)
        ELSE IF f.fin
        THEN Stepped(NoMessage, <<Message(r.op, all, r.compressed)>>, FALSE)
        ELSE Stepped([r EXCEPT !.buf = all], <<>>, FALSE)

Begin(r, f) ==
    IF f.fin
    THEN Stepped(r, <<Message(f.op, <<f.part>>, f.rsv1)>>, FALSE)
    ELSE Stepped([open |-> TRUE, op |-> f.op, compressed |-> f.rsv1, buf |-> <<f.part>>],
                 <<>>, FALSE)

\* Reassembler.Step: a control frame passes through an open message.
Step(r, f) ==
    IF f.op \in Control
    THEN Stepped(r, <<Message(f.op, <<f.part>>, FALSE)>>, FALSE)
    ELSE IF (f.op = "continuation") # r.open
    THEN Stepped(r, <<>>, TRUE)
    ELSE IF r.open THEN Continue(r, f) ELSE Begin(r, f)

\* ReadMessage inflates what is marked as compressed, if that was negotiated.
Inflates(ext, m) == m.compressed /\ ext.negotiated

\* Data comes out as it was meant only with the history it was coded with.
Legible(ext, history, m) ==
    LET want == IF Inflates(ext, m) THEN DictOf(ext.fresh, history) ELSE Raw
    IN  \A i \in DOMAIN m.parts : m.parts[i].dict = want

InflatedHistory(ext, history, m) ==
    IF Inflates(ext, m) THEN Kept(ext.fresh, history, m.parts) ELSE history

-----------------------------------------------------------------------------
(* Writing.                                                                *)

\* WriteMessage compresses data, not control frames.
Deflates(ext, op) == ext.negotiated /\ op \notin Control

DeflatedPart(ext, history, op, n) ==
    [n |-> n, dict |-> IF Deflates(ext, op) THEN DictOf(ext.fresh, history) ELSE Raw]

DeflatedHistory(ext, history, op, part) ==
    IF Deflates(ext, op) THEN Kept(ext.fresh, history, <<part>>) ELSE history
=============================================================================
