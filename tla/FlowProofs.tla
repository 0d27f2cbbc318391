---------------------------- MODULE FlowProofs ----------------------------
(***************************************************************************)
(* Proofs about the flows section, for any scenarios and any limits.       *)
(*                                                                         *)
(* The runner: a visit below the innermost one has called it and is in its *)
(* loop or following its arrows (Stacked), so whatever a return leads to,  *)
(* it is not a wait.  While a run is neither cancelled nor failed, its     *)
(* open record and its counters differ by at most the request just made    *)
(* (Tally), and the canvas shows nothing but idle and done nodes besides   *)
(* the innermost one (Board).                                              *)
(*                                                                         *)
(* The editor: a gesture that has changed the canvas has the canvas it     *)
(* began with in the history, and one that may change it holds it in its   *)
(* hand (Held); every operation pushes before it changes the drawing, or   *)
(* leaves the drawing alone.                                               *)
(*                                                                         *)
(* Types: the visits under way are counted by the steps (Typed).           *)
(***************************************************************************)
EXTENDS Flow, SeqFacts, TLAPS

IsVisit(v) ==
    v = [node |-> v.node, at |-> v.at, in |-> v.in, res |-> v.res,
         rounds |-> v.rounds, it |-> v.it, k |-> v.k]

Elements(q) == {q[i] : i \in DOMAIN q}

Stacked ==
    /\ stack \in Seq(Elements(stack))
    /\ \A i \in DOMAIN stack : IsVisit(stack[i])
    /\ \A i \in DOMAIN stack : i > 1 => stack[i].at \in {"loop", "outs"}

Open ==
    /\ runs \in Seq(Records)
    /\ \A i \in DOMAIN runs : ~runs[i].done <=> running /\ i = Len(runs)
    /\ running => runs # <<>> /\ status # "finished"

OpenRecord == runs[Len(runs)]
Judging == At("judge") /\ IsRequest(kind)

Tally ==
    /\ okReq \in Nat
    /\ failReq \in Nat
    /\ running /\ ~cancelled =>
           /\ Judging => OpenRecord.good = okReq + (IF top.res.failed THEN 0 ELSE 1)
           /\ Judging => OpenRecord.bad = failReq + (IF top.res.failed THEN 1 ELSE 0)
           /\ ~Judging => OpenRecord.good = okReq /\ OpenRecord.bad = failReq
           /\ ~anyFail => failReq = 0

Busy == running /\ stack # <<>> /\ top.at \in {"gate", "pause", "parked", "resume", "request", "judge"}

Board ==
    /\ nodeSt = [n \in DOMAIN nodeSt |-> nodeSt[n]]
    /\ (running /\ ~cancelled /\ ~anyFail) \/ status = "finished" =>
           \A n \in DOMAIN nodeSt : nodeSt[n] \in {"idle", "ok"} \/ (Busy /\ n = top.node)

Closed ==
    \A i \in DOMAIN runs : runs[i].done /\ ~runs[i].stopped =>
        /\ runs[i].ok = runs[i].good /\ runs[i].fail = runs[i].bad
        /\ ~runs[i].failed => runs[i].bad = 0

Requesting == At("request") => IsRequest(kind)

Flags == {running, stepMode, cancelled, anyFail, limitHit} \subseteq BOOLEAN

IInv == Flags /\ Stacked /\ Open /\ Tally /\ Requesting /\ Board /\ Closed /\ NeverStuck

-----------------------------------------------------------------------------
(* The stack.                                                              *)

LEMMA SeqOfElements ==
    ASSUME NEW S, NEW q \in Seq(S)
    PROVE  q \in Seq(Elements(q))
  BY DEF Elements

LEMMA ReturnKeepsStack ==
    ASSUME Stacked, stack # <<>>, Return
    PROVE  Stacked' /\ (stack' # <<>> => stack'[1].at \in {"loop", "outs"})
<1> DEFINE S == Elements(stack)
<1>1. stack \in Seq(S) /\ Len(stack) > 0
  BY DEF Stacked
<1> HIDE DEF S
<1>2. /\ stack' \in Seq(S) /\ Len(stack') = Len(stack) - 1
      /\ \A i \in DOMAIN stack' : i + 1 \in DOMAIN stack /\ stack'[i] = stack[i + 1]
  BY <1>1 DEF Return
<1>3. stack' \in Seq(Elements(stack'))
  BY <1>2, SeqOfElements
<1>4. \A i \in DOMAIN stack' : IsVisit(stack'[i]) /\ stack'[i].at \in {"loop", "outs"}
  BY <1>2 DEF Stacked
<1>5. stack' # <<>> => 1 \in DOMAIN stack'
  BY <1>2
<1> QED
  BY <1>3, <1>4, <1>5 DEF Stacked, IsVisit

LEMMA GotoKeepsStack ==
    ASSUME Stacked, stack # <<>>, NEW f, IsVisit(f), Goto(f)
    PROVE  Stacked' /\ stack' # <<>> /\ stack'[1] = f
<1> DEFINE S == Elements(stack) \cup {f}
<1>1. stack \in Seq(S) /\ Len(stack) > 0 /\ f \in S
  BY DEF Stacked
<1> HIDE DEF S
<1>2. Tail(stack) \in Seq(S) /\ Len(Tail(stack)) = Len(stack) - 1
      /\ \A i \in 1..Len(stack) - 1 : Tail(stack)[i] = stack[i + 1]
  BY <1>1
<1>3. /\ stack' \in Seq(S) /\ Len(stack') = Len(stack)
      /\ stack'[1] = f
      /\ \A i \in DOMAIN stack' : i > 1 => stack'[i] = Tail(stack)[i - 1]
  BY <1>1, <1>2 DEF Goto
<1>4. \A i \in DOMAIN stack' : i > 1 => i \in DOMAIN stack /\ stack'[i] = stack[i]
  BY <1>1, <1>2, <1>3
<1>5. stack' \in Seq(Elements(stack'))
  BY <1>3, SeqOfElements
<1>6. \A i \in DOMAIN stack' : IsVisit(stack'[i])
  BY <1>1, <1>3, <1>4 DEF Stacked
<1>7. \A i \in DOMAIN stack' : i > 1 => stack'[i].at \in {"loop", "outs"}
  BY <1>4 DEF Stacked
<1> QED
  BY <1>1, <1>3, <1>5, <1>6, <1>7 DEF Stacked, IsVisit

LEMMA CallKeepsStack ==
    ASSUME Stacked, stack # <<>>, NEW f, IsVisit(f), f.at \in {"loop", "outs"},
           NEW v, IsVisit(v), Call(f, v)
    PROVE  Stacked' /\ stack' # <<>> /\ stack'[1] = v
<1> DEFINE S == Elements(stack) \cup {f, v}
<1>1. stack \in Seq(S) /\ Len(stack) > 0 /\ f \in S /\ v \in S
  BY DEF Stacked
<1> HIDE DEF S
<1>2. Tail(stack) \in Seq(S) /\ Len(Tail(stack)) = Len(stack) - 1
      /\ \A i \in 1..Len(stack) - 1 : Tail(stack)[i] = stack[i + 1]
  BY <1>1
<1>3. /\ stack' \in Seq(S) /\ Len(stack') = Len(stack) + 1
      /\ stack'[1] = v /\ stack'[2] = f
      /\ \A i \in DOMAIN stack' : i > 2 => stack'[i] = Tail(stack)[i - 2]
  BY <1>1, <1>2 DEF Call
<1>4. \A i \in DOMAIN stack' : i > 2 => i - 1 \in DOMAIN stack /\ i - 1 > 1 /\ stack'[i] = stack[i - 1]
  BY <1>1, <1>2, <1>3
<1>5. stack' \in Seq(Elements(stack'))
  BY <1>3, SeqOfElements
<1>6. \A i \in DOMAIN stack' : i = 1 \/ i = 2 \/ i > 2
  BY <1>3
<1>7. \A i \in DOMAIN stack' : IsVisit(stack'[i])
  BY <1>3, <1>4, <1>6 DEF Stacked
<1>8. \A i \in DOMAIN stack' : i > 1 => stack'[i].at \in {"loop", "outs"}
  BY <1>3, <1>4, <1>6 DEF Stacked
<1> QED
  BY <1>1, <1>3, <1>5, <1>7, <1>8 DEF Stacked, IsVisit

\* A visit that moves on is a visit.
LEMMA EditingOne ==
    ASSUME NEW v, IsVisit(v), NEW x
    PROVE  /\ IsVisit([v EXCEPT !.at = x])
           /\ [v EXCEPT !.at = x].at = x
           /\ [v EXCEPT !.at = x].node = v.node
           /\ [v EXCEPT !.at = x].res = v.res
           /\ IsVisit([v EXCEPT !.res = x])
           /\ [v EXCEPT !.res = x].at = v.at
           /\ [v EXCEPT !.res = x].node = v.node
           /\ [v EXCEPT !.res = x].res = x
           /\ IsVisit([v EXCEPT !.rounds = x])
           /\ [v EXCEPT !.rounds = x].at = v.at
           /\ IsVisit([v EXCEPT !.k = x])
           /\ [v EXCEPT !.k = x].at = v.at
           /\ IsVisit([v EXCEPT !.it = x])
           /\ [v EXCEPT !.it = x].at = v.at
<1>1. v = [node |-> v.node, at |-> v.at, in |-> v.in, res |-> v.res,
           rounds |-> v.rounds, it |-> v.it, k |-> v.k]
  BY DEF IsVisit
<1>2. [v EXCEPT !.at = x] = [node |-> v.node, at |-> x, in |-> v.in, res |-> v.res,
                             rounds |-> v.rounds, it |-> v.it, k |-> v.k]
  BY ONLY <1>1
<1>3. [v EXCEPT !.res = x] = [node |-> v.node, at |-> v.at, in |-> v.in, res |-> x,
                              rounds |-> v.rounds, it |-> v.it, k |-> v.k]
  BY ONLY <1>1
<1>4. [v EXCEPT !.rounds = x] = [node |-> v.node, at |-> v.at, in |-> v.in, res |-> v.res,
                                 rounds |-> x, it |-> v.it, k |-> v.k]
  BY ONLY <1>1
<1>5. [v EXCEPT !.k = x] = [node |-> v.node, at |-> v.at, in |-> v.in, res |-> v.res,
                            rounds |-> v.rounds, it |-> v.it, k |-> x]
  BY ONLY <1>1
<1>6. [v EXCEPT !.it = x] = [node |-> v.node, at |-> v.at, in |-> v.in, res |-> v.res,
                             rounds |-> v.rounds, it |-> x, k |-> v.k]
  BY ONLY <1>1
<1> QED
  BY ONLY <1>2, <1>3, <1>4, <1>5, <1>6 DEF IsVisit

LEMMA EditingAtAndRounds ==
    ASSUME NEW v, IsVisit(v), NEW x, NEW y
    PROVE  /\ IsVisit([v EXCEPT !.at = x, !.rounds = y])
           /\ [v EXCEPT !.at = x, !.rounds = y].at = x
<1> DEFINE w == [v EXCEPT !.at = x]
<1>1. [v EXCEPT !.at = x, !.rounds = y] = [w EXCEPT !.rounds = y]
  OBVIOUS
<1>2. IsVisit(w) /\ w.at = x
  BY EditingOne
<1> HIDE DEF w
<1>3. IsVisit([w EXCEPT !.rounds = y]) /\ [w EXCEPT !.rounds = y].at = w.at
  BY ONLY <1>2, EditingOne
<1> QED
  BY ONLY <1>1, <1>2, <1>3

LEMMA EditingAtAndK ==
    ASSUME NEW v, IsVisit(v), NEW x, NEW y
    PROVE  /\ IsVisit([v EXCEPT !.at = x, !.k = y])
           /\ [v EXCEPT !.at = x, !.k = y].at = x
<1> DEFINE w == [v EXCEPT !.at = x]
<1>1. [v EXCEPT !.at = x, !.k = y] = [w EXCEPT !.k = y]
  OBVIOUS
<1>2. IsVisit(w) /\ w.at = x
  BY EditingOne
<1> HIDE DEF w
<1>3. IsVisit([w EXCEPT !.k = y]) /\ [w EXCEPT !.k = y].at = w.at
  BY ONLY <1>2, EditingOne
<1> QED
  BY ONLY <1>1, <1>2, <1>3

LEMMA EditingItAndK ==
    ASSUME NEW v, IsVisit(v), NEW x, NEW y
    PROVE  /\ IsVisit([v EXCEPT !.it = x, !.k = y])
           /\ [v EXCEPT !.it = x, !.k = y].at = v.at
<1> DEFINE w == [v EXCEPT !.it = x]
<1>1. [v EXCEPT !.it = x, !.k = y] = [w EXCEPT !.k = y]
  OBVIOUS
<1>2. IsVisit(w) /\ w.at = v.at
  BY EditingOne
<1> HIDE DEF w
<1>3. IsVisit([w EXCEPT !.k = y]) /\ [w EXCEPT !.k = y].at = w.at
  BY ONLY <1>2, EditingOne
<1> QED
  BY ONLY <1>1, <1>2, <1>3

LEMMA Entering ==
    ASSUME NEW n, NEW r
    PROVE  IsVisit(Visit(n, r)) /\ Visit(n, r).at = "enter"
  BY DEF IsVisit, Visit

LEMMA TopIsVisit ==
    ASSUME Stacked, stack # <<>>
    PROVE  IsVisit(top)
  BY DEF Stacked, top

-----------------------------------------------------------------------------
(* What most steps of the walk leave alone.                                *)

LEMMA SameRecords ==
    ASSUME Open, Closed, UNCHANGED <<running, runs>>, running => status' # "finished"
    PROVE  Open' /\ Closed'
  BY DEF Open, Closed

LEMMA SameTally ==
    ASSUME Tally, running, ~Judging, ~Judging', anyFail => anyFail',
           UNCHANGED <<running, cancelled, runs, okReq, failReq>>
    PROVE  Tally'
  BY DEF Tally, OpenRecord

\* The innermost visit is neither at a wait nor at the request nor at the judgement.
RestKept == stack = <<>> \/ top.at \in {"enter", "proceed", "loop", "outs"}

LEMMA ElsewhereIsCalm ==
    ASSUME RestKept
    PROVE  NeverStuck /\ Requesting /\ ~Judging /\ ~Busy
  BY DEF RestKept, NeverStuck, Requesting, Judging, Busy, At

LEMMA ElsewhereWillBeCalm ==
    ASSUME RestKept'
    PROVE  NeverStuck' /\ Requesting' /\ ~Judging' /\ ~Busy'
  BY ElsewhereIsCalm, PTL

\* A step that ends elsewhere.
LEMMA Calmly ==
    ASSUME Open, Closed, Tally, Board, running, ~Judging, Busy => cancelled, RestKept',
           UNCHANGED <<running, cancelled, runs, okReq, failReq>>,
           status' # "finished", anyFail => anyFail',
           nodeSt' = [n \in DOMAIN nodeSt' |-> nodeSt'[n]], nodeSt' = nodeSt \/ anyFail'
    PROVE  Open' /\ Closed' /\ Tally' /\ Board' /\ Requesting' /\ NeverStuck'
<1>1. NeverStuck' /\ Requesting' /\ ~Judging' /\ ~Busy'
  BY ElsewhereWillBeCalm
<1>2. Open' /\ Closed'
  BY SameRecords
<1>3. Tally'
  BY <1>1, SameTally
<1>4. Board'
  BY DEF Board
<1> QED
  BY <1>1, <1>2, <1>3, <1>4

\* A step within the work on a node.
LEMMA Busily ==
    ASSUME Open, Closed, Tally, Board, Busy, Busy', top'.node = top.node, ~Judging, ~Judging',
           UNCHANGED <<running, cancelled, runs, nodeSt, anyFail, okReq, failReq>>,
           status' # "finished"
    PROVE  Open' /\ Closed' /\ Tally' /\ Board'
<1>1. running
  BY DEF Busy
<1>2. Open' /\ Closed'
  BY SameRecords
<1>3. Tally'
  BY <1>1, SameTally
<1>4. Board'
  BY <1>1 DEF Open, Board
<1> QED
  BY <1>2, <1>3, <1>4

-----------------------------------------------------------------------------
(* One lemma for each action.                                              *)

\* Nothing has been run.
Fresh ==
    /\ running = FALSE /\ stepMode = FALSE /\ status = "" /\ cancelled = FALSE
    /\ nodeSt = NoStates(plan.scenario.nodes)
    /\ runs = <<>> /\ stack = <<>>
    /\ anyFail = FALSE /\ limitHit = FALSE /\ okReq = 0 /\ failReq = 0

LEMMA FreshInvariant == ASSUME Fresh PROVE IInv
<1> DEFINE E == Elements(stack)
<1> HIDE DEF E
<1>1. <<>> \in Seq(E) /\ <<>> \in Seq(Records) /\ DOMAIN <<>> = 1..0
  OBVIOUS
<1>2. stack = <<>> /\ runs = <<>> /\ ~running /\ Flags
  BY DEF Fresh, Flags
<1>3. \A i \in 1..0 : FALSE
  OBVIOUS
<1>4. Open /\ Closed
  BY ONLY <1>3, <1>1, <1>2 DEF Open, Closed
<1>5. Stacked
  BY ONLY <1>3, <1>1, <1>2 DEF Stacked, E
<1>6. Tally /\ Requesting /\ NeverStuck
  BY DEF Fresh, Tally, Requesting, NeverStuck, At
<1>7. Board
  BY DEF Fresh, Board, NoStates
<1> QED
  BY <1>2, <1>4, <1>5, <1>6, <1>7 DEF IInv

LEMMA InitInvariant == Init => IInv
  BY FreshInvariant DEF Init, Fresh

LEMMA EnterKeeps == ASSUME IInv, Enter PROVE IInv'
<1> USE DEF IInv
<1>1. /\ running /\ stack # <<>> /\ top.at = "enter"
      /\ ~Judging /\ ~Busy
      /\ UNCHANGED <<running, stepMode, cancelled, status, runs, okReq, failReq, anyFail, plan>>
  BY DEF Enter, At, Judging, Busy, modes, Quiet
<1>2. Flags' /\ status' # "finished"
  BY <1>1 DEF Enter, Flags, Open
<1>3. CASE Return /\ UNCHANGED nodeSt
  <2>1. Stacked' /\ RestKept'
    BY <1>1, <1>3, ReturnKeepsStack DEF RestKept, top
  <2>2. Open' /\ Closed' /\ Tally' /\ Board' /\ Requesting' /\ NeverStuck'
    BY <1>1, <1>2, <1>3, <2>1, Calmly DEF Board
  <2> QED
    BY <1>2, <2>1, <2>2
<1>4. CASE Goto([top EXCEPT !.at = "gate"]) /\ SetNode("running")
  <2> DEFINE f == [top EXCEPT !.at = "gate"]
  <2>1. IsVisit(f) /\ f.at = "gate" /\ f.node = top.node
    BY <1>1, TopIsVisit, EditingOne
  <2> HIDE DEF f
  <2>2. Stacked' /\ stack' # <<>> /\ stack'[1] = f
    BY <1>1, <1>4, <2>1, GotoKeepsStack DEF f
  <2>3. Busy' /\ ~Judging' /\ top'.node = top.node /\ Requesting' /\ NeverStuck'
    BY <1>1, <2>1, <2>2 DEF Busy, Judging, Requesting, NeverStuck, At, top
  <2>4. Open' /\ Closed'
    BY <1>1, <1>2, SameRecords
  <2>5. Tally'
    BY <1>1, <2>3, SameTally
  <2>6. Board'
    BY <1>1, <1>2, <1>4, <2>3 DEF SetNode, Board
  <2> QED
    BY <1>2, <2>2, <2>3, <2>4, <2>5, <2>6
<1> QED
  BY <1>3, <1>4 DEF Enter

LEMMA GateKeeps == ASSUME IInv, Gate PROVE IInv'
<1> USE DEF IInv
<1> DEFINE x == IF ~stepMode \/ kind = "start" THEN "resume" ELSE "pause"
           f == [top EXCEPT !.at = x]
<1>1. /\ running /\ stack # <<>> /\ top.at = "gate" /\ ~Judging /\ Busy /\ Goto(f)
      /\ UNCHANGED <<running, stepMode, status, cancelled, runs, okReq, failReq, anyFail, limitHit, nodeSt, plan, token, ui>>
  BY DEF Gate, At, Judging, Busy, modes, counts, board, Quiet
<1>2. x = "resume" \/ (x = "pause" /\ stepMode)
  OBVIOUS
<1> HIDE DEF x
<1>3. IsVisit(f) /\ f.node = top.node /\ f.at = x
  BY <1>1, TopIsVisit, EditingOne
<1> HIDE DEF f
<1>4. Stacked' /\ stack' # <<>> /\ stack'[1] = f
  BY <1>1, <1>3, GotoKeepsStack
<1>5. Busy' /\ ~Judging' /\ top'.node = top.node /\ Requesting' /\ NeverStuck'
  BY <1>1, <1>2, <1>3, <1>4 DEF Busy, Judging, Requesting, NeverStuck, At, top
<1>6. status' # "finished" /\ Flags'
  BY <1>1 DEF Open, Flags
<1>7. Open' /\ Closed' /\ Tally' /\ Board'
  BY <1>1, <1>5, <1>6, Busily
<1> QED
  BY <1>4, <1>5, <1>6, <1>7

LEMMA PauseKeeps == ASSUME IInv, Pause PROVE IInv'
<1> USE DEF IInv
<1> DEFINE f == [top EXCEPT !.at = "parked"]
<1>1. /\ running /\ stack # <<>> /\ top.at = "pause" /\ ~Judging /\ Busy /\ Goto(f)
      /\ stepMode \/ cancelled \/ token = 1 \/ ui = "send"
      /\ UNCHANGED <<running, stepMode, cancelled, runs, okReq, failReq, anyFail, limitHit, nodeSt, plan, token, ui>>
  BY DEF Pause, At, Judging, Busy, NeverStuck, counts, board, Quiet
<1>2. IsVisit(f) /\ f.node = top.node /\ f.at = "parked"
  BY <1>1, TopIsVisit, EditingOne
<1> HIDE DEF f
<1>3. Stacked' /\ stack' # <<>> /\ stack'[1] = f
  BY <1>1, <1>2, GotoKeepsStack
<1>4. Busy' /\ ~Judging' /\ top'.node = top.node /\ Requesting' /\ NeverStuck'
  BY <1>1, <1>2, <1>3 DEF Busy, Judging, Requesting, NeverStuck, At, top
<1>5. status' # "finished" /\ Flags'
  BY <1>1 DEF Pause, Flags
<1>6. Open' /\ Closed' /\ Tally' /\ Board'
  BY <1>1, <1>4, <1>5, Busily
<1> QED
  BY <1>3, <1>4, <1>5, <1>6

LEMMA UnparkKeeps == ASSUME IInv, Unpark PROVE IInv'
<1> USE DEF IInv
<1> DEFINE f == [top EXCEPT !.at = "resume"]
<1>1. /\ running /\ stack # <<>> /\ top.at = "parked" /\ ~Judging /\ Busy /\ Goto(f)
      /\ UNCHANGED <<running, stepMode, cancelled, runs, okReq, failReq, anyFail, limitHit, nodeSt, plan>>
  BY DEF Unpark, At, Judging, Busy, counts, board, Quiet
<1>2. IsVisit(f) /\ f.node = top.node /\ f.at = "resume"
  BY <1>1, TopIsVisit, EditingOne
<1> HIDE DEF f
<1>3. Stacked' /\ stack' # <<>> /\ stack'[1] = f
  BY <1>1, <1>2, GotoKeepsStack
<1>4. Busy' /\ ~Judging' /\ top'.node = top.node /\ Requesting' /\ NeverStuck'
  BY <1>1, <1>2, <1>3 DEF Busy, Judging, Requesting, NeverStuck, At, top
<1>5. status' # "finished" /\ Flags'
  BY <1>1 DEF Unpark, Open, Flags
<1>6. Open' /\ Closed' /\ Tally' /\ Board'
  BY <1>1, <1>4, <1>5, Busily
<1> QED
  BY <1>3, <1>4, <1>5, <1>6

LEMMA ResumeKeeps == ASSUME IInv, Resume PROVE IInv'
<1> USE DEF IInv
<1>1. /\ running /\ stack # <<>> /\ top.at = "resume" /\ ~Judging /\ Busy
      /\ UNCHANGED <<running, stepMode, status, cancelled, runs, okReq, failReq, anyFail, limitHit, nodeSt, plan, ui>>
  BY DEF Resume, At, Judging, Busy, modes, counts, board, Quiet
<1>2. status' # "finished" /\ Flags'
  BY <1>1 DEF Open, Flags
<1>3. CASE cancelled
  <2>1. Stacked' /\ RestKept'
    BY <1>3, <1>1, ReturnKeepsStack DEF Resume, RestKept, top
  <2>2. Open' /\ Closed' /\ Tally' /\ Board' /\ Requesting' /\ NeverStuck'
    BY <1>1, <1>2, <1>3, <2>1, Calmly DEF Board
  <2> QED
    BY <1>2, <2>1, <2>2
<1>4. CASE ~cancelled
  <2> DEFINE x == IF IsRequest(kind) THEN "request" ELSE "judge"
             f == [top EXCEPT !.at = x]
  <2>1. Goto(f)
    BY <1>4 DEF Resume
  <2>2. (x = "request" /\ IsRequest(kind)) \/ (x = "judge" /\ ~IsRequest(kind))
    OBVIOUS
  <2> HIDE DEF x
  <2>3. IsVisit(f) /\ f.node = top.node /\ f.at = x
    BY <1>1, TopIsVisit, EditingOne
  <2> HIDE DEF f
  <2>4. Stacked' /\ stack' # <<>> /\ stack'[1] = f
    BY <1>1, <2>1, <2>3, GotoKeepsStack
  <2>5. top'.node = top.node /\ top'.at = x /\ kind' = kind
    BY <1>1, <2>3, <2>4 DEF top, kind
  <2>6. Busy' /\ ~Judging' /\ Requesting' /\ NeverStuck'
    BY <1>1, <2>2, <2>4, <2>5 DEF Busy, Judging, Requesting, NeverStuck, At, IsRequest
  <2>7. Open' /\ Closed' /\ Tally' /\ Board'
    BY <1>1, <1>2, <2>5, <2>6, Busily
  <2> QED
    BY <1>2, <2>4, <2>6, <2>7
<1> QED
  BY <1>3, <1>4

LEMMA LoopKeeps == ASSUME IInv, Loop PROVE IInv'
<1> USE DEF IInv
<1> DEFINE entries == plan.entries[top.node]
<1>1. /\ running /\ stack # <<>> /\ top.at = "loop" /\ ~Judging /\ ~Busy
      /\ UNCHANGED <<running, stepMode, status, cancelled, runs, okReq, failReq, anyFail, limitHit, nodeSt>>
  BY DEF Loop, At, Judging, Busy, modes, counts, board, Quiet
<1>2. status' # "finished" /\ Flags'
  BY <1>1 DEF Open, Flags
<1>3. IsVisit(top)
  BY <1>1, TopIsVisit
<1>4. \/ Goto([top EXCEPT !.at = "outs", !.k = 1])
      \/ Goto([top EXCEPT !.it = top.it + 1, !.k = 1])
      \/ Return
      \/ Call([top EXCEPT !.k = top.k + 1], Visit(entries[top.k], top.in))
  BY DEF Loop
<1>5. Stacked' /\ RestKept'
  <2>1. CASE Goto([top EXCEPT !.at = "outs", !.k = 1])
    <3> DEFINE f == [top EXCEPT !.at = "outs", !.k = 1]
    <3>1. IsVisit(f) /\ f.at = "outs"
      BY ONLY <1>3, EditingAtAndK
    <3>2. Goto(f)
      BY <2>1
    <3> HIDE DEF f
    <3> QED
      BY <1>1, <3>1, <3>2, GotoKeepsStack DEF RestKept, top
  <2>2. CASE Goto([top EXCEPT !.it = top.it + 1, !.k = 1])
    <3> DEFINE f == [top EXCEPT !.it = top.it + 1, !.k = 1]
    <3>1. IsVisit(f) /\ f.at = top.at
      BY ONLY <1>3, EditingItAndK
    <3>2. Goto(f)
      BY <2>2
    <3> HIDE DEF f
    <3> QED
      BY <1>1, <3>1, <3>2, GotoKeepsStack DEF RestKept, top
  <2>3. CASE Return
    BY <1>1, <2>3, ReturnKeepsStack DEF RestKept, top
  <2>4. CASE Call([top EXCEPT !.k = top.k + 1], Visit(entries[top.k], top.in))
    <3> DEFINE f == [top EXCEPT !.k = top.k + 1]
               v == Visit(entries[top.k], top.in)
    <3>1. IsVisit(f) /\ f.at = "loop"
      BY <1>1, <1>3, EditingOne
    <3>2. IsVisit(v) /\ v.at = "enter" /\ Call(f, v)
      BY <2>4, Entering
    <3> HIDE DEF f, v
    <3> QED
      BY <1>1, <3>1, <3>2, CallKeepsStack DEF RestKept, top
  <2> QED
    BY <1>4, <2>1, <2>2, <2>3, <2>4
<1>6. Open' /\ Closed' /\ Tally' /\ Board' /\ Requesting' /\ NeverStuck'
  BY <1>1, <1>2, <1>5, Calmly DEF Board
<1> QED
  BY <1>2, <1>5, <1>6

LEMMA FollowKeeps == ASSUME IInv, Follow PROVE IInv'
<1> USE DEF IInv
<1>1. /\ running /\ stack # <<>> /\ top.at = "outs" /\ ~Judging /\ ~Busy
      /\ UNCHANGED <<running, stepMode, status, cancelled, runs, okReq, failReq, anyFail, limitHit, nodeSt>>
  BY DEF Follow, At, Judging, Busy, modes, counts, Quiet
<1>2. status' # "finished" /\ Flags'
  BY <1>1 DEF Open, Flags
<1>3. \/ Return
      \/ \E x : Goto([top EXCEPT !.k = x]) \/ \E n : Call([top EXCEPT !.k = x], Visit(n, top.res))
  BY DEF Follow
<1>4. Stacked' /\ RestKept'
  <2>1. CASE Return
    BY <1>1, <2>1, ReturnKeepsStack DEF RestKept, top
  <2>2. ASSUME NEW x, Goto([top EXCEPT !.k = x]) \/ \E n : Call([top EXCEPT !.k = x], Visit(n, top.res))
        PROVE  Stacked' /\ RestKept'
    <3> DEFINE next == [top EXCEPT !.k = x]
    <3>1. IsVisit(next) /\ next.at = "outs"
      BY <1>1, TopIsVisit, EditingOne
    <3>2. Goto(next) \/ \E n : Call(next, Visit(n, top.res))
      BY <2>2
    <3> HIDE DEF next
    <3>3. CASE Goto(next)
      BY <1>1, <3>1, <3>3, GotoKeepsStack DEF RestKept, top
    <3>4. ASSUME NEW n, Call(next, Visit(n, top.res)) PROVE Stacked' /\ RestKept'
      <4> DEFINE v == Visit(n, top.res)
      <4>1. IsVisit(v) /\ v.at = "enter" /\ Call(next, v)
        BY <3>4, Entering
      <4> HIDE DEF v
      <4> QED
        BY <1>1, <3>1, <4>1, CallKeepsStack DEF RestKept, top
    <3> QED
      BY <3>2, <3>3, <3>4
  <2> QED
    BY <1>3, <2>1, <2>2
<1>5. Open' /\ Closed' /\ Tally' /\ Board' /\ Requesting' /\ NeverStuck'
  BY <1>1, <1>2, <1>4, Calmly DEF Board
<1> QED
  BY <1>2, <1>4, <1>5

LEMMA ProceedKeeps == ASSUME IInv, Proceed PROVE IInv'
<1> USE DEF IInv
<1>1. /\ running /\ stack # <<>> /\ top.at = "proceed" /\ ~Judging /\ ~Busy
      /\ UNCHANGED <<running, stepMode, status, cancelled, runs, okReq, failReq, limitHit>>
  BY DEF Proceed, At, Judging, Busy, modes, Quiet
<1>2. \/ anyFail' = anyFail /\ nodeSt' = nodeSt
      \/ anyFail' = TRUE /\ nodeSt' = [nodeSt EXCEPT ![top.node] = "fail"]
  BY DEF Proceed, SetNode
<1>3. /\ status' # "finished" /\ Flags'
      /\ nodeSt' = [n \in DOMAIN nodeSt' |-> nodeSt'[n]]
      /\ nodeSt' = nodeSt \/ anyFail'
      /\ anyFail => anyFail'
  <2>1. nodeSt = [n \in DOMAIN nodeSt |-> nodeSt[n]] /\ status # "finished" /\ Flags
    BY <1>1 DEF Board, Open
  <2>2. CASE anyFail' = anyFail /\ nodeSt' = nodeSt
    BY <1>1, <2>1, <2>2 DEF Flags
  <2>3. CASE anyFail' = TRUE /\ nodeSt' = [nodeSt EXCEPT ![top.node] = "fail"]
    BY <1>1, <2>1, <2>3 DEF Flags
  <2> QED
    BY <1>2, <2>2, <2>3
<1>4. \/ Return
      \/ \E x : Goto([top EXCEPT !.at = x]) /\ x \in {"outs", "loop"}
      \/ \E n : Goto([top EXCEPT !.at = "loop", !.rounds = n])
  BY DEF Proceed
<1>5. Stacked' /\ RestKept'
  <2>1. CASE Return
    BY <1>1, <2>1, ReturnKeepsStack DEF RestKept, top
  <2>2. ASSUME NEW x \in {"outs", "loop"}, Goto([top EXCEPT !.at = x]) PROVE Stacked' /\ RestKept'
    <3> DEFINE f == [top EXCEPT !.at = x]
    <3>1. IsVisit(f) /\ f.at = x
      BY <1>1, TopIsVisit, EditingOne
    <3>2. Goto(f)
      BY <2>2
    <3> HIDE DEF f
    <3> QED
      BY <1>1, <2>2, <3>1, <3>2, GotoKeepsStack DEF RestKept, top
  <2>3. ASSUME NEW n, Goto([top EXCEPT !.at = "loop", !.rounds = n]) PROVE Stacked' /\ RestKept'
    <3> DEFINE f == [top EXCEPT !.at = "loop", !.rounds = n]
    <3>1. IsVisit(top)
      BY <1>1, TopIsVisit
    <3>2. IsVisit(f) /\ f.at = "loop"
      BY ONLY <3>1, EditingAtAndRounds
    <3>3. Goto(f)
      BY <2>3
    <3> HIDE DEF f
    <3> QED
      BY <1>1, <3>2, <3>3, GotoKeepsStack DEF RestKept, top
  <2> QED
    BY <1>4, <2>1, <2>2, <2>3
<1>6. Open' /\ Closed' /\ Tally' /\ Board' /\ Requesting' /\ NeverStuck'
  BY <1>1, <1>3, <1>5, Calmly
<1> QED
  BY <1>3, <1>5, <1>6

\* The node is judged: its request is counted where its entry already is.
LEMMA JudgeKeeps == ASSUME IInv, Judge PROVE IInv'
<1> USE DEF IInv
<1> DEFINE f == [top EXCEPT !.at = "proceed"]
<1>1. /\ running /\ stack # <<>> /\ top.at = "judge" /\ Goto(f)
      /\ Judging <=> IsRequest(kind)
      /\ UNCHANGED <<running, stepMode, status, cancelled, runs, limitHit>>
      /\ anyFail' = (anyFail \/ ~WentWell)
  BY DEF Judge, At, Judging, modes, Quiet
<1>2. status' # "finished" /\ Flags'
  BY <1>1 DEF Open, Flags
<1>3. IsVisit(f) /\ f.at = "proceed"
  BY <1>1, TopIsVisit, EditingOne
<1> HIDE DEF f
<1>4. Stacked' /\ RestKept'
  BY <1>1, <1>3, GotoKeepsStack DEF RestKept, top
<1>5. NeverStuck' /\ Requesting' /\ ~Judging'
  BY <1>4, ElsewhereWillBeCalm
<1>6. Open' /\ Closed'
  BY <1>1, <1>2, SameRecords
<1>7. Tally'
  <2>1. CASE ~IsRequest(kind)
    BY <1>1, <1>5, <2>1 DEF Judge, Tally, OpenRecord
  <2>2. CASE IsRequest(kind) /\ WentWell
    <3>1. okReq' = okReq + 1 /\ failReq' = failReq /\ (anyFail' = anyFail)
      BY <1>1, <2>2 DEF Judge, Flags
    <3>2. ~top.res.failed /\ Judging
      BY <1>1, <2>2 DEF WentWell
    <3> QED
      BY <1>1, <1>5, <3>1, <3>2 DEF Tally, OpenRecord
  <2>3. CASE IsRequest(kind) /\ ~WentWell
    <3>1. okReq' = okReq /\ failReq' = failReq + 1 /\ anyFail'
      BY <1>1, <2>3 DEF Judge
    <3>2. Judging /\ (cancelled \/ top.res.failed)
      BY <1>1, <2>3 DEF WentWell
    <3> QED
      BY <1>1, <1>5, <3>1, <3>2 DEF Tally, OpenRecord
  <2> QED
    BY <2>1, <2>2, <2>3
<1>8. Board'
  <2>1. nodeSt' = [nodeSt EXCEPT ![top.node] = IF WentWell THEN "ok" ELSE "fail"]
    BY DEF Judge, SetNode
  <2>2. /\ nodeSt = [n \in DOMAIN nodeSt |-> nodeSt[n]]
        /\ running /\ ~cancelled /\ ~anyFail =>
              \A n \in DOMAIN nodeSt : nodeSt[n] \in {"idle", "ok"} \/ n = top.node
    BY DEF Board
  <2>3. running' /\ ~cancelled' /\ ~anyFail' => running /\ ~cancelled /\ ~anyFail /\ WentWell
    BY <1>1
  <2> QED
    BY <1>2, <2>1, <2>2, <2>3 DEF Board
<1> QED
  BY <1>2, <1>4, <1>5, <1>6, <1>7, <1>8

LEMMA Counting ==
    ASSUME NEW r \in Records, NEW failed
    PROVE  /\ WithEntry(r, failed) \in Records
           /\ WithEntry(r, failed).done = r.done
           /\ WithEntry(r, failed).good = r.good + (IF failed THEN 0 ELSE 1)
           /\ WithEntry(r, failed).bad = r.bad + (IF failed THEN 1 ELSE 0)
<1>1. CASE failed
  BY <1>1 DEF WithEntry, Records
<1>2. CASE ~failed
  BY <1>2 DEF WithEntry, Records
<1> QED
  BY <1>1, <1>2

\* The entry is made: the record is ahead of the counters by this request.
LEMMA RequestKeeps == ASSUME IInv, Request PROVE IInv'
<1> USE DEF IInv
<1>1. /\ running /\ stack # <<>> /\ top.at = "request" /\ ~Judging /\ Busy /\ IsRequest(kind)
      /\ UNCHANGED <<running, stepMode, status, cancelled, anyFail, limitHit, okReq, failReq, nodeSt, plan>>
  BY DEF Request, Requesting, At, Judging, Busy, modes, counts, board, Quiet
<1>2. status' # "finished" /\ Flags'
  BY <1>1 DEF Open, Flags
<1>3. PICK a :
        /\ runs' = [runs EXCEPT ![Len(runs)] = WithEntry(@, a.res.failed)]
        /\ Goto([top EXCEPT !.at = "judge", !.res = a.res])
  BY DEF Request
<1> DEFINE y == a.res
           f == [top EXCEPT !.at = "judge", !.res = y]
           r == runs[Len(runs)]
           e == WithEntry(r, a.res.failed)
<1>4. runs' = [runs EXCEPT ![Len(runs)] = e]
  BY <1>3
<1>5. Goto(f) /\ y = a.res
  BY <1>3
<1> HIDE DEF y, f
<1>6. IsVisit(f) /\ f.at = "judge" /\ f.node = top.node /\ f.res = y
  <2> DEFINE w == [top EXCEPT !.at = "judge"]
  <2>1. IsVisit(w) /\ w.at = "judge" /\ w.node = top.node
    BY <1>1, TopIsVisit, EditingOne
  <2>2. f = [w EXCEPT !.res = y]
    BY DEF f
  <2> HIDE DEF w
  <2>3. /\ IsVisit([w EXCEPT !.res = y]) /\ [w EXCEPT !.res = y].at = w.at
        /\ [w EXCEPT !.res = y].node = w.node /\ [w EXCEPT !.res = y].res = y
    BY ONLY <2>1, EditingOne
  <2> QED
    BY ONLY <2>1, <2>2, <2>3
<1>7. Stacked' /\ stack' # <<>> /\ stack'[1] = f
  BY <1>1, <1>6, <1>5, GotoKeepsStack
<1>8. top'.node = top.node /\ top'.at = "judge" /\ top'.res = a.res /\ kind' = kind
  BY <1>1, <1>6, <1>5, <1>7 DEF top, kind
<1>9. Busy' /\ Judging' /\ Requesting' /\ NeverStuck'
  BY <1>1, <1>7, <1>8 DEF Busy, Judging, Requesting, NeverStuck, At, IsRequest
<1>10. runs \in Seq(Records) /\ Len(runs) \in DOMAIN runs /\ r \in Records /\ ~r.done
  BY <1>1 DEF Open
<1> HIDE DEF r
<1>11. runs' = [runs EXCEPT ![Len(runs)] = e]
  BY <1>4
<1>12. /\ e \in Records /\ e.done = r.done
       /\ e.good = r.good + (IF a.res.failed THEN 0 ELSE 1)
       /\ e.bad = r.bad + (IF a.res.failed THEN 1 ELSE 0)
  BY <1>10, Counting
<1> HIDE DEF e
<1>13. /\ runs' \in Seq(Records) /\ Len(runs') = Len(runs) /\ DOMAIN runs' = DOMAIN runs
       /\ runs'[Len(runs)] = e
       /\ \A i \in DOMAIN runs : i # Len(runs) => runs'[i] = runs[i]
  BY <1>10, <1>11, <1>12 DEF r
<1>14. Open' /\ Closed'
  BY <1>1, <1>2, <1>10, <1>12, <1>13 DEF Open, Closed, r
<1>15. Tally'
  BY <1>1, <1>8, <1>9, <1>12, <1>13 DEF Tally, OpenRecord, r
<1>16. Board'
  BY <1>1, <1>2, <1>8, <1>9 DEF Board
<1> QED
  BY <1>2, <1>7, <1>9, <1>14, <1>15, <1>16

LEMMA Closing ==
    ASSUME Tally, NEW r \in Records
    PROVE  /\ ClosedRecord(r) \in Records
           /\ ClosedRecord(r).done
           /\ ClosedRecord(r).stopped = (Verdict = "stopped")
           /\ ClosedRecord(r).failed = (Verdict \in {"limit", "errors"})
           /\ ClosedRecord(r).ok = okReq
           /\ ClosedRecord(r).fail = failReq
           /\ ClosedRecord(r).good = r.good
           /\ ClosedRecord(r).bad = r.bad
<1> DEFINE r1 == [r EXCEPT !.done = TRUE]
           s == Verdict = "stopped"
           f == Verdict \in {"limit", "errors"}
           r2 == [r1 EXCEPT !.stopped = s]
           r3 == [r2 EXCEPT !.failed = f]
           r4 == [r3 EXCEPT !.ok = okReq]
           r5 == [r4 EXCEPT !.fail = failReq]
<1>1. ClosedRecord(r) = r5
  BY DEF ClosedRecord
<1>2. s \in BOOLEAN /\ f \in BOOLEAN
  OBVIOUS
<1>3. s = (Verdict = "stopped") /\ f = (Verdict \in {"limit", "errors"})
  OBVIOUS
<1> HIDE DEF s, f
<1>4. r1 \in Records /\ r1.done /\ r1.good = r.good /\ r1.bad = r.bad
  BY DEF Records
<1> HIDE DEF r1
<1>5. /\ r2 \in Records /\ r2.done /\ r2.good = r.good /\ r2.bad = r.bad
      /\ r2.stopped = s
  BY <1>4, <1>2 DEF Records
<1> HIDE DEF r2
<1>6. /\ r3 \in Records /\ r3.done /\ r3.good = r.good /\ r3.bad = r.bad
      /\ r3.stopped = s
      /\ r3.failed = f
  BY <1>5, <1>2 DEF Records
<1> HIDE DEF r3
<1>7. /\ r4 \in Records /\ r4.done /\ r4.good = r.good /\ r4.bad = r.bad
      /\ r4.stopped = s
      /\ r4.failed = f
      /\ r4.ok = okReq
  BY <1>6 DEF Records, Tally
<1> HIDE DEF r4
<1>8. /\ r5 \in Records /\ r5.done /\ r5.good = r.good /\ r5.bad = r.bad
      /\ r5.stopped = s
      /\ r5.failed = f
      /\ r5.ok = okReq /\ r5.fail = failReq
  BY <1>7 DEF Records, Tally
<1> HIDE DEF r5
<1> QED
  BY <1>1, <1>8, <1>3

\* The record is closed with counters that say what its entries say.
LEMMA FinishKeeps == ASSUME IInv, Finish PROVE IInv'
<1> USE DEF IInv
<1> DEFINE r == runs[Len(runs)]
           e == ClosedRecord(r)
<1>1. /\ running /\ stack = <<>> /\ ~running' /\ ~Judging /\ ~Busy
      /\ UNCHANGED <<stepMode, cancelled, anyFail, limitHit, okReq, failReq, nodeSt, plan, stack>>
      /\ runs' = [runs EXCEPT ![Len(runs)] = e]
      /\ status' = Verdict
  BY DEF Finish, At, Judging, Busy, counts, board
<1>2. runs \in Seq(Records) /\ Len(runs) \in DOMAIN runs /\ r \in Records
  BY <1>1 DEF Open
<1> HIDE DEF r
<1>3. /\ e \in Records /\ e.done /\ e.good = r.good /\ e.bad = r.bad
      /\ e.stopped = (Verdict = "stopped")
      /\ e.failed = (Verdict \in {"limit", "errors"})
      /\ e.ok = okReq /\ e.fail = failReq
  BY <1>2, Closing
<1> HIDE DEF e
<1>4. /\ runs' \in Seq(Records) /\ Len(runs') = Len(runs) /\ DOMAIN runs' = DOMAIN runs
      /\ runs'[Len(runs)] = e
      /\ \A i \in DOMAIN runs : i # Len(runs) => runs'[i] = runs[i]
  BY <1>1, <1>2, <1>3 DEF r
<1>5. ~cancelled => /\ r.good = okReq /\ r.bad = failReq
                    /\ ~anyFail => failReq = 0
  BY <1>1 DEF Tally, OpenRecord, r
<1>6. Flags' /\ Stacked' /\ Tally' /\ Requesting' /\ NeverStuck'
  <2>1. Flags'
    BY <1>1 DEF Finish, Flags
  <2>2. Stacked'
    BY <1>1 DEF Stacked, Elements, IsVisit
  <2>3. Tally' /\ Requesting' /\ NeverStuck'
    BY <1>1 DEF Tally, Requesting, NeverStuck, At
  <2> QED
    BY <2>1, <2>2, <2>3
<1>7. Open'
  BY <1>1, <1>2, <1>3, <1>4 DEF Open
<1>8. Verdict # "stopped" => ~cancelled
  BY DEF Verdict
<1>9. Verdict \notin {"stopped", "limit", "errors"} => ~cancelled /\ ~anyFail
  BY DEF Verdict
<1>10. Closed'
  <2>1. ASSUME NEW i \in DOMAIN runs', runs'[i].done, ~runs'[i].stopped
        PROVE  /\ runs'[i].ok = runs'[i].good /\ runs'[i].fail = runs'[i].bad
               /\ ~runs'[i].failed => runs'[i].bad = 0
    <3>1. CASE i = Len(runs)
      BY <1>3, <1>4, <1>5, <1>8, <1>9, <2>1, <3>1
    <3>2. CASE i # Len(runs)
      BY <1>4, <2>1, <3>2 DEF Closed
    <3> QED
      BY <3>1, <3>2
  <2> QED
    BY <2>1 DEF Closed
<1>11. Board'
  <2>1. status' = "finished" => running /\ ~cancelled /\ ~anyFail
    BY <1>1, <1>9
  <2> QED
    BY <1>1, <2>1 DEF Board
<1> QED
  BY <1>6, <1>7, <1>10, <1>11

LEMMA RunnerAssumption == MaxHistory \in Nat \ {0}
  BY ScenariosAssumption

LEMMA Keeping ==
    ASSUME NEW q \in Seq(Records)
    PROVE  /\ Keep(Append(q, NewRecord)) \in Seq(Records)
           /\ Len(Keep(Append(q, NewRecord))) \in Nat \ {0}
           /\ Keep(Append(q, NewRecord))[Len(Keep(Append(q, NewRecord)))] = NewRecord
           /\ \A i \in 1..(Len(Keep(Append(q, NewRecord))) - 1) :
                 \E j \in DOMAIN q : Keep(Append(q, NewRecord))[i] = q[j]
<1> DEFINE n == Append(q, NewRecord)
           k == Keep(n)
<1>1. NewRecord \in Records
  BY DEF NewRecord, Records
<1>2. /\ n \in Seq(Records) /\ Len(n) = Len(q) + 1 /\ Len(q) \in Nat
      /\ n[Len(n)] = NewRecord
      /\ \A i \in 1..Len(q) : n[i] = q[i]
      /\ DOMAIN q = 1..Len(q)
  BY <1>1
<1>3. CASE Len(n) > MaxHistory
  <2>1. k = Tail(n) /\ Len(q) > 0
    BY <1>2, <1>3, RunnerAssumption DEF Keep
  <2> HIDE DEF n, k
  <2>2. /\ k \in Seq(Records) /\ Len(k) = Len(q)
        /\ \A i \in 1..Len(k) : k[i] = n[i + 1]
    BY <1>2, <2>1
  <2>3. \A i \in 1..(Len(k) - 1) : i + 1 \in DOMAIN q /\ k[i] = q[i + 1]
    BY <1>2, <2>2
  <2>4. Len(k) \in Nat \ {0} /\ k[Len(k)] = NewRecord
    BY <1>2, <2>1, <2>2
  <2> QED
    BY <2>2, <2>3, <2>4 DEF n, k
<1>4. CASE ~(Len(n) > MaxHistory)
  <2>1. k = n
    BY <1>4 DEF Keep
  <2> HIDE DEF n, k
  <2>2. \A i \in 1..(Len(k) - 1) : i \in DOMAIN q /\ k[i] = q[i]
    BY <1>2, <2>1
  <2>3. k \in Seq(Records) /\ Len(k) \in Nat \ {0} /\ k[Len(k)] = NewRecord
    BY <1>2, <2>1
  <2> QED
    BY <2>2, <2>3 DEF n, k
<1> QED
  BY <1>3, <1>4

LEMMA StartKeeps == ASSUME IInv, NEW s, Start(s) PROVE IInv'
<1> USE DEF IInv
<1>1. ~running
  BY DEF Start
<1>2. CASE UNCHANGED <<running, cancelled, nodeSt, runs, stack, stepMode, anyFail, limitHit, okReq, failReq>>
           /\ status' # "finished"
  <2>1. Stacked'
    BY <1>2 DEF Stacked, Elements, IsVisit
  <2>2. Flags'
    BY <1>1, <1>2 DEF Flags
  <2>3. Open' /\ Closed'
    BY <1>1, <1>2 DEF Open, Closed
  <2>4. Tally' /\ Requesting' /\ Board' /\ NeverStuck'
    BY <1>1, <1>2 DEF Tally, Requesting, Board, NeverStuck, At
  <2> QED
    BY <2>1, <2>3, <2>4, <2>2
<1>3. CASE /\ running' = TRUE /\ status' = "running" /\ cancelled' = FALSE
           /\ anyFail' = FALSE /\ limitHit' = FALSE /\ okReq' = 0 /\ failReq' = 0
           /\ stepMode' = stepMode
           /\ nodeSt' = NoStates(s.nodes)
           /\ runs' = Keep(Append(runs, NewRecord))
           /\ stack' = <<Visit(s.start, Nothing)>>
  <2> DEFINE v == Visit(s.start, Nothing)
  <2>1. IsVisit(v) /\ v.at = "enter"
    BY Entering
  <2>2. stack' = <<v>>
    BY <1>3
  <2> HIDE DEF v
  <2>3. Flags'
    BY <1>3 DEF Flags
  <2>4. stack' \in Seq({v}) /\ stack'[1] = v /\ stack' # <<>> /\ DOMAIN stack' = {1}
    BY <2>2
  <2>5. stack' \in Seq(Elements(stack'))
    BY <2>4, SeqOfElements
  <2>6. Stacked' /\ RestKept'
    BY <2>1, <2>4, <2>5 DEF Stacked, IsVisit, RestKept, top
  <2>7. NeverStuck' /\ Requesting' /\ ~Judging'
    BY <2>6, ElsewhereWillBeCalm
  <2> DEFINE k == Keep(Append(runs, NewRecord))
  <2>8. /\ k \in Seq(Records) /\ Len(k) \in Nat \ {0} /\ k[Len(k)] = NewRecord
        /\ \A i \in 1..(Len(k) - 1) : \E j \in DOMAIN runs : k[i] = runs[j]
    BY Keeping DEF Open
  <2>9. runs' = k
    BY <1>3
  <2> HIDE DEF k
  <2>10. \A i \in DOMAIN k : i = Len(k) \/ \E j \in DOMAIN runs : k[i] = runs[j]
    BY <2>8
  <2>11. /\ NewRecord.done = FALSE /\ NewRecord.good = 0 /\ NewRecord.bad = 0
    BY DEF NewRecord
  <2>12. \A j \in DOMAIN runs : runs[j].done
    BY <1>1 DEF Open
  <2>13. Open'
    <3>1. \A i \in DOMAIN k : ~k[i].done <=> i = Len(k)
      BY <2>8, <2>10, <2>11, <2>12
    <3> QED
      BY <1>3, <2>8, <2>9, <3>1 DEF Open
  <2>14. Closed'
    <3>1. \A i \in DOMAIN k : k[i].done => \E j \in DOMAIN runs : k[i] = runs[j]
      BY <2>8, <2>10, <2>11
    <3> QED
      BY <2>9, <3>1 DEF Closed
  <2>15. Tally'
    BY <1>3, <2>7, <2>8, <2>9, <2>11 DEF Tally, OpenRecord
  <2>16. Board'
    BY <1>3 DEF Board, NoStates
  <2> QED
    BY <2>3, <2>6, <2>7, <2>13, <2>14, <2>15, <2>16
<1> QED
  BY <1>1, <1>2, <1>3 DEF Start, walkVars, counts, board

\* A step beside the walk: only the ways to let it on may be touched.
LEMMA Beside ==
    ASSUME IInv, UNCHANGED <<running, status, stack, runs, plan, nodeSt, okReq, failReq, anyFail>>,
           cancelled => cancelled', NeverStuck', Flags'
    PROVE  IInv'
<1> USE DEF IInv
<1>1. Stacked'
  BY DEF Stacked, Elements, IsVisit
<1>2. Open' /\ Closed'
  BY DEF Open, Closed
<1>3. /\ Judging' <=> Judging
      /\ Requesting' <=> Requesting
      /\ Busy' <=> Busy
      /\ top' = top /\ OpenRecord' = OpenRecord
  BY DEF Judging, Requesting, Busy, At, top, kind, OpenRecord, IsRequest
<1>4. Tally'
  BY <1>3 DEF Tally
<1>5. Board'
  BY <1>3 DEF Board
<1> QED
  BY <1>1, <1>2, <1>3, <1>4, <1>5

LEMMA StopKeeps == ASSUME IInv, Stop PROVE IInv'
<1>1. /\ UNCHANGED <<running, status, stack, runs, plan, nodeSt, okReq, failReq, anyFail, stepMode, limitHit>>
      /\ cancelled' = TRUE
  BY DEF Stop, modes, board, walkVars, counts
<1>2. NeverStuck' /\ Flags'
  BY <1>1 DEF IInv, NeverStuck, Flags
<1> QED
  BY <1>1, <1>2, Beside

LEMMA ResetKeeps == ASSUME IInv, Reset PROVE IInv'
<1> USE DEF IInv
<1>1. /\ ~running /\ ~running' /\ status' = ""
      /\ UNCHANGED <<running, stepMode, cancelled, stack, runs, plan, okReq, failReq, anyFail, limitHit>>
      /\ nodeSt' = NoStates(DOMAIN nodeSt)
  BY DEF Reset, walkVars, counts
<1>2. Stacked'
  BY <1>1 DEF Stacked, Elements, IsVisit
<1>3. Open' /\ Closed'
  BY <1>1 DEF Open, Closed
<1>4. Tally' /\ Requesting' /\ NeverStuck'
  BY <1>1 DEF Tally, Requesting, NeverStuck, At
<1>5. Board'
  BY <1>1 DEF Board, NoStates
<1>6. Flags'
  BY <1>1 DEF Flags
<1> QED
  BY <1>2, <1>3, <1>4, <1>5, <1>6

LEMMA SetStepModeKeeps == ASSUME IInv, SetStepMode PROVE IInv'
<1>1. /\ UNCHANGED <<running, status, stack, runs, plan, nodeSt, okReq, failReq, anyFail, cancelled, limitHit>>
      /\ stepMode' = ~stepMode
      /\ ui' = IF stepMode /\ running THEN "send" ELSE "idle"
  BY DEF SetStepMode, board, walkVars, counts
<1>2. NeverStuck'
  BY <1>1 DEF IInv, NeverStuck, At, Flags
<1>3. Flags'
  BY <1>1 DEF IInv, Flags
<1> QED
  BY <1>1, <1>2, <1>3, Beside

LEMMA StepKeeps == ASSUME IInv, Step PROVE IInv'
<1>1. /\ UNCHANGED <<running, status, stack, runs, plan, nodeSt, okReq, failReq, anyFail, stepMode, cancelled, limitHit>>
      /\ ui' = "send"
  BY DEF Step, modes, board, walkVars, counts
<1>2. NeverStuck' /\ Flags'
  BY <1>1 DEF IInv, NeverStuck, Flags
<1> QED
  BY <1>1, <1>2, Beside

LEMMA SendTokenKeeps == ASSUME IInv, SendToken PROVE IInv'
<1>1. /\ UNCHANGED <<running, status, stack, runs, plan, nodeSt, okReq, failReq, anyFail, stepMode, cancelled, limitHit>>
      /\ running => token' = 1
  BY DEF SendToken, modes, board, walkVars, counts
<1>2. NeverStuck' /\ Flags'
  BY <1>1 DEF IInv, NeverStuck, Flags, At
<1> QED
  BY <1>1, <1>2, Beside

LEMMA CloseSocketsKeeps == ASSUME IInv, CloseSockets PROVE IInv'
<1>1. UNCHANGED <<running, status, stack, runs, plan, nodeSt, okReq, failReq, anyFail, stepMode, cancelled, limitHit, token, ui>>
  BY DEF CloseSockets, modes, board, walkVars, counts
<1>2. NeverStuck' /\ Flags'
  BY <1>1 DEF IInv, NeverStuck, Flags, At, top
<1> QED
  BY <1>1, <1>2, Beside

LEMMA StutterKeeps == ASSUME IInv, UNCHANGED vars PROVE IInv'
<1>1. UNCHANGED <<running, status, stack, runs, plan, nodeSt, okReq, failReq, anyFail, stepMode, cancelled, limitHit, token, ui>>
  BY DEF vars, modes, board, walkVars, counts
<1>2. NeverStuck' /\ Flags'
  BY <1>1 DEF IInv, NeverStuck, Flags, At, top
<1> QED
  BY <1>1, <1>2, Beside

-----------------------------------------------------------------------------
(* Pauses and records.                                                     *)

LEMMA RunnerKeeps ==
    ASSUME IInv, (\E s : Start(s)) \/ Stop \/ Reset \/ SetStepMode \/ Step \/ SendToken \/ WalkOn \/ Request
                 \/ CloseSockets \/ UNCHANGED vars
    PROVE  IInv'
<1>1. CASE \E s : Start(s)
  BY <1>1, StartKeeps
<1>2. CASE Stop \/ Reset \/ SetStepMode \/ Step
  BY <1>2, StopKeeps, ResetKeeps, SetStepModeKeeps, StepKeeps
<1>3. CASE Enter \/ Gate \/ Pause \/ Unpark
  BY <1>3, EnterKeeps, GateKeeps, PauseKeeps, UnparkKeeps
<1>4. CASE Resume \/ Judge \/ Proceed
  BY <1>4, ResumeKeeps, JudgeKeeps, ProceedKeeps
<1>5. CASE Loop \/ Follow \/ Finish
  BY <1>5, LoopKeeps, FollowKeeps, FinishKeeps
<1>6. CASE SendToken \/ Request \/ CloseSockets \/ UNCHANGED vars
  BY <1>6, SendTokenKeeps, RequestKeeps, CloseSocketsKeeps, StutterKeeps
<1> QED
  BY <1>1, <1>2, <1>3, <1>4, <1>5, <1>6 DEF WalkOn

\* The inductive invariant holds at every step of the runner (exec.go:452 Start, the
\* walk in its goroutine, and the clicks that stop it or let it on).
THEOREM Invariance == Spec => []IInv
<1>1. IInv /\ [Next]_vars => IInv'
  BY RunnerKeeps DEF Next, User
<1> QED
  BY <1>1, InitInvariant, PTL DEF Spec

LEMMA Claims == IInv => NeverStuck /\ HonestRecords
<1>1. ASSUME IInv, status = "finished" PROVE \A n \in DOMAIN nodeSt : nodeSt[n] \in {"idle", "ok"}
  BY <1>1 DEF IInv, Open, Board, Busy
<1> QED
  BY <1>1 DEF IInv, Open, Closed, HonestRecords

\* A walk that waits is always about to be let on, or the user wants it to wait
\* (exec.go:530 waitStep against exec.go:227 SetStepMode).
THEOREM NobodyStuck == Spec => []NeverStuck
  BY Claims, Invariance, PTL

\* What a record and the canvas claim of a run agrees with its entries (exec.go:774,
\* the end of the run; exec.go:642, the entries; exec.go:687, the counters).
THEOREM RecordsHonest == Spec => []HonestRecords
  BY Claims, Invariance, PTL

-----------------------------------------------------------------------------
(* What the editor counts as unreachable is never run.  The plan is that of  *)
(* a scenario of the canvas (Charted), every visit under way is of a node    *)
(* the editor's search comes to, one that goes through its rounds is of a    *)
(* loop (Found), and so is every node the canvas shows as visited.           *)

Reach == Reachable(plan.scenario)

Found(v) == v.node \in Reach /\ (v.at = "loop" => v.node \in Loops(plan.scenario))

\* Arrows lead from node to node, and loops contain nodes.
Plannable(s) ==
    /\ \A i \in DOMAIN s.edges : s.edges[i].from \in s.nodes /\ s.edges[i].to \in s.nodes
    /\ \A l \in s.nodes : s.inside[l] \subseteq s.nodes

Charted ==
    /\ Plannable(plan.scenario)
    /\ \A l \in Loops(plan.scenario) :
          \A k \in DOMAIN plan.entries[l] : plan.entries[l][k] \in Entries(plan.scenario, l)
    /\ \A n \in plan.scenario.nodes : plan.outs[n] = Outs(plan.scenario, n)

Walked == \A i \in DOMAIN stack : Found(stack[i])

Shown ==
    /\ nodeSt = [n \in DOMAIN nodeSt |-> nodeSt[n]]
    /\ UnreachableNeverRuns

\* The search of the editor starts at the start node and leaves no arrow out, and no
\* member of a loop.
LEMMA ReachableProperties ==
    ASSUME NEW s, Plannable(s)
    PROVE  /\ s.start \in s.nodes => s.start \in Reachable(s)
           /\ \A n \in Reachable(s) : \A e \in Outs(s, n) : s.edges[e].to \in Reachable(s)
           /\ \A l \in Reachable(s) \cap Loops(s) : Entries(s, l) \subseteq Reachable(s)
<1>1. /\ \A i \in DOMAIN s.edges : s.edges[i].from \in s.nodes /\ s.edges[i].to \in s.nodes
      /\ \A l \in s.nodes : s.inside[l] \subseteq s.nodes
  BY DEF Plannable
<1>2. ASSUME NEW n \in Reachable(s), NEW e \in Outs(s, n) PROVE s.edges[e].to \in Reachable(s)
  BY <1>1, <1>2 DEF Reachable, Outs
<1>3. ASSUME NEW l \in Reachable(s) \cap Loops(s), NEW n \in Entries(s, l) PROVE n \in Reachable(s)
  <2>1. n \in s.inside[l] /\ s.kind[n] # "loop" /\ n \in s.nodes
    BY <1>1 DEF Entries, Members, Reachable
  <2> QED
    BY <2>1 DEF Reachable
<1>4. s.start \in s.nodes => s.start \in Reachable(s)
  BY DEF Reachable
<1> QED
  BY <1>2, <1>3, <1>4

LEMMA PlansChart ==
    ASSUME NEW s, NEW p \in BuildPlan(s)
    PROVE  /\ p.scenario = s
           /\ \A l \in Loops(s) : \A k \in DOMAIN p.entries[l] : p.entries[l][k] \in Entries(s, l)
           /\ \A n \in s.nodes : p.outs[n] = Outs(s, n)
<1>1. p.scenario = s /\ p.outs = [n \in s.nodes |-> Outs(s, n)]
  BY DEF BuildPlan
<1>2. \A l \in Loops(s) : p.entries[l] \in SetToSeqs(Entries(s, l))
  BY DEF BuildPlan
<1>3. ASSUME NEW S, NEW q \in SetToSeqs(S), NEW k \in DOMAIN q PROVE q[k] \in S
  BY <1>3 DEF SetToSeqs
<1> QED
  BY <1>1, <1>2, <1>3

\* How a step of the walk changes the visits under way.
LEMMA TopFound ==
    ASSUME Stacked, Walked, stack # <<>>
    PROVE  Found(top)
  BY DEF Stacked, Walked, top

LEMMA ReturnWalks ==
    ASSUME Stacked, Walked, stack # <<>>, UNCHANGED plan, Return
    PROVE  Walked'
<1> DEFINE S == Elements(stack)
<1>1. stack \in Seq(S) /\ Len(stack) > 0
  BY DEF Stacked
<1> HIDE DEF S
<1>2. \A i \in DOMAIN stack' : i + 1 \in DOMAIN stack /\ stack'[i] = stack[i + 1]
  BY <1>1 DEF Return
<1> QED
  BY <1>2 DEF Walked, Found, Reach

LEMMA GotoWalks ==
    ASSUME Stacked, Walked, stack # <<>>, UNCHANGED plan, NEW f, Found(f), Goto(f)
    PROVE  Walked'
<1> DEFINE S == Elements(stack) \cup {f}
<1>1. stack \in Seq(S) /\ Len(stack) > 0 /\ f \in S
  BY DEF Stacked
<1> HIDE DEF S
<1>2. Tail(stack) \in Seq(S) /\ Len(Tail(stack)) = Len(stack) - 1
      /\ \A i \in 1..Len(stack) - 1 : Tail(stack)[i] = stack[i + 1]
  BY <1>1
<1>3. /\ stack' \in Seq(S) /\ Len(stack') = Len(stack)
      /\ stack'[1] = f
      /\ \A i \in DOMAIN stack' : i > 1 => stack'[i] = Tail(stack)[i - 1]
  BY <1>1, <1>2 DEF Goto
<1>4. \A i \in DOMAIN stack' : i > 1 => i \in DOMAIN stack /\ stack'[i] = stack[i]
  BY <1>1, <1>2, <1>3
<1>5. \A i \in DOMAIN stack' : i = 1 \/ i > 1
  BY <1>3
<1>6. \A i \in DOMAIN stack' : stack'[i] = f \/ (i \in DOMAIN stack /\ stack'[i] = stack[i])
  BY <1>3, <1>4, <1>5
<1> QED
  BY <1>6 DEF Walked, Found, Reach

LEMMA CallWalks ==
    ASSUME Stacked, Walked, stack # <<>>, UNCHANGED plan, NEW f, Found(f), NEW v, Found(v), Call(f, v)
    PROVE  Walked'
<1> DEFINE S == Elements(stack) \cup {f, v}
<1>1. stack \in Seq(S) /\ Len(stack) > 0 /\ f \in S /\ v \in S
  BY DEF Stacked
<1> HIDE DEF S
<1>2. Tail(stack) \in Seq(S) /\ Len(Tail(stack)) = Len(stack) - 1
      /\ \A i \in 1..Len(stack) - 1 : Tail(stack)[i] = stack[i + 1]
  BY <1>1
<1>3. /\ stack' \in Seq(S) /\ Len(stack') = Len(stack) + 1
      /\ stack'[1] = v /\ stack'[2] = f
      /\ \A i \in DOMAIN stack' : i > 2 => stack'[i] = Tail(stack)[i - 2]
  BY <1>1, <1>2 DEF Call
<1>4. \A i \in DOMAIN stack' : i > 2 => i - 1 \in DOMAIN stack /\ stack'[i] = stack[i - 1]
  BY <1>1, <1>2, <1>3
<1>5. \A i \in DOMAIN stack' : i = 1 \/ i = 2 \/ i > 2
  BY <1>3
<1>6. \A i \in DOMAIN stack' :
         stack'[i] = v \/ stack'[i] = f \/ \E j \in DOMAIN stack : stack'[i] = stack[j]
  BY <1>3, <1>4, <1>5
<1> QED
  BY <1>6 DEF Walked, Found, Reach

\* A visit that moves on is of the same node.
LEMMA SameNode ==
    ASSUME NEW v, IsVisit(v), NEW x, NEW y
    PROVE  /\ [v EXCEPT !.at = x].node = v.node /\ [v EXCEPT !.at = x].at = x
           /\ [v EXCEPT !.k = x].node = v.node /\ [v EXCEPT !.k = x].at = v.at
           /\ [v EXCEPT !.at = x, !.res = y].node = v.node /\ [v EXCEPT !.at = x, !.res = y].at = x
           /\ [v EXCEPT !.at = x, !.rounds = y].node = v.node /\ [v EXCEPT !.at = x, !.rounds = y].at = x
           /\ [v EXCEPT !.at = x, !.k = y].node = v.node /\ [v EXCEPT !.at = x, !.k = y].at = x
           /\ [v EXCEPT !.it = x, !.k = y].node = v.node /\ [v EXCEPT !.it = x, !.k = y].at = v.at
<1>1. v = [node |-> v.node, at |-> v.at, in |-> v.in, res |-> v.res,
           rounds |-> v.rounds, it |-> v.it, k |-> v.k]
  BY DEF IsVisit
<1>2. [v EXCEPT !.at = x].node = v.node /\ [v EXCEPT !.at = x].at = x
  BY ONLY <1>1
<1>3. [v EXCEPT !.k = x].node = v.node /\ [v EXCEPT !.k = x].at = v.at
  BY ONLY <1>1
<1>4. [v EXCEPT !.at = x, !.res = y].node = v.node /\ [v EXCEPT !.at = x, !.res = y].at = x
  BY ONLY <1>1
<1>5. [v EXCEPT !.at = x, !.rounds = y].node = v.node /\ [v EXCEPT !.at = x, !.rounds = y].at = x
  BY ONLY <1>1
<1>6. [v EXCEPT !.at = x, !.k = y].node = v.node /\ [v EXCEPT !.at = x, !.k = y].at = x
  BY ONLY <1>1
<1>7. [v EXCEPT !.it = x, !.k = y].node = v.node /\ [v EXCEPT !.it = x, !.k = y].at = v.at
  BY ONLY <1>1
<1> QED
  BY ONLY <1>2, <1>3, <1>4, <1>5, <1>6, <1>7

\* A step whose visit moves on within the node, and not into the rounds of a loop.
LEMMA MovingOn ==
    ASSUME Stacked, Walked, stack # <<>>, UNCHANGED plan,
           NEW f, f.node = top.node, f.at = "loop" => top.at = "loop", Goto(f)
    PROVE  Walked'
<1>1. Found(f)
  BY TopFound DEF Found
<1> QED
  BY <1>1, GotoWalks

LEMMA ShownStays ==
    ASSUME Stacked, Walked, Shown, stack # <<>>, UNCHANGED plan,
           nodeSt' = nodeSt \/ \E x : nodeSt' = [nodeSt EXCEPT ![top.node] = x]
    PROVE  Shown'
<1>1. top.node \in Reach
  BY TopFound DEF Found
<1>2. CASE nodeSt' = nodeSt
  BY <1>2 DEF Shown, UnreachableNeverRuns
<1>3. ASSUME NEW x, nodeSt' = [nodeSt EXCEPT ![top.node] = x] PROVE Shown'
  <2>1. nodeSt = [n \in DOMAIN nodeSt |-> nodeSt[n]]
    BY DEF Shown
  <2>2. /\ DOMAIN nodeSt' = DOMAIN nodeSt
        /\ nodeSt' = [n \in DOMAIN nodeSt' |-> nodeSt'[n]]
        /\ \A n \in DOMAIN nodeSt : n # top.node => nodeSt'[n] = nodeSt[n]
    BY <1>3, <2>1
  <2> QED
    BY <1>1, <2>2 DEF Shown, UnreachableNeverRuns, Reach
<1> QED
  BY <1>2, <1>3

Searched == Stacked /\ Charted /\ Walked /\ Shown

\* Steps that stay with the node and may change what is shown of it.
LEMMA StayingWalks ==
    ASSUME Searched, Enter \/ Gate \/ Pause \/ Unpark \/ Resume \/ Judge \/ Request \/ Proceed
    PROVE  Walked' /\ Shown'
<1> USE DEF Searched
<1>1. stack # <<>> /\ UNCHANGED plan /\ IsVisit(top)
  <2>1. stack # <<>> /\ UNCHANGED plan
    BY DEF Enter, Gate, Pause, Unpark, Resume, Judge, Request, Proceed, At, Quiet
  <2> QED
    BY <2>1, TopIsVisit
<1>2. nodeSt' = nodeSt \/ \E x : nodeSt' = [nodeSt EXCEPT ![top.node] = x]
  BY DEF Enter, Gate, Pause, Unpark, Resume, Judge, Request, Proceed, SetNode, board
<1>3. Shown'
  BY <1>1, <1>2, ShownStays
<1>4. \/ Return
      \/ \E x : x # "loop" /\ Goto([top EXCEPT !.at = x])
      \/ \E x, y : x # "loop" /\ Goto([top EXCEPT !.at = x, !.res = y])
      \/ \E y : kind = "loop" /\ Goto([top EXCEPT !.at = "loop", !.rounds = y])
      \/ kind = "loop" /\ Goto([top EXCEPT !.at = "loop"])
  <2>1. CASE Enter
    BY <2>1 DEF Enter
  <2>2. CASE Gate \/ Pause \/ Unpark \/ Judge
    BY <2>2 DEF Gate, Pause, Unpark, Judge
  <2>3. CASE Resume
    BY <2>3 DEF Resume
  <2>4. CASE Request
    BY <2>4 DEF Request
  <2>5. CASE Proceed
    BY <2>5 DEF Proceed
  <2> QED
    BY <2>1, <2>2, <2>3, <2>4, <2>5
<1>5. ASSUME NEW x, x # "loop", Goto([top EXCEPT !.at = x]) PROVE Walked'
  <2> DEFINE f == [top EXCEPT !.at = x]
  <2>1. f.node = top.node /\ f.at = x
    BY <1>1, SameNode
  <2>2. Goto(f)
    BY <1>5
  <2> HIDE DEF f
  <2> QED
    BY <1>1, <1>5, <2>1, <2>2, MovingOn
<1>6. ASSUME NEW x, NEW y, x # "loop", Goto([top EXCEPT !.at = x, !.res = y]) PROVE Walked'
  <2> DEFINE f == [top EXCEPT !.at = x, !.res = y]
  <2>1. f.node = top.node /\ f.at = x
    BY <1>1, SameNode
  <2>2. Goto(f)
    BY <1>6
  <2> HIDE DEF f
  <2> QED
    BY <1>1, <1>6, <2>1, <2>2, MovingOn
<1>7. CASE kind = "loop"
  <2>1. top.node \in Reach /\ top.node \in Loops(plan.scenario)
    BY <1>1, <1>7, TopFound DEF Found, Loops, kind, Reach, Reachable
  <2>2. ASSUME NEW f, f.node = top.node, Goto(f) PROVE Walked'
    BY <1>1, <2>1, <2>2, GotoWalks DEF Found
  <2>3. CASE Goto([top EXCEPT !.at = "loop"])
    <3> DEFINE f == [top EXCEPT !.at = "loop"]
    <3>1. f.node = top.node /\ Goto(f)
      BY <1>1, <2>3, SameNode
    <3> HIDE DEF f
    <3> QED
      BY <1>3, <2>2, <3>1
  <2>4. ASSUME NEW y, Goto([top EXCEPT !.at = "loop", !.rounds = y]) PROVE Walked'
    <3> DEFINE f == [top EXCEPT !.at = "loop", !.rounds = y]
    <3>1. f.node = top.node /\ Goto(f)
      BY <1>1, <2>4, SameNode
    <3> HIDE DEF f
    <3> QED
      BY <2>2, <3>1
  <2> QED
    BY <1>1, <1>3, <1>4, <1>5, <1>6, <2>3, <2>4, ReturnWalks
<1> QED
  BY <1>1, <1>3, <1>4, <1>5, <1>6, <1>7, ReturnWalks

\* A new visit is of a node the search has found too.
LEMMA CallingFound ==
    ASSUME Stacked, Walked, stack # <<>>, UNCHANGED plan, NEW f, f.node = top.node, f.at = top.at,
           NEW n \in Reach, NEW r, Call(f, Visit(n, r))
    PROVE  Walked'
<1> DEFINE v == Visit(n, r)
<1>1. Found(v)
  BY DEF Visit, Found
<1>2. Call(f, v)
  OBVIOUS
<1>3. Found(f)
  BY TopFound DEF Found
<1> HIDE DEF v
<1> QED
  BY <1>1, <1>2, <1>3, CallWalks

LEMMA LoopWalks == ASSUME Searched, Loop PROVE Walked' /\ Shown'
<1> USE DEF Searched
<1> DEFINE entries == plan.entries[top.node]
<1>1. stack # <<>> /\ UNCHANGED <<plan, nodeSt>> /\ top.at = "loop"
  BY DEF Loop, At, Quiet, board
<1>2. IsVisit(top) /\ Found(top)
  BY <1>1, TopIsVisit, TopFound
<1>3. Shown'
  BY <1>1, ShownStays
<1>4. \/ Goto([top EXCEPT !.at = "outs", !.k = 1])
      \/ Goto([top EXCEPT !.it = top.it + 1, !.k = 1])
      \/ Return
      \/ /\ top.k \in DOMAIN entries
         /\ Call([top EXCEPT !.k = top.k + 1], Visit(entries[top.k], top.in))
  BY DEF Loop
<1>5. CASE Goto([top EXCEPT !.at = "outs", !.k = 1])
  <2> DEFINE f == [top EXCEPT !.at = "outs", !.k = 1]
  <2>1. f.node = top.node /\ f.at = "outs"
    BY <1>2, SameNode
  <2>2. Goto(f)
    BY <1>5
  <2> HIDE DEF f
  <2> QED
    BY <1>1, <1>3, <2>1, <2>2, MovingOn
<1>6. CASE Goto([top EXCEPT !.it = top.it + 1, !.k = 1])
  <2> DEFINE f == [top EXCEPT !.it = top.it + 1, !.k = 1]
  <2>1. f.node = top.node /\ f.at = top.at
    BY <1>2, SameNode
  <2>2. Goto(f)
    BY <1>6
  <2> HIDE DEF f
  <2> QED
    BY <1>1, <1>3, <2>1, <2>2, MovingOn
<1>7. CASE top.k \in DOMAIN entries /\ Call([top EXCEPT !.k = top.k + 1], Visit(entries[top.k], top.in))
  <2> DEFINE f == [top EXCEPT !.k = top.k + 1]
             n == entries[top.k]
             r == top.in
  <2>1. f.node = top.node /\ f.at = top.at
    BY <1>2, SameNode
  <2>2. top.node \in Loops(plan.scenario) /\ top.node \in Reach
    BY <1>1, <1>2 DEF Found
  <2>3. n \in Entries(plan.scenario, top.node)
    BY <1>7, <2>2 DEF Charted
  <2>4. n \in Reach
    BY <2>2, <2>3, ReachableProperties DEF Charted, Reach
  <2>5. Call(f, Visit(n, r))
    BY <1>7
  <2> HIDE DEF f, n, r
  <2> QED
    BY <1>1, <1>3, <2>1, <2>4, <2>5, CallingFound
<1> QED
  BY <1>1, <1>3, <1>4, <1>5, <1>6, <1>7, ReturnWalks

LEMMA FollowWalks == ASSUME Searched, Follow PROVE Walked' /\ Shown'
<1> USE DEF Searched
<1>1. stack # <<>> /\ UNCHANGED <<plan, nodeSt>>
  BY DEF Follow, At, Quiet
<1>2. IsVisit(top) /\ Found(top)
  BY <1>1, TopIsVisit, TopFound
<1>3. Shown'
  BY <1>1, ShownStays
<1>4. \/ Return
      \/ \E e \in plan.outs[top.node] :
            \/ Goto([top EXCEPT !.k = e + 1])
            \/ Call([top EXCEPT !.k = e + 1], Visit(plan.scenario.edges[e].to, top.res))
  BY DEF Follow
<1>5. ASSUME NEW e \in plan.outs[top.node],
             \/ Goto([top EXCEPT !.k = e + 1])
             \/ Call([top EXCEPT !.k = e + 1], Visit(plan.scenario.edges[e].to, top.res))
      PROVE  Walked'
  <2> DEFINE f == [top EXCEPT !.k = e + 1]
             n == plan.scenario.edges[e].to
             r == top.res
  <2>1. f.node = top.node /\ f.at = top.at
    BY <1>2, SameNode
  <2>2. top.node \in Reach /\ top.node \in plan.scenario.nodes
    BY <1>2 DEF Found, Reach, Reachable
  <2>3. e \in Outs(plan.scenario, top.node)
    BY <2>2 DEF Charted
  <2>4. n \in Reach
    BY <2>2, <2>3, ReachableProperties DEF Charted, Reach
  <2>5. Goto(f) \/ Call(f, Visit(n, r))
    BY <1>5
  <2> HIDE DEF f, n, r
  <2> QED
    BY <1>1, <2>1, <2>4, <2>5, MovingOn, CallingFound
<1> QED
  BY <1>1, <1>3, <1>4, <1>5, ReturnWalks

\* A run starts at the start node, with the plan of the scenario and an empty canvas.
LEMMA StartWalks == ASSUME Searched, NEW s, Plannable(s), Start(s) PROVE Charted' /\ Walked' /\ Shown'
<1> USE DEF Searched
<1>1. PICK p \in BuildPlan(s) :
         \/ UNCHANGED <<plan, nodeSt, stack>>
         \/ /\ s.start \in s.nodes
            /\ plan' = p
            /\ nodeSt' = NoStates(s.nodes)
            /\ stack' = <<Visit(s.start, Nothing)>>
  BY DEF Start, board, walkVars
<1>2. CASE UNCHANGED <<plan, nodeSt, stack>>
  BY <1>2 DEF Charted, Walked, Found, Reach, Shown, UnreachableNeverRuns
<1>3. CASE /\ s.start \in s.nodes
           /\ plan' = p
           /\ nodeSt' = NoStates(s.nodes)
           /\ stack' = <<Visit(s.start, Nothing)>>
  <2>1. Charted' /\ plan'.scenario = s
    BY <1>3, PlansChart DEF Charted
  <2>2. s.start \in Reach'
    BY <1>3, <2>1, ReachableProperties DEF Reach
  <2>3. Visit(s.start, Nothing).node = s.start /\ Visit(s.start, Nothing).at = "enter"
    BY DEF Visit
  <2>4. \A i \in DOMAIN stack' : stack'[i] = Visit(s.start, Nothing)
    BY <1>3
  <2>5. Walked'
    BY <2>2, <2>3, <2>4 DEF Walked, Found
  <2>6. Shown'
    BY <1>3 DEF Shown, UnreachableNeverRuns, NoStates
  <2> QED
    BY <2>1, <2>5, <2>6
<1> QED
  BY <1>1, <1>2, <1>3

LEMMA RunnerWalks ==
    ASSUME IInv, Charted, Walked, Shown,
           (\E s : Plannable(s) /\ Start(s)) \/ Stop \/ Reset \/ SetStepMode \/ Step \/ SendToken \/ WalkOn
           \/ Request \/ CloseSockets \/ UNCHANGED vars
    PROVE  Charted' /\ Walked' /\ Shown'
<1>1. Searched
  BY DEF IInv, Searched
<1>2. CASE \E s : Plannable(s) /\ Start(s)
  BY <1>1, <1>2, StartWalks
<1>3. CASE UNCHANGED <<plan, stack, nodeSt>>
  BY <1>3 DEF Charted, Walked, Found, Reach, Shown, UnreachableNeverRuns
<1>4. CASE Reset
  <2>1. nodeSt' = NoStates(DOMAIN nodeSt) /\ UNCHANGED <<plan, stack>>
    BY <1>4 DEF Reset, walkVars
  <2>2. Charted' /\ Walked'
    BY <2>1 DEF Charted, Walked, Found, Reach
  <2>3. Shown'
    BY <2>1 DEF Shown, UnreachableNeverRuns, NoStates
  <2> QED
    BY <2>2, <2>3
<1>5. CASE Enter \/ Gate \/ Pause \/ Unpark \/ Resume \/ Judge \/ Request \/ Proceed
  <2>1. UNCHANGED plan
    BY <1>5 DEF Enter, Gate, Pause, Unpark, Resume, Judge, Request, Proceed, Quiet
  <2> QED
    BY <1>1, <1>5, <2>1, StayingWalks DEF Charted
<1>6. CASE Loop
  <2>1. UNCHANGED plan
    BY <1>6 DEF Loop, Quiet
  <2> QED
    BY <1>1, <1>6, <2>1, LoopWalks DEF Charted
<1>7. CASE Follow
  <2>1. UNCHANGED plan
    BY <1>7 DEF Follow, Quiet
  <2> QED
    BY <1>1, <1>7, <2>1, FollowWalks DEF Charted
<1>8. CASE Finish \/ Stop \/ SetStepMode \/ Step \/ SendToken \/ CloseSockets \/ UNCHANGED vars
  BY <1>3, <1>8 DEF Finish, Stop, SetStepMode, Step, SendToken, CloseSockets, vars, board, walkVars
<1> QED
  BY <1>2, <1>4, <1>5, <1>6, <1>7, <1>8 DEF WalkOn

LEMMA FreshWalks ==
    ASSUME NEW s, Plannable(s), plan \in BuildPlan(s), nodeSt = NoStates(plan.scenario.nodes), stack = <<>>
    PROVE  Charted /\ Walked /\ Shown
<1>1. Charted
  BY PlansChart DEF Charted
<1>2. Walked
  <2>1. DOMAIN <<>> = {}
    OBVIOUS
  <2> QED
    BY <2>1 DEF Walked
<1>3. Shown
  BY DEF Shown, UnreachableNeverRuns, NoStates
<1> QED
  BY <1>1, <1>2, <1>3

\* editor.go:466 validateScenario and exec.go:575 visit agree: a node the editor counts as
\* unreachable is never run, whatever the scenario, its loops and its conditions.
THEOREM UnreachableStays == Spec => []UnreachableNeverRuns
<1>1. \A s \in Scenarios : Plannable(s)
  BY ScenariosAssumption DEF Plannable
<1>2. Init => Charted /\ Walked /\ Shown
  <2> SUFFICES ASSUME Init PROVE Charted /\ Walked /\ Shown
    OBVIOUS
  <2>1. PICK s \in Scenarios : plan \in BuildPlan(s)
    BY DEF Init
  <2> QED
    BY <1>1, <2>1, FreshWalks DEF Init
<1>3. IInv /\ Charted /\ Walked /\ Shown /\ [Next]_vars => Charted' /\ Walked' /\ Shown'
  BY <1>1, RunnerWalks DEF Next, User
<1>4. Shown => UnreachableNeverRuns
  BY DEF Shown
<1> QED
  BY <1>2, <1>3, <1>4, Invariance, PTL DEF Spec

-----------------------------------------------------------------------------
(* Lists.                                                                  *)

LEMMA SeqIsList ==
    ASSUME NEW S, NEW q \in Seq(S)
    PROVE  IsList(q) /\ ToSet(q) \subseteq S
<1>1. Len(q) \in Nat /\ DOMAIN q = 1..Len(q) /\ q = [i \in 1..Len(q) |-> q[i]] /\ \A i \in 1..Len(q) : q[i] \in S
  OBVIOUS
<1>2. \A i \in 1..Len(q) : q[i] \in ToSet(q)
  BY <1>1 DEF ToSet
<1>3. q \in Seq(ToSet(q))
  BY <1>1, <1>2
<1>4. ToSet(q) \subseteq S
  BY <1>1 DEF ToSet
<1> QED
  BY <1>3, <1>4 DEF IsList

LEMMA ListFacts ==
    ASSUME NEW q, IsList(q)
    PROVE  /\ q \in Seq(ToSet(q)) /\ Len(q) \in Nat /\ DOMAIN q = 1..Len(q)
           /\ q = [i \in 1..Len(q) |-> q[i]]
           /\ \A i \in 1..Len(q) : q[i] \in ToSet(q)
           /\ \A e \in ToSet(q) : \E i \in 1..Len(q) : e = q[i]
<1>1. q \in Seq(ToSet(q))
  BY DEF IsList
<1>2. Len(q) \in Nat /\ DOMAIN q = 1..Len(q) /\ q = [i \in 1..Len(q) |-> q[i]]
  BY <1>1
<1>3. \A i \in 1..Len(q) : q[i] \in ToSet(q)
  BY <1>2 DEF ToSet
<1>4. \A e \in ToSet(q) : \E i \in 1..Len(q) : e = q[i]
  BY <1>2 DEF ToSet
<1> QED
  BY <1>1, <1>2, <1>3, <1>4

LEMMA EmptyList == IsList(<<>>) /\ ToSet(<<>>) = {}
<1>1. ToSet(<<>>) = {}
  BY DEF ToSet
<1>2. <<>> \in Seq({})
  OBVIOUS
<1> QED
  BY <1>1, <1>2 DEF IsList

LEMMA MappedList ==
    ASSUME NEW n \in Nat, NEW f, f = [i \in 1..n |-> f[i]]
    PROVE  IsList(f) /\ Len(f) = n /\ ToSet(f) = {f[i] : i \in 1..n}
<1>1. f \in Seq({f[i] : i \in 1..n}) /\ DOMAIN f = 1..n
  OBVIOUS
<1> QED
  BY <1>1, SeqIsList DEF ToSet

LEMMA ConcatList ==
    ASSUME NEW p, IsList(p), NEW q, IsList(q)
    PROVE  IsList(p \o q) /\ ToSet(p \o q) = ToSet(p) \cup ToSet(q)
<1> DEFINE S == ToSet(p) \cup ToSet(q)
<1>1. p \in Seq(S) /\ q \in Seq(S)
  BY DEF IsList
<1>2. /\ p \o q \in Seq(S) /\ Len(p \o q) = Len(p) + Len(q) /\ Len(p) \in Nat /\ Len(q) \in Nat
      /\ \A i \in 1..Len(p) : (p \o q)[i] = p[i]
      /\ \A i \in 1..Len(q) : (p \o q)[Len(p) + i] = q[i]
  BY <1>1
<1>3. IsList(p \o q) /\ ToSet(p \o q) \subseteq S
  BY <1>2, SeqIsList
<1>4. PICK r : r = p \o q
  OBVIOUS
<1>5. \A i \in 1..Len(p) : p[i] \in ToSet(r)
  <2>1. ASSUME NEW i \in 1..Len(p) PROVE p[i] \in ToSet(r)
    <3>1. i \in 1..Len(r) /\ r[i] = p[i]
      BY <1>2, <1>4
    <3> QED
      BY <3>1, <1>3, <1>4, ListFacts
  <2> QED
    BY <2>1
<1>6. \A i \in 1..Len(q) : q[i] \in ToSet(r)
  <2>1. ASSUME NEW i \in 1..Len(q) PROVE q[i] \in ToSet(r)
    <3>1. Len(p) + i \in 1..Len(r) /\ r[Len(p) + i] = q[i]
      BY <1>2, <1>4
    <3> QED
      BY <3>1, <1>3, <1>4, ListFacts
  <2> QED
    BY <2>1
<1>7. S \subseteq ToSet(r)
  BY <1>5, <1>6, ListFacts
<1> QED
  BY <1>3, <1>4, <1>7

LEMMA AppendList ==
    ASSUME NEW q, IsList(q), NEW e
    PROVE  /\ IsList(Append(q, e)) /\ ToSet(Append(q, e)) = ToSet(q) \cup {e}
           /\ Append(q, e) # <<>> /\ Last(Append(q, e)) = e /\ Len(Append(q, e)) = Len(q) + 1
<1> DEFINE S == ToSet(q) \cup {e}
<1>1. q \in Seq(S) /\ e \in S
  BY DEF IsList
<1>2. PICK r : r = Append(q, e)
  OBVIOUS
<1>3. /\ r \in Seq(S) /\ Len(r) = Len(q) + 1 /\ Len(q) \in Nat
      /\ \A i \in 1..Len(q) : r[i] = q[i]
      /\ r[Len(q) + 1] = e
  BY <1>1, <1>2, AppendProperties
<1>4. IsList(r) /\ ToSet(r) \subseteq S
  BY <1>3, SeqIsList
<1>5. \A i \in 1..Len(q) : q[i] \in ToSet(r)
  <2>1. ASSUME NEW i \in 1..Len(q) PROVE q[i] \in ToSet(r)
    <3>1. i \in 1..Len(r) /\ r[i] = q[i]
      BY <1>3
    <3> QED
      BY <3>1, <1>4, ListFacts
  <2> QED
    BY <2>1
<1>6. e \in ToSet(r)
  <2>1. Len(q) + 1 \in 1..Len(r)
    BY <1>3
  <2> QED
    BY <2>1, <1>3, <1>4, ListFacts
<1>7. ToSet(r) = S
  <2>1. \A x \in ToSet(q) : x \in ToSet(r)
    BY <1>5, ListFacts
  <2> QED
    BY <2>1, <1>4, <1>6
<1>8. r # <<>> /\ Last(r) = e
  BY <1>3 DEF Last
<1> QED
  BY <1>2, <1>3, <1>4, <1>7, <1>8

LEMMA TailList ==
    ASSUME NEW q, IsList(q), Len(q) > 1
    PROVE  IsList(Tail(q)) /\ ToSet(Tail(q)) \subseteq ToSet(q) /\ Tail(q) # <<>> /\ Last(Tail(q)) = Last(q)
<1>1. PICK r : r = Tail(q)
  OBVIOUS
<1>2. q \in Seq(ToSet(q)) /\ Len(q) \in Nat /\ q # <<>>
  BY ListFacts
<1>3. r \in Seq(ToSet(q)) /\ Len(r) = Len(q) - 1 /\ \A i \in 1..(Len(q) - 1) : r[i] = q[i + 1]
  BY <1>1, <1>2, HeadTailProperties
<1>4. r # <<>> /\ Last(r) = Last(q)
  <2>1. r[Len(q) - 1] = q[(Len(q) - 1) + 1] /\ (Len(q) - 1) + 1 = Len(q)
    BY <1>2, <1>3
  <2> QED
    BY <2>1, <1>2, <1>3 DEF Last
<1> QED
  BY <1>1, <1>3, <1>4, SeqIsList

LEMMA FrontList ==
    ASSUME NEW q, IsList(q), NEW n \in 0..Len(q)
    PROVE  IsList(SubSeq(q, 1, n)) /\ ToSet(SubSeq(q, 1, n)) \subseteq ToSet(q)
<1>1. Len(q) \in Nat /\ n \in Int /\ \A i \in 1..n : q[i] \in ToSet(q)
  BY ListFacts
<1>2. SubSeq(q, 1, n) \in Seq(ToSet(q))
  BY <1>1, SubSeqProperties
<1> QED
  BY <1>2, SeqIsList

LEMMA RemoveAtList ==
    ASSUME NEW q, IsList(q), NEW i \in 1..Len(q)
    PROVE  IsList(RemoveAt(q, i)) /\ ToSet(RemoveAt(q, i)) \cup {q[i]} = ToSet(q)
<1>1. q \in Seq(ToSet(q)) /\ Len(q) \in Nat
  BY ListFacts
<1>2. PICK r : r = RemoveAt(q, i)
  OBVIOUS
<1>3. /\ r \in Seq(ToSet(q)) /\ Len(r) = Len(q) - 1
      /\ \A k \in 1..(Len(q) - 1) : r[k] = IF k < i THEN q[k] ELSE q[k + 1]
  BY <1>1, <1>2, RemoveAtProperties
<1>4. IsList(r) /\ ToSet(r) \subseteq ToSet(q)
  BY <1>3, SeqIsList
<1>5. ASSUME NEW j \in 1..Len(q), j # i PROVE q[j] \in ToSet(r)
  <2>1. CASE j < i
    <3>1. j \in 1..Len(r) /\ r[j] = q[j]
      BY <1>1, <1>3, <2>1
    <3> QED
      BY <3>1, <1>4, ListFacts
  <2>2. CASE j > i
    <3>1. j - 1 \in 1..Len(r) /\ ~(j - 1 < i) /\ (j - 1) + 1 = j
      BY <1>1, <1>3, <2>2
    <3>2. r[j - 1] = q[j]
      BY <1>3, <3>1
    <3> QED
      BY <3>1, <3>2, <1>4, ListFacts
  <2> QED
    BY <1>1, <1>5, <2>1, <2>2
<1>6. \A e \in ToSet(q) : e = q[i] \/ e \in ToSet(r)
  BY <1>5, ListFacts
<1>7. q[i] \in ToSet(q)
  BY ListFacts
<1> QED
  BY <1>2, <1>4, <1>6, <1>7

\* A selection is made element by element.
LEMMA SelectionSteps ==
    ASSUME NEW q, IsList(q), NEW S
    PROVE  \E T : /\ T[0] = <<>> /\ Selected(q, S) = T[Len(q)]
                  /\ \A n \in 1..Len(q) : T[n] = IF q[n] \in S THEN Append(T[n - 1], q[n]) ELSE T[n - 1]
<1> DEFINE Body(T, n) == IF n = 0 THEN <<>> ELSE IF q[n] \in S THEN Append(T[n - 1], q[n]) ELSE T[n - 1]
<1>1. PICK T : T = [n \in 0..Len(q) |-> Body(T, n)] /\ Selected(q, S) = T[Len(q)]
  <2> DEFINE U == CHOOSE T : T = [n \in 0..Len(q) |-> Body(T, n)]
  <2>1. Selected(q, S) = U[Len(q)]
    BY DEF Selected
  <2>2. U = [n \in 0..Len(q) |-> Body(U, n)]
    <3>1. \E T : T = [n \in 0..Len(q) |-> Body(T, n)]
      <4>1. Len(q) \in Nat
        BY ListFacts
      <4> QED
        BY <4>1, SelectionExists
    <3> HIDE DEF Body
    <3> QED
      BY <3>1
  <2> HIDE DEF U
  <2>3. \E T : T = [n \in 0..Len(q) |-> Body(T, n)] /\ Selected(q, S) = T[Len(q)]
    BY <2>1, <2>2
  <2> HIDE DEF Body
  <2> QED
    BY ONLY <2>3
<1>2. T[0] = <<>> /\ \A n \in 1..Len(q) : T[n] = IF q[n] \in S THEN Append(T[n - 1], q[n]) ELSE T[n - 1]
  <2>1. 0 \in 0..Len(q) /\ \A n \in 1..Len(q) : n \in 0..Len(q) /\ n # 0
    BY ListFacts
  <2>2. \A n \in 0..Len(q) : T[n] = Body(T, n)
    <3> HIDE DEF Body
    <3> QED
      BY <1>1
  <2> QED
    BY <2>1, <2>2
<1> QED
  BY <1>1, <1>2

\* A selection has the elements of the list that are in the set.
LEMMA SelectedList ==
    ASSUME NEW q, IsList(q), NEW S
    PROVE  IsList(Selected(q, S)) /\ ToSet(Selected(q, S)) = ToSet(q) \cap S
<1>1. PICK T : /\ T[0] = <<>> /\ Selected(q, S) = T[Len(q)]
               /\ \A n \in 1..Len(q) : T[n] = IF q[n] \in S THEN Append(T[n - 1], q[n]) ELSE T[n - 1]
  BY SelectionSteps
<1> DEFINE Part(n) == {q[i] : i \in 1..n} \cap S
           Done == {n \in Nat : n <= Len(q) => IsList(T[n]) /\ ToSet(T[n]) = Part(n)}
<1>3. 0 \in Done
  BY <1>1, EmptyList
<1>4. ASSUME NEW n \in Nat, n \in Done PROVE n + 1 \in Done
  <2>1. SUFFICES ASSUME n + 1 <= Len(q)
                 PROVE  IsList(T[n + 1]) /\ ToSet(T[n + 1]) = Part(n + 1)
    BY DEF Done
  <2>2. n + 1 \in 1..Len(q) /\ (n + 1) - 1 = n
    BY <2>1, ListFacts
  <2>3. T[n + 1] = IF q[n + 1] \in S THEN Append(T[n], q[n + 1]) ELSE T[n]
    BY <2>2, <1>1
  <2>4. IsList(T[n]) /\ ToSet(T[n]) = Part(n)
    BY <1>4, <2>2, ListFacts
  <2>5. Part(n + 1) = IF q[n + 1] \in S THEN Part(n) \cup {q[n + 1]} ELSE Part(n)
    <3>1. 1..(n + 1) = 1..n \cup {n + 1}
      OBVIOUS
    <3>2. {q[i] : i \in 1..(n + 1)} = {q[i] : i \in 1..n} \cup {q[n + 1]}
      BY <3>1
    <3> QED
      BY <3>2
  <2> QED
    BY <2>3, <2>4, <2>5, AppendList
<1>5. Len(q) \in Done
  <2> HIDE DEF Done
  <2>1. Nat \subseteq Done
    BY <1>3, <1>4, Induction
  <2> QED
    BY <2>1, ListFacts
<1>6. IsList(T[Len(q)]) /\ ToSet(T[Len(q)]) = Part(Len(q))
  BY <1>5, ListFacts
<1>7. {q[i] : i \in 1..Len(q)} = ToSet(q)
  BY ListFacts DEF ToSet
<1> QED
  BY <1>1, <1>6, <1>7

LEMMA PickedList ==
    ASSUME NEW q, IsList(q), NEW P
    PROVE  IsList(Picked(q, P)) /\ ToSet(Picked(q, P)) = {q[i] : i \in P \cap DOMAIN q}
<1>1. Len(q) \in Nat /\ DOMAIN q = 1..Len(q)
  BY ListFacts
<1>2. PICK n : n = [i \in DOMAIN q |-> i]
  OBVIOUS
<1>3. IsList(n) /\ ToSet(n) = DOMAIN q
  <2>1. n = [i \in 1..Len(q) |-> n[i]] /\ \A i \in 1..Len(q) : n[i] = i
    BY <1>1, <1>2
  <2>2. IsList(n) /\ ToSet(n) = {n[i] : i \in 1..Len(q)}
    BY <1>1, <2>1, MappedList
  <2> QED
    <3>1. \A i \in 1..Len(q) : i \in {n[j] : j \in 1..Len(q)}
      BY <2>1
    <3>2. \A x \in {n[j] : j \in 1..Len(q)} : x \in 1..Len(q)
      BY <2>1
    <3> QED
      BY <1>1, <2>2, <3>1, <3>2
<1>4. PICK k : k = Selected(n, P)
  OBVIOUS
<1>5. IsList(k) /\ ToSet(k) = P \cap DOMAIN q
  BY <1>3, <1>4, SelectedList
<1>6. PICK r : r = [i \in DOMAIN k |-> q[k[i]]]
  OBVIOUS
<1>7. Len(k) \in Nat /\ DOMAIN k = 1..Len(k)
  BY <1>5, ListFacts
<1>8. IsList(r) /\ ToSet(r) = {r[i] : i \in 1..Len(k)}
  <2>1. r = [i \in 1..Len(k) |-> r[i]]
    BY <1>6, <1>7
  <2> QED
    BY <1>7, <2>1, MappedList
<1>9. {r[i] : i \in 1..Len(k)} = {q[i] : i \in ToSet(k)}
  <2>1. \A i \in 1..Len(k) : k[i] \in ToSet(k) /\ r[i] = q[k[i]]
    BY <1>5, <1>6, <1>7, ListFacts
  <2>2. \A e \in ToSet(k) : \E i \in 1..Len(k) : e = k[i]
    BY <1>5, ListFacts
  <2> QED
    BY <2>1, <2>2
<1>10. r = Picked(q, P)
  BY <1>2, <1>4, <1>6 DEF Picked
<1> QED
  BY <1>5, <1>8, <1>9, <1>10

-----------------------------------------------------------------------------
(* Lists of nodes and arrows, and scenarios.                               *)

LEMMA NodeLists ==
    /\ NodeList(<<>>)
    /\ \A p, q : NodeList(p) /\ NodeList(q) => NodeList(p \o q)
    /\ \A q, n : NodeList(q) /\ IsNode(n) => NodeList(Append(q, n)) /\ NodeList(<<n>>)
    /\ \A q, S : NodeList(q) => NodeList(Selected(q, S))
    /\ \A q : \A i \in DOMAIN q : NodeList(q) => IsNode(q[i]) /\ NodeList(RemoveAt(q, i))
    /\ \A q : \A i \in DOMAIN q : \A n : NodeList(q) /\ IsNode(n) => NodeList([q EXCEPT ![i] = n])
<1>1. NodeList(<<>>)
  BY EmptyList DEF NodeList
<1>2. ASSUME NEW p, NEW q, NodeList(p), NodeList(q) PROVE NodeList(p \o q)
  BY <1>2, ConcatList DEF NodeList
<1>3. ASSUME NEW q, NEW n, NodeList(q), IsNode(n) PROVE NodeList(Append(q, n)) /\ NodeList(<<n>>)
  <2>1. NodeList(Append(q, n))
    BY <1>3, AppendList DEF NodeList
  <2>2. PICK none : none = <<>>
    OBVIOUS
  <2>3. <<n>> = Append(none, n)
    BY <2>2
  <2>4. IsList(none) /\ ToSet(none) = {}
    BY <2>2, EmptyList
  <2>5. NodeList(<<n>>)
    <3>1. PICK r : r = Append(none, n)
      OBVIOUS
    <3>2. IsList(r) /\ ToSet(r) = {n}
      BY <2>4, <3>1, AppendList
    <3>3. \A m \in ToSet(r) : IsNode(m)
      BY <1>3, <3>2
    <3> QED
      BY <2>3, <3>1, <3>2, <3>3 DEF NodeList
  <2> QED
    BY <2>1, <2>5
<1>4. ASSUME NEW q, NEW S, NodeList(q) PROVE NodeList(Selected(q, S))
  BY <1>4, SelectedList DEF NodeList
<1>5. ASSUME NEW q, NEW i \in DOMAIN q, NodeList(q) PROVE IsNode(q[i]) /\ NodeList(RemoveAt(q, i))
  <2>1. IsList(q) /\ i \in 1..Len(q) /\ q[i] \in ToSet(q)
    BY <1>5, ListFacts DEF NodeList
  <2> QED
    BY <1>5, <2>1, RemoveAtList DEF NodeList
<1>6. ASSUME NEW q, NEW i \in DOMAIN q, NEW n, NodeList(q), IsNode(n) PROVE NodeList([q EXCEPT ![i] = n])
  <2>1. IsList(q) /\ DOMAIN q = 1..Len(q) /\ Len(q) \in Nat /\ \A j \in 1..Len(q) : q[j] \in ToSet(q)
    BY <1>6, ListFacts DEF NodeList
  <2>2. PICK r : r = [q EXCEPT ![i] = n]
    OBVIOUS
  <2>3. r = [j \in 1..Len(q) |-> r[j]] /\ \A j \in 1..Len(q) : r[j] = n \/ r[j] \in ToSet(q)
    BY <2>1, <2>2
  <2>4. IsList(r) /\ ToSet(r) = {r[j] : j \in 1..Len(q)}
    BY <2>1, <2>3, MappedList
  <2>5. \A m \in ToSet(r) : IsNode(m)
    BY <1>6, <2>3, <2>4 DEF NodeList
  <2> QED
    BY <2>2, <2>4, <2>5 DEF NodeList
<1> QED
  BY <1>1, <1>2, <1>3, <1>4, <1>5, <1>6

LEMMA EdgeLists ==
    /\ EdgeList(<<>>)
    /\ \A p, q : EdgeList(p) /\ EdgeList(q) => EdgeList(p \o q)
    /\ \A q, e : EdgeList(q) /\ IsEdge(e) => EdgeList(Append(q, e)) /\ EdgeList(<<e>>)
    /\ \A q, S : EdgeList(q) => EdgeList(Selected(q, S))
    /\ \A q : \A i \in DOMAIN q : EdgeList(q) => IsEdge(q[i]) /\ EdgeList(RemoveAt(q, i))
    /\ \A q : \A i \in DOMAIN q : \A e : EdgeList(q) /\ IsEdge(e) => EdgeList([q EXCEPT ![i] = e])
<1>1. EdgeList(<<>>)
  BY EmptyList DEF EdgeList
<1>2. ASSUME NEW p, NEW q, EdgeList(p), EdgeList(q) PROVE EdgeList(p \o q)
  BY <1>2, ConcatList DEF EdgeList
<1>3. ASSUME NEW q, NEW e, EdgeList(q), IsEdge(e) PROVE EdgeList(Append(q, e)) /\ EdgeList(<<e>>)
  <2>1. EdgeList(Append(q, e))
    BY <1>3, AppendList DEF EdgeList
  <2>2. PICK none : none = <<>>
    OBVIOUS
  <2>3. <<e>> = Append(none, e)
    BY <2>2
  <2>4. IsList(none) /\ ToSet(none) = {}
    BY <2>2, EmptyList
  <2>5. EdgeList(<<e>>)
    <3>1. PICK r : r = Append(none, e)
      OBVIOUS
    <3>2. IsList(r) /\ ToSet(r) = {e}
      BY <2>4, <3>1, AppendList
    <3>3. \A m \in ToSet(r) : IsEdge(m)
      BY <1>3, <3>2
    <3> QED
      BY <2>3, <3>1, <3>2, <3>3 DEF EdgeList
  <2> QED
    BY <2>1, <2>5
<1>4. ASSUME NEW q, NEW S, EdgeList(q) PROVE EdgeList(Selected(q, S))
  BY <1>4, SelectedList DEF EdgeList
<1>5. ASSUME NEW q, NEW i \in DOMAIN q, EdgeList(q) PROVE IsEdge(q[i]) /\ EdgeList(RemoveAt(q, i))
  <2>1. IsList(q) /\ i \in 1..Len(q) /\ q[i] \in ToSet(q)
    BY <1>5, ListFacts DEF EdgeList
  <2> QED
    BY <1>5, <2>1, RemoveAtList DEF EdgeList
<1>6. ASSUME NEW q, NEW i \in DOMAIN q, NEW e, EdgeList(q), IsEdge(e) PROVE EdgeList([q EXCEPT ![i] = e])
  <2>1. IsList(q) /\ DOMAIN q = 1..Len(q) /\ Len(q) \in Nat /\ \A j \in 1..Len(q) : q[j] \in ToSet(q)
    BY <1>6, ListFacts DEF EdgeList
  <2>2. PICK r : r = [q EXCEPT ![i] = e]
    OBVIOUS
  <2>3. r = [j \in 1..Len(q) |-> r[j]] /\ \A j \in 1..Len(q) : r[j] = e \/ r[j] \in ToSet(q)
    BY <2>1, <2>2
  <2>4. IsList(r) /\ ToSet(r) = {r[j] : j \in 1..Len(q)}
    BY <2>1, <2>3, MappedList
  <2>5. \A m \in ToSet(r) : IsEdge(m)
    BY <1>6, <2>3, <2>4 DEF EdgeList
  <2> QED
    BY <2>2, <2>4, <2>5 DEF EdgeList
<1> QED
  BY <1>1, <1>2, <1>3, <1>4, <1>5, <1>6

\* A list that is made element by element.
LEMMA MadeNodes ==
    ASSUME NEW q, IsList(q), NEW f, f = [i \in DOMAIN q |-> f[i]], \A i \in DOMAIN q : IsNode(f[i])
    PROVE  NodeList(f)
<1>1. Len(q) \in Nat /\ DOMAIN q = 1..Len(q)
  BY ListFacts
<1>2. IsList(f) /\ ToSet(f) = {f[i] : i \in 1..Len(q)}
  BY <1>1, MappedList
<1> QED
  BY <1>1, <1>2 DEF NodeList

LEMMA MadeEdges ==
    ASSUME NEW q, IsList(q), NEW f, f = [i \in DOMAIN q |-> f[i]], \A i \in DOMAIN q : IsEdge(f[i])
    PROVE  EdgeList(f)
<1>1. Len(q) \in Nat /\ DOMAIN q = 1..Len(q)
  BY ListFacts
<1>2. IsList(f) /\ ToSet(f) = {f[i] : i \in 1..Len(q)}
  BY <1>1, MappedList
<1> QED
  BY <1>1, <1>2 DEF EdgeList

LEMMA NewShapes ==
    /\ \A id, kind0, x, y : IsNode(NewNode(id, kind0, x, y))
    /\ \A id, from, to : IsEdge(NewEdge(id, from, to))
<1>1. ASSUME NEW id, NEW kind0, NEW x, NEW y PROVE IsNode(NewNode(id, kind0, x, y))
  BY DEF IsNode, NewNode
<1>2. ASSUME NEW id, NEW from, NEW to PROVE IsEdge(NewEdge(id, from, to))
  BY DEF IsEdge, NewEdge
<1> QED
  BY <1>1, <1>2

\* The first one with an id is the only choice.
LEMMA IndexFound ==
    ASSUME NEW q, IsList(q), NEW id \in IdsOf(q)
    PROVE  IndexOf(q, id) \in DOMAIN q /\ q[IndexOf(q, id)].id = id
<1>1. DOMAIN q = 1..Len(q) /\ Len(q) \in Nat
  BY ListFacts
<1> DEFINE T == {i \in DOMAIN q : q[i].id = id}
<1>2. T \subseteq Nat /\ T # {}
  BY <1>1 DEF IdsOf
<1>3. PICK m \in T : \A k \in T : m <= k
  <2> HIDE DEF T
  <2> QED
    BY <1>2, Least
<1>4. \A j \in 1..(m - 1) : q[j].id # id
  BY <1>1, <1>3
<1>5. \E i \in DOMAIN q : q[i].id = id /\ \A j \in 1..(i - 1) : q[j].id # id
  BY <1>3, <1>4
<1> QED
  BY <1>5 DEF IndexOf

LEMMA FoundNode ==
    ASSUME NEW q, NodeList(q), NEW id \in IdsOf(q)
    PROVE  IsNode(ById(q, id)) /\ ById(q, id).id = id
  BY IndexFound, NodeLists DEF ById, NodeList

LEMMA FoundEdge ==
    ASSUME NEW q, EdgeList(q), NEW id \in IdsOf(q)
    PROVE  IsEdge(ById(q, id)) /\ ById(q, id).id = id
  BY IndexFound, EdgeLists DEF ById, EdgeList

\* Changing one member of a scenario leaves the others.
LEMMA SceneWith ==
    ASSUME NEW s, IsScene(s), NEW x
    PROVE  /\ [s EXCEPT !.view = x] = [id |-> s.id, name |-> s.name, nodes |-> s.nodes, edges |-> s.edges, view |-> x]
           /\ [s EXCEPT !.name = x] = [id |-> s.id, name |-> x, nodes |-> s.nodes, edges |-> s.edges, view |-> s.view]
           /\ [s EXCEPT !.id = x] = [id |-> x, name |-> s.name, nodes |-> s.nodes, edges |-> s.edges, view |-> s.view]
           /\ [s EXCEPT !.nodes = x] = [id |-> s.id, name |-> s.name, nodes |-> x, edges |-> s.edges, view |-> s.view]
           /\ [s EXCEPT !.edges = x] = [id |-> s.id, name |-> s.name, nodes |-> s.nodes, edges |-> x, view |-> s.view]
<1>1. s = [id |-> s.id, name |-> s.name, nodes |-> s.nodes, edges |-> s.edges, view |-> s.view]
  BY DEF IsScene
<1> QED
  BY <1>1

LEMMA SceneMade ==
    ASSUME NEW id, NEW name, NEW nodes, NodeList(nodes), NEW edges, EdgeList(edges), NEW v
    PROVE  IsScene([id |-> id, name |-> name, nodes |-> nodes, edges |-> edges, view |-> v])
  BY DEF IsScene

LEMMA SceneKept ==
    ASSUME NEW s, IsScene(s), NEW x
    PROVE  /\ IsScene([s EXCEPT !.view = x]) /\ IsScene([s EXCEPT !.name = x]) /\ IsScene([s EXCEPT !.id = x])
           /\ NodeList(x) => IsScene([s EXCEPT !.nodes = x])
           /\ EdgeList(x) => IsScene([s EXCEPT !.edges = x])
<1>1. NodeList(s.nodes) /\ EdgeList(s.edges)
  BY DEF IsScene
<1>2. IsScene([s EXCEPT !.view = x])
  <2>1. [s EXCEPT !.view = x] = [id |-> s.id, name |-> s.name, nodes |-> s.nodes, edges |-> s.edges, view |-> x]
    BY SceneWith
  <2>2. IsScene([id |-> s.id, name |-> s.name, nodes |-> s.nodes, edges |-> s.edges, view |-> x])
    BY <1>1, SceneMade
  <2> QED
    BY <2>1, <2>2
<1>3. IsScene([s EXCEPT !.name = x])
  <2>1. [s EXCEPT !.name = x] = [id |-> s.id, name |-> x, nodes |-> s.nodes, edges |-> s.edges, view |-> s.view]
    BY SceneWith
  <2>2. IsScene([id |-> s.id, name |-> x, nodes |-> s.nodes, edges |-> s.edges, view |-> s.view])
    BY <1>1, SceneMade
  <2> QED
    BY <2>1, <2>2
<1>4. IsScene([s EXCEPT !.id = x])
  <2>1. [s EXCEPT !.id = x] = [id |-> x, name |-> s.name, nodes |-> s.nodes, edges |-> s.edges, view |-> s.view]
    BY SceneWith
  <2>2. IsScene([id |-> x, name |-> s.name, nodes |-> s.nodes, edges |-> s.edges, view |-> s.view])
    BY <1>1, SceneMade
  <2> QED
    BY <2>1, <2>2
<1>5. ASSUME NodeList(x) PROVE IsScene([s EXCEPT !.nodes = x])
  <2>1. [s EXCEPT !.nodes = x] = [id |-> s.id, name |-> s.name, nodes |-> x, edges |-> s.edges, view |-> s.view]
    BY SceneWith
  <2>2. IsScene([id |-> s.id, name |-> s.name, nodes |-> x, edges |-> s.edges, view |-> s.view])
    BY <1>1, <1>5, SceneMade
  <2> QED
    BY <2>1, <2>2
<1>6. ASSUME EdgeList(x) PROVE IsScene([s EXCEPT !.edges = x])
  <2>1. [s EXCEPT !.edges = x] = [id |-> s.id, name |-> s.name, nodes |-> s.nodes, edges |-> x, view |-> s.view]
    BY SceneWith
  <2>2. IsScene([id |-> s.id, name |-> s.name, nodes |-> s.nodes, edges |-> x, view |-> s.view])
    BY <1>1, <1>6, SceneMade
  <2> QED
    BY <2>1, <2>2
<1> QED
  BY <1>2, <1>3, <1>4, <1>5, <1>6

LEMMA NodeShapes ==
    /\ \A n, new : IsNode(n) => IsNode(NodeFromDTO(n, new))
    /\ \A n, dx, dy : IsNode(n) => IsNode(Moved(n, dx, dy))
    /\ \A n, x : IsNode(n) => IsNode([n EXCEPT !.id = x]) /\ IsNode([n EXCEPT !.f = x])
    /\ \A n, x, w, y, h : IsNode(n) => IsNode([n EXCEPT !.x = x, !.w = w, !.y = y, !.h = h])
    /\ \A n, w, h : IsNode(n) => IsNode([n EXCEPT !.w = w, !.h = h])
<1>1. ASSUME NEW n, NEW new, IsNode(n) PROVE IsNode(NodeFromDTO(n, new))
  <2>1. PICK a, b : a = (IF n.id = NoId THEN new ELSE n.id) /\ b = WithDefaults(n.f, Only(DefaultFields(n.kind), KeptDefaults))
    OBVIOUS
  <2>2. NodeFromDTO(n, new) = [n EXCEPT !.id = a, !.f = b]
    BY <2>1 DEF NodeFromDTO
  <2>3. n = [id |-> n.id, kind |-> n.kind, x |-> n.x, y |-> n.y, w |-> n.w, h |-> n.h, f |-> n.f]
    BY <1>1 DEF IsNode
  <2>4. NodeFromDTO(n, new) = [id |-> a, kind |-> n.kind, x |-> n.x, y |-> n.y, w |-> n.w, h |-> n.h, f |-> b]
    BY <2>2, <2>3
  <2> QED
    BY <2>4 DEF IsNode
<1>2. ASSUME NEW n, NEW dx, NEW dy, IsNode(n) PROVE IsNode(Moved(n, dx, dy))
  <2>1. PICK a, b : a = n.x + dx /\ b = n.y + dy
    OBVIOUS
  <2>2. Moved(n, dx, dy) = [n EXCEPT !.x = a, !.y = b]
    BY <2>1 DEF Moved
  <2>3. n = [id |-> n.id, kind |-> n.kind, x |-> n.x, y |-> n.y, w |-> n.w, h |-> n.h, f |-> n.f]
    BY <1>2 DEF IsNode
  <2>4. Moved(n, dx, dy) = [id |-> n.id, kind |-> n.kind, x |-> a, y |-> b, w |-> n.w, h |-> n.h, f |-> n.f]
    BY <2>2, <2>3
  <2> QED
    BY <2>4 DEF IsNode
<1>3. ASSUME NEW n, NEW x, IsNode(n) PROVE IsNode([n EXCEPT !.id = x]) /\ IsNode([n EXCEPT !.f = x])
  BY <1>3 DEF IsNode
<1>4. ASSUME NEW n, NEW x, NEW w, NEW y, NEW h, IsNode(n)
      PROVE  IsNode([n EXCEPT !.x = x, !.w = w, !.y = y, !.h = h])
  <2>1. n = [id |-> n.id, kind |-> n.kind, x |-> n.x, y |-> n.y, w |-> n.w, h |-> n.h, f |-> n.f]
    BY <1>4 DEF IsNode
  <2>2. PICK m : m = [n EXCEPT !.x = x, !.w = w, !.y = y, !.h = h]
    OBVIOUS
  <2>3. m = [id |-> n.id, kind |-> n.kind, x |-> x, y |-> y, w |-> w, h |-> h, f |-> n.f]
    BY <2>1, <2>2
  <2> QED
    BY <2>2, <2>3 DEF IsNode
<1>5. ASSUME NEW n, NEW w, NEW h, IsNode(n) PROVE IsNode([n EXCEPT !.w = w, !.h = h])
  <2>1. n = [id |-> n.id, kind |-> n.kind, x |-> n.x, y |-> n.y, w |-> n.w, h |-> n.h, f |-> n.f]
    BY <1>5 DEF IsNode
  <2>2. PICK m : m = [n EXCEPT !.w = w, !.h = h]
    OBVIOUS
  <2>3. m = [id |-> n.id, kind |-> n.kind, x |-> n.x, y |-> n.y, w |-> w, h |-> h, f |-> n.f]
    BY <2>1, <2>2
  <2> QED
    BY <2>2, <2>3 DEF IsNode
<1> QED
  BY <1>1, <1>2, <1>3, <1>4, <1>5

LEMMA EdgeShapes ==
    /\ \A e, new : IsEdge(e) => IsEdge(EdgeFromDTO(e, new))
    /\ \A e, x : IsEdge(e) => /\ IsEdge([e EXCEPT !.to = x]) /\ IsEdge([e EXCEPT !.from = x])
                              /\ IsEdge([e EXCEPT !.cond = x]) /\ IsEdge([e EXCEPT !.f = x])
    /\ \A e, x, y, z : IsEdge(e) => IsEdge([e EXCEPT !.id = x, !.from = y, !.to = z])
<1>1. ASSUME NEW e, NEW new, IsEdge(e) PROVE IsEdge(EdgeFromDTO(e, new))
  <2>1. PICK a, b : a = (IF e.id = NoId THEN new ELSE e.id) /\ b = WithDefaults(e.f, [op |-> ">", count |-> "0"])
    OBVIOUS
  <2>2. EdgeFromDTO(e, new) = [e EXCEPT !.id = a, !.f = b]
    BY <2>1 DEF EdgeFromDTO
  <2>3. e = [id |-> e.id, from |-> e.from, to |-> e.to, cond |-> e.cond, f |-> e.f]
    BY <1>1 DEF IsEdge
  <2>4. EdgeFromDTO(e, new) = [id |-> a, from |-> e.from, to |-> e.to, cond |-> e.cond, f |-> b]
    BY <2>2, <2>3
  <2> QED
    BY <2>4 DEF IsEdge
<1>2. ASSUME NEW e, NEW x, IsEdge(e)
      PROVE  /\ IsEdge([e EXCEPT !.to = x]) /\ IsEdge([e EXCEPT !.from = x])
             /\ IsEdge([e EXCEPT !.cond = x]) /\ IsEdge([e EXCEPT !.f = x])
  BY <1>2 DEF IsEdge
<1>3. ASSUME NEW e, NEW x, NEW y, NEW z, IsEdge(e) PROVE IsEdge([e EXCEPT !.id = x, !.from = y, !.to = z])
  <2>1. e = [id |-> e.id, from |-> e.from, to |-> e.to, cond |-> e.cond, f |-> e.f]
    BY <1>3 DEF IsEdge
  <2>2. PICK m : m = [e EXCEPT !.id = x, !.from = y, !.to = z]
    OBVIOUS
  <2>3. m = [id |-> x, from |-> y, to |-> z, cond |-> e.cond, f |-> e.f]
    BY <2>1, <2>2
  <2> QED
    BY <2>2, <2>3 DEF IsEdge
<1> QED
  BY <1>1, <1>2, <1>3

LEMMA EncodeScene == ASSUME NEW s, IsScene(s) PROVE IsScene(Encode(s))
  BY SceneWith, SceneMade DEF Encode, IsScene

LEMMA NewScene == ASSUME NEW id PROVE IsScene(NewScenario(id))
<1>1. NodeList(<<NewNode(id + 1, "start", 80, 200)>>) /\ EdgeList(<<>>)
  BY NewShapes, NodeLists, EdgeLists
<1> QED
  BY <1>1, SceneMade DEF NewScenario

LEMMA SceneFromDTO ==
    ASSUME NEW dto, IsScene(dto), NEW new
    PROVE  IsScene(ScenarioFromDTO(dto, new))
<1>1. NodeList(dto.nodes) /\ EdgeList(dto.edges)
  BY DEF IsScene
<1>2. ASSUME NEW base PROVE NodeList(NodesFromDTO(dto.nodes, base))
  <2>1. \A i \in DOMAIN dto.nodes : IsNode(NodeFromDTO(dto.nodes[i], base + i))
    BY <1>1, NodeLists, NodeShapes
  <2>2. PICK f : f = NodesFromDTO(dto.nodes, base)
    OBVIOUS
  <2>3. f = [i \in DOMAIN dto.nodes |-> f[i]] /\ \A i \in DOMAIN dto.nodes : f[i] = NodeFromDTO(dto.nodes[i], base + i)
    BY <2>2 DEF NodesFromDTO
  <2> QED
    BY <2>1, <2>2, <2>3, <1>1, MadeNodes DEF NodeList
<1>3. ASSUME NEW known, NEW base PROVE EdgeList(EdgesFromDTO(dto.edges, known, base))
  <2>1. PICK joined : joined = Selected(dto.edges, Joining(dto.edges, known))
    OBVIOUS
  <2>2. EdgeList(joined)
    BY <2>1, <1>1, EdgeLists
  <2>3. \A i \in DOMAIN joined : IsEdge(EdgeFromDTO(joined[i], base + i))
    BY <2>2, EdgeLists, EdgeShapes
  <2>4. PICK f : f = EdgesFromDTO(dto.edges, known, base)
    OBVIOUS
  <2>5. f = [i \in DOMAIN joined |-> f[i]] /\ \A i \in DOMAIN joined : f[i] = EdgeFromDTO(joined[i], base + i)
    BY <2>1, <2>4 DEF EdgesFromDTO
  <2> QED
    BY <2>2, <2>3, <2>4, <2>5, MadeEdges DEF EdgeList
<1>4. ASSUME NEW nodes, NodeList(nodes), NEW base PROVE NodeList(WithStart(nodes, base))
  BY <1>4, NewShapes, NodeLists DEF WithStart
<1>5. NodeList(WithStart(NodesFromDTO(dto.nodes, new + 1), new + 1))
  BY <1>2, <1>4
<1>6. EdgeList(EdgesFromDTO(dto.edges, IdsOf(NodesFromDTO(dto.nodes, new + 1)), new + 1 + Len(NodesFromDTO(dto.nodes, new + 1))))
  BY <1>3
<1> QED
  BY <1>5, <1>6, SceneMade DEF ScenarioFromDTO

LEMMA RemovalScenes ==
    ASSUME NEW s, IsScene(s)
    PROVE  /\ \A gone : IsScene(RemoveNodes(s, gone))
           /\ \A id : IsScene(RemoveEdge(s, id))
<1>0. NodeList(s.nodes) /\ EdgeList(s.edges)
  BY DEF IsScene
<1>1. ASSUME NEW chosen PROVE IsScene(RemoveNodes(s, chosen))
  <2>1. PICK gone : gone = {id \in chosen : ~IsStart(s, id)}
    OBVIOUS
  <2>2. PICK ns, first : /\ first = {IndexOf(s.nodes, id) : id \in gone \cap IdsOf(s.nodes)}
                         /\ ns = Picked(s.nodes, DOMAIN s.nodes \ first)
    OBVIOUS
  <2>3. PICK es : es = Selected(s.edges, {e \in ToSet(s.edges) : {e.from, e.to} \cap gone = {}})
    OBVIOUS
  <2>4. s = [id |-> s.id, name |-> s.name, nodes |-> s.nodes, edges |-> s.edges, view |-> s.view]
    BY DEF IsScene
  <2>5. RemoveNodes(s, chosen) = [id |-> s.id, name |-> s.name, nodes |-> ns, edges |-> es, view |-> s.view]
    <3>1. RemoveNodes(s, chosen) = [s EXCEPT !.nodes = ns, !.edges = es]
      BY <2>1, <2>2, <2>3 DEF RemoveNodes
    <3> QED
      BY <2>4, <3>1
  <2>6. NodeList(ns)
    <3>1. IsList(s.nodes)
      BY <1>0 DEF NodeList
    <3>2. PICK places : places = DOMAIN s.nodes \ first
      OBVIOUS
    <3>3. IsList(ns) /\ ToSet(ns) \subseteq ToSet(s.nodes)
      <4>1. ns = Picked(s.nodes, places)
        BY <2>2, <3>2
      <4>2. IsList(ns) /\ ToSet(ns) = {s.nodes[i] : i \in places \cap DOMAIN s.nodes}
        BY <3>1, <4>1, PickedList
      <4> QED
        BY <4>2 DEF ToSet
    <3> QED
      BY <1>0, <3>3 DEF NodeList
  <2> QED
    BY <1>0, <2>3, <2>5, <2>6, EdgeLists, SceneMade
<1>2. ASSUME NEW id PROVE IsScene(RemoveEdge(s, id))
  <2>1. CASE id \notin IdsOf(s.edges)
    BY <2>1 DEF RemoveEdge
  <2>2. CASE id \in IdsOf(s.edges)
    <3>1. IndexOf(s.edges, id) \in DOMAIN s.edges
      BY <1>0, <2>2, IndexFound DEF EdgeList
    <3>2. EdgeList(RemoveAt(s.edges, IndexOf(s.edges, id)))
      BY <1>0, <3>1, EdgeLists
    <3> QED
      BY <2>2, <3>2, SceneKept DEF RemoveEdge
  <2> QED
    BY <2>1, <2>2
<1> QED
  BY <1>1, <1>2

LEMMA ChangedScenes ==
    ASSUME NEW s, IsScene(s)
    PROVE  /\ \A id \in IdsOf(s.nodes) : \A n : IsNode(n) => IsScene(WithNode(s, id, n))
           /\ \A id \in IdsOf(s.edges) : \A e : IsEdge(e) => IsScene(WithEdge(s, id, e))
           /\ \A e : IsEdge(e) => IsScene(Attached(s, e))
           /\ \A ns : NodeList(ns) => IsScene([s EXCEPT !.nodes = ns]) /\ IsScene([s EXCEPT !.nodes = @ \o ns])
           /\ \A part : IsPart(part) => IsScene(WithPart(s, part))
           /\ \A x : IsScene([s EXCEPT !.view = x]) /\ IsScene([s EXCEPT !.name = x]) /\ IsScene([s EXCEPT !.id = x])
           /\ IsScene(Synced(s))
<1>0. NodeList(s.nodes) /\ EdgeList(s.edges)
  BY DEF IsScene
<1>1. ASSUME NEW id \in IdsOf(s.nodes), NEW n, IsNode(n) PROVE IsScene(WithNode(s, id, n))
  <2>1. IndexOf(s.nodes, id) \in DOMAIN s.nodes
    BY <1>0, IndexFound DEF NodeList
  <2>2. NodeList([s.nodes EXCEPT ![IndexOf(s.nodes, id)] = n])
    BY <1>0, <1>1, <2>1, NodeLists
  <2> QED
    BY <2>2, SceneKept DEF WithNode
<1>2. ASSUME NEW id \in IdsOf(s.edges), NEW e, IsEdge(e) PROVE IsScene(WithEdge(s, id, e))
  <2>1. IndexOf(s.edges, id) \in DOMAIN s.edges
    BY <1>0, IndexFound DEF EdgeList
  <2>2. EdgeList([s.edges EXCEPT ![IndexOf(s.edges, id)] = e])
    BY <1>0, <1>2, <2>1, EdgeLists
  <2> QED
    BY <2>2, SceneKept DEF WithEdge
<1>3. ASSUME NEW e, IsEdge(e) PROVE IsScene(Attached(s, e))
  <2>1. EdgeList(Append(s.edges, e))
    BY <1>0, <1>3, EdgeLists
  <2> QED
    BY <2>1, SceneKept DEF Attached
<1>4. ASSUME NEW ns, NodeList(ns) PROVE IsScene([s EXCEPT !.nodes = ns]) /\ IsScene([s EXCEPT !.nodes = @ \o ns])
  <2>1. NodeList(s.nodes \o ns)
    BY <1>0, <1>4, NodeLists
  <2> QED
    BY <1>4, <2>1, SceneKept
<1>5. ASSUME NEW part, IsPart(part) PROVE IsScene(WithPart(s, part))
  <2>1. NodeList(s.nodes \o part.nodes) /\ EdgeList(s.edges \o part.edges)
    BY <1>0, <1>5, NodeLists, EdgeLists DEF IsPart
  <2>2. PICK ns, es : ns = s.nodes \o part.nodes /\ es = s.edges \o part.edges
    OBVIOUS
  <2>3. s = [id |-> s.id, name |-> s.name, nodes |-> s.nodes, edges |-> s.edges, view |-> s.view]
    BY DEF IsScene
  <2>4. WithPart(s, part) = [id |-> s.id, name |-> s.name, nodes |-> ns, edges |-> es, view |-> s.view]
    <3>1. WithPart(s, part) = [s EXCEPT !.nodes = ns, !.edges = es]
      BY <2>2 DEF WithPart
    <3> QED
      BY <2>3, <3>1
  <2> QED
    BY <2>1, <2>2, <2>4, SceneMade
<1>6. ASSUME NEW x
      PROVE  IsScene([s EXCEPT !.view = x]) /\ IsScene([s EXCEPT !.name = x]) /\ IsScene([s EXCEPT !.id = x])
  BY SceneKept
<1>7. IsScene(Synced(s))
  BY <1>6 DEF Synced
<1> QED
  BY <1>1, <1>2, <1>3, <1>4, <1>5, <1>6, <1>7

LEMMA PartOfScene ==
    ASSUME NEW s, IsScene(s), NEW chosen
    PROVE  IsPart(PartOf(s, chosen))
<1>0. NodeList(s.nodes) /\ EdgeList(s.edges)
  BY DEF IsScene
<1>1. PICK ns : ns = Selected(s.nodes, {n \in ToSet(s.nodes) : n.id \in chosen /\ n.kind # "start"})
  OBVIOUS
<1>2. PICK es : es = Selected(s.edges, Joining(s.edges, IdsOf(ns)))
  OBVIOUS
<1>3. PartOf(s, chosen) = [nodes |-> ns, edges |-> es]
  BY <1>1, <1>2 DEF PartOf
<1> QED
  BY <1>0, <1>1, <1>2, <1>3, NodeLists, EdgeLists DEF IsPart

LEMMA InsertedPart ==
    ASSUME NEW dto, IsPart(dto), NEW new, NEW dx, NEW dy
    PROVE  IsPart(Inserted(dto, new, dx, dy))
<1>0. NodeList(dto.nodes) /\ EdgeList(dto.edges)
  BY DEF IsPart
<1> DEFINE ns == Selected(dto.nodes, {n \in ToSet(dto.nodes) : n.kind # "start"})
           es == Selected(dto.edges, Joining(dto.edges, IdsOf(ns)))
           copy(id) == new + CHOOSE k \in DOMAIN ns : ns[k].id = id
           copied(i) == [Moved(NodeFromDTO(ns[i], NoId), dx, dy) EXCEPT !.id = new + i]
           joined(i) == [EdgeFromDTO(es[i], NoId) EXCEPT !.id = new + Len(ns) + i, !.from = copy(@), !.to = copy(@)]
           fn == [i \in DOMAIN ns |-> copied(i)]
           fe == [i \in DOMAIN es |-> joined(i)]
<1>6. Inserted(dto, new, dx, dy) = [nodes |-> fn, edges |-> fe]
  BY Zenon DEF Inserted
<1>3. NodeList(ns) /\ EdgeList(es)
  BY <1>0, NodeLists, EdgeLists
<1> HIDE DEF ns, es
<1>7. \A i \in DOMAIN ns : IsNode(copied(i))
  BY <1>3, NodeLists, NodeShapes
<1>8. \A i \in DOMAIN es : IsEdge(joined(i))
  <2>1. ASSUME NEW i \in DOMAIN es PROVE IsEdge(joined(i))
    <3>1. PICK e : e = EdgeFromDTO(es[i], NoId)
      OBVIOUS
    <3>2. IsEdge(e)
      BY <1>3, <3>1, EdgeLists, EdgeShapes
    <3>3. PICK a, b, c : a = new + Len(ns) + i /\ b = copy(e.from) /\ c = copy(e.to)
      OBVIOUS
    <3>4. joined(i) = [e EXCEPT !.id = a, !.from = b, !.to = c]
      BY <3>1, <3>3
    <3>5. IsEdge([e EXCEPT !.id = a, !.from = b, !.to = c])
      BY <3>2, EdgeShapes
    <3> HIDE DEF joined
    <3> QED
      BY <3>4, <3>5
  <2> QED
    BY <2>1
<1> HIDE DEF copied, joined
<1>4. fn = [i \in DOMAIN ns |-> fn[i]] /\ \A i \in DOMAIN ns : fn[i] = copied(i)
  OBVIOUS
<1>5. fe = [i \in DOMAIN es |-> fe[i]] /\ \A i \in DOMAIN es : fe[i] = joined(i)
  OBVIOUS
<1> HIDE DEF fn, fe
<1>9. NodeList(fn)
  BY <1>3, <1>4, <1>7, MadeNodes DEF NodeList
<1>10. EdgeList(fe)
  BY <1>3, <1>5, <1>8, MadeEdges DEF EdgeList
<1> QED
  BY <1>6, <1>9, <1>10 DEF IsPart

LEMMA RequestNode ==
    ASSUME NEW id, NEW r, NEW x, NEW y
    PROVE  IsNode(NodeFromRequest(id, r, x, y))
  BY NewShapes, NodeShapes DEF NodeFromRequest

LEMMA ColumnNodes ==
    ASSUME NEW requests, IsList(requests), NEW at
    PROVE  NodeList(InColumns(requests, at))
<1> DEFINE used == Selected(Methods, {requests[i].method : i \in DOMAIN requests})
           column(i) == CHOOSE c \in DOMAIN used : used[c] = requests[i].method
           row(i) == Cardinality({j \in 1..(i - 1) : requests[j].method = requests[i].method})
           before(i) == Cardinality({j \in DOMAIN requests : column(j) < column(i)}) + row(i)
           node(id, i) == NodeFromRequest(id, requests[i],
                                          at[1] + (column(i) - 1) * (NodeW + 60),
                                          at[2] + row(i) * (NodeH + BodyBoxH + 36))
           pick(k) == CHOOSE i \in DOMAIN requests : before(i) = k - 1
<1>1. PICK f : f = [k \in DOMAIN requests |-> node(ids + k, pick(k))]
  OBVIOUS
<1>2. InColumns(requests, at) = f
  BY <1>1 DEF InColumns
<1>3. \A id, i : IsNode(node(id, i))
  BY RequestNode
<1> HIDE DEF node, pick
<1> QED
  BY <1>1, <1>2, <1>3, MadeNodes

-----------------------------------------------------------------------------
(* The history of the canvas.                                              *)

Canvases(q) == IsList(q) /\ \A c \in ToSet(q) : IsScene(c)

Scenes == IsScene(sc) /\ Canvases(undoStack) /\ Canvases(redoStack) /\ Canvases(snap)

Stored ==
    /\ IsPart(clip)
    /\ \A f \in DOMAIN files : IsScene(files[f])
    /\ \A b \in DOMAIN blocks : IsPart(blocks[b])
    /\ IsList(mods) /\ ToSet(mods) \ {OrderFile} \subseteq DOMAIN files

IsGesture(g) ==
    /\ g = [mode |-> g.mode, id |-> g.id, edge |-> g.edge, members |-> g.members,
            moved |-> g.moved, from |-> g.from]
    /\ g.moved \in BOOLEAN /\ EdgeList(g.edge)
    /\ g.mode = "in" => g.edge # <<>>

\* The canvas before the gesture is the last one of the history.
Undoable == undoStack # <<>> /\ Last(undoStack) = began

\* Unless a key was pressed during it, a gesture that has changed the canvas can be undone, and
\* one that is about to holds the canvas as it was.
Held ==
    /\ IsGesture(act)
    /\ torn = {} =>
          /\ act.mode \in {"drag", "resize"} => IF act.moved THEN Undoable ELSE snap = <<began>>
          /\ act.edge # <<>> => Undoable

Allowed == left \in [Doings -> Nat]

EditorInv == Scenes /\ Stored /\ Held /\ Allowed

\* What ChangesUndoable says of a step.
UndoableStep ==
    Drawn(sc') # Drawn(sc) /\ torn' = {} =>
       \/ undoStack' # <<>> /\ Last(undoStack') \in {began', Encode(sc)}
       \/ redoStack' # <<>> /\ Last(redoStack') = Encode(sc)

LEMMA CanvasLists ==
    /\ Canvases(<<>>)
    /\ \A q, c : Canvases(q) /\ IsScene(c) =>
          /\ Canvases(Append(q, c)) /\ Append(q, c) # <<>> /\ Last(Append(q, c)) = c
    /\ \A c : IsScene(c) => Canvases(<<c>>) /\ <<c>>[1] = c
    /\ \A q : Canvases(q) => \A i \in DOMAIN q : IsScene(q[i])
    /\ \A q : Canvases(q) /\ q # <<>> => IsScene(Last(q))
    /\ \A q : \A n \in 0..Len(q) : Canvases(q) => Canvases(SubSeq(q, 1, n))
<1>1. Canvases(<<>>)
  BY EmptyList DEF Canvases
<1>2. ASSUME NEW q, NEW c, Canvases(q), IsScene(c)
      PROVE  Canvases(Append(q, c)) /\ Append(q, c) # <<>> /\ Last(Append(q, c)) = c
  BY <1>2, AppendList DEF Canvases
<1>3. ASSUME NEW c, IsScene(c) PROVE Canvases(<<c>>) /\ <<c>>[1] = c
  <2>1. PICK none : none = <<>>
    OBVIOUS
  <2>2. <<c>> = Append(none, c) /\ Canvases(none)
    BY <2>1, <1>1
  <2>3. Canvases(<<c>>)
    BY <1>2, <1>3, <2>2
  <2> QED
    BY <2>3
<1>4. ASSUME NEW q, Canvases(q), NEW i \in DOMAIN q PROVE IsScene(q[i])
  BY <1>4, ListFacts DEF Canvases
<1>5. ASSUME NEW q, Canvases(q), q # <<>> PROVE IsScene(Last(q))
  <2>1. IsList(q) /\ Len(q) \in Nat /\ DOMAIN q = 1..Len(q) /\ q \in Seq(ToSet(q))
    BY <1>5, ListFacts DEF Canvases
  <2>2. Len(q) \in DOMAIN q
    BY <1>5, <2>1
  <2> QED
    BY <1>4, <1>5, <2>2 DEF Last
<1>6. ASSUME NEW q, NEW n \in 0..Len(q), Canvases(q) PROVE Canvases(SubSeq(q, 1, n))
  BY <1>6, FrontList DEF Canvases
<1> QED
  BY <1>1, <1>2, <1>3, <1>4, <1>5, <1>6

LEMMA PushFacts ==
    ASSUME Scenes, NEW c, IsScene(c), Push(c)
    PROVE  /\ Canvases(undoStack') /\ Canvases(redoStack')
           /\ undoStack' # <<>> /\ Last(undoStack') = c
<1>0. Canvases(undoStack) /\ Canvases(redoStack)
  BY DEF Scenes
<1>1. CASE undoStack # <<>> /\ Last(undoStack) = c
  BY <1>0, <1>1 DEF Push
<1>2. CASE ~(undoStack # <<>> /\ Last(undoStack) = c)
  <2>1. PICK q : q = Append(undoStack, c)
    OBVIOUS
  <2>2. Canvases(q) /\ q # <<>> /\ Last(q) = c
    BY <1>0, <2>1, CanvasLists
  <2>3. undoStack' = Recent(q) /\ redoStack' = <<>>
    BY <1>2, <2>1 DEF Push
  <2>4. Canvases(Recent(q)) /\ Recent(q) # <<>> /\ Last(Recent(q)) = c
    <3>1. CASE Len(q) > HistoryLimit
      <4>1. IsList(q) /\ Len(q) \in Nat /\ HistoryLimit \in Nat \ {0}
        BY <2>2, ListFacts, EditorAssumption DEF Canvases
      <4>2. Len(q) > 1
        BY <3>1, <4>1
      <4> QED
        BY <2>2, <3>1, <4>1, <4>2, TailList DEF Recent, Canvases
    <3>2. CASE ~(Len(q) > HistoryLimit)
      BY <2>2, <3>2 DEF Recent
    <3> QED
      BY <3>1, <3>2
  <2> QED
    BY <2>3, <2>4, CanvasLists
<1> QED
  BY <1>1, <1>2

-----------------------------------------------------------------------------
(* The drawing.                                                            *)

NodeDrawn(n) == [n EXCEPT !.f = Only(@, ChipKeys(n.kind))]
EdgeDrawn(e) == [e EXCEPT !.f = Unset]

LEMMA DrawnIs ==
    ASSUME NEW s
    PROVE  Drawn(s) = <<s.id, {NodeDrawn(s.nodes[i]) : i \in DOMAIN s.nodes}, {EdgeDrawn(s.edges[i]) : i \in DOMAIN s.edges}>>
  BY Zenon DEF Drawn, NodeDrawn, EdgeDrawn

\* The order of the nodes is not seen, nor are the name and the view.
LEMMA SameDrawing ==
    ASSUME NEW s, IsScene(s), NEW t, IsScene(t), t.id = s.id, ToSet(t.nodes) = ToSet(s.nodes), t.edges = s.edges
    PROVE  Drawn(t) = Drawn(s)
<1>1. {NodeDrawn(t.nodes[i]) : i \in DOMAIN t.nodes} = {NodeDrawn(n) : n \in ToSet(t.nodes)}
  BY Zenon DEF ToSet
<1>2. {NodeDrawn(s.nodes[i]) : i \in DOMAIN s.nodes} = {NodeDrawn(n) : n \in ToSet(s.nodes)}
  BY Zenon DEF ToSet
<1> QED
  BY <1>1, <1>2, DrawnIs

LEMMA LabelsUnseen ==
    ASSUME NEW s, IsScene(s), NEW x
    PROVE  /\ Drawn([s EXCEPT !.name = x]) = Drawn(s)
           /\ Drawn([s EXCEPT !.view = x]) = Drawn(s)
<1>1. PICK t : t = [s EXCEPT !.name = x]
  OBVIOUS
<1>2. IsScene(t) /\ t.id = s.id /\ t.nodes = s.nodes /\ t.edges = s.edges
  <2>1. t = [id |-> s.id, name |-> x, nodes |-> s.nodes, edges |-> s.edges, view |-> s.view]
    BY <1>1, SceneWith
  <2>2. IsScene(t)
    BY <1>1, SceneKept
  <2> QED
    BY <2>1, <2>2
<1>3. PICK v : v = [s EXCEPT !.view = x]
  OBVIOUS
<1>4. IsScene(v) /\ v.id = s.id /\ v.nodes = s.nodes /\ v.edges = s.edges
  <2>1. v = [id |-> s.id, name |-> s.name, nodes |-> s.nodes, edges |-> s.edges, view |-> x]
    BY <1>3, SceneWith
  <2>2. IsScene(v)
    BY <1>3, SceneKept
  <2> QED
    BY <2>1, <2>2
<1> QED
  BY <1>1, <1>2, <1>3, <1>4, SameDrawing

LEMMA FieldCases ==
    ASSUME NEW f, NEW key, NEW text
    PROVE  WithField(f, key, text) = Only(f, DOMAIN f \ {key}) \/ WithField(f, key, text) = Put(f, key, text)
  BY Zenon DEF WithField

LEMMA OthersKept ==
    ASSUME NEW f, NEW key, NEW text, NEW keys, key \notin keys
    PROVE  Only(WithField(f, key, text), keys) = Only(f, keys)
<1>1. CASE WithField(f, key, text) = Only(f, DOMAIN f \ {key})
  <2>1. PICK g : g = Only(f, DOMAIN f \ {key})
    OBVIOUS
  <2>2. DOMAIN g = DOMAIN f \ {key} /\ \A k \in DOMAIN g : g[k] = f[k]
    BY <2>1 DEF Only
  <2>3. Only(g, keys) = Only(f, keys)
    BY <2>2 DEF Only
  <2> QED
    BY <1>1, <2>1, <2>3
<1>2. CASE WithField(f, key, text) = Put(f, key, text)
  <2>1. PICK g : g = Put(f, key, text)
    OBVIOUS
  <2>2. DOMAIN g = DOMAIN f \cup {key} /\ \A k \in DOMAIN f \ {key} : g[k] = f[k]
    BY <2>1 DEF Put
  <2>3. Only(g, keys) = Only(f, keys)
    BY <2>2 DEF Only
  <2> QED
    BY <1>2, <2>1, <2>3
<1> QED
  BY <1>1, <1>2, FieldCases

LEMMA TextsUnseen ==
    ASSUME NEW n, IsNode(n), NEW key, key \in TextKeys(n.kind), NEW text
    PROVE  /\ IsNode([n EXCEPT !.f = WithField(@, key, text)])
           /\ NodeDrawn([n EXCEPT !.f = WithField(@, key, text)]) = NodeDrawn(n)
<1>1. key \notin ChipKeys(n.kind)
  BY DEF TextKeys, ChipKeys
<1>2. PICK g : g = WithField(n.f, key, text)
  OBVIOUS
<1>3. n = [id |-> n.id, kind |-> n.kind, x |-> n.x, y |-> n.y, w |-> n.w, h |-> n.h, f |-> n.f]
  BY DEF IsNode
<1>4. PICK m : m = [n EXCEPT !.f = g]
  OBVIOUS
<1>5. m = [id |-> n.id, kind |-> n.kind, x |-> n.x, y |-> n.y, w |-> n.w, h |-> n.h, f |-> g]
  BY <1>3, <1>4
<1>6. Only(m.f, ChipKeys(m.kind)) = Only(n.f, ChipKeys(n.kind))
  BY <1>1, <1>2, <1>5, OthersKept
<1>7. PICK c : c = Only(n.f, ChipKeys(n.kind))
  OBVIOUS
<1>8. NodeDrawn(m) = [m EXCEPT !.f = c] /\ NodeDrawn(n) = [n EXCEPT !.f = c]
  BY <1>6, <1>7 DEF NodeDrawn
<1>9. [m EXCEPT !.f = c] = [n EXCEPT !.f = c]
  BY <1>3, <1>5
<1>10. IsNode(m)
  BY <1>5 DEF IsNode
<1> QED
  BY <1>2, <1>4, <1>8, <1>9, <1>10

-----------------------------------------------------------------------------
(* What the operations of the editor have in common.                       *)

LEMMA EmptyHands ==
    ASSUME NEW g, g = Idle
    PROVE  IsGesture(g) /\ g.mode = "idle" /\ g.edge = <<>>
<1>1. PICK no : no = FALSE
  OBVIOUS
<1>2. g = [mode |-> "idle", id |-> NoId, edge |-> <<>>, members |-> {}, moved |-> no, from |-> <<>>]
  BY <1>1 DEF Idle
<1>3. /\ g.mode = "idle" /\ g.edge = <<>> /\ g.moved = no
      /\ g = [mode |-> g.mode, id |-> g.id, edge |-> g.edge, members |-> g.members, moved |-> g.moved, from |-> g.from]
  BY <1>2
<1>4. EdgeList(g.edge)
  BY <1>3, EdgeLists
<1>5. no \in BOOLEAN
  BY <1>1
<1> QED
  BY <1>3, <1>4, <1>5 DEF IsGesture

\* What changes the canvas in one go pushes it first.
LEMMA ChangingStep ==
    ASSUME Scenes, Held, NEW s, IsScene(s), NEW chosen, Changing(s, chosen), UNCHANGED act
    PROVE  Scenes' /\ Held' /\ UndoableStep
<1>1. IsScene(sc) /\ Canvases(snap)
  BY DEF Scenes
<1>2. IsScene(Encode(sc))
  BY <1>1, EncodeScene
<1>3. sc' = s /\ Push(Encode(sc)) /\ snap' = snap /\ torn' = Torn
  BY DEF Changing, PushHistory
<1>4. Canvases(undoStack') /\ Canvases(redoStack') /\ undoStack' # <<>> /\ Last(undoStack') = Encode(sc)
  BY <1>2, <1>3, PushFacts
<1>5. Scenes'
  BY <1>1, <1>3, <1>4 DEF Scenes
<1>6. UndoableStep
  BY <1>4 DEF UndoableStep
<1>7. IsGesture(act)
  BY DEF Held
<1>8. CASE act = Idle
  <2>1. act' = Idle
    BY <1>8
  <2>2. IsGesture(act') /\ act'.mode = "idle" /\ act'.edge = <<>>
    BY <2>1, EmptyHands
  <2>3. Held'
    BY <2>2 DEF Held
  <2> QED
    BY <1>5, <1>6, <2>3
<1>9. CASE act # Idle
  <2>1. torn' # {}
    BY <1>3, <1>9 DEF Torn
  <2>2. IsGesture(act')
    BY <1>7
  <2>3. Held'
    BY <2>1, <2>2 DEF Held
  <2> QED
    BY <1>5, <1>6, <2>3
<1> QED
  BY <1>8, <1>9

\* The canvas looks as before, and so do its history and the gesture.
LEMMA CalmStep ==
    ASSUME Scenes, Held, IsScene(sc'), Drawn(sc') = Drawn(sc), UNCHANGED <<history, act, began>>,
           torn' = torn \/ torn' = Torn
    PROVE  Scenes' /\ Held' /\ UndoableStep
<1>1. undoStack' = undoStack /\ redoStack' = redoStack /\ snap' = snap
  BY DEF history
<1>2. Scenes'
  BY <1>1 DEF Scenes
<1>3. torn' = {} => torn = {}
  BY DEF Torn
<1>4. Undoable' <=> Undoable
  BY <1>1 DEF Undoable
<1>5. Held'
  <2>1. IsGesture(act')
    BY DEF Held
  <2> QED
    BY <1>1, <1>3, <1>4, <2>1 DEF Held
<1> QED
  BY <1>2, <1>5 DEF UndoableStep

LEMMA SameCanvasStep ==
    ASSUME Scenes, Held, UNCHANGED <<sc, history, act, began>>, torn' = torn \/ torn' = Torn
    PROVE  Scenes' /\ Held' /\ UndoableStep
<1>1. IsScene(sc') /\ Drawn(sc') = Drawn(sc)
  BY DEF Scenes
<1> QED
  BY <1>1, CalmStep

LEMMA ElsewhereStep == ASSUME Stored, Elsewhere PROVE Stored'
  BY DEF Stored, Elsewhere, viewVars, saveVars, diskVars

\* A press begins a gesture on a canvas that looks as it did.
LEMMA PressStep ==
    ASSUME Scenes, Held, Free, NEW g, Press(g), IsGesture(g), ~g.moved, g.edge = <<>>,
           IsScene(sc'), Drawn(sc') = Drawn(sc),
           snap' = snap \/ snap' = <<Encode(sc)>>,
           g.mode \in {"drag", "resize"} => snap' = <<Encode(sc)>>
    PROVE  Scenes' /\ Held' /\ UndoableStep
<1>1. /\ act' = g /\ undoStack' = undoStack /\ redoStack' = redoStack
      /\ began' = Encode(sc)
  BY DEF Press, Began, Free
<1>2. IsScene(Encode(sc))
  BY EncodeScene DEF Scenes
<1>3. Canvases(snap')
  BY <1>2, CanvasLists DEF Scenes
<1>4. Scenes'
  BY <1>1, <1>3 DEF Scenes
<1>5. Held'
  BY <1>1 DEF Held
<1> QED
  BY <1>4, <1>5 DEF UndoableStep

LEMMA PressElsewhere == ASSUME Stored, NEW g, Press(g) PROVE Stored'
  BY DEF Stored, Press, viewVars, saveVars, diskVars

\* The end of a gesture.
LEMMA EndStep ==
    ASSUME Scenes, Released, IsScene(sc'), Canvases(undoStack'), Canvases(redoStack')
    PROVE  Scenes' /\ Held'
<1>1. act' = Idle /\ snap' = <<>>
  BY DEF Released
<1>2. IsGesture(act') /\ act'.mode = "idle" /\ act'.edge = <<>>
  BY <1>1, EmptyHands
<1>3. Scenes'
  BY <1>1, CanvasLists DEF Scenes
<1>4. Held'
  BY <1>2 DEF Held
<1> QED
  BY <1>3, <1>4

\* A scenario is written to its file, which is then the newest.
LEMMA TouchedNames ==
    ASSUME IsList(mods), NEW name
    PROVE  /\ IsList(Without(mods, name)) /\ ToSet(Without(mods, name)) = ToSet(mods) \ {name}
           /\ IsList(Touched(name)) /\ ToSet(Touched(name)) = ToSet(mods) \cup {name}
           /\ Touched(name) # <<>> /\ Last(Touched(name)) = name
<1>1. IsList(Without(mods, name)) /\ ToSet(Without(mods, name)) = ToSet(mods) \cap (ToSet(mods) \ {name})
  BY SelectedList DEF Without
<1>2. PICK q : q = Without(mods, name)
  OBVIOUS
<1>3. /\ IsList(Append(q, name)) /\ ToSet(Append(q, name)) = ToSet(q) \cup {name}
      /\ Append(q, name) # <<>> /\ Last(Append(q, name)) = name
  BY <1>1, <1>2, AppendList
<1>4. ToSet(q) = ToSet(mods) \ {name}
  BY <1>1, <1>2
<1>5. (ToSet(mods) \ {name}) \cup {name} = ToSet(mods) \cup {name}
  OBVIOUS
<1> QED
  BY <1>1, <1>2, <1>3, <1>4, <1>5 DEF Touched

LEMMA WriteStep ==
    ASSUME Stored, NEW s, IsScene(s), Write(s)
    PROVE  /\ \A f \in DOMAIN files' : IsScene(files'[f])
           /\ \A b \in DOMAIN blocks' : IsPart(blocks'[b])
           /\ IsList(mods') /\ ToSet(mods') \ {OrderFile} \subseteq DOMAIN files'
<1>1. files' = Put(files, s.id, s) /\ mods' = Touched(s.id) /\ blocks' = blocks
  BY DEF Write, Written
<1>2. /\ DOMAIN files' = DOMAIN files \cup {s.id}
      /\ \A f \in DOMAIN files' : files'[f] = IF f = s.id THEN s ELSE files[f]
  BY <1>1 DEF Put
<1>3. IsList(mods') /\ ToSet(mods') = ToSet(mods) \cup {s.id}
  BY <1>1, TouchedNames DEF Stored
<1> QED
  BY <1>1, <1>2, <1>3 DEF Stored

-----------------------------------------------------------------------------
(* Gestures.                                                               *)

CanvasInv == Scenes /\ Stored /\ Held
CanvasStep == CanvasInv' /\ UndoableStep

LEMMA IdleIs ==
    \E no : /\ no = FALSE
            /\ Idle = [mode |-> "idle", id |-> NoId, edge |-> <<>>, members |-> {}, moved |-> no, from |-> <<>>]
<1>1. PICK no : no = FALSE
  OBVIOUS
<1>2. Idle = [mode |-> "idle", id |-> NoId, edge |-> <<>>, members |-> {}, moved |-> no, from |-> <<>>]
  BY <1>1 DEF Idle
<1> QED
  BY <1>1, <1>2

LEMMA GestureMade ==
    ASSUME NEW no, no = FALSE, NEW m, NEW i, NEW e, EdgeList(e), m = "in" => e # <<>>, NEW k, NEW f
    PROVE  IsGesture([mode |-> m, id |-> i, edge |-> e, members |-> k, moved |-> no, from |-> f])
<1>1. PICK g : g = [mode |-> m, id |-> i, edge |-> e, members |-> k, moved |-> no, from |-> f]
  OBVIOUS
<1>2. /\ g.mode = m /\ g.edge = e /\ g.moved = no
      /\ g = [mode |-> g.mode, id |-> g.id, edge |-> g.edge, members |-> g.members, moved |-> g.moved, from |-> g.from]
  BY <1>1
<1>3. no \in BOOLEAN
  OBVIOUS
<1>4. IsGesture(g)
  BY <1>2, <1>3 DEF IsGesture
<1> QED
  BY <1>1, <1>4

\* A gesture that begins without an arrow.
Begins(g, m) == IsGesture(g) /\ g.mode = m /\ g.edge = <<>> /\ ~g.moved

LEMMA Presses ==
    ASSUME NEW m, m # "in", NEW i, NEW k, NEW f
    PROVE  /\ Begins([Idle EXCEPT !.mode = m], m)
           /\ Begins([Idle EXCEPT !.mode = m, !.id = i], m)
           /\ Begins([Idle EXCEPT !.mode = m, !.id = i, !.members = k], m)
           /\ Begins([Idle EXCEPT !.mode = m, !.id = i, !.from = f], m)
<1>1. PICK no : /\ no = FALSE
                /\ Idle = [mode |-> "idle", id |-> NoId, edge |-> <<>>, members |-> {}, moved |-> no, from |-> <<>>]
  BY IdleIs
<1>2. PICK none : none = <<>>
  OBVIOUS
<1>3. ASSUME NEW a, NEW b, NEW c
      PROVE  Begins([mode |-> m, id |-> a, edge |-> <<>>, members |-> b, moved |-> no, from |-> c], m)
  <2>1. EdgeList(none)
    BY <1>2, EdgeLists
  <2>2. PICK g : g = [mode |-> m, id |-> a, edge |-> none, members |-> b, moved |-> no, from |-> c]
    OBVIOUS
  <2>3. IsGesture(g)
    BY <1>1, <2>1, <2>2, GestureMade
  <2>4. g.mode = m /\ g.edge = none /\ g.moved = no
    BY <2>2
  <2>5. Begins(g, m)
    BY <1>1, <1>2, <2>3, <2>4 DEF Begins
  <2> QED
    BY <1>2, <2>2, <2>5
<1>4. ASSUME NEW g, NEW a, NEW b, NEW c,
             g = [mode |-> m, id |-> a, edge |-> <<>>, members |-> b, moved |-> no, from |-> c]
      PROVE  Begins(g, m)
  BY <1>3, <1>4
<1>5. Begins([Idle EXCEPT !.mode = m], m)
  <2>1. PICK g : g = [Idle EXCEPT !.mode = m]
    OBVIOUS
  <2>2. g = [mode |-> m, id |-> NoId, edge |-> <<>>, members |-> {}, moved |-> no, from |-> <<>>]
    BY <1>1, <2>1
  <2> QED
    BY <1>4, <2>1, <2>2
<1>6. Begins([Idle EXCEPT !.mode = m, !.id = i], m)
  <2>1. PICK g : g = [Idle EXCEPT !.mode = m, !.id = i]
    OBVIOUS
  <2>2. g = [mode |-> m, id |-> i, edge |-> <<>>, members |-> {}, moved |-> no, from |-> <<>>]
    BY <1>1, <2>1
  <2> QED
    BY <1>4, <2>1, <2>2
<1>7. Begins([Idle EXCEPT !.mode = m, !.id = i, !.members = k], m)
  <2>1. PICK g : g = [Idle EXCEPT !.mode = m, !.id = i, !.members = k]
    OBVIOUS
  <2>2. g = [mode |-> m, id |-> i, edge |-> <<>>, members |-> k, moved |-> no, from |-> <<>>]
    BY <1>1, <2>1
  <2> QED
    BY <1>4, <2>1, <2>2
<1>8. Begins([Idle EXCEPT !.mode = m, !.id = i, !.from = f], m)
  <2>1. PICK g : g = [Idle EXCEPT !.mode = m, !.id = i, !.from = f]
    OBVIOUS
  <2>2. g = [mode |-> m, id |-> i, edge |-> <<>>, members |-> {}, moved |-> no, from |-> f]
    BY <1>1, <2>1
  <2> QED
    BY <1>4, <2>1, <2>2
<1> QED
  BY <1>5, <1>6, <1>7, <1>8

LEMMA OnTopScene ==
    ASSUME Scenes, NEW id \in NodeIds
    PROVE  /\ IsScene([sc EXCEPT !.nodes = OnTop(id)])
           /\ Drawn([sc EXCEPT !.nodes = OnTop(id)]) = Drawn(sc)
<1>0. IsScene(sc) /\ NodeList(sc.nodes) /\ IsList(sc.nodes)
  BY DEF Scenes, IsScene, NodeList
<1>1. PICK i : i = IndexOf(sc.nodes, id)
  OBVIOUS
<1>2. i \in DOMAIN sc.nodes /\ i \in 1..Len(sc.nodes)
  BY <1>0, <1>1, IndexFound, ListFacts DEF NodeIds
<1>3. PICK rest : rest = RemoveAt(sc.nodes, i)
  OBVIOUS
<1>4. OnTop(id) = Append(rest, sc.nodes[i])
  BY <1>1, <1>3 DEF OnTop, NodeOf, ById
<1>5. NodeList(rest) /\ IsNode(sc.nodes[i])
  BY <1>0, <1>2, <1>3, NodeLists
<1>6. IsList(rest) /\ ToSet(rest) \cup {sc.nodes[i]} = ToSet(sc.nodes)
  BY <1>0, <1>2, <1>3, RemoveAtList
<1>7. PICK ns : ns = OnTop(id)
  OBVIOUS
<1>8. NodeList(ns)
  BY <1>4, <1>5, <1>7, NodeLists
<1>9. ToSet(ns) = ToSet(sc.nodes)
  BY <1>4, <1>6, <1>7, AppendList
<1>10. PICK s : s = [sc EXCEPT !.nodes = ns]
  OBVIOUS
<1>11. IsScene(s)
  BY <1>0, <1>8, <1>10, SceneKept
<1>12. s = [id |-> sc.id, name |-> sc.name, nodes |-> ns, edges |-> sc.edges, view |-> sc.view]
  BY <1>0, <1>10, SceneWith
<1>13. s.id = sc.id /\ s.nodes = ns /\ s.edges = sc.edges
  BY <1>12
<1>14. Drawn(s) = Drawn(sc)
  BY <1>0, <1>9, <1>11, <1>13, SameDrawing
<1> QED
  BY <1>7, <1>10, <1>11, <1>14

LEMMA PressNodeStep == ASSUME CanvasInv, NEW id, PressNode(id) PROVE CanvasStep
<1>1. PICK g : g = [Idle EXCEPT !.mode = "drag", !.id = id, !.members = DragMembers(NodeOf(id), sel')]
  OBVIOUS
<1>2. Press(g) /\ Free /\ id \in NodeIds /\ snap' = <<Encode(sc)>>
  BY <1>1 DEF PressNode
<1>3. IsGesture(g) /\ g.edge = <<>> /\ ~g.moved
  <2>1. PICK m, k : m = "drag" /\ k = DragMembers(NodeOf(id), sel')
    OBVIOUS
  <2>2. g = [Idle EXCEPT !.mode = m, !.id = id, !.members = k] /\ m # "in"
    BY <1>1, <2>1
  <2>3. Begins(g, m)
    BY <2>2, Presses
  <2> QED
    BY <2>3 DEF Begins
<1>4. IsScene(sc') /\ Drawn(sc') = Drawn(sc)
  <2>1. sc' = sc \/ sc' = [sc EXCEPT !.nodes = OnTop(id)]
    BY DEF PressNode
  <2> QED
    BY <1>2, <2>1, OnTopScene DEF CanvasInv, Scenes
<1> QED
  BY <1>2, <1>3, <1>4, PressStep, PressElsewhere DEF CanvasInv, CanvasStep

\* A press that leaves the canvas alone.
LEMMA StillPress ==
    ASSUME CanvasInv, NEW g, Free, Press(g), IsGesture(g), ~g.moved, g.edge = <<>>, UNCHANGED sc,
           snap' = snap \/ snap' = <<Encode(sc)>>,
           g.mode \in {"drag", "resize"} => snap' = <<Encode(sc)>>
    PROVE  CanvasStep
<1>1. IsScene(sc') /\ Drawn(sc') = Drawn(sc)
  BY DEF CanvasInv, Scenes
<1> QED
  BY <1>1, PressStep, PressElsewhere DEF CanvasInv, CanvasStep

LEMMA IdlePress == IsGesture(Idle) /\ ~Idle.moved /\ Idle.edge = <<>> /\ Idle.mode = "idle"
<1>1. PICK g : g = Idle
  OBVIOUS
<1>2. IsGesture(g) /\ g.mode = "idle" /\ g.edge = <<>>
  BY <1>1, EmptyHands
<1>3. ~g.moved
  BY <1>1 DEF Idle
<1> QED
  BY <1>1, <1>2, <1>3

LEMMA PressToSelectStep == ASSUME CanvasInv, NEW id, PressToSelect(id) PROVE CanvasStep
<1>1. PICK g : g = Idle
  OBVIOUS
<1>2. Press(g) /\ Free /\ sc' = sc /\ snap' = snap
  BY <1>1 DEF PressToSelect
<1>3. IsGesture(g) /\ ~g.moved /\ g.edge = <<>> /\ g.mode = "idle"
  BY <1>1, IdlePress
<1> QED
  BY <1>2, <1>3, StillPress

LEMMA PressEdgeStep == ASSUME CanvasInv, NEW id, PressEdge(id) PROVE CanvasStep
<1>1. PICK g : g = Idle
  OBVIOUS
<1>2. Press(g) /\ Free /\ sc' = sc /\ snap' = snap
  BY <1>1 DEF PressEdge
<1>3. IsGesture(g) /\ ~g.moved /\ g.edge = <<>> /\ g.mode = "idle"
  BY <1>1, IdlePress
<1> QED
  BY <1>2, <1>3, StillPress

LEMMA PressPortStep == ASSUME CanvasInv, NEW id, PressPort(id) PROVE CanvasStep
<1>1. PICK g : g = [Idle EXCEPT !.mode = "out", !.id = id]
  OBVIOUS
<1>2. Press(g) /\ Free /\ sc' = sc /\ snap' = snap
  BY <1>1 DEF PressPort
<1>3. IsGesture(g) /\ ~g.moved /\ g.edge = <<>> /\ g.mode = "out"
  <2>1. PICK m : m = "out"
    OBVIOUS
  <2>2. g = [Idle EXCEPT !.mode = m, !.id = id] /\ m # "in"
    BY <1>1, <2>1
  <2>3. Begins(g, m)
    BY <2>2, Presses
  <2> QED
    BY <2>1, <2>3 DEF Begins
<1> QED
  BY <1>2, <1>3, StillPress

LEMMA PressCanvasStep == ASSUME CanvasInv, PressCanvas PROVE CanvasStep
<1>1. PICK mode \in {"marquee", "pan"} : Press([Idle EXCEPT !.mode = mode])
  BY DEF PressCanvas
<1>2. PICK g : g = [Idle EXCEPT !.mode = mode]
  OBVIOUS
<1>3. Press(g) /\ Free /\ sc' = sc /\ snap' = snap
  BY <1>1, <1>2 DEF PressCanvas
<1>4. IsGesture(g) /\ ~g.moved /\ g.edge = <<>> /\ g.mode = mode
  BY <1>2, Presses DEF Begins
<1> QED
  BY <1>3, <1>4, StillPress

LEMMA PressResizeStep == ASSUME CanvasInv, NEW id, PressResize(id) PROVE CanvasStep
<1>1. PICK f : Press([Idle EXCEPT !.mode = "resize", !.id = id, !.from = f])
  BY DEF PressResize
<1>2. PICK g : g = [Idle EXCEPT !.mode = "resize", !.id = id, !.from = f]
  OBVIOUS
<1>3. Press(g) /\ Free /\ sc' = sc /\ snap' = <<Encode(sc)>>
  BY <1>1, <1>2 DEF PressResize
<1>4. IsGesture(g) /\ ~g.moved /\ g.edge = <<>> /\ g.mode = "resize"
  <2>1. PICK m : m = "resize"
    OBVIOUS
  <2>2. g = [Idle EXCEPT !.mode = m, !.id = id, !.from = f] /\ m # "in"
    BY <1>2, <2>1
  <2>3. Begins(g, m)
    BY <2>2, Presses
  <2> QED
    BY <2>1, <2>3 DEF Begins
<1> QED
  BY <1>3, <1>4, StillPress

\* An arrow that is taken off can be put back by an undo.
LEMMA GrabEdgeStep ==
    ASSUME CanvasInv, NEW id, NEW freeTarget \in BOOLEAN, GrabEdge(id, freeTarget)
    PROVE  CanvasStep
<1>0. IsScene(sc) /\ EdgeList(sc.edges) /\ Canvases(snap) /\ IsScene(Encode(sc))
  BY EncodeScene DEF CanvasInv, Scenes, IsScene
<1>1. PICK e : e = ById(sc.edges, id)
  OBVIOUS
<1>2. IsEdge(e)
  BY <1>0, <1>1, FoundEdge DEF GrabEdge
<1>3. PICK m, i : m = (IF freeTarget THEN "out" ELSE "in") /\ i = (IF freeTarget THEN e.from ELSE e.to)
  OBVIOUS
<1>4. /\ act' = [Idle EXCEPT !.mode = m, !.id = i, !.edge = <<e>>]
      /\ sc' = RemoveEdge(sc, id)
      /\ Push(Encode(sc)) /\ snap' = snap
      /\ began' = Encode(sc)
      /\ Elsewhere
  BY <1>1, <1>3 DEF GrabEdge, PushHistory, Began, Free
<1>5. PICK no : /\ no = FALSE
                /\ Idle = [mode |-> "idle", id |-> NoId, edge |-> <<>>, members |-> {}, moved |-> no, from |-> <<>>]
  BY IdleIs
<1>6. PICK one : one = <<e>>
  OBVIOUS
<1>7. EdgeList(one) /\ one # <<>>
  BY <1>2, <1>6, EdgeLists
<1>8. PICK g : g = act'
  OBVIOUS
<1>9. g = [mode |-> m, id |-> i, edge |-> one, members |-> {}, moved |-> no, from |-> <<>>]
  BY <1>4, <1>5, <1>6, <1>8
<1>10. IsGesture(g) /\ g.mode = m
  <2>1. PICK k, f : k = {} /\ f = <<>>
    OBVIOUS
  <2>2. g = [mode |-> m, id |-> i, edge |-> one, members |-> k, moved |-> no, from |-> f]
    BY <1>9, <2>1
  <2>3. m = "in" => one # <<>>
    BY <1>7
  <2>4. IsGesture(g)
    BY <1>5, <1>7, <2>2, <2>3, GestureMade
  <2>5. g.mode = m
    BY <2>2
  <2> QED
    BY <2>4, <2>5
<1>11. m \notin {"drag", "resize"}
  BY <1>3
<1>12. Canvases(undoStack') /\ Canvases(redoStack') /\ undoStack' # <<>> /\ Last(undoStack') = Encode(sc)
  BY <1>0, <1>4, PushFacts DEF CanvasInv
<1>13. IsScene(sc')
  BY <1>0, <1>4, RemovalScenes
<1>14. Scenes'
  BY <1>0, <1>4, <1>12, <1>13 DEF Scenes
<1>15. Held'
  <2>1. IsGesture(act') /\ act'.mode \notin {"drag", "resize"}
    BY <1>8, <1>10, <1>11
  <2>2. Undoable'
    BY <1>4, <1>12 DEF Undoable
  <2> QED
    BY <2>1, <2>2 DEF Held
<1>16. UndoableStep
  BY <1>12 DEF UndoableStep
<1> QED
  BY <1>4, <1>14, <1>15, <1>16, ElsewhereStep DEF CanvasInv, CanvasStep

\* The first movement puts the canvas as it was into the history.
LEMMA MoveStep ==
    ASSUME Scenes, Held, act.mode \in {"drag", "resize"},
           IF act.moved THEN UNCHANGED history ELSE CommitPending,
           act' = [act EXCEPT !.moved = TRUE], IsScene(sc'), UNCHANGED <<began, torn>>
    PROVE  Scenes' /\ Held' /\ UndoableStep
<1>1. PICK yes : yes = TRUE
  OBVIOUS
<1>2. PICK g, h : g = act /\ h = act'
  OBVIOUS
<1>3. g = [mode |-> g.mode, id |-> g.id, edge |-> g.edge, members |-> g.members, moved |-> g.moved, from |-> g.from]
  BY <1>2 DEF Held, IsGesture
<1>4. h = [g EXCEPT !.moved = yes]
  BY <1>1, <1>2
<1>5. h = [mode |-> g.mode, id |-> g.id, edge |-> g.edge, members |-> g.members, moved |-> yes, from |-> g.from]
  BY <1>3, <1>4
<1>6. /\ h.mode = g.mode /\ h.edge = g.edge /\ h.moved = yes
      /\ h = [mode |-> h.mode, id |-> h.id, edge |-> h.edge, members |-> h.members, moved |-> h.moved, from |-> h.from]
  BY <1>5
<1>7. EdgeList(g.edge) /\ yes \in BOOLEAN /\ (g.mode = "in" => g.edge # <<>>)
  BY <1>1, <1>2 DEF Held, IsGesture
<1>8. IsGesture(h)
  BY <1>6, <1>7 DEF IsGesture
<1>9. /\ Canvases(undoStack') /\ Canvases(redoStack') /\ Canvases(snap')
      /\ torn = {} => Undoable'
  <2>1. CASE act.moved
    <3>1. undoStack' = undoStack /\ redoStack' = redoStack /\ snap' = snap
      BY <2>1 DEF history
    <3>2. torn = {} => Undoable
      BY <2>1 DEF Held
    <3> QED
      BY <3>1, <3>2 DEF Scenes, Undoable
  <2>2. CASE ~act.moved
    <3>1. CommitPending
      BY <2>2
    <3>2. CASE snap = <<>>
      <4>1. undoStack' = undoStack /\ redoStack' = redoStack /\ snap' = snap
        BY <3>1, <3>2 DEF CommitPending, history
      <4>2. torn # {}
        BY <2>2, <3>2 DEF Held
      <4> QED
        BY <4>1, <4>2 DEF Scenes
    <3>3. CASE snap # <<>>
      <4>1. Push(snap[1]) /\ snap' = <<>>
        BY <3>1, <3>3 DEF CommitPending
      <4>2. IsScene(snap[1])
        <5>1. IsList(snap) /\ DOMAIN snap = 1..Len(snap) /\ Len(snap) \in Nat /\ snap \in Seq(ToSet(snap))
          BY ListFacts DEF Scenes, Canvases
        <5>2. 1 \in DOMAIN snap
          BY <3>3, <5>1
        <5> QED
          BY <5>2, CanvasLists DEF Scenes
      <4>3. Canvases(undoStack') /\ Canvases(redoStack') /\ undoStack' # <<>> /\ Last(undoStack') = snap[1]
        BY <4>1, <4>2, PushFacts
      <4>4. torn = {} => snap[1] = began
        <5>1. torn = {} => snap = <<began>>
          BY <2>2 DEF Held
        <5> QED
          BY <5>1
      <4> QED
        BY <4>1, <4>3, <4>4, CanvasLists DEF Undoable
    <3> QED
      BY <3>2, <3>3
  <2> QED
    BY <2>1, <2>2
<1>10. Scenes'
  BY <1>9 DEF Scenes
<1>11. Held'
  <2>1. IsGesture(act') /\ act'.moved
    BY <1>1, <1>2, <1>6, <1>8
  <2> QED
    BY <1>9, <2>1 DEF Held
<1>12. UndoableStep
  BY <1>9 DEF UndoableStep, Undoable
<1> QED
  BY <1>10, <1>11, <1>12

LEMMA DragStep == ASSUME CanvasInv, NEW by, Drag(by) PROVE CanvasStep
<1>0. IsScene(sc) /\ NodeList(sc.nodes) /\ IsList(sc.nodes)
  BY DEF CanvasInv, Scenes, IsScene, NodeList
<1> DEFINE moved(i) == Moved(sc.nodes[i], by[1] * Shifts(sc.nodes[i].id), by[2] * Shifts(sc.nodes[i].id))
<1>1. PICK ns : ns = [i \in DOMAIN sc.nodes |-> moved(i)]
  OBVIOUS
<1>2. sc' = [sc EXCEPT !.nodes = ns]
  BY <1>1 DEF Drag
<1>3. \A i \in DOMAIN sc.nodes : IsNode(moved(i))
  BY <1>0, NodeLists, NodeShapes
<1> HIDE DEF moved
<1>4. NodeList(ns)
  BY <1>0, <1>1, <1>3, MadeNodes
<1>5. IsScene(sc')
  BY <1>0, <1>2, <1>4, SceneKept
<1>6. Scenes' /\ Held' /\ UndoableStep
  BY <1>5, MoveStep DEF Drag, CanvasInv
<1> QED
  BY <1>6, ElsewhereStep DEF Drag, CanvasInv, CanvasStep

LEMMA DragResizeStep == ASSUME CanvasInv, NEW by, DragResize(by) PROVE CanvasStep
<1>0. IsScene(sc) /\ NodeList(sc.nodes)
  BY DEF CanvasInv, Scenes, IsScene
<1>1. PICK n, m : n = NodeOf(act.id) /\ m = Resized(n, by)
  OBVIOUS
<1>2. act.id \in IdsOf(sc.nodes) /\ sc' = WithNode(sc, act.id, m)
  BY <1>1 DEF DragResize, NodeIds
<1>3. IsNode(n)
  BY <1>0, <1>1, <1>2, FoundNode DEF NodeOf
<1>4. IsNode(m)
  BY <1>1, <1>3, NodeShapes DEF Resized
<1>5. IsScene(sc')
  BY <1>0, <1>2, <1>4, ChangedScenes
<1>6. Scenes' /\ Held' /\ UndoableStep
  BY <1>5, MoveStep DEF DragResize, CanvasInv
<1> QED
  BY <1>6, ElsewhereStep DEF DragResize, CanvasInv, CanvasStep

LEMMA LookingStep ==
    ASSUME CanvasInv, NEW v, NEW nodes, DragView(v) \/ DragMarquee(nodes)
    PROVE  CanvasStep
<1>1. UNCHANGED <<sc, history, act, began>> /\ torn' = torn
  BY DEF DragView, DragMarquee
<1>2. clip' = clip /\ files' = files /\ blocks' = blocks /\ mods' = mods
  BY DEF DragView, DragMarquee, Elsewhere, diskVars
<1>3. Stored'
  BY <1>2 DEF CanvasInv, Stored
<1> QED
  BY <1>1, <1>3, SameCanvasStep DEF CanvasInv, CanvasStep

LEMMA LetGoStep == ASSUME CanvasInv, FinishNowhere \/ Release PROVE CanvasStep
<1>1. Released /\ Elsewhere /\ sc' = sc /\ undoStack' = undoStack /\ redoStack' = redoStack
  BY DEF FinishNowhere, Release
<1>2. IsScene(sc') /\ Canvases(undoStack') /\ Canvases(redoStack')
  BY <1>1 DEF CanvasInv, Scenes
<1>3. Scenes' /\ Held'
  BY <1>1, <1>2, EndStep DEF CanvasInv
<1>4. UndoableStep
  BY <1>1 DEF UndoableStep
<1> QED
  BY <1>1, <1>3, <1>4, ElsewhereStep DEF CanvasInv, CanvasStep

\* An arrow that comes off the pointer again.
LEMMA HeldArrow ==
    ASSUME Held, act.edge # <<>>
    PROVE  IsEdge(act.edge[1])
<1>1. EdgeList(act.edge) /\ DOMAIN act.edge = 1..Len(act.edge) /\ Len(act.edge) \in Nat /\ act.edge \in Seq(ToSet(act.edge))
  BY ListFacts DEF Held, IsGesture, EdgeList
<1>2. 1 \in DOMAIN act.edge
  BY <1>1
<1> QED
  BY <1>1, <1>2, EdgeLists

LEMMA FinishOutStep == ASSUME CanvasInv, NEW id, FinishOut(id) PROVE CanvasStep
<1>0. IsScene(sc) /\ IsScene(Encode(sc)) /\ Canvases(undoStack) /\ Canvases(redoStack)
  BY EncodeScene DEF CanvasInv, Scenes
<1>1. Released /\ Elsewhere /\ UNCHANGED <<began, torn>>
  BY DEF FinishOut
<1>2. /\ IsScene(sc') /\ Canvases(undoStack') /\ Canvases(redoStack')
      /\ UndoableStep
  <2>1. CASE act.edge = <<>>
    <3>1. CASE sc' = sc /\ undoStack' = undoStack /\ redoStack' = redoStack
      BY <1>0, <3>1 DEF UndoableStep
    <3>2. CASE /\ sc' = Attached(sc, NewEdge(ids + 1, act.id, id))
               /\ Push(Encode(sc))
      <4>1. IsScene(sc')
        BY <1>0, <3>2, NewShapes, ChangedScenes
      <4>2. Canvases(undoStack') /\ Canvases(redoStack') /\ undoStack' # <<>> /\ Last(undoStack') = Encode(sc)
        BY <1>0, <3>2, PushFacts DEF CanvasInv
      <4> QED
        BY <4>1, <4>2 DEF UndoableStep
    <3> QED
      BY <2>1, <3>1, <3>2 DEF FinishOut
  <2>2. CASE act.edge # <<>>
    <3>1. PICK e : IsEdge(e) /\ sc' = Attached(sc, e)
      <4>1. IsEdge(act.edge[1])
        BY <2>2, HeldArrow DEF CanvasInv
      <4>2. sc' = Attached(sc, act.edge[1]) \/ sc' = Attached(sc, [act.edge[1] EXCEPT !.to = id])
        BY <2>2 DEF FinishOut
      <4>3. IsEdge([act.edge[1] EXCEPT !.to = id])
        BY <4>1, EdgeShapes
      <4> QED
        BY <4>1, <4>2, <4>3
    <3>2. undoStack' = undoStack /\ redoStack' = redoStack
      BY <2>2 DEF FinishOut
    <3>3. torn = {} => Undoable
      BY <2>2 DEF CanvasInv, Held
    <3>4. UndoableStep
      BY <1>1, <3>2, <3>3 DEF UndoableStep, Undoable
    <3> QED
      BY <1>0, <3>1, <3>2, <3>4, ChangedScenes
  <2> QED
    BY <2>1, <2>2
<1>3. Scenes' /\ Held'
  BY <1>1, <1>2, EndStep DEF CanvasInv
<1> QED
  BY <1>1, <1>2, <1>3, ElsewhereStep DEF CanvasInv, CanvasStep

LEMMA FinishInStep == ASSUME CanvasInv, NEW id, FinishIn(id) PROVE CanvasStep
<1>0. IsScene(sc) /\ Canvases(undoStack) /\ Canvases(redoStack)
  BY DEF CanvasInv, Scenes
<1>1. Released /\ Elsewhere /\ UNCHANGED <<began, torn>> /\ undoStack' = undoStack /\ redoStack' = redoStack
  BY DEF FinishIn
<1>2. act.edge # <<>>
  BY DEF FinishIn, CanvasInv, Held, IsGesture
<1>3. PICK e : IsEdge(e) /\ sc' = Attached(sc, e)
  <2>1. IsEdge(act.edge[1])
    BY <1>2, HeldArrow DEF CanvasInv
  <2>2. sc' = Attached(sc, act.edge[1]) \/ sc' = Attached(sc, [act.edge[1] EXCEPT !.from = id])
    BY DEF FinishIn
  <2>3. IsEdge([act.edge[1] EXCEPT !.from = id])
    BY <2>1, EdgeShapes
  <2> QED
    BY <2>1, <2>2, <2>3
<1>4. IsScene(sc') /\ Canvases(undoStack') /\ Canvases(redoStack')
  BY <1>0, <1>1, <1>3, ChangedScenes
<1>5. torn = {} => Undoable
  BY <1>2 DEF CanvasInv, Held
<1>6. UndoableStep
  BY <1>1, <1>5 DEF UndoableStep, Undoable
<1>7. Scenes' /\ Held'
  BY <1>1, <1>4, EndStep DEF CanvasInv
<1> QED
  BY <1>1, <1>6, <1>7, ElsewhereStep DEF CanvasInv, CanvasStep

-----------------------------------------------------------------------------
(* Keys and the panel.                                                     *)

\* A change in one go that leaves what is stored as it is.
LEMMA ChangeElsewhere ==
    ASSUME CanvasInv, NEW s, IsScene(s), NEW chosen, Changing(s, chosen), UNCHANGED act, Elsewhere
    PROVE  CanvasStep
  BY ChangingStep, ElsewhereStep DEF CanvasInv, CanvasStep

LEMMA DeleteSelectionStep == ASSUME CanvasInv, DeleteSelection PROVE CanvasStep
<1>1. IsScene(sc)
  BY DEF CanvasInv, Scenes
<1>2. PICK s : s = RemoveEdge(RemoveNodes(sc, sel.nodes), sel.edge)
  OBVIOUS
<1>3. IsScene(s)
  BY <1>1, <1>2, RemovalScenes
<1>4. Changing(s, NoSelection) /\ UNCHANGED act /\ Elsewhere
  BY <1>2 DEF DeleteSelection
<1> QED
  BY <1>3, <1>4, ChangeElsewhere

LEMMA EscapeStep == ASSUME CanvasInv, Escape PROVE CanvasStep
<1>0. IsScene(sc) /\ IsGesture(act)
  BY DEF CanvasInv, Scenes, Held
<1>1. undoStack' = undoStack /\ redoStack' = redoStack /\ snap' = snap /\ began' = began /\ torn' = torn /\ Elsewhere
  BY DEF Escape, history
<1>2. IsScene(sc')
  <2>1. CASE act.edge = <<>>
    BY <1>0, <2>1 DEF Escape
  <2>2. CASE act.edge # <<>>
    <3>1. IsEdge(act.edge[1])
      BY <2>2, HeldArrow DEF CanvasInv
    <3> QED
      BY <1>0, <2>2, <3>1, ChangedScenes DEF Escape
  <2> QED
    BY <2>1, <2>2
<1>3. Scenes'
  BY <1>1, <1>2 DEF CanvasInv, Scenes
<1>4. Undoable' <=> Undoable
  BY <1>1 DEF Undoable
<1>5. Held'
  <2>1. CASE act' = act
    BY <1>1, <1>4, <2>1 DEF CanvasInv, Held
  <2>2. CASE act' = Idle
    <3>1. IsGesture(act') /\ act'.mode = "idle" /\ act'.edge = <<>>
      BY <2>2, EmptyHands
    <3> QED
      BY <3>1 DEF Held
  <2> QED
    BY <2>1, <2>2 DEF Escape
<1>6. UndoableStep
  <2>1. CASE act.edge = <<>>
    BY <2>1 DEF Escape, UndoableStep
  <2>2. CASE act.edge # <<>>
    <3>1. torn = {} => Undoable
      BY <2>2 DEF CanvasInv, Held
    <3> QED
      BY <1>1, <3>1 DEF UndoableStep, Undoable
  <2> QED
    BY <2>1, <2>2
<1> QED
  BY <1>1, <1>3, <1>5, <1>6, ElsewhereStep DEF CanvasInv, CanvasStep

LEMMA CopiedPart == ASSUME CanvasInv PROVE IsPart(Copied)
<1>1. IsScene(sc) /\ IsPart(clip)
  BY DEF CanvasInv, Scenes, Stored
<1> QED
  BY <1>1, PartOfScene DEF Copied

LEMMA SelectAllStep == ASSUME CanvasInv, SelectAll PROVE CanvasStep
<1>1. UNCHANGED <<sc, history, act, began>> /\ torn' = Torn /\ Elsewhere
  BY DEF SelectAll
<1> QED
  BY <1>1, SameCanvasStep, ElsewhereStep DEF CanvasInv, CanvasStep

LEMMA CopyStep == ASSUME CanvasInv, Copy PROVE CanvasStep
<1>1. UNCHANGED <<sc, history, act, began>> /\ torn' = torn /\ clip' = Copied /\ UNCHANGED <<files, mods, blocks>>
  BY DEF Copy, diskVars
<1>2. Stored'
  BY <1>1, CopiedPart DEF CanvasInv, Stored
<1> QED
  BY <1>1, <1>2, SameCanvasStep DEF CanvasInv, CanvasStep

\* A part goes onto the canvas.
LEMMA InsertChanges ==
    ASSUME CanvasInv, NEW part, IsPart(part), Insert(part), UNCHANGED act
    PROVE  Scenes' /\ Held' /\ UndoableStep
<1>1. PICK s : s = WithPart(sc, part)
  OBVIOUS
<1>2. IsScene(s)
  BY <1>1, ChangedScenes DEF CanvasInv, Scenes
<1>3. PICK chosen : Changing(s, chosen)
  BY <1>1 DEF Insert
<1> QED
  BY <1>2, <1>3, ChangingStep DEF CanvasInv

LEMMA PasteStep == ASSUME CanvasInv, NEW from, IsPart(from), Paste(from) PROVE CanvasStep
<1>1. PICK part : part = Inserted(from, ids, 28, 28)
  OBVIOUS
<1>2. IsPart(part)
  BY <1>1, InsertedPart
<1>3. Insert(part) /\ UNCHANGED act /\ clip' = from /\ UNCHANGED <<files, mods, blocks>>
  BY <1>1 DEF Paste, diskVars
<1>4. Stored'
  BY <1>3 DEF CanvasInv, Stored
<1> QED
  BY <1>2, <1>3, <1>4, InsertChanges DEF CanvasInv, CanvasStep

LEMMA AddNodeStep == ASSUME CanvasInv, NEW kind0, NEW at, AddNode(kind0, at) PROVE CanvasStep
<1>1. PICK m : m = NewNode(ids + 1, kind0, at[1] - NodeW \div 2, at[2] - NodeH \div 2)
  OBVIOUS
<1>2. PICK n : n = Placed(m)
  OBVIOUS
<1>3. IsNode(n)
  <2>1. IsNode(m)
    BY <1>1, NewShapes
  <2>2. PICK w, h : w = 422 /\ h = 4 * NodeH
    OBVIOUS
  <2>3. IsNode([m EXCEPT !.w = w, !.h = h])
    BY <2>1, NodeShapes
  <2>4. n = m \/ n = [m EXCEPT !.w = w, !.h = h]
    BY <1>2, <2>2 DEF Placed
  <2> QED
    BY <2>1, <2>3, <2>4
<1>4. PICK ns : ns = <<n>>
  OBVIOUS
<1>5. NodeList(ns)
  BY <1>3, <1>4, NodeLists
<1>6. PICK s : s = WithNew(ns)
  OBVIOUS
<1>7. IsScene(s)
  BY <1>5, <1>6, ChangedScenes DEF WithNew, CanvasInv, Scenes
<1>8. PICK chosen : Changing(s, chosen) /\ UNCHANGED act /\ Elsewhere
  BY <1>1, <1>2, <1>4, <1>6 DEF AddNode
<1> QED
  BY <1>7, <1>8, ChangeElsewhere

LEMMA AddBlockStep == ASSUME CanvasInv, NEW id, NEW at, AddBlock(id, at) PROVE CanvasStep
<1>1. PICK part : part = Centred(blocks[id], at)
  OBVIOUS
<1>2. IsPart(blocks[id])
  BY DEF CanvasInv, Stored, AddBlock
<1>3. IsPart(part)
  BY <1>1, <1>2, InsertedPart DEF Centred
<1>4. Insert(part) /\ UNCHANGED act /\ Elsewhere
  BY <1>1 DEF AddBlock
<1> QED
  BY <1>3, <1>4, InsertChanges, ElsewhereStep DEF CanvasInv, CanvasStep

LEMMA BlockFilesStep ==
    ASSUME CanvasInv, NEW id, SaveSelectionAsBlock \/ DeleteBlock(id)
    PROVE  CanvasStep
<1>1. UNCHANGED <<sc, history, act, began>> /\ torn' = torn /\ UNCHANGED <<clip, files, mods>>
  BY DEF SaveSelectionAsBlock, DeleteBlock
<1>2. \A b \in DOMAIN blocks' : IsPart(blocks'[b])
  <2>1. CASE SaveSelectionAsBlock
    <3>1. PICK part : part = PartOf(sc, sel.nodes)
      OBVIOUS
    <3>2. blocks' = Put(blocks, ids + 1, part)
      BY <2>1, <3>1 DEF SaveSelectionAsBlock
    <3>3. IsPart(part)
      BY <3>1, PartOfScene DEF CanvasInv, Scenes
    <3> QED
      BY <3>2, <3>3 DEF Put, CanvasInv, Stored
  <2>2. CASE DeleteBlock(id)
    BY <2>2 DEF DeleteBlock, CanvasInv, Stored
  <2> QED
    BY <2>1, <2>2
<1>3. Stored'
  BY <1>1, <1>2 DEF CanvasInv, Stored
<1> QED
  BY <1>1, <1>3, SameCanvasStep DEF CanvasInv, CanvasStep

LEMMA DropStep ==
    ASSUME CanvasInv, NEW requests \in Dropped, NEW at, DropCollectionNode(requests, at)
    PROVE  CanvasStep
<1>1. PICK n : n = NodeFromRequest(ids + 1, requests[1], at[1] - NodeW \div 2, at[2] - NodeH \div 2)
  OBVIOUS
<1>2. PICK ns : ns = IF Len(requests) = 1 THEN <<n>> ELSE InColumns(requests, at)
  OBVIOUS
<1>3. NodeList(ns)
  <2>1. IsNode(n)
    BY <1>1, RequestNode
  <2>2. NodeList(<<n>>)
    BY <2>1, NodeLists
  <2>3. NodeList(InColumns(requests, at))
    BY EditorAssumption, ColumnNodes
  <2> QED
    BY <1>2, <2>2, <2>3
<1>4. PICK s : s = WithNew(ns)
  OBVIOUS
<1>5. IsScene(s)
  BY <1>3, <1>4, ChangedScenes DEF WithNew, CanvasInv, Scenes
<1>6. PICK chosen : Changing(s, chosen) /\ UNCHANGED act /\ Elsewhere
  BY <1>1, <1>2, <1>4 DEF DropCollectionNode
<1> QED
  BY <1>5, <1>6, ChangeElsewhere

\* A node or an arrow that is changed and looks the same leaves the drawing as it is.
LEMMA NodeUnseen ==
    ASSUME NEW s, IsScene(s), NEW id \in IdsOf(s.nodes), NEW n, IsNode(n),
           NodeDrawn(n) = NodeDrawn(ById(s.nodes, id))
    PROVE  Drawn(WithNode(s, id, n)) = Drawn(s)
<1>0. NodeList(s.nodes) /\ IsList(s.nodes)
  BY DEF IsScene, NodeList
<1>1. PICK i : i = IndexOf(s.nodes, id)
  OBVIOUS
<1>2. i \in DOMAIN s.nodes /\ ById(s.nodes, id) = s.nodes[i]
  BY <1>0, <1>1, IndexFound DEF ById
<1>3. PICK ns : ns = [s.nodes EXCEPT ![i] = n]
  OBVIOUS
<1>4. PICK t : t = WithNode(s, id, n)
  OBVIOUS
<1>5. t = [s EXCEPT !.nodes = ns]
  BY <1>1, <1>3, <1>4 DEF WithNode
<1>6. t = [id |-> s.id, name |-> s.name, nodes |-> ns, edges |-> s.edges, view |-> s.view]
  BY <1>5, SceneWith
<1>7. t.id = s.id /\ t.nodes = ns /\ t.edges = s.edges
  BY <1>6
<1>8. DOMAIN ns = DOMAIN s.nodes /\ \A j \in DOMAIN ns : NodeDrawn(ns[j]) = NodeDrawn(s.nodes[j])
  BY <1>2, <1>3
<1>9. {NodeDrawn(ns[j]) : j \in DOMAIN ns} = {NodeDrawn(s.nodes[j]) : j \in DOMAIN s.nodes}
  BY <1>8
<1>10. {EdgeDrawn(t.edges[j]) : j \in DOMAIN t.edges} = {EdgeDrawn(s.edges[j]) : j \in DOMAIN s.edges}
  BY <1>7
<1>11. {NodeDrawn(t.nodes[j]) : j \in DOMAIN t.nodes} = {NodeDrawn(s.nodes[j]) : j \in DOMAIN s.nodes}
  BY <1>7, <1>9
<1>12. Drawn(t) = Drawn(s)
  BY <1>7, <1>10, <1>11, DrawnIs
<1> QED
  BY <1>4, <1>12

LEMMA EdgeUnseen ==
    ASSUME NEW s, IsScene(s), NEW id \in IdsOf(s.edges), NEW e, IsEdge(e),
           EdgeDrawn(e) = EdgeDrawn(ById(s.edges, id))
    PROVE  Drawn(WithEdge(s, id, e)) = Drawn(s)
<1>0. EdgeList(s.edges) /\ IsList(s.edges)
  BY DEF IsScene, EdgeList
<1>1. PICK i : i = IndexOf(s.edges, id)
  OBVIOUS
<1>2. i \in DOMAIN s.edges /\ ById(s.edges, id) = s.edges[i]
  BY <1>0, <1>1, IndexFound DEF ById
<1>3. PICK es : es = [s.edges EXCEPT ![i] = e]
  OBVIOUS
<1>4. PICK t : t = WithEdge(s, id, e)
  OBVIOUS
<1>5. t = [s EXCEPT !.edges = es]
  BY <1>1, <1>3, <1>4 DEF WithEdge
<1>6. t = [id |-> s.id, name |-> s.name, nodes |-> s.nodes, edges |-> es, view |-> s.view]
  BY <1>5, SceneWith
<1>7. t.id = s.id /\ t.nodes = s.nodes /\ t.edges = es
  BY <1>6
<1>8. DOMAIN es = DOMAIN s.edges /\ \A j \in DOMAIN es : EdgeDrawn(es[j]) = EdgeDrawn(s.edges[j])
  BY <1>2, <1>3
<1>9. {EdgeDrawn(es[j]) : j \in DOMAIN es} = {EdgeDrawn(s.edges[j]) : j \in DOMAIN s.edges}
  BY <1>8
<1>10. {NodeDrawn(t.nodes[j]) : j \in DOMAIN t.nodes} = {NodeDrawn(s.nodes[j]) : j \in DOMAIN s.nodes}
  BY <1>7
<1>11. {EdgeDrawn(t.edges[j]) : j \in DOMAIN t.edges} = {EdgeDrawn(s.edges[j]) : j \in DOMAIN s.edges}
  BY <1>7, <1>9
<1>12. Drawn(t) = Drawn(s)
  BY <1>7, <1>10, <1>11, DrawnIs
<1> QED
  BY <1>4, <1>12

LEMMA TypeOnNodeStep == ASSUME CanvasInv, NEW key, NEW text, TypeOnNode(key, text) PROVE CanvasStep
<1>0. IsScene(sc) /\ NodeList(sc.nodes)
  BY DEF CanvasInv, Scenes, IsScene
<1>1. PICK id, n : id = sel.node /\ n = ById(sc.nodes, id)
  OBVIOUS
<1>2. id \in IdsOf(sc.nodes) /\ IsNode(n) /\ key \in TextKeys(n.kind)
  BY <1>0, <1>1, FoundNode DEF TypeOnNode, NodeIds, NodeOf
<1>3. PICK m : m = [n EXCEPT !.f = WithField(@, key, text)]
  OBVIOUS
<1>4. IsNode(m) /\ NodeDrawn(m) = NodeDrawn(n)
  BY <1>2, <1>3, TextsUnseen
<1>5. sc' = WithNode(sc, id, m)
  BY <1>1, <1>3 DEF TypeOnNode, WithNodeField, NodeOf
<1>6. IsScene(sc')
  BY <1>0, <1>2, <1>4, <1>5, ChangedScenes
<1>7. Drawn(sc') = Drawn(sc)
  BY <1>0, <1>1, <1>2, <1>4, <1>5, NodeUnseen
<1>8. UNCHANGED <<history, act, began>> /\ torn' = torn /\ Elsewhere
  BY DEF TypeOnNode
<1> QED
  BY <1>6, <1>7, <1>8, CalmStep, ElsewhereStep DEF CanvasInv, CanvasStep

LEMMA PickOnNodeStep == ASSUME CanvasInv, NEW key, NEW text, PickOnNode(key, text) PROVE CanvasStep
<1>0. IsScene(sc) /\ NodeList(sc.nodes)
  BY DEF CanvasInv, Scenes, IsScene
<1>1. PICK id, n : id = sel.node /\ n = ById(sc.nodes, id)
  OBVIOUS
<1>2. id \in IdsOf(sc.nodes) /\ IsNode(n)
  BY <1>0, <1>1, FoundNode DEF PickOnNode, NodeIds
<1>3. PICK m : m = [n EXCEPT !.f = WithField(@, key, text)]
  OBVIOUS
<1>4. IsNode(m)
  BY <1>2, <1>3, NodeShapes
<1>5. PICK s : s = WithNode(sc, id, m)
  OBVIOUS
<1>6. IsScene(s)
  BY <1>0, <1>2, <1>4, <1>5, ChangedScenes
<1>7. Changing(s, sel) /\ UNCHANGED act /\ Elsewhere
  BY <1>1, <1>3, <1>5 DEF PickOnNode, WithNodeField, NodeOf
<1> QED
  BY <1>6, <1>7, ChangeElsewhere

LEMMA DeleteOnPanelStep == ASSUME CanvasInv, DeleteOnPanel PROVE CanvasStep
<1>1. IsScene(sc)
  BY DEF CanvasInv, Scenes
<1>2. PICK s, chosen : IsScene(s) /\ Changing(s, chosen)
  BY <1>1, RemovalScenes DEF DeleteOnPanel
<1>3. UNCHANGED act /\ Elsewhere
  BY DEF DeleteOnPanel
<1> QED
  BY <1>2, <1>3, ChangeElsewhere

\* The arrow that is selected.
LEMMA ChosenFacts ==
    ASSUME CanvasInv, EdgeChosen
    PROVE  IsScene(sc) /\ sel.edge \in IdsOf(sc.edges) /\ IsEdge(ChosenEdge)
<1>1. IsScene(sc) /\ EdgeList(sc.edges) /\ sel.edge \in IdsOf(sc.edges)
  BY DEF CanvasInv, Scenes, IsScene, EdgeChosen
<1> QED
  BY <1>1, FoundEdge DEF ChosenEdge

LEMMA PickOnEdgeStep == ASSUME CanvasInv, NEW x, PickCond(x) \/ PickOp(x) PROVE CanvasStep
<1>1. PICK e : e = ChosenEdge
  OBVIOUS
<1>2. IsScene(sc) /\ sel.edge \in IdsOf(sc.edges) /\ IsEdge(e)
  BY <1>1, ChosenFacts DEF PickCond, PickOp
<1>3. PICK g : g = WithField(e.f, "op", x)
  OBVIOUS
<1>4. IsEdge([e EXCEPT !.cond = x]) /\ IsEdge([e EXCEPT !.f = g])
  BY <1>2, EdgeShapes
<1>5. PICK d : IsEdge(d) /\ Changing(WithEdge(sc, sel.edge, d), sel)
  <2>1. CASE PickCond(x)
    <3>1. Changing(WithEdge(sc, sel.edge, [e EXCEPT !.cond = x]), sel)
      BY <1>1, <2>1 DEF PickCond
    <3> QED
      BY <1>4, <3>1
  <2>2. CASE PickOp(x)
    <3>1. Changing(WithEdge(sc, sel.edge, [e EXCEPT !.f = g]), sel)
      BY <1>1, <1>3, <2>2 DEF PickOp
    <3> QED
      BY <1>4, <3>1
  <2> QED
    BY <2>1, <2>2
<1>6. PICK s : s = WithEdge(sc, sel.edge, d)
  OBVIOUS
<1>7. IsScene(s)
  BY <1>2, <1>5, <1>6, ChangedScenes
<1>8. UNCHANGED act /\ Elsewhere
  BY DEF PickCond, PickOp
<1> QED
  BY <1>5, <1>6, <1>7, <1>8, ChangeElsewhere

LEMMA TypeOnEdgeStep == ASSUME CanvasInv, NEW key, NEW text, TypeOnEdge(key, text) PROVE CanvasStep
<1>1. PICK e : e = ChosenEdge
  OBVIOUS
<1>2. IsScene(sc) /\ sel.edge \in IdsOf(sc.edges) /\ IsEdge(e) /\ e = ById(sc.edges, sel.edge)
  BY <1>1, ChosenFacts DEF TypeOnEdge, ChosenEdge
<1>3. PICK g : g = WithField(e.f, key, text)
  OBVIOUS
<1>4. PICK d : d = [e EXCEPT !.f = g]
  OBVIOUS
<1>5. IsEdge(d)
  BY <1>2, <1>4, EdgeShapes
<1>6. EdgeDrawn(d) = EdgeDrawn(e)
  <2>1. e = [id |-> e.id, from |-> e.from, to |-> e.to, cond |-> e.cond, f |-> e.f]
    BY <1>2 DEF IsEdge
  <2>2. d = [id |-> e.id, from |-> e.from, to |-> e.to, cond |-> e.cond, f |-> g]
    BY <1>4, <2>1
  <2>3. PICK none : none = Unset
    OBVIOUS
  <2>4. [d EXCEPT !.f = none] = [e EXCEPT !.f = none]
    BY <2>1, <2>2
  <2> QED
    BY <2>3, <2>4 DEF EdgeDrawn
<1>7. sc' = WithEdge(sc, sel.edge, d)
  BY <1>1, <1>3, <1>4 DEF TypeOnEdge
<1>8. IsScene(sc')
  BY <1>2, <1>5, <1>7, ChangedScenes
<1>9. Drawn(sc') = Drawn(sc)
  BY <1>2, <1>5, <1>6, <1>7, EdgeUnseen
<1>10. UNCHANGED <<history, act, began>> /\ torn' = torn /\ Elsewhere
  BY DEF TypeOnEdge
<1> QED
  BY <1>8, <1>9, <1>10, CalmStep, ElsewhereStep DEF CanvasInv, CanvasStep

LEMMA TypeNameStep == ASSUME CanvasInv, NEW name, TypeName(name) PROVE CanvasStep
<1>1. IsScene(sc) /\ sc' = [sc EXCEPT !.name = name]
  BY DEF CanvasInv, Scenes, TypeName
<1>2. IsScene(sc') /\ Drawn(sc') = Drawn(sc)
  BY <1>1, SceneKept, LabelsUnseen
<1>3. UNCHANGED <<history, act, began>> /\ torn' = torn /\ Elsewhere
  BY DEF TypeName
<1> QED
  BY <1>2, <1>3, CalmStep, ElsewhereStep DEF CanvasInv, CanvasStep

-----------------------------------------------------------------------------
(* Undo and redo.                                                          *)

LEMMA MaxFound ==
    ASSUME NEW n \in Nat, NEW T, T \subseteq 1..n, T # {}
    PROVE  Max(T) \in T
<1> DEFINE B == {n - x : x \in T}
<1>1. B \subseteq Nat /\ B # {}
  OBVIOUS
<1>2. PICK b \in B : \A k \in B : b <= k
  <2> HIDE DEF B
  <2> QED
    BY <1>1, Least
<1>3. PICK m \in T : b = n - m
  BY <1>2
<1>4. \A y \in T : n - m <= n - y
  BY <1>2, <1>3
<1>5. \A y \in T : m >= y
  BY <1>4
<1>6. \E x \in T : \A y \in T : x >= y
  BY <1>5
<1> QED
  BY <1>6 DEF Max

\* What an undo or a redo puts onto the canvas comes out of the history, which then has the canvas
\* that was there.
LEMMA RestoreStep ==
    ASSUME CanvasInv, NEW canvas, IsScene(canvas), Restore(canvas), torn' = Torn,
           UNCHANGED <<snap, act, began>>, Canvases(undoStack'), Canvases(redoStack'),
           \/ undoStack' # <<>> /\ Last(undoStack') = Encode(sc)
           \/ redoStack' # <<>> /\ Last(redoStack') = Encode(sc)
    PROVE  Scenes' /\ Held' /\ UndoableStep
<1>1. IsScene(sc')
  BY SceneFromDTO DEF Restore
<1>2. Scenes'
  BY <1>1 DEF CanvasInv, Scenes
<1>3. UndoableStep
  BY DEF UndoableStep
<1>4. IsGesture(act')
  BY DEF CanvasInv, Held
<1>5. Held'
  <2>1. CASE act = Idle
    <3>1. act'.mode = "idle" /\ act'.edge = <<>>
      BY <2>1, EmptyHands
    <3> QED
      BY <1>4, <3>1 DEF Held
  <2>2. CASE act # Idle
    <3>1. torn' # {}
      BY <2>2 DEF Torn
    <3> QED
      BY <1>4, <3>1 DEF Held
  <2> QED
    BY <2>1, <2>2
<1> QED
  BY <1>2, <1>3, <1>5

LEMMA UndoTaken == ASSUME CanvasInv, Undo PROVE CanvasStep
<1>0. Canvases(undoStack) /\ Canvases(redoStack) /\ IsScene(sc) /\ IsScene(Encode(sc))
  BY EncodeScene DEF CanvasInv, Scenes
<1>1. torn' = Torn /\ UNCHANGED <<snap, clip, act, files, mods, blocks, began>>
  BY DEF Undo, diskVars
<1>2. Stored'
  BY <1>1 DEF CanvasInv, Stored
<1>3. PICK step : step = UndoStep(undoStack)
  OBVIOUS
<1>4. CASE step = 0
  <2>1. undoStack' = <<>> /\ redoStack' = redoStack /\ sc' = sc
    BY <1>3, <1>4 DEF Undo
  <2>2. Scenes'
    BY <1>0, <1>1, <2>1, CanvasLists DEF CanvasInv, Scenes
  <2>3. UndoableStep
    BY <2>1 DEF UndoableStep
  <2>4. IsGesture(act')
    BY <1>1 DEF CanvasInv, Held
  <2>5. Held'
    <3>1. CASE act = Idle
      <4>1. act'.mode = "idle" /\ act'.edge = <<>>
        BY <1>1, <3>1, EmptyHands
      <4> QED
        BY <2>4, <4>1 DEF Held
    <3>2. CASE act # Idle
      <4>1. torn' # {}
        BY <1>1, <3>2 DEF Torn
      <4> QED
        BY <2>4, <4>1 DEF Held
    <3> QED
      BY <3>1, <3>2
  <2> QED
    BY <1>2, <2>2, <2>3, <2>5 DEF CanvasInv, CanvasStep
<1>5. CASE step # 0
  <2>1. PICK other : other = {i \in DOMAIN undoStack : undoStack[i] # Encode(sc)}
    OBVIOUS
  <2>2. other # {} /\ step = Max(other)
    BY <1>3, <1>5, <2>1 DEF UndoStep
  <2>3. Len(undoStack) \in Nat /\ DOMAIN undoStack = 1..Len(undoStack)
    BY <1>0, ListFacts DEF Canvases
  <2>4. step \in DOMAIN undoStack
    BY <2>1, <2>2, <2>3, MaxFound
  <2>5. IsScene(undoStack[step])
    BY <1>0, <2>4, CanvasLists
  <2>6. /\ undoStack' = SubSeq(undoStack, 1, step - 1)
        /\ redoStack' = Append(redoStack, Encode(sc))
        /\ Restore(undoStack[step])
    BY <1>3, <1>5 DEF Undo
  <2>7. step - 1 \in 0..Len(undoStack)
    BY <2>3, <2>4
  <2>8. Canvases(undoStack')
    BY <1>0, <2>6, <2>7, CanvasLists
  <2>9. Canvases(redoStack') /\ redoStack' # <<>> /\ Last(redoStack') = Encode(sc)
    BY <1>0, <2>6, CanvasLists
  <2>10. Scenes' /\ Held' /\ UndoableStep
    BY <1>1, <2>5, <2>6, <2>8, <2>9, RestoreStep
  <2> QED
    BY <1>2, <2>10 DEF CanvasInv, CanvasStep
<1> QED
  BY <1>4, <1>5

LEMMA RedoTaken == ASSUME CanvasInv, Redo PROVE CanvasStep
<1>0. Canvases(undoStack) /\ Canvases(redoStack) /\ IsScene(sc) /\ IsScene(Encode(sc))
  BY EncodeScene DEF CanvasInv, Scenes
<1>1. torn' = Torn /\ UNCHANGED <<snap, clip, act, files, mods, blocks, began>>
  BY DEF Redo, diskVars
<1>2. Stored'
  BY <1>1 DEF CanvasInv, Stored
<1>3. /\ redoStack # <<>>
      /\ redoStack' = SubSeq(redoStack, 1, Len(redoStack) - 1)
      /\ undoStack' = Append(undoStack, Encode(sc))
      /\ Restore(Last(redoStack))
  BY DEF Redo
<1>4. IsScene(Last(redoStack))
  BY <1>0, <1>3, CanvasLists
<1>5. Len(redoStack) - 1 \in 0..Len(redoStack)
  <2>1. Len(redoStack) \in Nat /\ redoStack \in Seq(ToSet(redoStack))
    BY <1>0, ListFacts DEF Canvases
  <2> QED
    BY <1>3, <2>1
<1>6. Canvases(redoStack')
  BY <1>0, <1>3, <1>5, CanvasLists
<1>7. Canvases(undoStack') /\ undoStack' # <<>> /\ Last(undoStack') = Encode(sc)
  BY <1>0, <1>3, CanvasLists
<1>8. Scenes' /\ Held' /\ UndoableStep
  BY <1>1, <1>3, <1>4, <1>6, <1>7, RestoreStep
<1> QED
  BY <1>2, <1>8 DEF CanvasInv, CanvasStep

-----------------------------------------------------------------------------
(* Files, and the list of scenarios.                                       *)

\* A save changes the view of the scenario at most.
LEMMA SavingStep == ASSUME CanvasInv, SaveScenario \/ Autosave PROVE CanvasStep
<1>1. /\ sc' = Synced(sc) /\ Write(sc') /\ UNCHANGED <<history, act, began>> /\ torn' = torn /\ clip' = clip
  BY DEF SaveScenario, Autosave
<1>2. IsScene(sc) /\ IsScene(sc')
  BY <1>1, ChangedScenes DEF CanvasInv, Scenes
<1>3. Drawn(sc') = Drawn(sc)
  <2>1. sc' = sc \/ sc' = [sc EXCEPT !.view = <<view>>]
    BY <1>1 DEF Synced
  <2> QED
    BY <1>2, <2>1, LabelsUnseen
<1>4. Stored'
  BY <1>1, <1>2, WriteStep DEF CanvasInv, Stored
<1> QED
  BY <1>1, <1>2, <1>3, <1>4, CalmStep DEF CanvasInv, CanvasStep

LEMMA LookStep == ASSUME CanvasInv, NEW v, FirstFrame \/ ShowView(v) PROVE CanvasStep
<1>1. UNCHANGED <<sc, history, act, began>> /\ torn' = torn /\ UNCHANGED <<clip, files, mods, blocks>>
  BY DEF FirstFrame, ShowView, diskVars
<1>2. Stored'
  BY <1>1 DEF CanvasInv, Stored
<1> QED
  BY <1>1, <1>2, SameCanvasStep DEF CanvasInv, CanvasStep

LEMMA AddRequestStep == ASSUME CanvasInv, NEW r, NEW at, AddRequestNode(r, at) PROVE CanvasStep
<1>1. PICK n : n = NodeFromRequest(ids + 1, r, at[1] - NodeW \div 2, at[2] - NodeH \div 2)
  OBVIOUS
<1>2. IsNode(n)
  BY <1>1, RequestNode
<1>3. PICK ns : ns = <<n>>
  OBVIOUS
<1>4. NodeList(ns)
  BY <1>2, <1>3, NodeLists
<1>5. PICK s : s = WithNew(ns)
  OBVIOUS
<1>6. IsScene(s)
  BY <1>4, <1>5, ChangedScenes DEF WithNew, CanvasInv, Scenes
<1>7. PICK chosen : Changing(s, chosen) /\ UNCHANGED act
  BY <1>1, <1>3, <1>5 DEF AddRequestNode
<1>8. sc' = s /\ Write(sc') /\ clip' = clip
  BY <1>7 DEF AddRequestNode, Changing
<1>9. Stored'
  BY <1>6, <1>8, WriteStep DEF CanvasInv, Stored
<1> QED
  BY <1>6, <1>7, <1>9, ChangingStep DEF CanvasInv, CanvasStep

\* A file is written beside the canvas.
LEMMA OnDiskStep == ASSUME CanvasInv, NEW s, IsScene(s), OnDisk(s) PROVE CanvasStep
<1>1. Write(s) /\ UNCHANGED <<sc, history, act, began>> /\ torn' = torn /\ clip' = clip
  BY DEF OnDisk
<1>2. Stored'
  BY <1>1, WriteStep DEF CanvasInv, Stored
<1> QED
  BY <1>1, <1>2, SameCanvasStep DEF CanvasInv, CanvasStep

LEMMA DuplicateStep == ASSUME CanvasInv, NEW id, DuplicateScenario(id) PROVE CanvasStep
<1>1. IsScene(files[id])
  BY DEF CanvasInv, Stored, DuplicateScenario
<1>2. PICK a, b, f : a = ids + 1 /\ b = CopyName(f.name) /\ f = files[id]
  OBVIOUS
<1>3. PICK s : s = [f EXCEPT !.id = a, !.name = b]
  OBVIOUS
<1>4. OnDisk(s)
  BY <1>2, <1>3 DEF DuplicateScenario
<1>5. s = [id |-> a, name |-> b, nodes |-> f.nodes, edges |-> f.edges, view |-> f.view]
  <2>1. f = [id |-> f.id, name |-> f.name, nodes |-> f.nodes, edges |-> f.edges, view |-> f.view]
    BY <1>1, <1>2 DEF IsScene
  <2> QED
    BY <1>3, <2>1
<1>6. NodeList(f.nodes) /\ EdgeList(f.edges)
  BY <1>1, <1>2 DEF IsScene
<1>7. IsScene(s)
  BY <1>5, <1>6, SceneMade
<1> QED
  BY <1>4, <1>7, OnDiskStep

LEMMA ImportStep == ASSUME CanvasInv, NEW dto \in Imports, ImportScenario(dto) PROVE CanvasStep
<1>1. PICK s : s = [dto EXCEPT !.id = ids + 1]
  OBVIOUS
<1>2. IsScene(s)
  BY <1>1, EditorAssumption, SceneKept
<1>3. OnDisk(s)
  BY <1>1 DEF ImportScenario
<1> QED
  BY <1>2, <1>3, OnDiskStep

LEMMA RenameStep == ASSUME CanvasInv, NEW id, NEW name, RenameScenario(id, name) PROVE CanvasStep
<1>1. IsScene(files[id]) /\ IsScene(sc)
  BY DEF CanvasInv, Scenes, Stored, RenameScenario
<1>2. PICK s : s = [files[id] EXCEPT !.name = name]
  OBVIOUS
<1>3. IsScene(s)
  BY <1>1, <1>2, SceneKept
<1>4. Write(s) /\ UNCHANGED <<history, act, began>> /\ torn' = torn /\ clip' = clip
  BY <1>2 DEF RenameScenario
<1>5. IsScene(sc') /\ Drawn(sc') = Drawn(sc)
  <2>1. sc' = sc \/ sc' = [sc EXCEPT !.name = name]
    BY DEF RenameScenario
  <2>2. CASE sc' = sc
    BY <1>1, <2>2
  <2>3. CASE sc' = [sc EXCEPT !.name = name]
    <3>1. IsScene(sc')
      BY <1>1, <2>3, SceneKept
    <3>2. Drawn(sc') = Drawn(sc)
      BY <1>1, <2>3, LabelsUnseen
    <3> QED
      BY <3>1, <3>2
  <2> QED
    BY <2>1, <2>2, <2>3
<1>6. Stored'
  BY <1>3, <1>4, WriteStep DEF CanvasInv, Stored
<1> QED
  BY <1>4, <1>5, <1>6, CalmStep DEF CanvasInv, CanvasStep

\* The names of the files keep those of the scenarios there are.
LEMMA OrderNames ==
    ASSUME NEW id, NEW named, IsList(named), DropFromOrder(id, named)
    PROVE  IsList(mods') /\ ToSet(mods') \ {OrderFile} = ToSet(named) \ {OrderFile}
<1>1. CASE mods' = named
  BY <1>1
<1>2. CASE mods' = Append(Without(named, OrderFile), OrderFile)
  <2>1. PICK q : q = Without(named, OrderFile)
    OBVIOUS
  <2>2. IsList(q) /\ ToSet(q) = ToSet(named) \cap (ToSet(named) \ {OrderFile})
    BY <2>1, SelectedList DEF Without
  <2>3. IsList(Append(q, OrderFile)) /\ ToSet(Append(q, OrderFile)) = ToSet(q) \cup {OrderFile}
    BY <2>2, AppendList
  <2> QED
    BY <1>2, <2>1, <2>2, <2>3
<1> QED
  BY <1>1, <1>2 DEF DropFromOrder

LEMMA DeleteScenarioStep == ASSUME CanvasInv, NEW id, DeleteScenario(id) PROVE CanvasStep
<1>0. IsList(mods) /\ ToSet(mods) \ {OrderFile} \subseteq DOMAIN files
  BY DEF CanvasInv, Stored
<1>1. UNCHANGED <<sc, history, act, began>> /\ torn' = torn /\ clip' = clip /\ blocks' = blocks
  BY DEF DeleteScenario, Listed
<1>2. /\ \A f \in DOMAIN files' : IsScene(files'[f])
      /\ IsList(mods') /\ ToSet(mods') \ {OrderFile} \subseteq DOMAIN files'
  <2>1. CASE DropFromOrder(id, mods) /\ files' = files
    <3>1. IsList(mods') /\ ToSet(mods') \ {OrderFile} = ToSet(mods) \ {OrderFile}
      BY <1>0, <2>1, OrderNames
    <3> QED
      BY <1>0, <2>1, <3>1 DEF CanvasInv, Stored
  <2>2. CASE files' = [f \in DOMAIN files \ {id} |-> files[f]] /\ DropFromOrder(id, Without(mods, id))
    <3>1. PICK named : named = Without(mods, id)
      OBVIOUS
    <3>2. IsList(named) /\ ToSet(named) = ToSet(mods) \ {id}
      BY <1>0, <3>1, TouchedNames
    <3>3. IsList(mods') /\ ToSet(mods') \ {OrderFile} = ToSet(named) \ {OrderFile}
      BY <2>2, <3>1, <3>2, OrderNames
    <3>4. DOMAIN files' = DOMAIN files \ {id} /\ \A f \in DOMAIN files' : files'[f] = files[f]
      BY <2>2
    <3> QED
      BY <1>0, <3>2, <3>3, <3>4 DEF CanvasInv, Stored
  <2> QED
    BY <2>1, <2>2 DEF DeleteScenario
<1>3. Stored'
  BY <1>1, <1>2 DEF CanvasInv, Stored
<1> QED
  BY <1>1, <1>3, SameCanvasStep DEF CanvasInv, CanvasStep

LEMMA OrderStep ==
    ASSUME CanvasInv, NEW a, NEW b, MoveScenario(a, b) \/ AddSeparator(a)
    PROVE  CanvasStep
<1>1. UNCHANGED <<sc, history, act, began>> /\ torn' = torn /\ UNCHANGED <<clip, blocks, files>>
  BY DEF MoveScenario, AddSeparator, Listed
<1>2. mods' = Touched(OrderFile)
  BY DEF MoveScenario, AddSeparator, SetOrder
<1>3. IsList(mods') /\ ToSet(mods') = ToSet(mods) \cup {OrderFile}
  BY <1>2, TouchedNames DEF CanvasInv, Stored
<1>4. Stored'
  BY <1>1, <1>3 DEF CanvasInv, Stored
<1> QED
  BY <1>1, <1>4, SameCanvasStep DEF CanvasInv, CanvasStep

\* Another scenario comes onto the canvas; the one that was there is in the history.
LEMMA SwitchedStep ==
    ASSUME CanvasInv, act = Idle, IsScene(sc'), PushHistory, Began, UNCHANGED act
    PROVE  Scenes' /\ Held' /\ UndoableStep
<1>1. Canvases(snap) /\ IsScene(Encode(sc)) /\ snap' = snap /\ Push(Encode(sc))
  BY EncodeScene DEF CanvasInv, Scenes, PushHistory
<1>2. Canvases(undoStack') /\ Canvases(redoStack') /\ undoStack' # <<>> /\ Last(undoStack') = Encode(sc)
  BY <1>1, PushFacts DEF CanvasInv
<1>3. Scenes'
  BY <1>1, <1>2 DEF Scenes
<1>4. UndoableStep
  BY <1>2 DEF UndoableStep
<1>5. IsGesture(act') /\ act'.mode = "idle" /\ act'.edge = <<>>
  BY EmptyHands
<1>6. Held'
  BY <1>5 DEF Held
<1> QED
  BY <1>3, <1>4, <1>6

LEMMA OpenScenarioStep == ASSUME CanvasInv, NEW id, OpenScenario(id) PROVE CanvasStep
<1>1. IsScene(files[id]) /\ IsScene(sc)
  BY DEF CanvasInv, Scenes, Stored, OpenScenario
<1>2. IsScene(sc')
  BY <1>1, SceneFromDTO DEF OpenScenario
<1>3. act = Idle /\ PushHistory /\ Began /\ UNCHANGED act /\ clip' = clip
  BY DEF OpenScenario
<1>4. IsScene(Synced(sc))
  BY <1>1, ChangedScenes
<1>5. Stored'
  <2>1. CASE Write(Synced(sc))
    BY <1>3, <1>4, <2>1, WriteStep DEF CanvasInv, Stored
  <2>2. CASE UNCHANGED diskVars
    BY <1>3, <2>2 DEF CanvasInv, Stored, diskVars
  <2> QED
    BY <2>1, <2>2 DEF OpenScenario
<1> QED
  BY <1>2, <1>3, <1>5, SwitchedStep DEF CanvasInv, CanvasStep

LEMMA CreateNewStep == ASSUME CanvasInv, CreateNew PROVE CanvasStep
<1>1. IsScene(sc')
  BY NewScene DEF CreateNew
<1>2. act = Idle /\ PushHistory /\ Began /\ UNCHANGED act /\ clip' = clip /\ Write(sc')
  BY DEF CreateNew
<1>3. Stored'
  BY <1>1, <1>2, WriteStep DEF CanvasInv, Stored
<1> QED
  BY <1>1, <1>2, <1>3, SwitchedStep DEF CanvasInv, CanvasStep

\* The newest file there is holds a scenario.
LEMMA LatestScene ==
    ASSUME NEW fs, \A f \in DOMAIN fs : IsScene(fs[f]),
           NEW named, IsList(named), ToSet(named) \ {OrderFile} \subseteq DOMAIN fs, NEW taken
    PROVE  IsScene(Latest(fs, named, taken))
<1>1. CASE named = <<>> \/ Last(named) = OrderFile
  BY <1>1, NewScene DEF Latest
<1>2. CASE ~(named = <<>> \/ Last(named) = OrderFile)
  <2>1. Len(named) \in Nat /\ named \in Seq(ToSet(named))
    BY ListFacts
  <2>2. Len(named) \in 1..Len(named)
    BY <1>2, <2>1
  <2>3. Last(named) \in DOMAIN fs
    BY <1>2, <2>2, ListFacts DEF Last
  <2> QED
    BY <1>2, <2>3, SceneFromDTO DEF Latest
<1> QED
  BY <1>1, <1>2

LEMMA RestartKeeps == ASSUME CanvasInv, NEW flushed \in BOOLEAN, Restart(flushed) PROVE CanvasInv'
<1>1. /\ \A f \in DOMAIN files' : IsScene(files'[f])
      /\ IsList(mods') /\ ToSet(mods') \ {OrderFile} \subseteq DOMAIN files'
  <2>1. CASE flushed /\ ViewDirty
    <3>1. files' = Put(files, sc.id, Synced(sc)) \/ files' = Put(files, Synced(sc).id, Synced(sc))
      BY <2>1 DEF Restart, FilesLeft, Written
    <3>2. IsScene(sc) /\ IsScene(Synced(sc)) /\ Synced(sc).id = sc.id
      <4>1. IsScene(sc) /\ IsScene(Synced(sc))
        BY ChangedScenes DEF CanvasInv, Scenes
      <4>2. PICK v : v = <<view>>
        OBVIOUS
      <4>3. [sc EXCEPT !.view = v] = [id |-> sc.id, name |-> sc.name, nodes |-> sc.nodes, edges |-> sc.edges, view |-> v]
        BY <4>1, SceneWith
      <4>4. Synced(sc) = sc \/ Synced(sc) = [sc EXCEPT !.view = v]
        BY <4>2 DEF Synced
      <4>5. Synced(sc).id = sc.id
        BY <4>3, <4>4
      <4> QED
        BY <4>1, <4>5
    <3>3. /\ DOMAIN files' = DOMAIN files \cup {sc.id}
          /\ \A f \in DOMAIN files' : files'[f] = IF f = sc.id THEN Synced(sc) ELSE files[f]
      BY <3>1, <3>2 DEF Put
    <3>4. mods' = Touched(sc.id)
      BY <2>1 DEF Restart, NamesLeft
    <3>5. IsList(mods') /\ ToSet(mods') = ToSet(mods) \cup {sc.id}
      BY <3>4, TouchedNames DEF CanvasInv, Stored
    <3> QED
      BY <3>2, <3>3, <3>5 DEF CanvasInv, Stored
  <2>2. CASE ~(flushed /\ ViewDirty)
    <3>1. files' = files /\ mods' = mods
      BY <2>2 DEF Restart, FilesLeft, NamesLeft
    <3> QED
      BY <3>1 DEF CanvasInv, Stored
  <2> QED
    BY <2>1, <2>2
<1>2. IsScene(sc')
  BY <1>1, LatestScene DEF Restart
<1>3. /\ undoStack' = <<>> /\ redoStack' = <<>> /\ snap' = <<>>
      /\ clip' = [nodes |-> <<>>, edges |-> <<>>] /\ act' = Idle /\ blocks' = blocks
  BY DEF Restart, ResetEditor
<1>4. Scenes'
  BY <1>2, <1>3, CanvasLists DEF Scenes
<1>5. IsPart(clip')
  BY <1>3, NodeLists, EdgeLists DEF IsPart
<1>6. Stored'
  BY <1>1, <1>3, <1>5 DEF CanvasInv, Stored
<1>7. IsGesture(act') /\ act'.mode = "idle" /\ act'.edge = <<>>
  BY <1>3, EmptyHands
<1>8. Held'
  BY <1>7 DEF Held
<1> QED
  BY <1>4, <1>6, <1>8 DEF CanvasInv

-----------------------------------------------------------------------------
(* The window's steps.                                                     *)

LEMMA DoesLess ==
    ASSUME Allowed, NEW what \in Doings, Does(what)
    PROVE  Allowed' /\ left'[what] # left[what]
  BY DEF Does, Allowed

LEMMA DoingNames ==
    {"press", "drag", "undo", "key", "panel", "save", "view", "list", "tab", "run", "step", "restart"} \subseteq Doings
  BY DEF Doings

LEMMA NextAllowed == ASSUME Allowed, FlowNext \/ UNCHANGED flowVars PROVE Allowed'
<1>1. CASE \E what \in Doings : Does(what)
  BY <1>1, DoesLess
<1>2. CASE left' = left
  BY <1>2 DEF Allowed
<1>3. GestureStep => left' = left \/ \E what \in Doings : Does(what)
  BY DoingNames DEF GestureStep
<1>4. KeyStep => \E what \in Doings : Does(what)
  BY DoingNames DEF KeyStep
<1>5. PanelStep => \E what \in Doings : Does(what)
  BY DoingNames DEF PanelStep
<1>6. SaveStep => left' = left \/ \E what \in Doings : Does(what)
  BY DoingNames DEF SaveStep
<1>7. ListStep \/ SwitchStep => \E what \in Doings : Does(what)
  BY DoingNames DEF ListStep, SwitchStep
<1>8. RunnerStep => left' = left \/ \E what \in Doings : Does(what)
  BY DoingNames DEF RunnerStep
<1>9. UNCHANGED flowVars => left' = left
  BY DEF flowVars
<1> QED
  BY <1>1, <1>2, <1>3, <1>4, <1>5, <1>6, <1>7, <1>8, <1>9, DoingNames DEF FlowNext, EditorStep

LEMMA GesturesUndoable == ASSUME CanvasInv, GestureStep PROVE CanvasStep
<1>1. CASE \E id \in NodeIds : PressNode(id) \/ PressToSelect(id) \/ PressPort(id) \/ PressResize(id)
  BY <1>1, PressNodeStep, PressToSelectStep, PressPortStep, PressResizeStep
<1>2. CASE \E id \in IdsOf(sc.edges) : PressEdge(id) \/ \E freeTarget \in BOOLEAN : GrabEdge(id, freeTarget)
  BY <1>2, PressEdgeStep, GrabEdgeStep
<1>3. CASE PressCanvas
  BY <1>3, PressCanvasStep
<1>4. CASE \E by \in Offsets : Drag(by) \/ DragResize(by)
  BY <1>4, DragStep, DragResizeStep
<1>5. CASE \E v \in Views : DragView(v)
  BY <1>5, LookingStep
<1>6. CASE \E nodes \in SUBSET NodeIds : DragMarquee(nodes)
  BY <1>6, LookingStep
<1>7. CASE FinishNowhere \/ Release
  BY <1>7, LetGoStep
<1>8. CASE \E id \in NodeIds : FinishOut(id) \/ FinishIn(id)
  BY <1>8, FinishOutStep, FinishInStep
<1> QED
  BY <1>1, <1>2, <1>3, <1>4, <1>5, <1>6, <1>7, <1>8 DEF GestureStep

LEMMA KeysUndoable == ASSUME CanvasInv, KeyStep PROVE CanvasStep
<1>1. CASE Undo \/ Redo
  BY <1>1, UndoTaken, RedoTaken
<1>2. CASE DeleteSelection \/ Escape \/ SelectAll \/ Copy
  BY <1>2, DeleteSelectionStep, EscapeStep, SelectAllStep, CopyStep
<1>3. CASE Paste(clip)
  <2>1. IsPart(clip)
    BY DEF CanvasInv, Stored
  <2> QED
    BY <1>3, <2>1, PasteStep
<1>4. CASE Paste(Copied)
  BY <1>4, CopiedPart, PasteStep
<1> QED
  BY <1>1, <1>2, <1>3, <1>4 DEF KeyStep

LEMMA PanelUndoable == ASSUME CanvasInv, PanelStep PROVE CanvasStep
<1>1. CASE \E at \in Points, kind0 \in AddedKinds : AddNode(kind0, at)
  BY <1>1, AddNodeStep
<1>2. CASE \E at \in Points, id \in DOMAIN blocks : AddBlock(id, at)
  BY <1>2, AddBlockStep
<1>3. CASE \E at \in Points, requests \in Dropped : DropCollectionNode(requests, at)
  BY <1>3, DropStep
<1>4. CASE SaveSelectionAsBlock \/ \E id \in DOMAIN blocks : DeleteBlock(id)
  BY <1>4, BlockFilesStep
<1>5. CASE DeleteOnPanel
  BY <1>5, DeleteOnPanelStep
<1>6. CASE \E key \in DOMAIN NodeTexts : \E text \in NodeTexts[key] : TypeOnNode(key, text)
  BY <1>6, TypeOnNodeStep
<1>7. CASE \E key \in DOMAIN NodeChips : \E text \in NodeChips[key] : PickOnNode(key, text)
  BY <1>7, PickOnNodeStep
<1>8. CASE (\E cond \in EdgeConds : PickCond(cond)) \/ \E op \in EdgeOps : PickOp(op)
  BY <1>8, PickOnEdgeStep
<1>9. CASE \E key \in DOMAIN EdgeTexts : \E text \in EdgeTexts[key] : TypeOnEdge(key, text)
  BY <1>9, TypeOnEdgeStep
<1>10. CASE \E name \in Names : TypeName(name)
  BY <1>10, TypeNameStep
<1> QED
  BY <1>1, <1>2, <1>3, <1>4, <1>5, <1>6, <1>7, <1>8, <1>9, <1>10 DEF PanelStep

LEMMA SavesUndoable == ASSUME CanvasInv, SaveStep PROVE CanvasStep
<1>1. CASE FirstFrame
  BY <1>1, LookStep
<1>2. CASE SaveScenario \/ Autosave
  BY <1>2, SavingStep
<1>3. CASE \E v \in Views : ShowView(v)
  BY <1>3, LookStep
<1>4. CASE \E r \in TabRequests, at \in Points : AddRequestNode(r, at)
  BY <1>4, AddRequestStep
<1> QED
  BY <1>1, <1>2, <1>3, <1>4 DEF SaveStep

LEMMA ListUndoable == ASSUME CanvasInv, ListStep PROVE CanvasStep
<1>1. CASE \E id \in DOMAIN files : DuplicateScenario(id)
  BY <1>1, DuplicateStep
<1>2. CASE \E id \in DOMAIN files : \E name \in Names : RenameScenario(id, name)
  BY <1>2, RenameStep
<1>3. CASE \E dto \in Imports : ImportScenario(dto)
  BY <1>3, ImportStep
<1>4. CASE \E id : DeleteScenario(id)
  BY <1>4, DeleteScenarioStep
<1>5. CASE (\E a, b : MoveScenario(a, b)) \/ \E a : AddSeparator(a)
  BY <1>5, OrderStep
<1> QED
  BY <1>1, <1>2, <1>3, <1>4, <1>5 DEF ListStep

LEMMA EditorStays == ASSUME CanvasInv, UNCHANGED editorVars PROVE CanvasStep
<1>1. UNCHANGED <<sc, history, act, began>> /\ torn' = torn /\ UNCHANGED <<clip, files, mods, blocks>>
  BY DEF editorVars, diskVars
<1>2. Stored'
  BY <1>1 DEF CanvasInv, Stored
<1> QED
  BY <1>1, <1>2, SameCanvasStep DEF CanvasInv, CanvasStep

LEMMA WindowStep ==
    ASSUME CanvasInv, Allowed, FlowNext \/ UNCHANGED flowVars
    PROVE  CanvasInv' /\ (left'["restart"] = left["restart"] => UndoableStep)
<1>1. CASE GestureStep \/ KeyStep \/ PanelStep \/ SaveStep \/ ListStep
  BY <1>1, GesturesUndoable, KeysUndoable, PanelUndoable, SavesUndoable, ListUndoable DEF CanvasStep
<1>2. CASE SwitchStep
  BY <1>2, OpenScenarioStep, CreateNewStep DEF SwitchStep, CanvasStep
<1>3. CASE UNCHANGED editorVars
  BY <1>3, EditorStays DEF CanvasStep
<1>4. CASE Does("restart") /\ \E flushed \in BOOLEAN : Restart(flushed)
  <2>1. CanvasInv'
    BY <1>4, RestartKeeps
  <2>2. left'["restart"] # left["restart"]
    BY <1>4, DoesLess, DoingNames
  <2> QED
    BY <2>1, <2>2
<1> QED
  BY <1>1, <1>2, <1>3, <1>4 DEF FlowNext, EditorStep, RunnerStep, flowVars

LEMMA SessionBegins == FlowInit => EditorInv
<1> SUFFICES ASSUME FlowInit PROVE EditorInv
  OBVIOUS
<1>1. PICK session \in Sessions :
        /\ files = session.files /\ mods = session.mods /\ blocks = session.blocks /\ left = session.left
        /\ LET taken == Max({100} \cup {TakenBy(files[f]) : f \in DOMAIN files})
           IN  NewEditor(Latest(files, mods, taken))
  BY DEF FlowInit
<1>2. /\ \A f \in DOMAIN files : IsScene(files[f])
      /\ \A b \in DOMAIN blocks : IsPart(blocks[b])
      /\ IsList(mods) /\ ToSet(mods) \ {OrderFile} \subseteq DOMAIN files
      /\ left \in [Doings -> Nat]
  BY <1>1, SessionsAssumption
<1>3. PICK taken : NewEditor(Latest(files, mods, taken))
  BY <1>1
<1>4. /\ sc = Latest(files, mods, taken)
      /\ undoStack = <<>> /\ redoStack = <<>> /\ snap = <<>>
      /\ clip = [nodes |-> <<>>, edges |-> <<>>] /\ act = Idle
  BY <1>3 DEF NewEditor
<1>5. Scenes
  BY <1>2, <1>4, LatestScene, CanvasLists DEF Scenes
<1>6. IsPart(clip)
  BY <1>4, NodeLists, EdgeLists DEF IsPart
<1>7. Held
  BY <1>4, EmptyHands DEF Held
<1> QED
  BY <1>2, <1>5, <1>6, <1>7 DEF EditorInv, Stored, Allowed

\* Whatever the pointer, a key, the panel, a tab or the list does to the drawing, the history
\* holds it as it was, or as it was when the gesture began, as the step that undo or redo
\* takes next (pushSnapshot, commitPending, grabEdge, Undo, Redo, OpenScenario); only a key
\* that was pressed during a gesture, and leaving the program, can lose it.
THEOREM UndoReaches == FlowSpec => ChangesUndoable
<1>1. FlowInit => EditorInv
  BY SessionBegins
<1>2. EditorInv /\ [FlowNext]_flowVars => EditorInv'
  BY WindowStep, NextAllowed DEF EditorInv, CanvasInv
<1>3. EditorInv /\ [FlowNext]_flowVars =>
          [Drawn(sc') # Drawn(sc) /\ torn' = {} /\ left'.restart = left.restart =>
              \/ undoStack' # <<>> /\ Last(undoStack') \in {began', Encode(sc)}
              \/ redoStack' # <<>> /\ Last(redoStack') = Encode(sc)]_flowVars
  BY WindowStep DEF EditorInv, CanvasInv, UndoableStep
<1> QED
  BY <1>1, <1>2, <1>3, PTL DEF FlowSpec, ChangesUndoable

-----------------------------------------------------------------------------
(* The runner in the section: what it gets is the scenario on the canvas,   *)
(* and a program that is started again has not run anything.               *)

LEMMA PlansOfScenes == ASSUME NEW s, IsScene(s) PROVE Plannable(PlanOf(s))
<1> DEFINE known == IdsOf(s.nodes)
           joined == Selected(s.edges, Joining(s.edges, known))
<1>1. EdgeList(s.edges)
  BY DEF IsScene
<1>2. ToSet(joined) \subseteq Joining(s.edges, known) /\ IsList(joined)
  BY <1>1, SelectedList DEF EdgeList
<1>3. \A i \in DOMAIN joined : joined[i].from \in known /\ joined[i].to \in known
  BY <1>2, ListFacts DEF Joining
<1> HIDE DEF known, joined
<1>4. PICK p : p = PlanOf(s)
  OBVIOUS
<1>5. /\ p.nodes = known
      /\ p.edges = [i \in DOMAIN joined |-> [from |-> joined[i].from, to |-> joined[i].to, cond |-> joined[i].cond]]
      /\ \A n \in known : p.inside[n] \subseteq known
  BY <1>4 DEF PlanOf, InsideOf, known, joined
<1>6. \A i \in DOMAIN p.edges : p.edges[i].from \in p.nodes /\ p.edges[i].to \in p.nodes
  BY <1>3, <1>5
<1> QED
  BY <1>4, <1>5, <1>6 DEF Plannable

LEMMA ResetInvariant == ASSUME ResetRunner PROVE IInv'
<1> DEFINE E == Elements(stack')
<1> HIDE DEF E
<1>1. <<>> \in Seq(E) /\ <<>> \in Seq(Records) /\ DOMAIN <<>> = 1..0
  OBVIOUS
<1>2. stack' = <<>> /\ runs' = <<>> /\ ~running' /\ Flags'
  BY DEF ResetRunner, Flags
<1>3. \A i \in 1..0 : FALSE
  OBVIOUS
<1>4. Open' /\ Closed'
  BY ONLY <1>3, <1>1, <1>2 DEF Open, Closed
<1>5. Stacked'
  BY ONLY <1>3, <1>1, <1>2 DEF Stacked, E, Elements
<1>6. Tally' /\ Requesting' /\ NeverStuck'
  BY DEF ResetRunner, Tally, Requesting, NeverStuck, At
<1>7. Board'
  BY DEF ResetRunner, Board, NoStates
<1> QED
  BY <1>2, <1>4, <1>5, <1>6, <1>7 DEF IInv

LEMMA ResetWalks == ASSUME ResetRunner, IsScene(sc') PROVE Charted' /\ Walked' /\ Shown'
<1>1. PICK s : s = PlanOf(sc')
  OBVIOUS
<1>2. Plannable(s) /\ plan' \in BuildPlan(s)
  BY <1>1, PlansOfScenes DEF ResetRunner
<1>3. Charted'
  BY <1>2, PlansChart DEF Charted
<1>4. Walked'
  <2>1. DOMAIN <<>> = {}
    OBVIOUS
  <2>2. stack' = <<>>
    BY DEF ResetRunner
  <2> QED
    BY <2>1, <2>2 DEF Walked
<1>5. Shown'
  BY DEF ResetRunner, Shown, UnreachableNeverRuns, NoStates
<1> QED
  BY <1>3, <1>4, <1>5

RunnerInv == IInv /\ Charted /\ Walked /\ Shown

LEMMA SessionFresh == FlowInit => RunnerInv
<1> SUFFICES ASSUME FlowInit PROVE RunnerInv
  OBVIOUS
<1>1. IsScene(sc)
  BY SessionBegins DEF EditorInv, Scenes
<1>2. NewRunner(sc)
  BY DEF FlowInit, NewEditor
<1>3. PICK s : s = PlanOf(sc)
  OBVIOUS
<1>4. Plannable(s) /\ plan \in BuildPlan(s)
  BY <1>1, <1>2, <1>3, PlansOfScenes DEF NewRunner
<1>5. Charted /\ Walked /\ Shown
  BY <1>2, <1>4, FreshWalks DEF NewRunner
<1>6. IInv
  BY <1>2, FreshInvariant DEF NewRunner, Fresh
<1> QED
  BY <1>5, <1>6 DEF RunnerInv

LEMMA RunnerBesideEditor ==
    ASSUME CanvasInv, CanvasInv', RunnerInv, FlowNext \/ UNCHANGED flowVars
    PROVE  RunnerInv'
<1>1. IsScene(sc) /\ IsScene(sc')
  BY DEF CanvasInv, Scenes
<1>2. CASE Start(PlanOf(sc))
  <2>1. \E s : Plannable(s) /\ Start(s)
    BY <1>1, <1>2, PlansOfScenes
  <2> QED
    BY <2>1, RunnerKeeps, RunnerWalks DEF RunnerInv
<1>3. CASE Stop \/ Reset \/ SetStepMode \/ Step \/ SendToken \/ WalkOn \/ Request \/ CloseSockets \/ UNCHANGED vars
  BY <1>3, RunnerKeeps, RunnerWalks DEF RunnerInv
<1>4. CASE \E flushed \in BOOLEAN : Restart(flushed)
  <2>1. ResetRunner
    BY <1>4 DEF Restart
  <2> QED
    BY <1>1, <2>1, ResetInvariant, ResetWalks DEF RunnerInv
<1> QED
  BY <1>2, <1>3, <1>4 DEF FlowNext, EditorStep, Aside, SwitchStep, RunnerStep, flowVars

\* The invariants of the editor and of the runner hold in the section, where the user draws
\* while a run is under way and starts runs of what is on the canvas (editor.go ToggleRun).
THEOREM SectionInvariance == FlowSpec => [](EditorInv /\ RunnerInv)
<1>1. FlowInit => EditorInv /\ RunnerInv
  BY SessionBegins, SessionFresh
<1>2. EditorInv /\ RunnerInv /\ [FlowNext]_flowVars => EditorInv' /\ RunnerInv'
  BY WindowStep, NextAllowed, RunnerBesideEditor DEF EditorInv, CanvasInv
<1> QED
  BY <1>1, <1>2, PTL DEF FlowSpec

\* In the section too a walk that waits is about to be let on, unless the user wants it to
\* wait (exec.go:530 waitStep against exec.go:227 SetStepMode).
THEOREM SectionNeverStuck == FlowSpec => []NeverStuck
  BY Claims, SectionInvariance, PTL DEF RunnerInv

\* Records and board agree with what was run, whatever is drawn, opened or restarted
\* meanwhile (exec.go:774, the end of a run; exec.go:252 Reset).
THEOREM SectionRecordsHonest == FlowSpec => []HonestRecords
  BY Claims, SectionInvariance, PTL DEF RunnerInv

\* A node that the editor counts as unreachable on the canvas it starts is not run, also when
\* the canvas changes during the run (exec.go:293 buildPlan takes a copy).
THEOREM SectionUnreachable == FlowSpec => []UnreachableNeverRuns
<1>1. RunnerInv => UnreachableNeverRuns
  BY DEF RunnerInv, Shown
<1> QED
  BY <1>1, SectionInvariance, PTL

-----------------------------------------------------------------------------
(* The types of the runner.  Every visit below the innermost one has been    *)
(* counted, so there are never more under way than steps, or one more when   *)
(* the innermost one is at its beginning (Depth).                            *)

VisitsAt(N) ==
    [node : N, at : Places, in : Results, res : Results, rounds : Nat, it : Nat, k : Nat \ {0}]

Entered == IF stack # <<>> /\ top.at = "enter" THEN 1 ELSE 0
Depth == Len(stack) <= steps + Entered

\* A loop runs a number of times, and the arrows are numbered.
Timed(s) == (\A n \in s.nodes : s.times[n] \in Nat) /\ DOMAIN s.edges \subseteq Nat

Modes ==
    /\ {running, paused, stepMode, cancelled, anyFail, limitHit} \subseteq BOOLEAN
    /\ paused => running
    /\ status \in {"", "no start", "no arrows", "running", "paused", "stopped", "limit", "errors", "finished"}
    /\ token \in 0..1
    /\ ui \in {"idle", "send"}

Colours ==
    /\ nodeSt \in [plan.scenario.nodes -> States]
    /\ edgeSt \in [DOMAIN plan.scenario.edges -> {"idle", "ok", "fail"}]

Numbered0 ==
    /\ runs \in Seq(Records) /\ Len(runs) <= MaxHistory
    /\ {runSeq, okReq, failReq, socks, closing} \subseteq Nat
    /\ steps \in 0..MaxSteps

Visited == stack \in Seq(VisitsAt(plan.scenario.nodes)) /\ Depth

Typed == Modes /\ Colours /\ Numbered0 /\ Visited /\ Timed(plan.scenario)

LEMMA Limits == MaxSteps \in Nat /\ MaxItems \in Nat /\ MaxRuns \in Nat /\ MaxHistory \in Nat \ {0}
  BY ScenariosAssumption

LEMMA TypedClaims == ASSUME Typed PROVE TypeOK
<1>1. Len(stack) <= MaxSteps + 1
  BY Limits DEF Typed, Visited, Depth, Entered, Numbered0
<1>2. Visits = VisitsAt(plan.scenario.nodes)
  BY DEF Visits, VisitsAt
<1> QED
  BY <1>1, <1>2 DEF Typed, Modes, Colours, Numbered0, Visited, TypeOK

LEMMA VisitPlaced ==
    ASSUME NEW N, NEW v \in VisitsAt(N), NEW x \in Places, NEW f, f = [v EXCEPT !.at = x]
    PROVE  f \in VisitsAt(N) /\ f.at = x
  BY DEF VisitsAt

LEMMA NewVisit ==
    ASSUME NEW N, NEW n \in N, NEW r \in Results
    PROVE  Visit(n, r) \in VisitsAt(N) /\ Visit(n, r).at = "enter"
  BY DEF Visit, VisitsAt, Places

\* What the three ways to leave a place do to the stack.
LEMMA StackEnds ==
    ASSUME NEW S, NEW q \in Seq(S), q # <<>>
    PROVE  /\ q[1] \in S
           /\ Tail(q) \in Seq(S) /\ Len(Tail(q)) = Len(q) - 1
           /\ Tail(q) # <<>> => 2 \in DOMAIN q /\ Tail(q)[1] = q[2]
           /\ \A f \in S : LET r == <<f>> \o Tail(q)
                           IN  r \in Seq(S) /\ Len(r) = Len(q) /\ r[1] = f /\ r # <<>>
           /\ \A f, v \in S : LET r == <<v, f>> \o Tail(q)
                              IN  r \in Seq(S) /\ Len(r) = Len(q) + 1 /\ r[1] = v /\ r # <<>>
<1>1. q[1] \in S /\ Len(q) \in Nat \ {0}
  OBVIOUS
<1>2. PICK t : t = Tail(q)
  OBVIOUS
<1>3. t \in Seq(S) /\ Len(t) = Len(q) - 1 /\ \A i \in 1..Len(t) : t[i] = q[i + 1]
  BY <1>1, <1>2
<1>4. t # <<>> => 2 \in DOMAIN q /\ t[1] = q[2]
  BY <1>1, <1>3
<1>5. ASSUME NEW f \in S PROVE LET r == <<f>> \o t IN r \in Seq(S) /\ Len(r) = Len(q) /\ r[1] = f /\ r # <<>>
  BY <1>1, <1>3
<1>6. ASSUME NEW f \in S, NEW v \in S
      PROVE  LET r == <<v, f>> \o t IN r \in Seq(S) /\ Len(r) = Len(q) + 1 /\ r[1] = v /\ r # <<>>
  BY <1>1, <1>3
<1> QED
  BY <1>1, <1>2, <1>3, <1>4, <1>5, <1>6

LEMMA TopVisit ==
    ASSUME Visited, stack # <<>>
    PROVE  /\ top \in VisitsAt(plan.scenario.nodes)
           /\ top.node \in plan.scenario.nodes /\ top.in \in Results /\ top.res \in Results
           /\ top.rounds \in Nat /\ top.it \in Nat /\ top.k \in Nat \ {0}
<1>1. top \in VisitsAt(plan.scenario.nodes)
  BY StackEnds DEF Visited, top
<1> QED
  BY <1>1 DEF VisitsAt

LEMMA ReturnVisits ==
    ASSUME Visited, Stacked, stack # <<>>, Return, UNCHANGED plan, steps \in Nat, steps' \in Nat, steps' >= steps
    PROVE  Visited'
<1>1. /\ stack' \in Seq(VisitsAt(plan.scenario.nodes)) /\ Len(stack') = Len(stack) - 1
      /\ Len(stack) \in Nat /\ Len(stack) <= steps + 1
  BY StackEnds DEF Visited, Return, Depth, Entered
<1>2. Entered' \in 0..1
  BY DEF Entered
<1> QED
  BY <1>1, <1>2 DEF Visited, Depth

LEMMA GotoVisits ==
    ASSUME Visited, stack # <<>>, NEW f \in VisitsAt(plan.scenario.nodes), f.at # "enter", Goto(f), UNCHANGED plan,
           steps \in Nat, steps' = IF top.at = "enter" THEN steps + 1 ELSE steps
    PROVE  Visited'
<1>1. /\ stack' \in Seq(VisitsAt(plan.scenario.nodes)) /\ Len(stack') = Len(stack) /\ stack'[1] = f
  BY StackEnds DEF Visited, Goto
<1>2. Len(stack) <= steps'
  BY DEF Visited, Depth, Entered
<1>3. Entered' = 0
  BY <1>1 DEF Entered, top
<1> QED
  BY <1>1, <1>2, <1>3 DEF Visited, Depth

LEMMA CallVisits ==
    ASSUME Visited, stack # <<>>, NEW f \in VisitsAt(plan.scenario.nodes), NEW v \in VisitsAt(plan.scenario.nodes),
           v.at = "enter", top.at # "enter", Call(f, v), UNCHANGED <<plan, steps>>, steps \in Nat
    PROVE  Visited'
<1>1. /\ stack' \in Seq(VisitsAt(plan.scenario.nodes)) /\ Len(stack') = Len(stack) + 1 /\ stack'[1] = v
      /\ stack' # <<>> /\ Len(stack) \in Nat
  BY StackEnds DEF Visited, Call
<1>2. Len(stack) <= steps
  BY DEF Visited, Depth, Entered
<1>3. Entered' = 1
  BY <1>1 DEF Entered, top
<1> QED
  BY <1>1, <1>2, <1>3 DEF Visited, Depth

LEMMA AtTop == ASSUME NEW where, At(where) PROVE stack # <<>> /\ top.at = where /\ running
  BY DEF At

\* Steps that stay with the visit or leave it, and what they count.
LEMMA EnterTyped == ASSUME Typed, Stacked, Enter PROVE Typed'
<1>0. /\ UNCHANGED <<modes, token, edgeSt, runs, anyFail, okReq, failReq, socks, runSeq, plan, cancelled, closing, ui>>
      /\ limitHit' \in {limitHit, TRUE}
  BY DEF Enter, Quiet
<1>1. stack # <<>> /\ top.at = "enter"
  BY AtTop DEF Enter
<1>2. steps \in Nat /\ MaxSteps \in Nat /\ steps <= MaxSteps
  BY Limits DEF Typed, Numbered0
<1>3. Modes' /\ Timed(plan.scenario)'
  BY <1>0 DEF Typed, Modes, modes, Timed
<1>4. top \in VisitsAt(plan.scenario.nodes) /\ top.node \in plan.scenario.nodes
  BY <1>1, TopVisit DEF Typed
<1>5. steps' \in 0..MaxSteps /\ steps' >= steps
  BY <1>2 DEF Enter
<1>6. Numbered0'
  BY <1>0, <1>5 DEF Typed, Numbered0
<1>7. Colours'
  <2>1. nodeSt' = nodeSt \/ SetNode("running")
    BY DEF Enter
  <2> QED
    BY <1>0, <1>4, <2>1 DEF Typed, Colours, SetNode, States
<1>8. Visited'
  <2>1. CASE Return
    BY <1>0, <1>1, <1>2, <1>5, <2>1, ReturnVisits DEF Typed
  <2>2. CASE Goto([top EXCEPT !.at = "gate"]) /\ steps' = steps + 1
    <3>1. PICK f : f = [top EXCEPT !.at = "gate"]
      OBVIOUS
    <3>2. f \in VisitsAt(plan.scenario.nodes) /\ f.at = "gate"
      <4>1. "gate" \in Places
        BY DEF Places
      <4> QED
        BY <1>4, <3>1, <4>1, VisitPlaced
    <3>3. Goto(f)
      BY <2>2, <3>1
    <3> QED
      BY <1>0, <1>1, <1>2, <2>2, <3>2, <3>3, GotoVisits DEF Typed
  <2> QED
    BY <2>1, <2>2 DEF Enter
<1> QED
  BY <1>3, <1>6, <1>7, <1>8 DEF Typed

\* A step of the visit to another place in it.
LEMMA PlacedTyped ==
    ASSUME Visited, steps \in Nat, stack # <<>>, top.at # "enter", UNCHANGED <<plan, steps>>,
           NEW x \in Places \ {"enter"}, Goto([top EXCEPT !.at = x])
    PROVE  Visited'
<1>1. PICK f : f = [top EXCEPT !.at = x]
  OBVIOUS
<1>2. f \in VisitsAt(plan.scenario.nodes) /\ f.at = x
  BY <1>1, TopVisit, VisitPlaced
<1>3. Goto(f)
  BY <1>1
<1> QED
  BY <1>2, <1>3, GotoVisits

LEMMA OtherPlaces == Places \ {"enter"} = {"gate", "pause", "parked", "resume", "request", "judge", "proceed", "loop", "outs"}
  BY DEF Places

LEMMA WaitTyped == ASSUME Typed, Stacked, Gate \/ Pause \/ Unpark \/ Resume PROVE Typed'
<1>0. UNCHANGED <<board, runs, counts, socks, runSeq, plan, stepMode, cancelled, closing, ui, running>>
  BY DEF Gate, Pause, Unpark, Resume, Quiet, modes
<1>1. stack # <<>> /\ top.at # "enter" /\ running
  BY AtTop DEF Gate, Pause, Unpark, Resume
<1>2. steps \in Nat /\ UNCHANGED <<plan, steps>>
  BY <1>0 DEF Typed, Numbered0, counts
<1>3. Numbered0' /\ Colours' /\ Timed(plan.scenario)'
  BY <1>0 DEF Typed, Numbered0, Colours, Timed, counts, board
<1>4. Modes'
  <2>0. paused' \in {paused, TRUE, FALSE}
    BY DEF Gate, Pause, Unpark, Resume, modes
  <2>1. status' \in {status, "paused", "running"}
    BY DEF Gate, Pause, Unpark, Resume, modes
  <2>5. token' \in {token, 0}
    BY DEF Gate, Pause, Unpark, Resume
  <2>2. status' \in {"", "no start", "no arrows", "running", "paused", "stopped", "limit", "errors", "finished"}
    BY <2>1 DEF Typed, Modes
  <2>3. paused' \in BOOLEAN
    <3>1. paused \in BOOLEAN
      BY DEF Typed, Modes
    <3> QED
      BY <2>0, <3>1
  <2>4. token' \in 0..1
    <3>1. token \in 0..1
      BY DEF Typed, Modes
    <3> QED
      BY <2>5, <3>1
  <2> QED
    BY <1>0, <1>1, <2>2, <2>3, <2>4 DEF Typed, Modes, counts
<1>5. Visited'
  <2>1. CASE Return
    BY <1>1, <1>2, <2>1, ReturnVisits DEF Typed
  <2>2. CASE \E x \in Places \ {"enter"} : Goto([top EXCEPT !.at = x])
    BY <1>1, <1>2, <2>2, PlacedTyped DEF Typed
  <2>3. Return \/ \E x \in Places \ {"enter"} : Goto([top EXCEPT !.at = x])
    <3>1. CASE Gate
      <4>1. \E x \in {"resume", "pause"} : Goto([top EXCEPT !.at = x])
        BY <3>1 DEF Gate
      <4> QED
        BY <4>1, OtherPlaces
    <3>2. CASE Pause
      BY <3>2, OtherPlaces DEF Pause
    <3>3. CASE Unpark
      BY <3>3, OtherPlaces DEF Unpark
    <3>4. CASE Resume
      <4>1. Return \/ \E x \in {"request", "judge"} : Goto([top EXCEPT !.at = x])
        BY <3>4 DEF Resume
      <4> QED
        BY <4>1, OtherPlaces
    <3> QED
      BY <3>1, <3>2, <3>3, <3>4
  <2> QED
    BY <2>1, <2>2, <2>3
<1> QED
  BY <1>3, <1>4, <1>5 DEF Typed

\* What a request comes back with.
LEMMA AnswersTyped ==
    ASSUME IsRequest(kind), socks \in Nat, NEW a \in Answers
    PROVE  a.res \in Results /\ socks + a.socks \in Nat
<1>1. \A r \in Outcomes : r \in Results
  BY DEF Outcomes
<1>2. CASE kind = "request"
  <2>1. Answers = {[res |-> r, socks |-> 0] : r \in Outcomes}
    BY <1>2 DEF Answers
  <2> QED
    BY <1>1, <2>1
<1>3. CASE kind = "ws"
  <2>1. Answers = {[res |-> r, socks |-> IF ~r.failed /\ plan.scenario.keepOpen[top.node] THEN 1 ELSE 0] : r \in Outcomes}
    BY <1>3 DEF Answers
  <2> QED
    BY <1>1, <2>1
<1>4. CASE kind = "wssend"
  <2>0. /\ [resp |-> FALSE, failed |-> TRUE] \in Results
        /\ [resp |-> TRUE, failed |-> TRUE] \in Results
        /\ [resp |-> TRUE, failed |-> FALSE] \in Results
    BY DEF Results
  <2>1. Answers = IF socks = 0 THEN {[res |-> [resp |-> FALSE, failed |-> TRUE], socks |-> 0]}
            ELSE {[res |-> [resp |-> FALSE, failed |-> TRUE], socks |-> 0],
                  [res |-> [resp |-> TRUE, failed |-> TRUE], socks |-> -1],
                  [res |-> [resp |-> TRUE, failed |-> FALSE],
                   socks |-> IF plan.scenario.wsClose[top.node] THEN -1 ELSE 0]}
    BY <1>4 DEF Answers
  <2>2. CASE socks = 0
    <3>1. a = [res |-> [resp |-> FALSE, failed |-> TRUE], socks |-> 0]
      BY <2>1, <2>2
    <3> QED
      BY <2>0, <3>1
  <2>3. CASE socks # 0
    <3>1. PICK d : d = IF plan.scenario.wsClose[top.node] THEN -1 ELSE 0
      OBVIOUS
    <3>2. a \in {[res |-> [resp |-> FALSE, failed |-> TRUE], socks |-> 0],
                 [res |-> [resp |-> TRUE, failed |-> TRUE], socks |-> -1],
                 [res |-> [resp |-> TRUE, failed |-> FALSE], socks |-> d]}
      BY <2>1, <2>3, <3>1
    <3>3. a.res \in Results
      <4>1. PICK r1, r2, r3 : /\ r1 = [resp |-> FALSE, failed |-> TRUE]
                              /\ r2 = [resp |-> TRUE, failed |-> TRUE]
                              /\ r3 = [resp |-> TRUE, failed |-> FALSE]
        OBVIOUS
      <4>2. a \in {[res |-> r1, socks |-> 0], [res |-> r2, socks |-> -1], [res |-> r3, socks |-> d]}
        BY <3>2, <4>1
      <4>3. a.res \in {r1, r2, r3}
        BY <4>2
      <4> QED
        BY <2>0, <4>1, <4>3
    <3>4. a.socks \in {0, -1, d} /\ d \in {0, -1}
      BY <3>1, <3>2
    <3> QED
      BY <2>3, <3>3, <3>4
  <2> QED
    BY <2>2, <2>3
<1> QED
  BY <1>2, <1>3, <1>4 DEF IsRequest

LEMMA RequestTyped == ASSUME Typed, IInv, Request PROVE Typed'
<1>1. PICK a \in Answers :
         /\ socks' = socks + a.socks
         /\ runs' = [runs EXCEPT ![Len(runs)] = WithEntry(@, a.res.failed)]
         /\ Goto([top EXCEPT !.at = "judge", !.res = a.res])
  BY DEF Request
<1>2. /\ UNCHANGED <<modes, token, board, counts, runSeq, plan, cancelled, closing, ui>>
      /\ stack # <<>> /\ top.at = "request" /\ running /\ At("request")
  BY AtTop DEF Request, Quiet
<1>3. a.res \in Results /\ socks' \in Nat
  <2>1. IsRequest(kind) /\ socks \in Nat
    BY <1>2 DEF IInv, Requesting, Typed, Numbered0
  <2> QED
    BY <1>1, <2>1, AnswersTyped
<1>4. Modes' /\ Colours' /\ Timed(plan.scenario)'
  BY <1>2 DEF Typed, Modes, Colours, Timed, modes, board, counts
<1>5. Numbered0'
  <2>1. runs \in Seq(Records) /\ runs # <<>>
    BY <1>2 DEF IInv, Open
  <2>2. PICK r : r = WithEntry(runs[Len(runs)], a.res.failed)
    OBVIOUS
  <2>3. r \in Records
    BY <2>1, <2>2, Counting
  <2>4. runs' = [runs EXCEPT ![Len(runs)] = r]
    BY <1>1, <2>2
  <2>5. runs' \in Seq(Records) /\ Len(runs') = Len(runs)
    BY <2>1, <2>3, <2>4
  <2> QED
    BY <1>2, <1>3, <2>5 DEF Typed, Numbered0, counts
<1>6. Visited'
  <2>1. PICK f : f = [top EXCEPT !.at = "judge", !.res = a.res]
    OBVIOUS
  <2>2. f \in VisitsAt(plan.scenario.nodes) /\ f.at = "judge"
    <3>1. "judge" \in Places
      BY DEF Places
    <3>2. top \in VisitsAt(plan.scenario.nodes)
      BY <1>2, TopVisit DEF Typed
    <3> QED
      BY <1>3, <2>1, <3>1, <3>2 DEF VisitsAt
  <2>3. Goto(f) /\ steps' = steps /\ steps \in Nat
    BY <1>1, <1>2, <2>1 DEF counts, Typed, Numbered0
  <2> QED
    BY <1>2, <2>2, <2>3, GotoVisits DEF Typed
<1> QED
  BY <1>4, <1>5, <1>6 DEF Typed

LEMMA JudgeTyped == ASSUME Typed, Judge PROVE Typed'
<1>1. /\ UNCHANGED <<modes, token, edgeSt, runs, steps, limitHit, socks, runSeq, plan, cancelled, closing, ui>>
      /\ stack # <<>> /\ top.at = "judge" /\ Goto([top EXCEPT !.at = "proceed"])
  BY AtTop DEF Judge, Quiet
<1>2. Visited' /\ Timed(plan.scenario)'
  <2>1. "proceed" \in Places \ {"enter"}
    BY OtherPlaces
  <2>2. steps \in Nat
    BY DEF Typed, Numbered0
  <2> QED
    BY <1>1, <2>1, <2>2, PlacedTyped DEF Typed, Timed
<1>3. anyFail' \in BOOLEAN
  BY DEF Judge
<1>4. Modes'
  BY <1>1, <1>3 DEF Typed, Modes, modes
<1>5. okReq' \in Nat /\ failReq' \in Nat
  BY DEF Judge, Typed, Numbered0
<1>6. Numbered0'
  BY <1>1, <1>5 DEF Typed, Numbered0
<1>7. Colours'
  <2>1. \E x \in {"ok", "fail"} : SetNode(x)
    BY DEF Judge
  <2>2. top.node \in plan.scenario.nodes
    BY <1>1, TopVisit DEF Typed
  <2> QED
    BY <1>1, <2>1, <2>2 DEF Typed, Colours, SetNode, States
<1> QED
  BY <1>2, <1>4, <1>6, <1>7 DEF Typed

LEMMA ProceedTyped == ASSUME Typed, Stacked, Proceed PROVE Typed'
<1>1. /\ UNCHANGED <<modes, token, edgeSt, runs, steps, limitHit, okReq, failReq, socks, runSeq, plan, cancelled, closing, ui>>
      /\ stack # <<>> /\ top.at = "proceed"
  BY AtTop DEF Proceed, Quiet
<1>2. steps \in Nat /\ top \in VisitsAt(plan.scenario.nodes) /\ top.node \in plan.scenario.nodes
  BY <1>1, TopVisit DEF Typed, Numbered0
<1>3. anyFail' \in {anyFail, TRUE} /\ (nodeSt' = nodeSt \/ SetNode("fail"))
  BY DEF Proceed
<1>4. Modes' /\ Numbered0' /\ Timed(plan.scenario)'
  BY <1>1, <1>3 DEF Typed, Modes, modes, Numbered0, Timed
<1>5. Colours'
  BY <1>1, <1>2, <1>3 DEF Typed, Colours, SetNode, States
<1>6. Visited'
  <2>1. CASE Return
    BY <1>1, <1>2, <2>1, ReturnVisits DEF Typed
  <2>2. CASE Goto([top EXCEPT !.at = "outs"]) \/ Goto([top EXCEPT !.at = "loop"])
    BY <1>1, <1>2, <2>2, PlacedTyped, OtherPlaces DEF Typed
  <2>3. CASE \E n \in IF ~plan.scenario.overArray[top.node] THEN {plan.scenario.times[top.node]}
                      ELSE IF top.in.resp THEN 0..MaxItems ELSE {} :
                 Goto([top EXCEPT !.at = "loop", !.rounds = n])
    <3>1. PICK n \in {plan.scenario.times[top.node]} \cup 0..MaxItems : Goto([top EXCEPT !.at = "loop", !.rounds = n])
      BY <2>3
    <3>2. n \in Nat
      BY <1>2, Limits DEF Typed, Timed
    <3>3. PICK f : f = [top EXCEPT !.at = "loop", !.rounds = n]
      OBVIOUS
    <3>4. f \in VisitsAt(plan.scenario.nodes) /\ f.at = "loop"
      <4>1. "loop" \in Places
        BY DEF Places
      <4> QED
        BY <1>2, <3>2, <3>3, <4>1 DEF VisitsAt
    <3>5. Goto(f)
      BY <3>1, <3>3
    <3> QED
      BY <1>1, <1>2, <3>4, <3>5, GotoVisits DEF Typed
  <2> QED
    BY <2>1, <2>2, <2>3 DEF Proceed
<1> QED
  BY <1>4, <1>5, <1>6 DEF Typed

LEMMA EntryNodes ==
    ASSUME Charted, NEW l \in Loops(plan.scenario), NEW k \in DOMAIN plan.entries[l]
    PROVE  plan.entries[l][k] \in plan.scenario.nodes
<1>1. plan.entries[l][k] \in plan.scenario.inside[l] /\ l \in plan.scenario.nodes
  BY DEF Charted, Entries, Members, Loops
<1> QED
  BY <1>1 DEF Charted, Plannable

LEMMA LoopTyped == ASSUME Typed, Searched, Loop PROVE Typed'
<1>1. /\ UNCHANGED <<modes, token, board, runs, counts, socks, runSeq, plan, cancelled, closing, ui>>
      /\ stack # <<>> /\ top.at = "loop"
  BY AtTop DEF Loop, Quiet
<1>2. /\ steps \in Nat /\ steps' = steps
      /\ top \in VisitsAt(plan.scenario.nodes) /\ top.in \in Results
      /\ top.it \in Nat /\ top.k \in Nat \ {0}
  BY <1>1, TopVisit DEF Typed, Numbered0, counts
<1>3. Modes' /\ Numbered0' /\ Colours' /\ Timed(plan.scenario)'
  BY <1>1 DEF Typed, Modes, modes, Numbered0, Colours, Timed, board, counts
<1>4. top.node \in Loops(plan.scenario)
  BY <1>1, TopFound DEF Searched, Found
<1>5. Visited'
  <2>1. CASE Return
    BY <1>1, <1>2, <2>1, ReturnVisits DEF Typed, Searched
  <2>2. CASE Goto([top EXCEPT !.at = "outs", !.k = 1])
    <3>0. PICK m \in Nat \ {0} : m = 1
      OBVIOUS
    <3>1. PICK f : f = [top EXCEPT !.at = "outs", !.k = m]
      OBVIOUS
    <3>2. f \in VisitsAt(plan.scenario.nodes) /\ f.at = "outs"
      <4>1. "outs" \in Places
        BY DEF Places
      <4> QED
        BY <1>2, <3>1, <4>1 DEF VisitsAt
    <3>3. Goto(f)
      BY <2>2, <3>0, <3>1
    <3> QED
      BY <1>1, <1>2, <3>2, <3>3, GotoVisits DEF Typed
  <2>3. CASE Goto([top EXCEPT !.it = @ + 1, !.k = 1])
    <3>0. PICK m \in Nat \ {0}, n \in Nat : m = 1 /\ n = top.it + 1
      BY <1>2
    <3>1. PICK f : f = [top EXCEPT !.it = n, !.k = m]
      OBVIOUS
    <3>2. f \in VisitsAt(plan.scenario.nodes) /\ f.at = "loop"
      BY <1>1, <1>2, <3>1 DEF VisitsAt
    <3>3. Goto(f)
      BY <2>3, <3>0, <3>1
    <3> QED
      BY <1>1, <1>2, <3>2, <3>3, GotoVisits DEF Typed
  <2>4. CASE /\ top.k \in DOMAIN plan.entries[top.node]
             /\ Call([top EXCEPT !.k = @ + 1], Visit(plan.entries[top.node][top.k], top.in))
    <3>1. PICK f : f = [top EXCEPT !.k = @ + 1]
      OBVIOUS
    <3>2. f \in VisitsAt(plan.scenario.nodes)
      BY <1>2, <3>1 DEF VisitsAt
    <3>3. PICK v : v = Visit(plan.entries[top.node][top.k], top.in)
      OBVIOUS
    <3>4. v \in VisitsAt(plan.scenario.nodes) /\ v.at = "enter"
      <4>1. plan.entries[top.node][top.k] \in plan.scenario.nodes
        BY <1>4, <2>4, EntryNodes DEF Searched
      <4> QED
        BY <1>2, <3>3, <4>1, NewVisit
    <3>5. Call(f, v)
      BY <2>4, <3>1, <3>3
    <3> QED
      BY <1>1, <1>2, <3>2, <3>4, <3>5, CallVisits DEF Typed
  <2> QED
    BY <2>1, <2>2, <2>3, <2>4 DEF Loop
<1> QED
  BY <1>3, <1>5 DEF Typed

LEMMA FollowTyped == ASSUME Typed, Searched, Follow PROVE Typed'
<1>1. /\ UNCHANGED <<modes, token, nodeSt, runs, counts, socks, runSeq, plan, cancelled, closing, ui>>
      /\ stack # <<>> /\ top.at = "outs"
  BY AtTop DEF Follow, Quiet
<1>2. /\ steps \in Nat /\ steps' = steps
      /\ top \in VisitsAt(plan.scenario.nodes) /\ top.res \in Results /\ top.node \in plan.scenario.nodes
  BY <1>1, TopVisit DEF Typed, Numbered0, counts
<1>3. Modes' /\ Numbered0' /\ Timed(plan.scenario)'
  BY <1>1 DEF Typed, Modes, modes, Numbered0, Timed, counts
<1>4. CASE Return /\ UNCHANGED edgeSt
  <2>1. Visited'
    BY <1>1, <1>2, <1>4, ReturnVisits DEF Typed, Searched
  <2>2. Colours'
    BY <1>1, <1>4 DEF Typed, Colours
  <2> QED
    BY <1>3, <2>1, <2>2 DEF Typed
<1>5. CASE \E e \in plan.outs[top.node] :
              LET next == [top EXCEPT !.k = e + 1]
              IN  \E pass \in Passes(plan.scenario.edges[e].cond, top.res) :
                     /\ edgeSt' = [edgeSt EXCEPT ![e] = IF pass THEN "ok" ELSE "fail"]
                     /\ IF pass THEN Call(next, Visit(plan.scenario.edges[e].to, top.res)) ELSE Goto(next)
  <2>1. PICK e, f, pass :
           /\ e \in plan.outs[top.node]
           /\ f = [top EXCEPT !.k = e + 1]
           /\ edgeSt' = [edgeSt EXCEPT ![e] = IF pass THEN "ok" ELSE "fail"]
           /\ IF pass THEN Call(f, Visit(plan.scenario.edges[e].to, top.res)) ELSE Goto(f)
    BY <1>5
  <2>2. /\ e \in DOMAIN plan.scenario.edges /\ e \in Nat
        /\ plan.scenario.edges[e].to \in plan.scenario.nodes
    BY <1>2, <2>1 DEF Searched, Charted, Outs, Plannable, Typed, Timed
  <2>3. f \in VisitsAt(plan.scenario.nodes) /\ f.at = "outs"
    BY <1>1, <1>2, <2>1, <2>2 DEF VisitsAt
  <2>4. PICK v : v = Visit(plan.scenario.edges[e].to, top.res)
    OBVIOUS
  <2>5. v \in VisitsAt(plan.scenario.nodes) /\ v.at = "enter"
    BY <1>2, <2>2, <2>4, NewVisit
  <2>6. Call(f, v) \/ Goto(f)
    BY <2>1, <2>4
  <2>7. Visited'
    <3>1. CASE Call(f, v)
      BY <1>1, <1>2, <2>3, <2>5, <3>1, CallVisits DEF Typed
    <3>2. CASE Goto(f)
      BY <1>1, <1>2, <2>3, <3>2, GotoVisits DEF Typed
    <3> QED
      BY <2>6, <3>1, <3>2
  <2>8. Colours'
    <3>1. PICK x : x = IF pass THEN "ok" ELSE "fail"
      OBVIOUS
    <3>2. edgeSt' = [edgeSt EXCEPT ![e] = x] /\ x \in {"idle", "ok", "fail"}
      BY <2>1, <3>1
    <3> QED
      BY <1>1, <2>2, <3>2 DEF Typed, Colours
  <2> QED
    BY <1>3, <2>7, <2>8 DEF Typed
<1> QED
  BY <1>4, <1>5 DEF Follow

LEMMA FinishTyped == ASSUME Typed, IInv, Finish PROVE Typed'
<1>1. /\ running' = FALSE /\ paused' = FALSE /\ status' = Verdict /\ token' = 0 /\ socks' = 0
      /\ running /\ runs' = [runs EXCEPT ![Len(runs)] = ClosedRecord(@)] /\ closing' = closing + socks
      /\ UNCHANGED <<stepMode, cancelled, board, runSeq, plan, stack, counts, ui>>
  BY DEF Finish
<1>2. Verdict \in {"stopped", "limit", "errors", "finished"}
  BY DEF Verdict
<1>3. Modes'
  <2>1. {running, paused, stepMode, cancelled, anyFail, limitHit}' \subseteq BOOLEAN
    <3>1. {stepMode, cancelled, anyFail, limitHit} \subseteq BOOLEAN
      BY DEF Typed, Modes
    <3> QED
      BY <1>1, <3>1 DEF counts
  <2>2. status' \in {"", "no start", "no arrows", "running", "paused", "stopped", "limit", "errors", "finished"}
    BY <1>1, <1>2
  <2>3. ui' \in {"idle", "send"}
    BY <1>1 DEF Typed, Modes
  <2>4. token' \in 0..1
    BY <1>1
  <2>5. paused' => running'
    BY <1>1
  <2> QED
    BY <2>1, <2>2, <2>3, <2>4, <2>5 DEF Modes
<1>4. Colours' /\ Timed(plan.scenario)' /\ Visited'
  BY <1>1 DEF Typed, Colours, Timed, Visited, Depth, Entered, top, board, counts
<1>5. Numbered0'
  <2>1. runs \in Seq(Records) /\ runs # <<>>
    BY <1>1 DEF IInv, Open
  <2>2. PICK r : r = ClosedRecord(runs[Len(runs)])
    OBVIOUS
  <2>3. r \in Records
    BY <2>1, <2>2, Closing DEF IInv
  <2>4. runs' = [runs EXCEPT ![Len(runs)] = r]
    BY <1>1, <2>2
  <2>5. runs' \in Seq(Records) /\ Len(runs') = Len(runs)
    BY <2>1, <2>3, <2>4
  <2> QED
    BY <1>1, <2>5 DEF Typed, Numbered0, counts
<1> QED
  BY <1>3, <1>4, <1>5 DEF Typed

\* No more records are kept than may be.
LEMMA KeepingFew ==
    ASSUME NEW q \in Seq(Records), Len(q) <= MaxHistory
    PROVE  Keep(Append(q, NewRecord)) \in Seq(Records) /\ Len(Keep(Append(q, NewRecord))) <= MaxHistory
<1>1. NewRecord \in Records
  BY DEF NewRecord, Records
<1>2. PICK n : n = Append(q, NewRecord)
  OBVIOUS
<1>3. n \in Seq(Records) /\ Len(n) = Len(q) + 1 /\ Len(q) \in Nat
  BY <1>1, <1>2
<1>4. Keep(n) \in Seq(Records) /\ Len(Keep(n)) <= MaxHistory
  BY <1>3, Limits DEF Keep
<1> QED
  BY <1>2, <1>4

LEMMA BlankStates ==
    ASSUME NEW S
    PROVE  NoStates(S) \in [S -> States] /\ NoStates(S) \in [S -> {"idle", "ok", "fail"}] /\ DOMAIN NoStates(S) = S
  BY DEF NoStates, States

LEMMA StartTyped == ASSUME Typed, NEW s, Timed(s), Start(s) PROVE Typed'
<1>1. PICK p \in BuildPlan(s) :
         IF s.start \notin s.nodes \/ Outs(s, s.start) = {}
         THEN /\ status' = IF s.start \notin s.nodes THEN "no start" ELSE "no arrows"
              /\ UNCHANGED <<running, paused, token, cancelled, board, runs, runSeq, plan, walkVars>>
         ELSE /\ plan' = p
              /\ running' = TRUE
              /\ paused' = FALSE
              /\ status' = "running"
              /\ nodeSt' = NoStates(s.nodes)
              /\ edgeSt' = NoStates(DOMAIN s.edges)
              /\ token' = 0
              /\ cancelled' = FALSE
              /\ runSeq' = runSeq + 1
              /\ runs' = Keep(Append(runs, NewRecord))
              /\ stack' = <<Visit(s.start, Nothing)>>
              /\ steps' = 0 /\ anyFail' = FALSE /\ limitHit' = FALSE
              /\ okReq' = 0 /\ failReq' = 0
              /\ socks' = 0
  BY DEF Start
<1>2. UNCHANGED <<stepMode, closing, ui>>
  BY DEF Start
<1>3. CASE s.start \notin s.nodes \/ Outs(s, s.start) = {}
  <2>1. /\ status' \in {"no start", "no arrows"}
        /\ UNCHANGED <<running, paused, token, cancelled, board, runs, runSeq, plan, walkVars>>
    BY <1>1, <1>3
  <2> QED
    BY <1>2, <2>1 DEF Typed, Modes, Colours, Numbered0, Visited, Depth, Entered, top, Timed, board, walkVars, counts
<1>4. CASE s.start \in s.nodes /\ Outs(s, s.start) # {}
  <2>1. plan'.scenario = s
    BY <1>1, <1>4, PlansChart
  <2>2. Modes'
    <3>1. /\ running' = TRUE /\ paused' = FALSE /\ status' = "running" /\ token' = 0
          /\ cancelled' = FALSE /\ anyFail' = FALSE /\ limitHit' = FALSE
      BY <1>1, <1>4
    <3>2. stepMode' \in BOOLEAN /\ ui' \in {"idle", "send"}
      BY <1>2 DEF Typed, Modes
    <3>3. {running, paused, stepMode, cancelled, anyFail, limitHit}' \subseteq BOOLEAN
      BY <3>1, <3>2
    <3>4. token' \in 0..1 /\ (paused' => running')
      BY <3>1
    <3>5. status' \in {"", "no start", "no arrows", "running", "paused", "stopped", "limit", "errors", "finished"}
      BY <3>1
    <3> QED
      BY <3>2, <3>3, <3>4, <3>5 DEF Modes
  <2>3. Colours'
    BY <1>1, <1>4, <2>1, BlankStates DEF Colours
  <2>4. Numbered0'
    <3>1. runs' \in Seq(Records) /\ Len(runs') <= MaxHistory
      BY <1>1, <1>4, KeepingFew DEF Typed, Numbered0
    <3>2. steps' = 0 /\ okReq' = 0 /\ failReq' = 0 /\ socks' = 0 /\ runSeq' = runSeq + 1 /\ closing' = closing
      BY <1>1, <1>2, <1>4
    <3>3. runSeq \in Nat /\ closing \in Nat
      BY DEF Typed, Numbered0
    <3> QED
      BY <3>1, <3>2, <3>3, Limits DEF Numbered0
  <2>5. Visited'
    <3>1. PICK v : v = Visit(s.start, Nothing)
      OBVIOUS
    <3>2. v \in VisitsAt(s.nodes) /\ v.at = "enter"
      <4>1. Nothing \in Results
        BY DEF Nothing, Results
      <4> QED
        BY <1>4, <3>1, <4>1, NewVisit
    <3>3. stack' = <<v>> /\ steps' = 0
      BY <1>1, <1>4, <3>1
    <3>4. stack' \in Seq(VisitsAt(s.nodes)) /\ Len(stack') = 1 /\ stack' # <<>> /\ stack'[1].at = "enter"
      BY <3>2, <3>3
    <3>5. Entered' = 1
      BY <3>4 DEF Entered, top
    <3> QED
      BY <2>1, <3>3, <3>4, <3>5 DEF Visited, Depth
  <2> QED
    BY <2>1, <2>2, <2>3, <2>4, <2>5 DEF Typed
<1> QED
  BY <1>3, <1>4

\* What the clicks, the token and the deferred calls change.
LEMMA AsideTyped ==
    ASSUME Typed, Stop \/ SetStepMode \/ Step \/ SendToken \/ CloseSockets \/ UNCHANGED vars
    PROVE  Typed'
<1>1. UNCHANGED <<running, paused, status, board, runs, runSeq, plan, walkVars>>
  BY DEF Stop, SetStepMode, Step, SendToken, CloseSockets, vars, modes
<1>2. Colours' /\ Visited' /\ Timed(plan.scenario)'
  BY <1>1 DEF Typed, Colours, Visited, Depth, Entered, top, Timed, board, walkVars, counts
<1>3. stepMode' \in BOOLEAN /\ cancelled' \in BOOLEAN
  BY DEF Typed, Modes, Stop, SetStepMode, Step, SendToken, CloseSockets, vars, modes
<1>4. token' \in 0..1
  <2>1. token \in 0..1
    BY DEF Typed, Modes
  <2>2. token' \in {token, 1}
    BY DEF Stop, SetStepMode, Step, SendToken, CloseSockets, vars
  <2> QED
    BY <2>1, <2>2
<1>5. ui' \in {"idle", "send"}
  BY DEF Typed, Modes, Stop, SetStepMode, Step, SendToken, CloseSockets, vars
<1>6. closing' \in Nat
  BY DEF Typed, Numbered0, Stop, SetStepMode, Step, SendToken, CloseSockets, vars
<1>7. Modes'
  BY <1>1, <1>3, <1>4, <1>5 DEF Typed, Modes, walkVars, counts
<1>8. Numbered0'
  BY <1>1, <1>6 DEF Typed, Numbered0, walkVars, counts
<1> QED
  BY <1>2, <1>7, <1>8 DEF Typed

LEMMA ResetTyped == ASSUME Typed, Reset PROVE Typed'
<1>1. /\ nodeSt' = NoStates(DOMAIN nodeSt) /\ edgeSt' = NoStates(DOMAIN edgeSt) /\ status' = ""
      /\ UNCHANGED <<running, paused, stepMode, token, cancelled, runs, runSeq, plan, walkVars, closing, ui>>
  BY DEF Reset
<1>2. Colours'
  BY <1>1, BlankStates DEF Typed, Colours
<1>3. Visited' /\ Timed(plan.scenario)' /\ Numbered0'
  BY <1>1 DEF Typed, Numbered0, Visited, Depth, Entered, top, Timed, walkVars, counts
<1>4. Modes'
  BY <1>1 DEF Typed, Modes, walkVars, counts
<1> QED
  BY <1>2, <1>3, <1>4 DEF Typed

LEMMA RunnerTyped ==
    ASSUME Typed, RunnerInv,
           (\E s : Timed(s) /\ Start(s)) \/ Stop \/ Reset \/ SetStepMode \/ Step \/ SendToken \/ WalkOn
           \/ Request \/ CloseSockets \/ UNCHANGED vars
    PROVE  Typed'
<1>1. IInv /\ Searched /\ Stacked
  BY DEF RunnerInv, IInv, Searched
<1>2. ASSUME WalkOn PROVE Typed'
  BY <1>1, <1>2, EnterTyped, WaitTyped, JudgeTyped, ProceedTyped, LoopTyped, FollowTyped, FinishTyped DEF WalkOn
<1>3. ASSUME Request PROVE Typed'
  BY <1>1, <1>3, RequestTyped
<1>4. ASSUME \E s : Timed(s) /\ Start(s) PROVE Typed'
  BY <1>4, StartTyped
<1> QED
  BY <1>2, <1>3, <1>4, AsideTyped, ResetTyped

\* Nothing has been run.
Rested ==
    /\ running = FALSE /\ paused = FALSE /\ stepMode = FALSE /\ status = ""
    /\ token = 0 /\ cancelled = FALSE
    /\ nodeSt = NoStates(plan.scenario.nodes)
    /\ edgeSt = NoStates(DOMAIN plan.scenario.edges)
    /\ runs = <<>> /\ runSeq = 0
    /\ stack = <<>>
    /\ steps = 0 /\ anyFail = FALSE /\ limitHit = FALSE /\ okReq = 0 /\ failReq = 0
    /\ socks = 0 /\ closing = 0
    /\ ui = "idle"

LEMMA RestedTyped == ASSUME Rested, Timed(plan.scenario) PROVE Typed
<1>1. Modes
  <2>1. {running, paused, stepMode, cancelled, anyFail, limitHit} \subseteq BOOLEAN
    BY DEF Rested
  <2>5. token = 0 /\ paused = FALSE
    BY DEF Rested
  <2>2. token \in 0..1 /\ (paused => running)
    BY <2>5
  <2>3. ui \in {"idle", "send"}
    BY DEF Rested
  <2>4. status \in {"", "no start", "no arrows", "running", "paused", "stopped", "limit", "errors", "finished"}
    BY DEF Rested
  <2> QED
    BY <2>1, <2>2, <2>3, <2>4 DEF Modes
<1>2. Colours
  BY BlankStates DEF Rested, Colours
<1>5. runs = <<>> /\ stack = <<>> /\ steps = 0
  BY DEF Rested
<1>3. Numbered0
  <2>1. runs \in Seq(Records) /\ Len(runs) = 0
    BY <1>5
  <2>3. runSeq = 0 /\ okReq = 0 /\ failReq = 0 /\ socks = 0 /\ closing = 0
    BY DEF Rested
  <2>2. {runSeq, okReq, failReq, socks, closing} \subseteq Nat
    BY <2>3
  <2> QED
    BY <1>5, <2>1, <2>2, Limits DEF Numbered0
<1>4. Visited
  <2>1. stack \in Seq(VisitsAt(plan.scenario.nodes)) /\ Len(stack) = 0
    BY <1>5
  <2> QED
    BY <1>5, <2>1 DEF Visited, Depth, Entered
<1> QED
  BY <1>1, <1>2, <1>3, <1>4 DEF Typed
=============================================================================
