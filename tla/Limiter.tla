-------------------------------- MODULE Limiter --------------------------------
(***************************************************************************)
(* The traffic limiter (internal/netlimit, internal/ui/netlimit): every    *)
(* button starts a goroutine that asks the operating system for a limit or *)
(* for its removal, then notes the state, then writes or removes a marker  *)
(* file; a sample loop measures the traffic.  The marker tells the next    *)
(* start that the last process died with its limit in force.  Modelled as  *)
(* built for Unix, where limits outlive the process.                       *)
(***************************************************************************)
EXTENDS Integers, Sequences, FiniteSets, FiniteSetsExt

CONSTANTS Pids,       \* processes a limit may be for
          Slots,      \* bound: operations at a time
          MaxClicks,  \* bound: clicks
          MaxTicks,   \* bound: samples taken
          HistCap,    \* length of the history
          MaxCrashes  \* bound: crashes

ASSUME LimiterAssumption ==
    /\ Pids \subseteq Nat \ {0} /\ Slots \subseteq Nat /\ HistCap \in Nat \ {0}
    /\ MaxClicks \in Nat /\ MaxTicks \in Nat /\ MaxCrashes \in Nat

VARIABLES
    lim,       \* Manager: state and spec
    os,        \* the limit in force
    marker,    \* the marker file, NoLimit: none
    watch,     \* watchPID
    ops,       \* the goroutines started by buttons
    section,   \* scope, hasApp and the process picked; 0: one remembered from the last start
    config,    \* netlimit.json
    orphan,    \* the section says that a limit was left over
    closing,   \* how far Close is, "no" before it
    sampled,   \* the sample loop: [n, watched, base, speed]
    hist,      \* the history: [ring, pos, full]
    clicks, crashes,
    muddled    \* history: operations met, the system refused or broke one, or it was too late

limVars == <<lim, os, marker, watch, ops, section, config, orphan, closing, sampled, hist,
             clicks, crashes, muddled>>
secVars == <<section, config, orphan>>
loopVars == <<sampled, hist>>
endVars == <<closing, clicks, crashes>>

NoLimit == [scope |-> "none", pid |-> 0]
NoOp == [kind |-> "none", pc |-> "none", spec |-> NoLimit]
NoSpeed == [of |-> 0, from |-> 0]
Off == [state |-> "idle", spec |-> NoLimit]

Fresh ==
    /\ lim' = Off /\ watch' = 0 /\ ops' = [o \in Slots |-> NoOp]
    /\ section' = [config EXCEPT !.pid = 0]
    /\ closing' = "no"
    /\ sampled' = [n |-> 0, watched |-> 0, base |-> 0, speed |-> NoSpeed]
    /\ hist' = [ring |-> [i \in 1..HistCap |-> 0], pos |-> 0, full |-> FALSE]

LimInit ==
    /\ lim = Off /\ os = NoLimit /\ marker = NoLimit /\ watch = 0
    /\ ops = [o \in Slots |-> NoOp]
    /\ section = [scope |-> "system", has |-> FALSE, pid |-> 0] /\ config = section
    /\ orphan = FALSE
    /\ closing = "no"
    /\ sampled = [n |-> 0, watched |-> 0, base |-> 0, speed |-> NoSpeed]
    /\ hist = [ring |-> [i \in 1..HistCap |-> 0], pos |-> 0, full |-> FALSE]
    /\ clicks = 0 /\ crashes = 0 /\ muddled = FALSE

-----------------------------------------------------------------------------
(* The buttons (UI thread).                                                *)

Busy == {o \in Slots : ops[o] # NoOp}

Click == clicks < MaxClicks /\ clicks' = clicks + 1

Go(kind, pc, spec) ==
    /\ Click
    /\ Busy # Slots
    /\ ops' = [ops EXCEPT ![Min(Slots \ Busy)] = [kind |-> kind, pc |-> pc, spec |-> spec]]
    /\ UNCHANGED <<lim, os, marker, watch, closing, crashes, loopVars>>

\* Two operations at a time.
Meets == Busy # {}

ScopeSystem ==
    /\ Click
    /\ section.scope # "system"
    /\ section' = [section EXCEPT !.scope = "system"]
    /\ watch' = 0
    /\ UNCHANGED <<lim, os, marker, ops, config, orphan, closing, crashes, loopVars, muddled>>

ScopeApp ==
    /\ Click
    /\ section.scope # "app"
    /\ section' = [section EXCEPT !.scope = "app"]
    /\ watch' = IF section.has THEN section.pid ELSE watch
    /\ UNCHANGED <<lim, os, marker, ops, config, orphan, closing, crashes, loopVars, muddled>>

PickProc(p) ==
    /\ Click
    /\ <<section.has, section.pid>> # <<TRUE, p>>
    /\ section' = [section EXCEPT !.has = TRUE, !.pid = p]
    /\ watch' = IF section.scope = "app" THEN p ELSE watch
    /\ UNCHANGED <<lim, os, marker, ops, config, orphan, closing, crashes, loopVars, muddled>>

Spec0 == [scope |-> section.scope, pid |-> IF section.scope = "app" THEN section.pid ELSE 0]

\* A spec without a rate, or without an application, is refused: not a step.
StartLimit ==
    /\ lim.state = "idle"
    /\ section.scope = "app" => section.has
    /\ config' = section
    /\ Go("apply", "act", Spec0)
    /\ muddled' = (muddled \/ Meets)
    /\ UNCHANGED <<section, orphan>>

\* The rules left over are removed even if there is a new limit meanwhile.
ClearLeftover ==
    /\ orphan
    /\ orphan' = FALSE
    /\ Go("clear", "act", NoLimit)
    /\ muddled' = (muddled \/ Meets \/ lim.state = "active")
    /\ UNCHANGED <<section, config>>

PauseOrResume ==
    /\ \/ lim.state = "active" /\ Go("pause", "check", NoLimit)
       \/ lim.state = "paused" /\ Go("resume", "check", NoLimit)
    /\ muddled' = (muddled \/ Meets)
    /\ UNCHANGED secVars

CancelLimit ==
    /\ lim.state # "idle"
    /\ Go("cancel", "check", NoLimit)
    /\ muddled' = (muddled \/ Meets)
    /\ UNCHANGED secVars

\* The button of the title bar decides in its goroutine.
ToggleLimit ==
    /\ lim.state # "idle"
    /\ Go("toggle", "check", NoLimit)
    /\ muddled' = (muddled \/ Meets)
    /\ UNCHANGED secVars

Pick == ScopeSystem \/ ScopeApp \/ \E p \in Pids : PickProc(p)

Buttons ==
    \/ StartLimit
    \/ ClearLeftover
    \/ PauseOrResume
    \/ CancelLimit
    \/ ToggleLimit

-----------------------------------------------------------------------------
(* The operations: look at the state, act, note the state, the marker and  *)
(* what to watch, each in a critical section of its own or in none.        *)

opOnly == <<secVars, endVars, loopVars>>

At(o, pc) == ops[o].pc = pc
Moved(o, pc) == ops' = [ops EXCEPT ![o].pc = pc]
Over(o) == ops' = [ops EXCEPT ![o] = NoOp]

Kind(o) ==
    IF ops[o].kind # "toggle" THEN ops[o].kind
    ELSE IF lim.state = "paused" THEN "resume" ELSE "pause"

Wants(kind) == CASE kind = "pause" -> {"active"} [] kind = "resume" -> {"paused"} [] OTHER -> {"active", "paused"}

\* Resume takes the spec along; in the wrong state there is nothing to do.
Check(o) ==
    /\ At(o, "check")
    /\ IF lim.state \in Wants(Kind(o))
       THEN ops' = [ops EXCEPT ![o] = [kind |-> Kind(o), pc |-> "act", spec |-> lim.spec]]
       ELSE Over(o)
    /\ UNCHANGED <<lim, os, marker, watch, opOnly, muddled>>

Applies(o) == ops[o].kind \in {"apply", "resume"}

\* Shaper.Apply takes the old limit down first.  It may be refused, or break on its way.
ActApply(o) ==
    /\ At(o, "act") /\ Applies(o)
    /\ \/ /\ ops[o].spec.scope = "app" => ops[o].spec.pid # 0
          /\ os' = ops[o].spec
          /\ Moved(o, "set")
          /\ UNCHANGED muddled
       \/ Over(o) /\ UNCHANGED <<os, muddled>>
       \/ /\ Over(o)
          /\ os' \in {NoLimit, ops[o].spec}
          /\ os' # os
          /\ muddled' = TRUE
    /\ UNCHANGED <<lim, marker, watch, opOnly>>

\* Shaper.Remove says that all went well, even if the user refused it.
ActRemove(o) ==
    /\ At(o, "act") /\ ~Applies(o)
    /\ \/ os' = NoLimit /\ UNCHANGED muddled
       \/ os # NoLimit /\ muddled' = TRUE /\ UNCHANGED os
    /\ Moved(o, IF ops[o].kind = "clear" THEN "mark" ELSE "set")
    /\ UNCHANGED <<lim, marker, watch, opOnly>>

SetState(o) ==
    /\ At(o, "set")
    /\ lim' = CASE ops[o].kind = "apply"  -> [state |-> "active", spec |-> ops[o].spec]
                [] ops[o].kind = "resume" -> [lim EXCEPT !.state = "active"]
                [] ops[o].kind = "pause"  -> [lim EXCEPT !.state = "paused"]
                [] OTHER                  -> Off
    /\ Moved(o, "mark")
    /\ UNCHANGED <<os, marker, watch, opOnly, muddled>>

\* Mutant: a new limit is not marked.
MarkNoNew(o) ==
    /\ At(o, "mark")
    /\ marker' = CASE ops[o].kind = "apply" -> marker [] ops[o].kind = "resume" -> lim.spec [] OTHER -> NoLimit
    /\ IF ops[o].kind \in {"apply", "cancel"} THEN Moved(o, "watch") ELSE Over(o)
    /\ UNCHANGED <<lim, os, watch, opOnly, muddled>>

\* writeMarker, removeMarker.
Mark(o) ==
    /\ At(o, "mark")
    /\ marker' = IF Applies(o) THEN ops[o].spec ELSE NoLimit
    /\ IF ops[o].kind \in {"apply", "cancel"} THEN Moved(o, "watch") ELSE Over(o)
    /\ UNCHANGED <<lim, os, watch, opOnly, muddled>>

Watch(o) ==
    /\ At(o, "watch")
    /\ watch' = IF ops[o].kind = "apply" THEN ops[o].spec.pid ELSE 0
    /\ Over(o)
    /\ UNCHANGED <<lim, os, marker, opOnly, muddled>>

OpStep(o) == Check(o) \/ ActApply(o) \/ ActRemove(o) \/ SetState(o) \/ Mark(o) \/ Watch(o)

-----------------------------------------------------------------------------
(* The sample loop.                                                        *)

\* Put over the oldest sample once the ring is full.
RecordHistory(v) ==
    hist' = [ring |-> [hist.ring EXCEPT ![hist.pos + 1] = v],
             pos |-> (hist.pos + 1) % HistCap,
             full |-> (hist.full \/ hist.pos + 1 = HistCap)]

\* Oldest first.
History ==
    IF hist.full THEN SubSeq(hist.ring, hist.pos + 1, HistCap) \o SubSeq(hist.ring, 1, hist.pos)
    ELSE SubSeq(hist.ring, 1, hist.pos)

\* A speed is the difference of two counts of a process, the second of which may fail.
\* A sample is named by its number.
Tick(counted) ==
    /\ closing = "no" /\ sampled.n < MaxTicks
    /\ LET same == watch = sampled.watched
           base == IF same THEN sampled.base ELSE 0
           speed == IF same THEN sampled.speed ELSE NoSpeed
       IN  sampled' = [n |-> sampled.n + 1, watched |-> watch,
                       base |-> IF watch > 0 /\ counted THEN watch ELSE base,
                       speed |-> IF watch > 0 /\ counted /\ base # 0 THEN [of |-> watch, from |-> base]
                                 ELSE speed]
    /\ RecordHistory(sampled.n + 1)
    /\ UNCHANGED <<lim, os, marker, watch, ops, secVars, endVars, muddled>>

-----------------------------------------------------------------------------
(* Closing, crashing and starting again.                                   *)

\* The sample loop ends at once; nobody waits for the operations.
CloseBegin ==
    /\ closing = "no"
    /\ closing' = IF lim.state # "idle" THEN "remove" ELSE "end"
    /\ muddled' = (muddled \/ Meets)
    /\ UNCHANGED <<lim, os, marker, watch, ops, secVars, loopVars, clicks, crashes>>

CloseRemove ==
    /\ closing = "remove"
    /\ \/ os' = NoLimit /\ UNCHANGED muddled
       \/ os # NoLimit /\ muddled' = TRUE /\ UNCHANGED os
    /\ closing' = "unmark"
    /\ UNCHANGED <<lim, marker, watch, ops, secVars, loopVars, clicks, crashes>>

CloseUnmark ==
    /\ closing = "unmark"
    /\ marker' = NoLimit
    /\ closing' = "end"
    /\ UNCHANGED <<lim, os, watch, ops, secVars, loopVars, clicks, crashes, muddled>>

CloseEnd ==
    /\ closing = "end"
    /\ lim' = Off
    /\ closing' = "closed"
    /\ UNCHANGED <<os, marker, watch, ops, secVars, loopVars, clicks, crashes, muddled>>

CloseStep == CloseRemove \/ CloseUnmark

\* The process is gone, and with it the goroutines.
Die ==
    /\ ops' = [o \in Slots |-> NoOp]
    /\ UNCHANGED <<lim, os, marker, watch, secVars, loopVars, endVars, muddled>>

\* A limit that is in force is not yet marked.
NotYetMarked == \E o \in Slots : Applies(o) /\ (At(o, "set") \/ At(o, "mark"))

\* The process dies and is started again: Init, loadConfig, HasOrphan.
CrashLimiter ==
    /\ crashes < MaxCrashes
    /\ crashes' = crashes + 1
    /\ muddled' = (muddled \/ (NotYetMarked /\ marker = NoLimit))
    /\ Fresh
    /\ orphan' = (marker # NoLimit)
    /\ UNCHANGED <<os, marker, config, clicks>>

-----------------------------------------------------------------------------
(* Properties.                                                             *)

\* Between operations the section tells the truth about the system, and a limit that is
\* not its own is one it says was left over and can still find after another crash: unless
\* two operations met, one was refused or broke half way, or a crash came before the marker.
LimitHonest ==
    ~muddled /\ Busy = {} /\ closing \in {"no", "closed"} =>
        /\ lim.state = "active" => os = lim.spec /\ marker = os
        /\ lim.state = "paused" => os = NoLimit /\ marker = NoLimit
        /\ lim.state = "idle" /\ os # NoLimit => orphan /\ marker # NoLimit

\* A speed is measured on one process, and the history is that of the last samples.
SpeedHonest ==
    /\ sampled.speed.of = sampled.speed.from
    /\ LET kept == Min({sampled.n, HistCap})
       IN  History = [i \in 1..kept |-> sampled.n - kept + i]

LimitsExact == LimitHonest /\ SpeedHonest
================================================================================
