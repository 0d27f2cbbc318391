------------------------------- MODULE AppWindow -------------------------------
(***************************************************************************)
(* Leaving the program with a limit in force: the event loop closes the    *)
(* limiter (Limiter) before it saves (AppSave), on the UI thread, which    *)
(* handles nothing else meanwhile.                                         *)
(***************************************************************************)
EXTENDS AppSave, Limiter

VARIABLE user  \* what the user is about: "files", "limits" or "speeds" (rigid; bounds the instance)

bothVars == <<vars, limVars>>
windowVars == <<bothVars, user>>

WindowInit == Init /\ LimInit /\ user \in {"files", "limits", "speeds"} /\ (marked = {} \/ user = "files")

Responsive == Running /\ closing = "no"

FileStep ==
    /\ \/ Responsive /\ user = "files" /\ (Edit \/ ShutdownAndExit)
       \/ Responsive /\ AnyFrame
       \/ AnyTimer
       \/ AnySaver
       \/ EndWait
       \/ \E c \in Cols : FlushCollection(c)
    /\ UNCHANGED limVars

LimitStep ==
    /\ phase # "left"
    /\ \/ Responsive /\ user = "limits" /\ (Pick \/ Buttons)
       \/ Responsive /\ user = "speeds" /\ Pick
       \/ \E o \in Slots : OpStep(o)
       \/ user = "speeds" /\ \E counted \in BOOLEAN : Tick(counted)
       \/ Responsive /\ CloseBegin
       \/ CloseStep
    /\ UNCHANGED vars

\* DestroyEvent goes on when the limiter is closed.
DestroyWindow == CloseEnd /\ Destroy

LeaveWindow == Leave /\ Die

\* With nothing unsaved, or after the program was left.
CrashWindow ==
    /\ user = "limits"
    /\ CrashLimiter
    /\ wanted' = TRUE /\ phase' = "running" /\ how' = "none"
    /\ UNCHANGED <<ver, marked, deleted, due, timer, disk, savers, overtaken, failed>>

WindowNext == (FileStep \/ LimitStep \/ DestroyWindow \/ LeaveWindow \/ CrashWindow) /\ UNCHANGED user

WindowSpec == WindowInit /\ [][WindowNext]_windowVars

\* As in AppSave; and the UI thread gets through what it does when the window is closed.
FairWindowSpec ==
    /\ WindowSpec
    /\ WF_vars(wanted /\ Responsive /\ AnyFrame)
    /\ WF_vars(AnyTimer)
    /\ WF_vars(AnySaver)
    /\ WF_bothVars((CloseStep /\ UNCHANGED vars) \/ DestroyWindow)
================================================================================
