------------------------------ MODULE SendingTab ------------------------------
(***************************************************************************)
(* A tab that sends its request once (RequestTab) or many times over       *)
(* (LoadRunner).  Both are driven by the UI thread: the runner's button is *)
(* clicked, and its table drawn, in the frames of the tab, and closing the *)
(* tab stops the run as it cancels the request.                            *)
(***************************************************************************)
EXTENDS RequestTab, LoadRunner

tabVars == <<vars, runnerVars>>

TabInit == Init /\ RunnerInit

\* Sending once is what sending does unless "Multiple" is open (session.multiple);
\* nothing comes back over the channels of a tab that only sends many times.
SendOnce == ~session.multiple /\ (BeginStep \/ TabFrame) /\ UNCHANGED runnerVars

\* MarkClosed also stops the run.
CloseTab ==
    /\ MarkClosed
    /\ IF run > 0 THEN Stop ELSE UNCHANGED runnerVars

SendMany ==
    /\ ui = "app" /\ session.multiple
    /\ RunnerAction \/ ChooseMode \/ Snapshot
    /\ UNCHANGED vars

TabNext ==
    \/ SendOnce
    \/ CloseTab
    \/ (\E r \in Reqs : SenderStep(r) \/ FetchStep(r)) /\ UNCHANGED runnerVars
    \/ (\E l \in Loaders : LoaderStep(l)) /\ UNCHANGED runnerVars
    \/ SendMany
    \/ RunnerStep /\ UNCHANGED vars

TabSpec == TabInit /\ [][TabNext]_tabVars /\ Fairness /\ RunnerFairness

-----------------------------------------------------------------------------
(* Properties.                                                             *)

\* Nothing of the current request gets lost, nothing else is shown, and a run's
\* table is that of its requests.
TabSound == TypeOK /\ TabExact /\ RunExact

\* Whatever is stopped ends, although no server need answer: a request that is
\* cancelled, and a run that is stopped, by hand or with its tab, or whose time is up.
StopEnds == CancelEnds /\ RunEnds
================================================================================
