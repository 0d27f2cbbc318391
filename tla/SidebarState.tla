----------------------------- MODULE SidebarState -----------------------------
(***************************************************************************)
(* What the sidebar's collections and its environments share: the section  *)
(* that is shown, whether the state file is to be saved, the environment   *)
(* in the editor and the popup of a variable in a request                  *)
(* (internal/ui/app.go, internal/ui/varpopup/varpopup.go).                 *)
(***************************************************************************)
EXTENDS TabState

CONSTANTS NoEnv

VARIABLES phase,       \* "on": the program runs; "off": it was closed; "dead": it died
          section,     \* the section of the window that is shown
          saveNeeded,  \* the state file is to be saved
          editing,     \* the environment in the editor, or NoEnv
          popup,       \* the popup of a variable
          used         \* the names that files were given: they are random, none is given twice

On == phase = "on"

\* No environment hides the requests.
RequestsShown == On /\ section = "requests" /\ editing = NoEnv

NoPopup == [open |-> FALSE, name |-> "", env |-> "", text |-> "", orig |-> ""]

\* A popup that is closed this way drops what was typed into it.
ClosedPopup == [popup EXCEPT !.open = FALSE]

SaveState == saveNeeded' = TRUE
\* Here the names are taken in order.
NewId(ids) == ids[SelectInSeq(ids, LAMBDA id : id \notin used)]
IdsLeft(ids) == ToSet(ids) \ used # {}
=============================================================================
