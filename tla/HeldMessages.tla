---------------------------- MODULE HeldMessages ----------------------------
(***************************************************************************)
(* What the Intercept view promises about a message, with no queue, no     *)
(* channel and no threads: it either passes, or it waits until a verdict   *)
(* is reached on it, once, and it then goes out with that verdict.  While  *)
(* nobody presses Drop the only verdict is "forward".                      *)
(***************************************************************************)
CONSTANT Msgs

VARIABLES verdict,   \* what is known of each message
          out        \* what was done with it in the end

vars == <<verdict, out>>

Init ==
    /\ verdict = [m \in Msgs |-> "none"]
    /\ out = [m \in Msgs |-> "pending"]

\* Interception is off, or the message is not one it is interested in.
Pass(m) ==
    /\ verdict[m] = "none"
    /\ out[m] = "pending"
    /\ out' = [out EXCEPT ![m] = "forward"]
    /\ UNCHANGED verdict

Wait(m) ==
    /\ verdict[m] = "none"
    /\ out[m] = "pending"
    /\ verdict' = [verdict EXCEPT ![m] = "waiting"]
    /\ UNCHANGED out

\* One verdict for some of the waiting messages: the user decides one, turning
\* interception off forwards all of them.
Decide(S, v) ==
    /\ \A m \in S : verdict[m] = "waiting"
    /\ verdict' = [m \in Msgs |-> IF m \in S THEN v ELSE verdict[m]]
    /\ UNCHANGED out

Release(m) ==
    /\ verdict[m] \in {"forward", "drop"}
    /\ out[m] = "pending"
    /\ out' = [out EXCEPT ![m] = verdict[m]]
    /\ UNCHANGED verdict

Next ==
    \/ \E m \in Msgs : Pass(m) \/ Wait(m) \/ Release(m)
    \/ \E S \in SUBSET Msgs, v \in {"forward", "drop"} : Decide(S, v)

Spec == Init /\ [][Next]_vars
=============================================================================
