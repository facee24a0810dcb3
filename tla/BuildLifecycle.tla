--------------------------- MODULE BuildLifecycle ---------------------------
(***************************************************************************)
(* What the product promises about build tasks, with no queue, lease,      *)
(* worker or attempt in sight: a task is opened, may be asked to cancel,   *)
(* and ends once.  It ends successfully only together with its one         *)
(* artifact and only if nobody asked to cancel it; it ends cancelled only  *)
(* if somebody did.  An ended task never changes again.                    *)
(***************************************************************************)
CONSTANT Tasks

VARIABLES
    outcome,      \* how each task stands
    asked,        \* the tasks whose cancellation was requested
    delivered     \* the tasks that have an artifact

vars == <<outcome, asked, delivered>>

Outcomes == {"absent", "open", "succeeded", "failed", "cancelled"}

Init ==
    /\ outcome = [t \in Tasks |-> "absent"]
    /\ asked = {}
    /\ delivered = {}

Open(t) ==
    /\ outcome[t] = "absent"
    /\ outcome' = [outcome EXCEPT ![t] = "open"]
    /\ UNCHANGED <<asked, delivered>>

AskToCancel(t) ==
    /\ outcome[t] = "open"
    /\ asked' = asked \cup {t}
    /\ UNCHANGED <<outcome, delivered>>

Succeed(t) ==
    /\ outcome[t] = "open"
    /\ t \notin asked
    /\ outcome' = [outcome EXCEPT ![t] = "succeeded"]
    /\ delivered' = delivered \cup {t}
    /\ UNCHANGED asked

Fail(t) ==
    /\ outcome[t] = "open"
    /\ outcome' = [outcome EXCEPT ![t] = "failed"]
    /\ UNCHANGED <<asked, delivered>>

\* A queued task is asked and cancelled in one step.
EndCancelled(t) ==
    /\ outcome[t] = "open"
    /\ outcome' = [outcome EXCEPT ![t] = "cancelled"]
    /\ asked' = asked \cup {t}
    /\ UNCHANGED delivered

Next == \E t \in Tasks : Open(t) \/ AskToCancel(t) \/ Succeed(t) \/ Fail(t)
                            \/ EndCancelled(t)

Spec == Init /\ [][Next]_vars
=============================================================================
