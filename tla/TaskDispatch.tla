---------------------------- MODULE TaskDispatch ----------------------------
(***************************************************************************)
(* What a task-worker pool promises the coordinator, whatever its threads  *)
(* and queue discipline: a request is identified by its type and           *)
(* signature; while it is accepted a resend of it is ignored; an accepted  *)
(* request is executed exactly once and then completed, after which the   *)
(* same signature may be accepted again; and every accepted request is     *)
(* eventually executed and completed.                                      *)
(***************************************************************************)
CONSTANTS Types, Sigs

VARIABLE stage   \* type -> signature -> "idle", "accepted" or "executed"

Stages == {"idle", "accepted", "executed"}

Init == stage = [tt \in Types |-> [s \in Sigs |-> "idle"]]

\* The moves of one request from one stage to the next.
Moves == {<<"idle", "accepted">>, <<"accepted", "executed">>, <<"executed", "idle">>}

MoveOf(old, new, tt, s, from, to) ==
    /\ old[tt][s] = from
    /\ new = [old EXCEPT ![tt][s] = to]

Step(tt, s, from, to) == MoveOf(stage, stage', tt, s, from, to)

Accept(tt, s) == Step(tt, s, "idle", "accepted")
Execute(tt, s) == Step(tt, s, "accepted", "executed")
Complete(tt, s) == Step(tt, s, "executed", "idle")

Next == \E tt \in Types, s \in Sigs : Accept(tt, s) \/ Execute(tt, s) \/ Complete(tt, s)

Spec ==
    /\ Init /\ [][Next]_stage
    /\ \A tt \in Types, s \in Sigs : WF_stage(Execute(tt, s)) /\ WF_stage(Complete(tt, s))
=============================================================================
