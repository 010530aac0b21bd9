---------------------------- MODULE MC_PushRetry ----------------------------
(***************************************************************************)
(* Checks the Pusher retry loop of the push worker (PushLoad) over every   *)
(* sequence of init() and process() results.                               *)
(***************************************************************************)
EXTENDS PushAlgorithms

VARIABLES initStatus, results
vars == <<initStatus, results>>

Init ==
    /\ initStatus = "none"
    /\ results = <<>>

\* Each step picks what init() and the first two process() calls return.
PickResults ==
    /\ results = <<>>
    /\ initStatus' \in PusherResults
    /\ results' \in [1..2 -> PusherResults]

Spec == Init /\ [][PickResults]_vars

\* Spec 4.5: a LOAD whose first process() fails with the transient
\* internal error (PALO_ERROR) is processed once more, 2 attempts in all.
PushLoadRetriesTransientError ==
    (initStatus = PALO_SUCCESS /\ results[1] = PALO_ERROR)
        => PushLoad(initStatus, results).calls = 2
=============================================================================
