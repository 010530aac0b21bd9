---------------------------- MODULE MC_PushPool ----------------------------
(***************************************************************************)
(* Instances of PushPool for TLC.  Requests are records over model-value  *)
(* signatures and users; each configuration picks one request set.        *)
(***************************************************************************)
EXTENDS PushPool

CONSTANTS u1, u2, s1, s2, s3, s4

Req(tt, s, u, pr, ty) == [type |-> tt, sig |-> s, user |-> u, prio |-> pr, pushType |-> ty]

\* Two users' loads, one of them HIGH priority, and one delete request.
MixedTasks ==
    { Req(PUSH, s1, u1, NORMAL, LOAD),
      Req(PUSH, s2, u2, NORMAL, LOAD),
      Req(PUSH, s3, u1, HIGH, LOAD),
      Req(DELETE, s4, u1, NORMAL, DELETE_DATA) }

\* Push requests only: two users, one HIGH request.
PushOnlyTasks ==
    { Req(PUSH, s1, u1, NORMAL, LOAD),
      Req(PUSH, s2, u2, NORMAL, LOAD),
      Req(PUSH, s3, u1, HIGH, LOAD) }

\* A NORMAL load of u1 followed by a HIGH load whose resource_info is unset.
AnonTasks ==
    { Req(PUSH, s1, u1, NORMAL, LOAD),
      Req(PUSH, s2, Anon, HIGH, LOAD) }

\* The state TLC tells apart: the report version and the set of received
\* finish requests never influence a step, so states differing only in
\* them are one.
StateView == <<regVars, poolVars, submitted>>

\* A single NORMAL delete request.
DeleteOnlyTasks == { Req(DELETE, s4, u1, NORMAL, DELETE_DATA) }
=============================================================================
