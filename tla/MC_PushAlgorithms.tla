-------------------------- MODULE MC_PushAlgorithms --------------------------
(***************************************************************************)
(* Checks the push-worker algorithms of PushAlgorithms over every small    *)
(* input: each initial state is one input, and the invariants compare the  *)
(* code's operator with a reference definition taken from the spec        *)
(* (section 4.5 of spec.md).                                               *)
(***************************************************************************)
EXTENDS PushAlgorithms, FiniteSets

CONSTANTS MaxQueueLen, MaxCount, MaxThreads

\* The push tasks an input queue is built from (one signature suffices:
\* selection never looks at it).
CONSTANT Sig
InputTasks == [type : {PUSH}, sig : {Sig}, user : Users,
               prio : {HIGH, NORMAL}, pushType : {LOAD}]

VARIABLES q, lane, threadCount, tu, total, running
vars == <<q, lane, threadCount, tu, total, running>>

\* No input yet; the first step picks one.
Init ==
    /\ q = <<>>
    /\ lane = NORMAL
    /\ threadCount = 1
    /\ total = 0
    /\ tu = [u \in UserKeys |-> 0]
    /\ running = [u \in UserKeys |-> 0]

\* The one step picks an input: a non-empty queue, a lane and a counter
\* snapshot in which no user has more admitted tasks than the total.  The
\* call is a one-shot computation, so nothing follows it.
PickInput ==
    /\ q = <<>>
    /\ q' \in UNION {[1..n -> InputTasks] : n \in 1..MaxQueueLen}
    /\ lane' \in {HIGH, NORMAL}
    /\ threadCount' \in 1..MaxThreads
    /\ total' \in 0..MaxCount
    /\ tu' \in {f \in [UserKeys -> 0..MaxCount] : f[Anon] = 0 /\ \A u \in Users : f[u] <= total'}
    /\ running' \in {f \in [UserKeys -> 0..MaxCount] : f[Anon] = 0}

Next == PickInput

Spec == Init /\ [][Next]_vars

-----------------------------------------------------------------------------
(* Reference selection (spec 4.5): a HIGH-lane worker takes the first      *)
(* HIGH task or nothing; a NORMAL-lane worker takes the first task whose  *)
(* user is within its share (running = 0, or (running+1)/threads <=        *)
(* total_user/total, the admitted share being 0 when total = 0), and the  *)
(* head when no user is; the running count of the chosen task's user is   *)
(* the one incremented.                                                    *)
WithinShare(u) ==
    \/ running[u] = 0
    \/ /\ total > 0
       /\ (running[u] + 1) * total <= tu[u] * threadCount

Eligible(i) == IF lane = HIGH THEN q[i].prio = HIGH ELSE WithinShare(q[i].user)

ReferenceChoice ==
    LET cand == {i \in 1..Len(q) : Eligible(i)}
        first == CHOOSE i \in cand : \A j \in cand : i <= j
    IN  CASE cand # {}                  -> [index |-> first, user |-> q[first].user]
          [] cand = {} /\ lane = HIGH   -> [index |-> 0]
          [] cand = {} /\ lane = NORMAL -> [index |-> 1, user |-> q[1].user]

\* _get_next_task_index picks the task the reference picks and charges the
\* same user's running count, for every queue, lane and counter snapshot.
NextTaskIndexMatchesSpec ==
    q # <<>> =>
        LET r == GetNextTaskIndex(q, lane, threadCount, tu, total, running)
            ref == ReferenceChoice
        IN  /\ r.index = ref.index
            /\ r.index # 0 => r.user = ref.user
=============================================================================
