--------------------------- MODULE PushAlgorithms ---------------------------
(***************************************************************************)
(* The sequential algorithms of the push worker, as operators:             *)
(*  - _get_next_task_index: the user-fair, two-lane choice of the next     *)
(*    push task, given a snapshot of the registry counters;                *)
(*  - the Pusher retry loop of _push_worker_thread_callback.               *)
(* A push task is a record [type, sig, user, prio, pushType]; user = Anon  *)
(* stands for a request whose resource_info is unset.                      *)
(***************************************************************************)
EXTENDS AgentTypes, Sequences

\* TPushType values of push_req.push_type.
LOAD == "LOAD"
LOAD_DELETE == "LOAD_DELETE"
DELETE_DATA == "DELETE"

\* The user key a task is registered and removed under (user = "" when
\* resource_info is unset).
UserKey(t) == t.user

\* Mutant of RunningRateWithinShare: strict comparison.
RunningRateWithinShareStrict(running, totalUser, total, threadCount) ==
    IF total = 0
    THEN totalUser > 0
    ELSE Inc(running) * total < totalUser * threadCount

\* user_running_rate <= user_total_rate, computed in floating point:
\* (running + 1) * 1.0 / thread_count  <=  total_user * 1.0 / total.
\* running + 1 is uint32 arithmetic; a zero total gives 0/0 = NaN (the
\* comparison is false) or x/0 = +inf (true).
RunningRateWithinShare(running, totalUser, total, threadCount) ==
    IF total = 0
    THEN totalUser > 0
    ELSE Inc(running) * total <= totalUser * threadCount

\* The scan loop of _get_next_task_index, from position i of q.  The local
\* variable user is only assigned when a task has resource_info, so a task
\* without it is judged as the user of the last task that had one.
\* Returns the chosen position (0 for none) and the user whose running
\* count the caller increments.
RECURSIVE ScanQueue(_, _, _, _, _, _, _, _, _)
ScanQueue(q, i, user, improper, lane, threadCount, tu, total, running) ==
    IF i > Len(q) THEN [index |-> 0, user |-> user]
    ELSE
    LET t == q[i]
        u == IF t.user = Anon THEN user ELSE t.user
        next(imp) == ScanQueue(q, i + 1, u, imp, lane, threadCount,
                               tu, total, running)
        fair == \/ running[u] = 0
                \/ RunningRateWithinShare(running[u], tu[u], total, threadCount)
    IN  CASE lane = HIGH /\ t.prio = HIGH        -> [index |-> i, user |-> u]
          [] lane = HIGH /\ t.prio # HIGH        -> next(improper)
          [] lane # HIGH /\ u \in improper       -> next(improper)
          [] lane # HIGH /\ u \notin improper /\ fair
                                                -> [index |-> i, user |-> u]
          [] lane # HIGH /\ u \notin improper /\ ~fair
                                                -> next(improper \cup {u})

\* _get_next_task_index on a non-empty queue: the scan's choice; with none
\* a HIGH-lane worker gets -1 (index 0 here) and a NORMAL-lane worker the
\* head of the queue, charged to the head's own user.
GetNextTaskIndex(q, lane, threadCount, tu, total, running) ==
    LET r == ScanQueue(q, 1, Anon, {}, lane, threadCount, tu, total, running)
    IN  IF r.index # 0 \/ lane = HIGH THEN r
        ELSE [index |-> 1, user |-> UserKey(q[1])]

-----------------------------------------------------------------------------
(* The Pusher loop of _push_worker_thread_callback for LOAD/LOAD_DELETE:   *)
(* init(), then process() while retry_time < PUSH_MAX_RETRY, counting one  *)
(* retry per PALO_ERROR.  results[k] is what the k-th process() returns.   *)
PUSH_MAX_RETRY == 1
PALO_SUCCESS == "PALO_SUCCESS"
PALO_ERROR == "PALO_ERROR"
PALO_OTHER_ERROR == "PALO_OTHER_ERROR"
PusherResults == {PALO_SUCCESS, PALO_ERROR, PALO_OTHER_ERROR}

RECURSIVE ProcessLoop(_, _, _, _)
ProcessLoop(results, retryTime, status, calls) ==
    IF retryTime >= PUSH_MAX_RETRY
    THEN [status |-> status, calls |-> calls]
    ELSE LET s == results[calls + 1]
         IN  IF s = PALO_ERROR
             THEN ProcessLoop(results, retryTime + 1, s, calls + 1)
             ELSE [status |-> s, calls |-> calls + 1]

\* The whole LOAD branch: a failed init() skips processing.
PushLoad(initStatus, results) ==
    IF initStatus # PALO_SUCCESS THEN [status |-> initStatus, calls |-> 0]
    ELSE ProcessLoop(results, 0, initStatus, 0)
=============================================================================
