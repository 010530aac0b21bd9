---------------------------- MODULE TaskRegistry ----------------------------
(***************************************************************************)
(* The process-wide signature registry of TaskWorkerPool: the static maps  *)
(* _s_task_signatures, _s_total_task_user_count, _s_total_task_count and   *)
(* _s_running_task_user_count, and the two operations that change them     *)
(* under _s_task_signatures_lock: _record_task_info (called by             *)
(* submit_task) and _remove_task_info (called by every worker after        *)
(* _finish_task).  The increment of the running count happens in           *)
(* _get_next_task_index and is modelled by the push pool.                  *)
(***************************************************************************)
EXTENDS AgentTypes

VARIABLES
    signatures,        \* _s_task_signatures: type -> set of signatures
    totalUserCount,    \* _s_total_task_user_count: type -> user -> uint32
    totalCount,        \* _s_total_task_count: type -> uint32
    runningUserCount   \* _s_running_task_user_count: type -> user -> uint32

regVars == <<signatures, totalUserCount, totalCount, runningUserCount>>

RegTypeOK ==
    /\ signatures \in [TaskTypes -> SUBSET Signatures]
    /\ totalUserCount \in [TaskTypes -> [UserKeys -> 0..CounterModulus - 1]]
    /\ totalCount \in [TaskTypes -> 0..CounterModulus - 1]
    /\ runningUserCount \in [TaskTypes -> [UserKeys -> 0..CounterModulus - 1]]

\* The static maps start empty: every entry reads as 0 through operator[].
RegInit ==
    /\ signatures = [tt \in TaskTypes |-> {}]
    /\ totalUserCount = [tt \in TaskTypes |-> [u \in UserKeys |-> 0]]
    /\ totalCount = [tt \in TaskTypes |-> 0]
    /\ runningUserCount = [tt \in TaskTypes |-> [u \in UserKeys |-> 0]]

\* Mutant of RecordTaskInfo: the "has exist" test is missing.
RecordTaskInfoNoDedup(tt, sig, user) ==
    /\ signatures' = [signatures EXCEPT ![tt] = @ \cup {sig}]
    /\ totalUserCount' = IF tt = PUSH
                         THEN [totalUserCount EXCEPT ![tt][user] = Inc(@)]
                         ELSE totalUserCount
    /\ totalCount' = IF tt = PUSH THEN [totalCount EXCEPT ![tt] = Inc(@)]
                                  ELSE totalCount
    /\ UNCHANGED runningUserCount

\* _record_task_info when it returns true: the signature is new for its
\* type; it is inserted and, for PUSH only, the user's and the type's total
\* counts are incremented.
RecordTaskInfo(tt, sig, user) ==
    /\ sig \notin signatures[tt]
    /\ signatures' = [signatures EXCEPT ![tt] = @ \cup {sig}]
    /\ totalUserCount' = IF tt = PUSH
                         THEN [totalUserCount EXCEPT ![tt][user] = Inc(@)]
                         ELSE totalUserCount
    /\ totalCount' = IF tt = PUSH THEN [totalCount EXCEPT ![tt] = Inc(@)]
                                  ELSE totalCount
    /\ UNCHANGED runningUserCount

\* _record_task_info when it returns false: the signature is already
\* registered for its type and nothing changes.
DuplicateTaskInfo(tt, sig) ==
    /\ sig \in signatures[tt]
    /\ UNCHANGED regVars

\* Mutant of RemoveTaskInfo: the type's total count is not decremented.
RemoveTaskInfoKeepsTotal(tt, sig, user) ==
    /\ signatures' = [signatures EXCEPT ![tt] = @ \ {sig}]
    /\ IF tt = PUSH
       THEN /\ totalUserCount' = [totalUserCount EXCEPT ![tt][user] = Dec(@)]
            /\ runningUserCount' = [runningUserCount EXCEPT ![tt][user] = Dec(@)]
            /\ UNCHANGED totalCount
       ELSE UNCHANGED <<totalUserCount, totalCount, runningUserCount>>

\* Mutant of RemoveTaskInfo: the running count is not decremented.
RemoveTaskInfoKeepsRunning(tt, sig, user) ==
    /\ signatures' = [signatures EXCEPT ![tt] = @ \ {sig}]
    /\ IF tt = PUSH
       THEN /\ totalUserCount' = [totalUserCount EXCEPT ![tt][user] = Dec(@)]
            /\ totalCount' = [totalCount EXCEPT ![tt] = Dec(@)]
            /\ UNCHANGED runningUserCount
       ELSE UNCHANGED <<totalUserCount, totalCount, runningUserCount>>

\* _remove_task_info: erase the signature; for PUSH decrement the user's
\* total, the type's total and the user's running count (uint32, so a
\* count that is already 0 wraps around).
RemoveTaskInfo(tt, sig, user) ==
    /\ signatures' = [signatures EXCEPT ![tt] = @ \ {sig}]
    /\ IF tt = PUSH
       THEN /\ totalUserCount' = [totalUserCount EXCEPT ![tt][user] = Dec(@)]
            /\ totalCount' = [totalCount EXCEPT ![tt] = Dec(@)]
            /\ runningUserCount' = [runningUserCount EXCEPT ![tt][user] = Dec(@)]
       ELSE UNCHANGED <<totalUserCount, totalCount, runningUserCount>>
=============================================================================
