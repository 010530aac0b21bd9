------------------------------ MODULE PushPool ------------------------------
(***************************************************************************)
(* The PUSH and DELETE task-worker pools of TaskWorkerPool.  Both run      *)
(* _push_worker_thread_callback; they share the signature registry and     *)
(* the function-static s_worker_count that hands out HIGH lanes, and each  *)
(* has its own _tasks deque, _worker_thread_lock and condition variable.   *)
(*                                                                         *)
(* A worker's loop is split at the points where other threads interleave: *)
(* lane assignment at thread start, the locked dequeue (which also calls   *)
(* _get_next_task_index), the engine call, _finish_task (an RPC with       *)
(* retries) and _remove_task_info.  The condition variable is a wait set:  *)
(* notify() takes one arbitrary waiter of the pool out of it.              *)
(***************************************************************************)
EXTENDS TaskRegistry, PushAlgorithms, SequencesExt, FiniteSets

CONSTANTS
    PushWorkers,     \* threads of the PUSH pool
    DeleteWorkers,   \* threads of the DELETE pool
    PushNormal,      \* config::push_worker_count_normal_priority
    PushHigh,        \* config::push_worker_count_high_priority
    Tasks,           \* the push and delete requests the coordinator sends
    MaxSubmit        \* how often the coordinator sends one request

ASSUME /\ TaskTypes = {PUSH, DELETE}
       /\ PushWorkers \cap DeleteWorkers = {}
       /\ Cardinality(PushWorkers) = PushNormal + PushHigh
       /\ \A t \in Tasks : t.type \in TaskTypes /\ t.sig \in Signatures

Workers == PushWorkers \cup DeleteWorkers
PoolOf(w) == IF w \in PushWorkers THEN PUSH ELSE DELETE
PoolWorkers(p) == {w \in Workers : PoolOf(w) = p}

\* Both pools pass push_worker_count_normal + push_worker_count_high as the
\* thread count of _get_next_task_index.
ThreadCount == PushNormal + PushHigh

NoTask == [type |-> "none"]
NoStatus == "none"

VARIABLES
    queue,          \* pool -> its _tasks deque
    waitSet,        \* workers blocked in _worker_thread_condition_lock.wait()
    pc,             \* worker -> where it is in its loop
    lane,           \* worker -> the local priority: HIGH or NORMAL lane
    seenCount,      \* worker -> the s_worker_count value it read at start
    sWorkerCount,   \* the function-static s_worker_count
    cur,            \* worker -> the task it took (agent_task_req)
    status,         \* worker -> the status code of its finish request
    reportVersion,  \* _s_report_version
    submitted,      \* task -> how often the coordinator sent it
    acked           \* finish requests the coordinator received

poolVars == <<queue, waitSet, pc, lane, seenCount, sWorkerCount, cur, status>>
vars == <<regVars, poolVars, reportVersion, submitted, acked>>

Holding == {"exec", "finish", "remove"}

TypeOK ==
    /\ RegTypeOK
    /\ queue \in [TaskTypes -> Seq(Tasks)]
    /\ waitSet \subseteq Workers
    /\ pc \in [Workers -> {"start", "startWrite", "top", "wait", "sleep"}
                          \cup Holding]
    /\ lane \in [Workers -> {HIGH, NORMAL}]
    /\ sWorkerCount \in Nat
    /\ cur \in [Workers -> Tasks \cup {NoTask}]
    /\ status \in [Workers -> StatusCodes \cup {NoStatus}]
    /\ reportVersion \in Nat
    /\ submitted \in [Tasks -> 0..MaxSubmit]
    /\ acked \subseteq [type : TaskTypes, sig : Signatures, status : StatusCodes]

Init ==
    /\ RegInit
    /\ queue = [p \in TaskTypes |-> <<>>]
    /\ waitSet = {}
    /\ pc = [w \in Workers |-> "start"]
    /\ lane = [w \in Workers |-> NORMAL]
    /\ seenCount = [w \in Workers |-> 0]
    /\ sWorkerCount = 0
    /\ cur = [w \in Workers |-> NoTask]
    /\ status = [w \in Workers |-> NoStatus]
    /\ reportVersion = 0
    /\ submitted = [t \in Tasks |-> 0]
    /\ acked = {}

\* notify(): wake one waiter of pool p, if there is one.
NotifyOne(p) ==
    IF waitSet \cap PoolWorkers(p) = {} THEN UNCHANGED waitSet
    ELSE \E x \in waitSet \cap PoolWorkers(p) : waitSet' = waitSet \ {x}

-----------------------------------------------------------------------------
(* The coordinator: submit_task.  _record_task_info under the registry     *)
(* lock; only a new signature is appended to the pool's deque, and one     *)
(* waiter of that pool is notified.  A duplicate is dropped.               *)
SubmitTask(t) ==
    /\ submitted[t] < MaxSubmit
    /\ submitted' = [submitted EXCEPT ![t] = @ + 1]
    /\ \/ /\ RecordTaskInfo(t.type, t.sig, UserKey(t))
          /\ queue' = [queue EXCEPT ![t.type] = Append(@, t)]
          /\ NotifyOne(t.type)
       \/ /\ DuplicateTaskInfo(t.type, t.sig)
          /\ UNCHANGED <<queue, waitSet>>
    /\ UNCHANGED <<pc, lane, seenCount, sWorkerCount, cur, status,
                   reportVersion, acked>>

(* Thread start: under the pool's own lock the thread compares            *)
(* s_worker_count with push_worker_count_high_priority and, when below,    *)
(* increments it and takes the HIGH lane.  The counter is static to the    *)
(* callback and so shared by the PUSH and DELETE pools, whose locks differ: *)
(* a thread of the other pool may run between the comparison and the       *)
(* increment.                                                              *)
StartRead(w) ==
    /\ pc[w] = "start"
    /\ \A v \in PoolWorkers(PoolOf(w)) : pc[v] # "startWrite"
    /\ seenCount' = [seenCount EXCEPT ![w] = sWorkerCount]
    /\ pc' = [pc EXCEPT ![w] = "startWrite"]
    /\ UNCHANGED <<regVars, queue, waitSet, lane, sWorkerCount, cur, status,
                   reportVersion, submitted, acked>>

StartWrite(w) ==
    /\ pc[w] = "startWrite"
    /\ IF seenCount[w] < PushHigh
       THEN /\ sWorkerCount' = sWorkerCount + 1
            /\ lane' = [lane EXCEPT ![w] = HIGH]
       ELSE UNCHANGED <<sWorkerCount, lane>>
    /\ pc' = [pc EXCEPT ![w] = "top"]
    /\ UNCHANGED <<regVars, queue, waitSet, seenCount, cur, status,
                   reportVersion, submitted, acked>>

(* The locked block at the top of the loop.  An empty deque: wait on the   *)
(* condition variable.                                                     *)
WaitForTask(w) ==
    /\ pc[w] = "top"
    /\ queue[PoolOf(w)] = <<>>
    /\ waitSet' = waitSet \cup {w}
    /\ pc' = [pc EXCEPT ![w] = "wait"]
    /\ UNCHANGED <<regVars, queue, lane, seenCount, sWorkerCount, cur, status,
                   reportVersion, submitted, acked>>

\* Notified: the thread reacquires the lock and re-tests the deque.
WakeUp(w) ==
    /\ pc[w] = "wait"
    /\ w \notin waitSet
    /\ pc' = [pc EXCEPT ![w] = "top"]
    /\ UNCHANGED <<regVars, queue, waitSet, lane, seenCount, sWorkerCount,
                   cur, status, reportVersion, submitted, acked>>

\* The choice _get_next_task_index makes for worker w on its pool's deque,
\* with the registry counters of the pool's task type.
Choice(w) ==
    LET p == PoolOf(w)
    IN  GetNextTaskIndex(queue[p], lane[w], ThreadCount, totalUserCount[p],
                         totalCount[p], runningUserCount[p])

\* Mutant of SelectTask: the task is copied but not erased from the deque.
SelectTaskNoErase(w) ==
    LET p == PoolOf(w)
        r == Choice(w)
    IN  /\ pc[w] = "top"
        /\ queue[p] # <<>>
        /\ r.index # 0
        /\ runningUserCount' = [runningUserCount EXCEPT ![p][r.user] = Inc(@)]
        /\ cur' = [cur EXCEPT ![w] = queue[p][r.index]]
        /\ pc' = [pc EXCEPT ![w] = "exec"]
        /\ UNCHANGED <<signatures, totalUserCount, totalCount, queue, waitSet,
                       lane, seenCount, sWorkerCount, status, reportVersion,
                       submitted, acked>>

\* A task is chosen: its user's running count is incremented (inside
\* _get_next_task_index) and the task is erased from the deque.
SelectTask(w) ==
    LET p == PoolOf(w)
        r == Choice(w)
    IN  /\ pc[w] = "top"
        /\ queue[p] # <<>>
        /\ r.index # 0
        /\ runningUserCount' = [runningUserCount EXCEPT ![p][r.user] = Inc(@)]
        /\ cur' = [cur EXCEPT ![w] = queue[p][r.index]]
        /\ queue' = [queue EXCEPT ![p] = RemoveAt(@, r.index)]
        /\ pc' = [pc EXCEPT ![w] = "exec"]
        /\ UNCHANGED <<signatures, totalUserCount, totalCount, waitSet, lane,
                       seenCount, sWorkerCount, status, reportVersion,
                       submitted, acked>>

\* Mutant of NoHighTask: the HIGH-lane worker sleeps without notifying.
NoHighTaskNoRelay(w) ==
    /\ pc[w] = "top"
    /\ queue[PoolOf(w)] # <<>>
    /\ Choice(w).index = 0
    /\ pc' = [pc EXCEPT ![w] = "sleep"]
    /\ UNCHANGED <<regVars, queue, waitSet, lane, seenCount, sWorkerCount,
                   cur, status, reportVersion, submitted, acked>>

\* A HIGH-lane worker finds no HIGH task (index -1): it notifies another
\* waiter of the pool and sleeps one second.
NoHighTask(w) ==
    /\ pc[w] = "top"
    /\ queue[PoolOf(w)] # <<>>
    /\ Choice(w).index = 0
    /\ NotifyOne(PoolOf(w))
    /\ pc' = [pc EXCEPT ![w] = "sleep"]
    /\ UNCHANGED <<regVars, queue, lane, seenCount, sWorkerCount, cur, status,
                   reportVersion, submitted, acked>>

SleepDone(w) ==
    /\ pc[w] = "sleep"
    /\ pc' = [pc EXCEPT ![w] = "top"]
    /\ UNCHANGED <<regVars, queue, waitSet, lane, seenCount, sWorkerCount,
                   cur, status, reportVersion, submitted, acked>>

(* The engine call and the finish request it builds.  LOAD/LOAD_DELETE run *)
(* the Pusher (init, then the process loop), DELETE calls delete_data once, *)
(* any other push type is a request error.  Success increments             *)
(* _s_report_version.                                                      *)
\* Mutant of ExecStatuses: the AgentStatus of the engine call is put in
\* the finish request instead of its TStatusCode.
ExecStatusesRaw(t) ==
    CASE t.pushType \in {LOAD, LOAD_DELETE} ->
            {PushLoad(i, rs).status :
                i \in PusherResults, rs \in [1..PUSH_MAX_RETRY -> PusherResults]}
      [] t.pushType = DELETE_DATA -> {PALO_SUCCESS, PALO_ERROR}
      [] OTHER -> {"PALO_TASK_REQUEST_ERROR"}

ExecStatuses(t) ==
    CASE t.pushType \in {LOAD, LOAD_DELETE} ->
            {IF PushLoad(i, rs).status = PALO_SUCCESS THEN OK ELSE RUNTIME_ERROR :
                i \in PusherResults, rs \in [1..PUSH_MAX_RETRY -> PusherResults]}
      [] t.pushType = DELETE_DATA -> {OK, RUNTIME_ERROR}
      [] OTHER -> {ANALYSIS_ERROR}

ExecuteTask(w) ==
    /\ pc[w] = "exec"
    /\ \E st \in ExecStatuses(cur[w]) :
          /\ status' = [status EXCEPT ![w] = st]
          /\ reportVersion' = IF st = OK THEN reportVersion + 1 ELSE reportVersion
    /\ pc' = [pc EXCEPT ![w] = "finish"]
    /\ UNCHANGED <<regVars, queue, waitSet, lane, seenCount, sWorkerCount, cur,
                   submitted, acked>>

(* _finish_task: up to TASK_FINISH_MAX_RETRY finishTask RPCs; either one   *)
(* reaches the coordinator or all fail and the report is dropped.          *)
FinishTask(w) ==
    /\ pc[w] = "finish"
    /\ \/ acked' = acked \cup {[type |-> cur[w].type, sig |-> cur[w].sig,
                                status |-> status[w]]}
       \/ UNCHANGED acked
    /\ pc' = [pc EXCEPT ![w] = "remove"]
    /\ UNCHANGED <<regVars, queue, waitSet, lane, seenCount, sWorkerCount, cur,
                   status, reportVersion, submitted>>

\* _remove_task_info with the worker's own user (the task's resource_info
\* user, "" when unset); then the loop starts over.
RemoveTask(w) ==
    /\ pc[w] = "remove"
    /\ RemoveTaskInfo(cur[w].type, cur[w].sig, UserKey(cur[w]))
    /\ cur' = [cur EXCEPT ![w] = NoTask]
    /\ status' = [status EXCEPT ![w] = NoStatus]
    /\ pc' = [pc EXCEPT ![w] = "top"]
    /\ UNCHANGED <<queue, waitSet, lane, seenCount, sWorkerCount,
                   reportVersion, submitted, acked>>

-----------------------------------------------------------------------------
WorkerStep(w) ==
    \/ StartRead(w)
    \/ StartWrite(w)
    \/ WaitForTask(w)
    \/ WakeUp(w)
    \/ SelectTask(w)
    \/ NoHighTask(w)
    \/ SleepDone(w)
    \/ ExecuteTask(w)
    \/ FinishTask(w)
    \/ RemoveTask(w)

Next ==
    \/ \E t \in Tasks : SubmitTask(t)
    \/ \E w \in Workers : WorkerStep(w)

\* Worker threads are preemptively scheduled OS threads: a thread that can
\* take a step eventually does.  The coordinator is not obliged to submit.
Fairness == \A w \in Workers : WF_vars(WorkerStep(w))

Spec == Init /\ [][Next]_vars /\ Fairness

-----------------------------------------------------------------------------
(* Properties                                                              *)

\* Workers of pool p between taking a task and removing its signature.
Holders(p) == {w \in PoolWorkers(p) : pc[w] \in Holding}

\* How many pending tasks of pool p (queued or held) satisfy P.
PendingCount(p, P(_)) ==
    Cardinality({i \in DOMAIN queue[p] : P(queue[p][i])})
        + Cardinality({w \in Holders(p) : P(cur[w])})

\* De-duplication (submit_task, _record_task_info, _remove_task_info): the
\* registered signatures of a type are exactly those of the tasks queued in
\* or held by its pool, and each of them is pending once, whatever the
\* coordinator resubmits and however the workers interleave.
RegistryTracksPendingTasks ==
    \A p \in TaskTypes :
        /\ signatures[p] = {queue[p][i].sig : i \in DOMAIN queue[p]}
                              \cup {cur[w].sig : w \in Holders(p)}
        /\ Cardinality(signatures[p]) = Len(queue[p]) + Cardinality(Holders(p))

\* Admission accounting of the push pool: the total count of each user and
\* of the type equal the pending push tasks of that user and in all.
PushTotalsMatchPending ==
    /\ totalCount[PUSH] = PendingCount(PUSH, LAMBDA t : TRUE)
    /\ \A u \in UserKeys :
          totalUserCount[PUSH][u] = PendingCount(PUSH, LAMBDA t : UserKey(t) = u)

\* Fair-share accounting: the running count of each user equals the number
\* of push workers executing one of its tasks.  _get_next_task_index
\* increments it for the user it computed; _remove_task_info decrements it
\* for the user of the task the worker took.
RunningCountsMatchHolders ==
    \A u \in UserKeys :
        runningUserCount[PUSH][u]
            = Cardinality({w \in Holders(PUSH) : UserKey(cur[w]) = u})

\* Every request accepted by submit_task is eventually taken, finished and
\* removed from the registry.
AcceptedTaskIsEventuallyRemoved ==
    \A t \in Tasks : (t.sig \in signatures[t.type]) ~> (t.sig \notin signatures[t.type])

\* Refinement: the pools implement TaskDispatch.  A request is executed
\* while a worker that ran its engine call holds it, accepted while its
\* signature is registered otherwise, and idle when it is not registered.
\* Two workers past the engine call with the same request map to no stage.
\* Only the (type, signature) pairs of requests the coordinator sends can
\* leave "idle", so the contract is instantiated over those.
Executors(tt, s) == {w \in Workers : PoolOf(w) = tt /\ pc[w] \in {"finish", "remove"}
                                     /\ cur[w].sig = s}

DispatchTypes == {t.type : t \in Tasks}
DispatchSigs == {t.sig : t \in Tasks}

StageOf(tt, s) ==
    LET n == Cardinality(Executors(tt, s))
    IN  CASE n = 1 -> "executed"
          [] n > 1 -> "executed twice"
          [] n = 0 /\ s \in signatures[tt] -> "accepted"
          [] n = 0 /\ s \notin signatures[tt] -> "idle"

DispatchStage == [tt \in DispatchTypes |-> [s \in DispatchSigs |-> StageOf(tt, s)]]

Dispatch == INSTANCE TaskDispatch WITH Types <- DispatchTypes,
                                         Sigs <- DispatchSigs,
                                       stage <- DispatchStage

\* Resends against the contract in the push and delete pools (submit_task's
\* dedup, the erase at the selected index and _remove_task_info): a resend
\* while pending is ignored, one after removal is a new acceptance, and no
\* request is executed twice or dropped from the queue unexecuted.  A stage
\* can only change for a request held by a worker the step moves, or whose
\* registration the step changes, so the contract's Next is checked on those.
DispatchSafety ==
    [][LET stepped == {w \in Workers : pc'[w] # pc[w]}
           touched == ({<<PoolOf(w), cur[w].sig>> : w \in {v \in stepped : cur[v] # NoTask}}
                       \cup {<<PoolOf(w), cur'[w].sig>> : w \in {v \in stepped : cur'[v] # NoTask}}
                       \cup UNION {{tt} \X ((signatures[tt] \ signatures'[tt])
                                       \cup (signatures'[tt] \ signatures[tt])) :
                              tt \in {t \in DispatchTypes : signatures'[t] # signatures[t]}})
                      \cap (DispatchTypes \X DispatchSigs)
           moved == {p \in touched : StageOf(p[1], p[2])' # StageOf(p[1], p[2])}
       IN  \/ moved = {}
           \/ \E p \in moved : /\ moved = {p}
                              /\ <<StageOf(p[1], p[2]), StageOf(p[1], p[2])'>>
                                    \in Dispatch!Moves]_vars
=============================================================================
