# TLA+ models of the Palo backend agent task workers

This directory has TLA+ models of `src/be/src/agent/task_worker_pool.cpp`, the
backend agent's task dispatch. In this code the frontend (the coordinator) sends
task requests. `TaskWorkerPool::submit_task` deduplicates each request by
signature and queues it in a per-kind pool. Worker threads take requests, do the
work through the storage engine, report the result with `_finish_task` and
deregister the request. Reporter threads periodically send the backend's
tasks, disks and tablets.

## Inventory

| # | Component | Source | State | Operations |
|---|-----------|--------|-------|------------|
| C1 | Signature registry | 66-72, 207-252 | `_s_task_signatures[type]`; PUSH-only `_s_total_task_user_count`, `_s_total_task_count`; `_s_running_task_user_count` (uint32 per user) | `_record_task_info` (dedup, count), `_remove_task_info` (erase, decrement for PUSH) |
| C2 | Task queue and condvar | 188-205 | per pool `_tasks` deque, `_worker_thread_lock`, condition variable (notify wakes one) | `submit_task` (record, push_back, notify), worker wait/take |
| C3 | Finish protocol | 279-298 | none besides the RPC | up to `TASK_FINISH_MAX_RETRY` (3) `finish_task` RPCs, 1 s sleep after each |
| C4 | Push scheduler | 300-374, 653-797 | static `s_worker_count`; per thread its lane (HIGH/NORMAL) | lane hand-out, `_get_next_task_index` (HIGH lane: first HIGH request; NORMAL lane: first request whose user is within its fair share, otherwise the head), Pusher init/process, delete_data, finish, remove |
| C5 | Generic worker loops | 376-472, 1315-1560, 1640-2070 | queue only | pop front, engine call, `++_s_report_version` on success, finish, remove |
| C6 | Alter orchestrator | 474-651 (in `GenericPool`) | tablet's alter state | drop the output of a failed earlier alter, create the rollup/schema change, finish |
| C7 | Clone orchestrator | 799-1313 | local tablet dir | exists check, per source backend: make snapshot, list files, download (.hdr last, 3 tries, size check), release snapshot; load header or clean up; stale-version drop |
| C8 | Reporter loops | 1562-1640 | `_s_report_version`, heartbeat port, `disk_broken_cv` | report tasks, report disks (timed wait on the condvar), report all tablets with the version read first |
| C9 | Pool supervisor | 106-186, 254-277 | worker count per kind | pick callback and count, spawn threads (retrying `pthread_create`) |
| -- | Expr IR wrappers | 2071-2149 | none | static forwarders compiled to LLVM IR, unrelated to tasks |

How the parts interact. C2 calls C1 before it enqueues a request, under the
registry lock. Every worker calls C3 and then C1 to deregister. The PUSH and
DELETE pools both run the C4 callback. They therefore share the static
`s_worker_count` and the registry counters, but each pool takes its own pool
lock. Workers increment `_s_report_version` after a successful change, and C8
reads it.

Hard behaviours in this code:
- **Thread interleavings**: 2 pools × N threads × the submitter.
- **Lost wake-ups**: notify wakes one arbitrary waiter, and a HIGH-lane waiter
  cannot take a NORMAL request; it relays the notify (line 691).
- **Stale local**: the `user` local of `_get_next_task_index` is stale for a
  request without `resource_info`.
- **uint32 and float arithmetic at the edges**: wrap on decrement, and 0/0 for
  DELETE, whose totals are never counted.
- **Bounded retries**: the retries of push and finish have a bound that never
  retries (push) or that drops the report (finish).
- **Duplicate resends**: a resend arriving while the request is pending is dropped.
- **Clone partial failures**: partial failures and the ordering of the header
  file.

Properties per component: C1 registry = pending requests, totals =
queued+executing, running = executing (PushPool). C4: the selection matches the
fair-share rule (PushAlgorithms), every accepted request is eventually
executed and deregistered (PushPool). C3: a dropped finish still deregisters.
C8: a report's version never runs ahead of the tablets it lists (Reporters).
C7 (planned): a header is never present without its data files.

## Modules

- `AgentTypes`: constants shared by all modules (task types, users, the `Anon`
  user key standing for the empty user of a request without `resource_info`,
  the uint32 modulus `CounterModulus`), plus `Inc`/`Dec` with wrap.
- `TaskRegistry`: C1. `RecordTaskInfo`/`DuplicateTaskInfo` are the two
  outcomes of `_record_task_info`, and `RemoveTaskInfo` is `_remove_task_info`.
  They are action fragments, conjoined into the pool's actions under the same
  lock scope as in the code.
- `PushAlgorithms`: the pure algorithms of C4. `ScanQueue`/`GetNextTaskIndex`
  are a RECURSIVE translation of `_get_next_task_index`. They keep the stale
  `user`, the improper-user set, the `running == 0` shortcut and the float
  test `(running+1)/threads <= totalUser/total`. That test is compared in
  integers: `Inc(running)*total <= totalUser*threads`, and `total = 0` is
  handled as 0/0 = NaN (false) or x/0 = +inf (true). `ProcessLoop`/`PushLoad`
  are the Pusher init/process retry loop.
- `PushPool`: the PUSH and DELETE pools running `_push_worker_thread_callback`,
  with the shared registry. A worker's `pc` follows the code:
  `start` → `startWrite` (the lane hand-out, read and write of `s_worker_count`,
  split so that the two pools' unsynchronised accesses can interleave) → `top` →
  `wait` (in the condvar's wait set) → `SelectTask` or `NoHighTask` → `sleep` /
  `exec` → `finish` → `remove` → `top`. Within a pool, the pool lock is implicit
  in the atomicity of `SelectTask`/`NoHighTask`. `NotifyOne` removes an arbitrary waiter of the
  pool from the wait set.
- `GenericPool`: C5, the nine FIFO pools. They share one loop, `PoolLoop`:
  `GWaitForTask`/`GWakeUp` (condvar wait set), `GTakeTask` (front and
  `pop_front` under the pool lock), the kind's engine step, `ReportVersionBump`
  (create table only, line 406), `GFinishTask` (the finish request, with
  `report_version` for create only, delivered or dropped by `_finish_task`),
  then `GRemoveTask`. The engine is abstracted to `present` (tablets that exist)
  and `tabletSeq` (changes per tablet), starting from `InitialTablets` (the
  tablets the engine holds when the backend starts). Create and restore change
  a tablet, and so does a drop of a tablet the engine holds. A successful drop
  of an absent tablet changes nothing. The other kinds succeed or fail without a change the properties see.
  `GWorkerStep` dispatches on the thread's kind, as `start()` does.
  The alter pool (C6) runs the same loop. Its requests are of type
  SCHEMA_CHANGE or ROLLUP, queued in the ALTER_TABLE pool (`PoolOfType`).
  Its engine step is `_alter_table`, split where the code calls the engine:
  - `AlterShowStatus`: any `AlterTableStatus`, since the engine's alter state is
    outside this file;
  - `AlterDrop`: only after FAILED;
  - `AlterCreate`: only for DONE, FAILED or WAITING; for RUNNING the status
    stays success;
  - `ReportVersionBump`;
  - `AlterTabletInfo`: reads `_s_report_version` into the finish (`gver`),
    then `status = _get_tablet_info(...)`.
- `Reporters`: C8, composed with `GenericPool`. The task reporter copies the
  registry (`SnapshotTasks`) and sends it, and the send is delivered or fails.
  The disk reporter waits for the heartbeat, reports, then waits (`WaitTimeout`,
  or woken by `NotifyDiskBroken`). The tablet reporter does `ReadReportVersion`
  → `EnumerateTablets` (or fails and waits) → `SendTabletReport` (delivered or
  lost) → wait. Only the last report the coordinator received is kept
  (`lastReport`). That is enough because the version only grows: a later
  report is compared with the changes counted after it. The history variables
  `counted` and `finishes` record what the coordinator could know.
- `CloneTask`: C7, composed with `GenericPool`. A clone thread runs the FIFO
  loop (`CloneTake`, `GFinishTask`, `CloneRemove`) around the callback's steps:
  - `CloneCheckTablet`: `get_table`; an existing tablet is
    `PALO_CREATE_TABLE_EXIST` and skips straight to the info step;
  - `CloneObtainShard`: `obtain_shard_path` fails, or picks a shard;
  - `CloneMakeSnapshot`: per source backend, a failure is `continue`. On
    success the local `shard/tablet/schema` directory is removed and created
    empty, and the snapshot may be stale;
  - `CloneListFiles`, then `CloneDownloadFile` for each name of
    `DownloadList == HeaderLast(Listing)`. `HeaderLast` is the code's
    push-back/insert-front fold. A failed `get_length` leaves no file, failed
    downloads leave a partial one, and each failure ends the source
    (`NextSource`: release the snapshot, break on success);
  - `CloneLoadHeader`: the engine loads a tablet only from a whole header and
    only if it does not hold it;
  - `CloneCleanup`: `remove_all` after a failure other than an existing
    tablet. An ignored `filesystem_error` is the disjunct that leaves the
    directory;
  - `CloneTabletInfo`: `_get_tablet_info`. A stale tablet is dropped
    (`DropStale`, whose failure is only logged) and reported RUNTIME_ERROR.

  Each `DOWNLOAD_FILE_MAX_RETRY` loop is one step with its outcome. Its
  attempts rewrite one local file that no other step reads in between. The
  local directory is `dir[tablet][shard][file]`, with each file absent,
  partial or full. `home` records where the engine loaded a tablet from. No
  property reads it.
- `TaskDispatch`: the abstract contract of any task pool. Each (type,
  signature) goes `idle` → `accepted` → `executed` → `idle`, with weak fairness
  on execute and complete. `PushPool` and `GenericPool` instantiate it with a
  refinement mapping. `GenericPool` checks the whole specification
  (`GDispatchRefinement`), and `PushPool` checks its `Next` under resends
  (`DispatchSafety`). The push liveness run checks only liveness: removal there
  implies passing through `executed`, so the full refinement would add nothing
  to `DispatchSafety` and `AcceptedTaskIsEventuallyRemoved`. The mapping:
  - a request is `executed` while exactly one thread holds it past its engine
    call;
  - otherwise it is `accepted` while its signature is registered;
  - otherwise it is `idle`.

  Two threads holding the same request past the engine call map to no stage, so
  a double execution violates the refinement.

  The liveness runs send each request once, so the full refinement never sees
  a resend. `DispatchSafety` checks the safety part of the contract, its
  `Next` through `TaskDispatch!Moves`, in the push run that resends
  (`push_pool_safety`), where a HIGH and a NORMAL thread share the push queue. In that run:
  - a resend while pending must be no step;
  - a resend after removal must be a new `idle` → `accepted`;
  - no step may move two requests at once.

  A stage can change only for a request that a moving thread holds before or
  after the step, or whose registration the step changes. The property
  evaluates the stage of those requests alone. The FIFO runs have no such
  check under resends. `fifo_registry` already takes 3m37 with TLC's
  coverage, and every added action property pushed it past five minutes.
  Its pools have one thread each, so two threads can never execute one
  request there. The resend cases are covered by `GRegistryTracksPendingTasks`.
- `MC_PushAlgorithms`, `MC_PushRetry`, `MC_PushPool`, `MC_GenericPool`,
  `MC_Reporters`, `MC_Clone`: the model-checking instances.

## Runs

| run | cfg | expect | what it shows |
|-----|-----|--------|---------------|
| push_selection | MC_PushAlgorithms.cfg | pass | `_get_next_task_index` equals the reference choice "least index whose user has running 0 or is within its share; else head (NORMAL) or none (HIGH)" for every queue of ≤3 requests of 2 users, every lane, 1–3 threads and every count snapshot with a non-empty `resource_info` |
| push_retry | MC_PushRetry.cfg | violation | a transient `PALO_ERROR` from `process()` is not retried (finding) |
| push_pool_safety | MC_PushPool_safety.cfg | pass | registry = queued ∪ executing; PUSH totals and running counts match the queued and executing requests of each user; with resends, the pools take only the steps of `TaskDispatch` |
| push_pool_liveness | MC_PushPool_live.cfg | pass | every accepted push request is eventually executed and deregistered |
| push_anon_user | MC_PushPool_anon.cfg | violation | a HIGH request without `resource_info` behind a request of u1 is charged to u1 (finding) |
| delete_lane | MC_PushPool_delete_lane.cfg | violation | a delete thread takes a HIGH lane through the shared `s_worker_count` and a NORMAL delete request starves (finding) |
| fifo_registry | MC_GenericPool_registry.cfg | pass | in six FIFO pools with resends, the registry is exactly the queued and held requests (3m with TLC's coverage) |
| clone_liveness | MC_Clone.cfg | pass | with a clone, a make-snapshot and a restore thread, the restore on the clone's tablet: no directory holds a header without its whole data file, whatever download, source or cleanup fails; every accepted request is eventually removed; the pools refine `TaskDispatch` |
| alter_info_status | MC_GenericPool_alter_info.cfg | violation | a successful schema change is reported RUNTIME_ERROR when the tablet info lookup fails (finding) |
| report_order | MC_Reporters_order.cfg | pass | with a create and an alter thread: a tablet report labelled V lists every tablet change whose `++_s_report_version` is counted in V; every successful finish carrying `report_version` was built after its change's increment |
| report_drop_stale | MC_Reporters_drop.cfg | violation | a report enumerated before a drop but received after the drop's finish is not recognisably stale (finding) |
| reporters_liveness | MC_Reporters_live.cfg | pass | the coordinator eventually learns every accepted request's outcome, even when the finish is dropped, and the reporters keep cycling after the heartbeat |

Bounds:
- **Pool configuration**: one HIGH push thread, one NORMAL push thread and one
  delete thread. This is the smallest configuration that has both lanes, the
  relay notify and the cross-pool race.
- **Requests**: 3 push requests (two users, one HIGH) and one delete request.
  This makes the fair-share test, the HIGH lane skip and the improper-user set
  all occur.
- **Resends**: `MaxSubmit = 2` lets the coordinator resend each request once,
  which covers the duplicate while pending and the resubmit after removal.
- **Counters**: `CounterModulus = 16` keeps the uint32 wrap visible.
- **View**: the safety run uses a VIEW without `reportVersion` and `acked`.
  Neither appears in any guard or in the invariants it checks; both are kept in
  the liveness run.

- **FIFO pools**: the registry run has 6 threads (one each of migrate, drop,
  cancel, check, release snapshot and upload) and 7 requests (two migrates),
  with `GMaxSubmit = 2`. The CONSTRAINT `SubmissionBound` (at most 3 sends in
  all) keeps the idle threads' top/wait toggling from multiplying the space.
  Three sends are enough for a resend while pending, a resend after removal,
  or two migrates queued in one pool. `InitialTablets = {b1}` is the engine
  holding the tablet at startup, so the drop pool drops a present tablet and,
  after that or on a resend, an absent one. The liveness run (`clone_liveness`) uses
  3 threads.
- **Reporters**: the order run has one create-table thread and one alter thread
  on one tablet, with `GMaxSubmit = 1`. These are the two kinds whose change is
  counted. The alter may first drop a failed alter's output, a change that is
  not counted. Every interleaving of a change, its version increment and the
  reporter's read/enumerate is then reached. The VIEW `OrderView` omits:
  - the task and disk reporters, which do not feed the property;
  - `finishes`, and the status and finish version, which only go into it.

  A third tablet-changing thread (drop or restore) took the run past five
  minutes; drop's uncounted change is already covered by the alter's drop.
- **Run count and sizes**: each FIFO kind appears in one passing run. Create
  and alter are in `report_order`. Migrate, drop, cancel, check, release
  snapshot and upload are in `fifo_registry` (3m with TLC's coverage). Clone, make snapshot
  and restore are in `clone_liveness` (2m). Putting more pools in one run multiplies the interleavings
  of idle threads reaching their wait. Eight pools in one run did not finish
  in 15 minutes.
- **Clone**: one clone request with two sources and one shard, and a restore
  of the same tablet. A restore that loads the tablet before the clone starts
  sends the clone down the `PALO_CREATE_TABLE_EXIST` path, and then the stale
  drop; one that loads it during the clone makes the clone's `load_header`
  fail. Without it the tablet never exists when a clone starts. The listing is
  `<<h0, d0>>`, the header first, which is the order the header-last list
  corrects. Two sources let a failure on the first leave files behind for the
  second to clear. Every step may fail, including the cleanup. A third file,
  a second shard or a second clone request each took the liveness run past
  five minutes.

  While modelling, two clone threads with the request resent were checked for
  the two clone invariants alone (50k states). The registry's rejection of
  the pending signature keeps them apart; without it both invariants fail.
- **Alter status**: the status query ranges over all four `AlterTableStatus`
  values.

Fairness: weak fairness on each worker thread's step (`WF_vars(WorkerStep(w))`).
Each worker is an OS thread that is never blocked except on the condvar, and
the condvar wait is modelled by the `waitSet` disabling it. The submitter (the
coordinator's RPCs) has no fairness: it may stop at any time.

In `CloneTask`, each thread's step is weakly fair as well. No failure is
obliged to happen or to stop. Every retry loop of `_clone_copy` is bounded, so
the clone thread cannot loop.

In `Reporters`, each reporter thread's step is weakly fair. Delivery of a task
report is strongly fair: the report RPC cannot fail forever. This is an
environment assumption about the coordinator. The heartbeat, disk failures and
the coordinator's requests have no fairness.

## Findings

1. `PUSH_MAX_RETRY = 1` with `while (retry_time < PUSH_MAX_RETRY)` calls
   `process()` once (lines 723-740). Spec §4.5 and the comment promise a retry.
2. `_get_next_task_index` never resets `user` for a request without
   `resource_info` (311-313). The running count is charged to the previous
   request's user, and `_remove_task_info` then decrements the empty user's
   count, which wraps.
3. The static `s_worker_count` (661) is shared by the PUSH and DELETE pools under
   different locks. Delete threads can take HIGH lanes, and NORMAL deletes can
   then starve.

4. Drop table (445-451) and restore (1859-1874) change the engine's tablets
   without incrementing `_s_report_version`. A tablet report whose version was
   read and whose tablets were enumerated before a drop can reach the
   coordinator after the drop's finish. It still lists the dropped tablet, and
   its version does not mark it stale. The spec lists only create, alter and
   push as incrementing the version (spec gap).

5. `_alter_table` assigns the result of `_get_tablet_info` to `status` (614).
   A schema change or rollup that succeeded, and incremented
   `report_version`, is reported RUNTIME_ERROR when the info lookup fails.
   Spec §4.9 step 4 says such a partial success still reports OK, as the
   restore worker does.

## Not modelled, and why

- **Concurrent std::map access**: the concurrent `std::map` accesses to
  `_s_running_task_user_count` from two pools (a data race, UB) are not modelled.
  Each access is atomic in the model.
- **Finish latency**: `_finish_task` sleeps 1 s even after a success. This adds
  latency but no behaviour.
- **Payloads and engine**: payloads, file names, paths and logging. The storage
  engine is a nondeterministic status.
- **Spawning**: `pthread_create` retries. They only delay a thread's start.
- **Expression IR wrappers**.
- **Clone I/O details**:
  - splitting the listing at newlines, and file names (a name exactly ".hdr"
    is not a header to the code);
  - the size arithmetic of the timeout, and the 1 s, 2 s, 3 s sleeps;
  - `create_directories` or `exists` throwing outside the `try`, which would
    end the process.

  The order of data files among themselves is reversed by the insert-at-front
  (spec scenario S4 lists them in listing order). No property depends on it.
- **Restore's files**: the restore pool downloads into `{shard}/{tablet_id}/`
  through the external `trans_file_tool` script, and renames the files. A
  clone of the same tablet empties that directory. The model's `Restore` is
  one engine step that leaves the clone directory alone, so the run checks
  how the two pools interleave on the tablet, but not on its files (hazard at
  line 1787).
- **Same-tablet clones under different signatures**: nothing in this file
  keeps two such clones from sharing a directory. Whether the coordinator
  sends them is outside the file (hazard at line 827).

## Plan (later work)

Every component that changes state is now modelled. Further work is larger
instances on faster hardware: a second clone thread or request in the
liveness run, and more threads per pool.
