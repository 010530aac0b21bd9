----------------------------- MODULE GenericPool -----------------------------
(***************************************************************************)
(* The FIFO task-worker pools of TaskWorkerPool: create table, drop table, *)
(* storage medium migrate, cancel delete, check consistency, upload,       *)
(* restore, make snapshot and release snapshot.  Every one of their         *)
(* callbacks runs the same loop: under _worker_thread_lock wait for a      *)
(* non-empty deque and pop its front, call the storage engine, build the   *)
(* finish request, _finish_task, _remove_task_info(type, signature, "").   *)
(* They differ in the engine call, in whether success increments           *)
(* _s_report_version and in whether the finish request carries it.  The   *)
(* alter pool runs the same loop around _alter_table; its requests are of  *)
(* type SCHEMA_CHANGE or ROLLUP.                                           *)
(*                                                                         *)
(* The engine is abstracted to the tablets it holds: present is the set of *)
(* tablets that exist, and tabletSeq counts the changes made to each, so   *)
(* that a report can be compared with the changes it has seen.             *)
(***************************************************************************)
EXTENDS TaskRegistry, Sequences, FiniteSets

CONSTANTS
    CREATE_TABLE, DROP_TABLE, STORAGE_MEDIUM_MIGRATE, CANCEL_DELETE_DATA,
    CHECK_CONSISTENCY, UPLOAD, RESTORE, MAKE_SNAPSHOT, RELEASE_SNAPSHOT,
    ALTER_TABLE,   \* the alter pool (TaskWorkerType::ALTER_TABLE)
    SCHEMA_CHANGE, ROLLUP,  \* the task types it serves
    ALTER_TABLE_WAITING, ALTER_TABLE_RUNNING, ALTER_TABLE_DONE,
    ALTER_TABLE_FAILED,     \* AlterTableStatus of the base tablet
    CLONE,         \* the clone pool and its task type (CloneTask)
    GWorkers,      \* threads of the FIFO pools
    GKindOf,       \* thread -> the type of its pool
    Tablets,       \* tablet ids the requests name
    InitialTablets, \* tablets the engine holds when the backend starts
    GTasks,        \* requests: [type, sig, tablet]
    GMaxSubmit     \* how often the coordinator sends one request

GenericKinds == {CREATE_TABLE, DROP_TABLE, STORAGE_MEDIUM_MIGRATE,
                 CANCEL_DELETE_DATA, CHECK_CONSISTENCY, UPLOAD, RESTORE,
                 MAKE_SNAPSHOT, RELEASE_SNAPSHOT}

AlterKinds == {SCHEMA_CHANGE, ROLLUP}
PoolKinds == GenericKinds \cup {ALTER_TABLE, CLONE}

\* Every task type a FIFO pool serves.
FifoTaskKinds == GenericKinds \cup AlterKinds \cup {CLONE}

\* The pool a request is submitted to.
PoolOfType(tt) == IF tt \in AlterKinds THEN ALTER_TABLE ELSE tt

AlterTableStatuses == {ALTER_TABLE_WAITING, ALTER_TABLE_RUNNING,
                       ALTER_TABLE_DONE, ALTER_TABLE_FAILED}

ASSUME /\ FifoTaskKinds \subseteq TaskTypes
       /\ GKindOf \in [GWorkers -> PoolKinds]
       /\ \A t \in GTasks : t.type \in FifoTaskKinds
                            /\ t.sig \in Signatures
                            /\ t.tablet \in Tablets

\* Kinds whose success increments _s_report_version (line 406), and kinds
\* whose finish request carries _s_report_version (line 414).
VersionBumping == {CREATE_TABLE}
VersionedFinish == {CREATE_TABLE}

NoGTask == [type |-> "none", sig |-> "none", tablet |-> "none"]
NoVersion == -1

VARIABLES
    gqueue,        \* kind -> the _tasks deque of its pool
    gwait,         \* threads blocked in the condition variable's wait()
    gpc,           \* thread -> where it is in its loop
    gcur,          \* thread -> agent_task_req
    gstatus,       \* thread -> status_code of the finish request
    gmut,          \* thread -> tabletSeq of the change it made, 0 if none
    galter,        \* thread -> alter_table_status it read (alter pool)
    gver,          \* thread -> report_version set in its finish (alter pool)
    present,       \* tablets the engine holds
    tabletSeq,     \* tablet -> number of changes made to it
    reportVersion, \* _s_report_version
    gsubmitted,    \* request -> how often the coordinator sent it
    counted,       \* changes whose increment of _s_report_version happened
    finishes       \* finish requests the coordinator received

gpoolVars == <<gqueue, gwait, gpc, gcur, gstatus, gmut, galter, gver>>
engineVars == <<present, tabletSeq>>
ghistVars == <<reportVersion, gsubmitted, counted, finishes>>
gvars == <<regVars, gpoolVars, engineVars, ghistVars>>

GTypeOK ==
    /\ RegTypeOK
    /\ gqueue \in [PoolKinds -> Seq(GTasks)]
    /\ gwait \subseteq GWorkers
    /\ gpc \in [GWorkers -> {"top", "wait", "exec", "drop", "create", "bump",
                             "info", "finish", "remove"}]
    /\ gcur \in [GWorkers -> GTasks \cup {NoGTask}]
    /\ gstatus \in [GWorkers -> StatusCodes \cup {"none"}]
    /\ gmut \in [GWorkers -> Nat]
    /\ galter \in [GWorkers -> AlterTableStatuses \cup {"none"}]
    /\ gver \in [GWorkers -> Nat \cup {NoVersion}]
    /\ present \subseteq Tablets
    /\ tabletSeq \in [Tablets -> Nat]
    /\ reportVersion \in Nat
    /\ gsubmitted \in [GTasks -> 0..GMaxSubmit]

GInit ==
    /\ RegInit
    /\ gqueue = [k \in PoolKinds |-> <<>>]
    /\ gwait = {}
    /\ gpc = [w \in GWorkers |-> "top"]
    /\ gcur = [w \in GWorkers |-> NoGTask]
    /\ gstatus = [w \in GWorkers |-> "none"]
    /\ gmut = [w \in GWorkers |-> 0]
    /\ galter = [w \in GWorkers |-> "none"]
    /\ gver = [w \in GWorkers |-> NoVersion]
    /\ present = InitialTablets
    /\ tabletSeq = [b \in Tablets |-> 0]
    /\ reportVersion = 0
    /\ gsubmitted = [t \in GTasks |-> 0]
    /\ counted = {}
    /\ finishes = {}

-----------------------------------------------------------------------------
\* Mutant of GSubmitTask: the request is queued without notify().
GSubmitTaskNoNotify(t) ==
    /\ gsubmitted[t] < GMaxSubmit
    /\ gsubmitted' = [gsubmitted EXCEPT ![t] = @ + 1]
    /\ \/ /\ RecordTaskInfo(t.type, t.sig, Anon)
          /\ gqueue' = [gqueue EXCEPT ![PoolOfType(t.type)] = Append(@, t)]
       \/ DuplicateTaskInfo(t.type, t.sig) /\ UNCHANGED gqueue
    /\ UNCHANGED <<gwait, gpc, gcur, gstatus, gmut, galter, gver, engineVars,
                   reportVersion, counted, finishes>>

(* submit_task for a FIFO pool: record the signature; only a new one is    *)
(* appended to the deque and wakes one waiter of the pool.                 *)
GSubmitTask(t) ==
    /\ gsubmitted[t] < GMaxSubmit
    /\ gsubmitted' = [gsubmitted EXCEPT ![t] = @ + 1]
    /\ \/ /\ RecordTaskInfo(t.type, t.sig, Anon)
          /\ gqueue' = [gqueue EXCEPT ![PoolOfType(t.type)] = Append(@, t)]
          /\ LET ws == {w \in gwait : GKindOf[w] = PoolOfType(t.type)}
             IN  IF ws = {} THEN UNCHANGED gwait
                 ELSE \E x \in ws : gwait' = gwait \ {x}
       \/ /\ DuplicateTaskInfo(t.type, t.sig)
          /\ UNCHANGED <<gqueue, gwait>>
    /\ UNCHANGED <<gpc, gcur, gstatus, gmut, galter, gver, engineVars,
                   reportVersion, counted, finishes>>

\* The locked block: an empty deque makes the thread wait.
GWaitForTask(w) ==
    /\ gpc[w] = "top"
    /\ gqueue[GKindOf[w]] = <<>>
    /\ gwait' = gwait \cup {w}
    /\ gpc' = [gpc EXCEPT ![w] = "wait"]
    /\ UNCHANGED <<regVars, gqueue, gcur, gstatus, gmut, galter, gver, engineVars, ghistVars>>

GWakeUp(w) ==
    /\ gpc[w] = "wait"
    /\ w \notin gwait
    /\ gpc' = [gpc EXCEPT ![w] = "top"]
    /\ UNCHANGED <<regVars, gqueue, gwait, gcur, gstatus, gmut, galter, gver,
                   engineVars, ghistVars>>

\* Mutant of GTakeTask: the front is copied but pop_front is missing.
GTakeTaskNoPop(w) ==
    /\ gpc[w] = "top"
    /\ gqueue[GKindOf[w]] # <<>>
    /\ gcur' = [gcur EXCEPT ![w] = Head(gqueue[GKindOf[w]])]
    /\ gpc' = [gpc EXCEPT ![w] = "exec"]
    /\ UNCHANGED <<regVars, gqueue, gwait, gstatus, gmut, galter, gver, engineVars, ghistVars>>

\* A non-empty deque: take its front (pop_front).
GTakeTask(w) ==
    /\ gpc[w] = "top"
    /\ gqueue[GKindOf[w]] # <<>>
    /\ gcur' = [gcur EXCEPT ![w] = Head(gqueue[GKindOf[w]])]
    /\ gqueue' = [gqueue EXCEPT ![GKindOf[w]] = Tail(@)]
    /\ gpc' = [gpc EXCEPT ![w] = "exec"]
    /\ UNCHANGED <<regVars, gwait, gstatus, gmut, galter, gver, engineVars, ghistVars>>

-----------------------------------------------------------------------------
(* Engine calls.  An engine call that fails sets RUNTIME_ERROR and changes *)
(* nothing the model observes; one that succeeds may create or drop the    *)
(* request's tablet.                                                       *)
Exec(w, k) ==
    /\ gpc[w] = "exec"
    /\ gcur[w].type = k
    /\ UNCHANGED <<regVars, gqueue, gwait, gcur, galter, gver, ghistVars>>

\* Mutant of Failed: the AgentStatus of the call is stored as the status.
FailedAgentStatus(w) ==
    /\ gstatus' = [gstatus EXCEPT ![w] = "PALO_ERROR"]
    /\ gpc' = [gpc EXCEPT ![w] = "finish"]
    /\ UNCHANGED <<engineVars, gmut>>

Failed(w) ==
    /\ gstatus' = [gstatus EXCEPT ![w] = RUNTIME_ERROR]
    /\ gpc' = [gpc EXCEPT ![w] = "finish"]
    /\ UNCHANGED <<engineVars, gmut>>

\* The engine leaves the request's tablet existing (exists = TRUE) or not.
Changed(w, exists) ==
    LET b == gcur[w].tablet
    IN  /\ present' = IF exists THEN present \cup {b} ELSE present \ {b}
        /\ tabletSeq' = [tabletSeq EXCEPT ![b] = @ + 1]
        /\ gmut' = [gmut EXCEPT ![w] = tabletSeq[b] + 1]
        /\ gstatus' = [gstatus EXCEPT ![w] = OK]

\* Success of an engine call that changes no tablet.
Unchanged(w) ==
    /\ gstatus' = [gstatus EXCEPT ![w] = OK]
    /\ gpc' = [gpc EXCEPT ![w] = "finish"]
    /\ UNCHANGED <<engineVars, gmut>>

\* create_table; on success the thread goes on to ++_s_report_version.
CreateTable(w) ==
    /\ Exec(w, CREATE_TABLE)
    /\ \/ Failed(w)
       \/ Changed(w, TRUE) /\ gpc' = [gpc EXCEPT ![w] = "bump"]

\* _drop_table: the engine's drop_table; PALO_ERROR becomes RUNTIME_ERROR.
\* Only a drop of a tablet the engine holds changes a tablet; a successful
\* drop of an absent one leaves the engine as it was.
DropTable(w) ==
    /\ Exec(w, DROP_TABLE)
    /\ \/ Failed(w)
       \/ /\ gcur[w].tablet \in present
          /\ Changed(w, FALSE) /\ gpc' = [gpc EXCEPT ![w] = "finish"]
       \/ gcur[w].tablet \notin present /\ Unchanged(w)

\* Storage medium migration moves a tablet's files; the tablet itself and
\* the changes counted for it are the same.
StorageMediumMigrate(w) == Exec(w, STORAGE_MEDIUM_MIGRATE) /\ (Failed(w) \/ Unchanged(w))

CancelDeleteData(w) == Exec(w, CANCEL_DELETE_DATA) /\ (Failed(w) \/ Unchanged(w))

\* compute_checksum reads the tablet.
CheckConsistency(w) == Exec(w, CHECK_CONSISTENCY) /\ (Failed(w) \/ Unchanged(w))

\* Upload: write the remote source info file; only if that worked run the
\* upload command; then delete the info file.  Either step may fail.
Upload(w) == Exec(w, UPLOAD) /\ (Failed(w) \/ Unchanged(w))

\* Restore: write the info file, obtain a shard path, download, rename the
\* files, load_header, each only when every step before it succeeded.  The
\* tablet exists exactly when load_header succeeded; a failing
\* _get_tablet_info afterwards still reports OK.
Restore(w) ==
    /\ Exec(w, RESTORE)
    /\ \/ Failed(w)
       \/ Changed(w, TRUE) /\ gpc' = [gpc EXCEPT ![w] = "finish"]

MakeSnapshot(w) == Exec(w, MAKE_SNAPSHOT) /\ (Failed(w) \/ Unchanged(w))

ReleaseSnapshot(w) == Exec(w, RELEASE_SNAPSHOT) /\ (Failed(w) \/ Unchanged(w))

(* _alter_table, for a request of type SCHEMA_CHANGE or ROLLUP (the only   *)
(* types this pool receives, so the PALO_TASK_REQUEST_ERROR branch and its *)
(* ANALYSIS_ERROR are never taken).  The request's tablet is the new       *)
(* tablet.  _show_alter_table_status answers from engine state this file   *)
(* does not hold, so its result is any AlterTableStatus.                   *)
AlterShowStatus(w) ==
    /\ gpc[w] = "exec"
    /\ gcur[w].type \in AlterKinds
    /\ \E st \in AlterTableStatuses :
         /\ galter' = [galter EXCEPT ![w] = st]
         /\ gpc' = [gpc EXCEPT ![w] = IF st = ALTER_TABLE_FAILED THEN "drop"
                                                                ELSE "create"]
    /\ gstatus' = [gstatus EXCEPT ![w] = OK]
    /\ UNCHANGED <<regVars, gqueue, gwait, gcur, gmut, gver, engineVars, ghistVars>>

\* A failure inside _alter_table: status is no longer PALO_SUCCESS and the
\* remaining engine calls and the version increment are skipped.
AlterFailed(w) ==
    /\ gstatus' = [gstatus EXCEPT ![w] = RUNTIME_ERROR]
    /\ gpc' = [gpc EXCEPT ![w] = "info"]
    /\ UNCHANGED <<engineVars, gmut>>

\* The previous alter failed: _drop_table of its new tablet.
AlterDrop(w) ==
    /\ gpc[w] = "drop"
    /\ \/ AlterFailed(w)
       \/ Changed(w, FALSE) /\ gpc' = [gpc EXCEPT ![w] = "create"]
    /\ UNCHANGED <<regVars, gqueue, gwait, gcur, galter, gver, ghistVars>>

\* Mutant of AlterCreate: success goes on without ++_s_report_version.
AlterCreateNoBump(w) ==
    /\ gpc[w] = "create"
    /\ \/ /\ galter[w] \in {ALTER_TABLE_DONE, ALTER_TABLE_FAILED, ALTER_TABLE_WAITING}
          /\ \/ AlterFailed(w)
             \/ Changed(w, TRUE) /\ gpc' = [gpc EXCEPT ![w] = "info"]
       \/ /\ galter[w] = ALTER_TABLE_RUNNING
          /\ gpc' = [gpc EXCEPT ![w] = "info"]
          /\ UNCHANGED <<engineVars, gmut, gstatus>>
    /\ UNCHANGED <<regVars, gqueue, gwait, gcur, galter, gver, ghistVars>>

\* create_rollup_table or schema_change when the status read is DONE,
\* FAILED or WAITING; with any other status no engine call is made and the
\* status stays PALO_SUCCESS.  Success goes on to ++_s_report_version.
AlterCreate(w) ==
    /\ gpc[w] = "create"
    /\ \/ /\ galter[w] \in {ALTER_TABLE_DONE, ALTER_TABLE_FAILED, ALTER_TABLE_WAITING}
          /\ \/ AlterFailed(w)
             \/ Changed(w, TRUE) /\ gpc' = [gpc EXCEPT ![w] = "bump"]
       \/ /\ galter[w] = ALTER_TABLE_RUNNING
          /\ gpc' = [gpc EXCEPT ![w] = "bump"]
          /\ UNCHANGED <<engineVars, gmut, gstatus>>
    /\ UNCHANGED <<regVars, gqueue, gwait, gcur, galter, gver, ghistVars>>

\* The finish request gets _s_report_version; then, if status is still
\* PALO_SUCCESS, status = _get_tablet_info(new tablet): report_tablet_info
\* fails for a tablet the engine does not hold, and may fail otherwise.
AlterTabletInfo(w) ==
    /\ gpc[w] = "info"
    /\ gver' = [gver EXCEPT ![w] = reportVersion]
    /\ \/ gstatus[w] = OK /\ gcur[w].tablet \in present /\ UNCHANGED gstatus
       \/ gstatus[w] = OK /\ gstatus' = [gstatus EXCEPT ![w] = RUNTIME_ERROR]
       \/ gstatus[w] # OK /\ UNCHANGED gstatus
    /\ gpc' = [gpc EXCEPT ![w] = "finish"]
    /\ UNCHANGED <<regVars, gqueue, gwait, gcur, gmut, galter, engineVars, ghistVars>>

\* ++_s_report_version after a successful create_table or alter: an atomic
\* fetch-add, a step of its own after the engine call.
ReportVersionBump(w) ==
    /\ gpc[w] = "bump"
    /\ reportVersion' = reportVersion + 1
    /\ counted' = counted \cup {[tablet |-> gcur[w].tablet, seq |-> gmut[w],
                                 version |-> reportVersion + 1]}
    /\ gpc' = [gpc EXCEPT ![w] = IF gcur[w].type \in AlterKinds THEN "info"
                                                                ELSE "finish"]
    /\ UNCHANGED <<regVars, gqueue, gwait, gcur, gstatus, gmut, galter, gver,
                   engineVars, gsubmitted, finishes>>

(* The finish request, with _s_report_version read when it is built (for   *)
(* create table only), then _finish_task: delivered, or dropped after      *)
(* TASK_FINISH_MAX_RETRY failed RPCs.                                      *)
GFinishTask(w) ==
    LET t == gcur[w]
        f == [sig |-> t.sig, type |-> t.type, tablet |-> t.tablet,
              status |-> gstatus[w], seq |-> gmut[w],
              version |-> CASE t.type \in VersionedFinish -> reportVersion
                                [] t.type \in AlterKinds -> gver[w]
                                [] OTHER -> NoVersion]
    IN  /\ gpc[w] = "finish"
        /\ \/ finishes' = finishes \cup {f}
           \/ UNCHANGED finishes
        /\ gpc' = [gpc EXCEPT ![w] = "remove"]
        /\ UNCHANGED <<regVars, gqueue, gwait, gcur, gstatus, gmut, galter, gver, engineVars,
                       reportVersion, gsubmitted, counted>>

\* _remove_task_info(type, signature, ""), then the loop starts over.
GRemoveTask(w) ==
    /\ gpc[w] = "remove"
    /\ RemoveTaskInfo(gcur[w].type, gcur[w].sig, Anon)
    /\ gcur' = [gcur EXCEPT ![w] = NoGTask]
    /\ gstatus' = [gstatus EXCEPT ![w] = "none"]
    /\ gmut' = [gmut EXCEPT ![w] = 0]
    /\ galter' = [galter EXCEPT ![w] = "none"]
    /\ gver' = [gver EXCEPT ![w] = NoVersion]
    /\ gpc' = [gpc EXCEPT ![w] = "top"]
    /\ UNCHANGED <<gqueue, gwait, engineVars, ghistVars>>

-----------------------------------------------------------------------------
\* The loop of a FIFO-pool callback around its engine step.
PoolLoop(w, EngineStep) ==
    \/ GWaitForTask(w)
    \/ GWakeUp(w)
    \/ GTakeTask(w)
    \/ EngineStep
    \/ GFinishTask(w)
    \/ GRemoveTask(w)

CreateTableWorker(w) == PoolLoop(w, CreateTable(w) \/ ReportVersionBump(w))
DropTableWorker(w) == PoolLoop(w, DropTable(w))
StorageMediumMigrateWorker(w) == PoolLoop(w, StorageMediumMigrate(w))
CancelDeleteDataWorker(w) == PoolLoop(w, CancelDeleteData(w))
CheckConsistencyWorker(w) == PoolLoop(w, CheckConsistency(w))
UploadWorker(w) == PoolLoop(w, Upload(w))
RestoreWorker(w) == PoolLoop(w, Restore(w))
MakeSnapshotWorker(w) == PoolLoop(w, MakeSnapshot(w))
ReleaseSnapshotWorker(w) == PoolLoop(w, ReleaseSnapshot(w))
AlterTableWorker(w) ==
    PoolLoop(w, \/ AlterShowStatus(w) \/ AlterDrop(w) \/ AlterCreate(w)
                \/ ReportVersionBump(w) \/ AlterTabletInfo(w))

\* start(): each thread runs the callback of its pool's type.
GWorkerStep(w) ==
    CASE GKindOf[w] = CREATE_TABLE -> CreateTableWorker(w)
      [] GKindOf[w] = DROP_TABLE -> DropTableWorker(w)
      [] GKindOf[w] = STORAGE_MEDIUM_MIGRATE -> StorageMediumMigrateWorker(w)
      [] GKindOf[w] = CANCEL_DELETE_DATA -> CancelDeleteDataWorker(w)
      [] GKindOf[w] = CHECK_CONSISTENCY -> CheckConsistencyWorker(w)
      [] GKindOf[w] = UPLOAD -> UploadWorker(w)
      [] GKindOf[w] = RESTORE -> RestoreWorker(w)
      [] GKindOf[w] = MAKE_SNAPSHOT -> MakeSnapshotWorker(w)
      [] GKindOf[w] = RELEASE_SNAPSHOT -> ReleaseSnapshotWorker(w)
      [] GKindOf[w] = ALTER_TABLE -> AlterTableWorker(w)

GNext ==
    \/ \E t \in GTasks : GSubmitTask(t)
    \/ \E w \in GWorkers : GWorkerStep(w)

GFairness == \A w \in GWorkers : WF_gvars(GWorkerStep(w))

GSpec == GInit /\ [][GNext]_gvars /\ GFairness

-----------------------------------------------------------------------------
(* Properties                                                              *)

\* Threads holding a request of type tt, between taking it and removing
\* its signature.
GHolders(tt) == {w \in GWorkers : gcur[w].type = tt /\ gpc[w] \notin {"top", "wait"}}

\* The requests of type tt in the deque of their pool.
Queued(tt) == SelectSeq(gqueue[PoolOfType(tt)], LAMBDA q : q.type = tt)

\* De-duplication in the FIFO pools (submit_task, _record_task_info and
\* _remove_task_info around pop_front): the registered signatures of a
\* type are those of the requests queued in or held by its pool, each
\* pending once, however the coordinator resends and the threads interleave.
GRegistryTracksPendingTasks ==
    \A tt \in FifoTaskKinds :
        LET queued == Queued(tt)
            held == GHolders(tt)
        IN  /\ signatures[tt] = {queued[i].sig : i \in DOMAIN queued}
                                   \cup {gcur[w].sig : w \in held}
            /\ Cardinality(signatures[tt]) = Len(queued) + Cardinality(held)

\* Every request a FIFO pool accepted is eventually taken, finished and
\* removed from the registry: notify() wakes a waiter of the right pool.
GAcceptedTaskIsEventuallyRemoved ==
    \A t \in GTasks : (t.sig \in signatures[t.type]) ~> (t.sig \notin signatures[t.type])

\* Refinement: the FIFO pools implement TaskDispatch, with the same
\* mapping as the push pool: executed once a thread has made the engine
\* call, until it removes the signature.  GBeforeEngine are the handler
\* points before the engine call.
GBeforeEngine == {"top", "wait", "exec"}

GExecutors(tt, s) == {w \in GWorkers : gcur[w].type = tt /\ gcur[w].sig = s
                                       /\ gpc[w] \notin GBeforeEngine}

GDispatchTypes == {t.type : t \in GTasks}
GDispatchSigs == {t.sig : t \in GTasks}

GStageOf(tt, s) ==
    LET n == Cardinality(GExecutors(tt, s))
    IN  CASE n = 1 -> "executed"
          [] n > 1 -> "executed twice"
          [] n = 0 /\ s \in signatures[tt] -> "accepted"
          [] n = 0 /\ s \notin signatures[tt] -> "idle"

GDispatchStage == [tt \in GDispatchTypes |-> [s \in GDispatchSigs |-> GStageOf(tt, s)]]

GDispatch == INSTANCE TaskDispatch WITH Types <- GDispatchTypes,
                                          Sigs <- GDispatchSigs,
                                        stage <- GDispatchStage

\* The FIFO pools implement the dispatch contract.
GDispatchRefinement == GDispatch!Spec

\* A change counted in a version (create table and alter): a successful
\* finish request that carries report_version was built after the change's
\* ++_s_report_version, so a tablet report whose version is at least the
\* finish's includes the change.
FinishVersionCoversOwnChange ==
    \A f \in finishes :
        f.status = OK /\ f.version # NoVersion /\ f.seq > 0 =>
            \E c \in counted : c.tablet = f.tablet /\ c.seq = f.seq /\ c.version <= f.version

\* Spec 4.9 step 4: an alter whose schema change or rollup succeeded (and
\* incremented report_version) is reported OK, even when the tablet info
\* lookup afterwards fails.
AlterSuccessReportedOK ==
    \A f \in finishes :
        f.type \in AlterKinds /\ f.seq > 0
        /\ (\E c \in counted : c.tablet = f.tablet /\ c.seq = f.seq) => f.status = OK
=============================================================================
