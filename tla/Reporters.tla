------------------------------ MODULE Reporters ------------------------------
(***************************************************************************)
(* The three reporter threads of TaskWorkerPool, composed with the FIFO    *)
(* pools whose work they report.                                           *)
(*                                                                         *)
(* - The task reporter copies _s_task_signatures under its lock and sends  *)
(*   it, every report_task_interval_seconds.                               *)
(* - The disk-state reporter waits for the first heartbeat, sends the     *)
(*   root-path statistics and waits on disk_broken_cv with a timeout.       *)
(* - The tablet reporter waits for the first heartbeat, reads             *)
(*   _s_report_version, enumerates every tablet and sends both; if the     *)
(*   enumeration fails it skips the send.  It then waits on disk_broken_cv *)
(*   with a timeout, like the disk reporter.                               *)
(*                                                                         *)
(* The heartbeat (master_info.network_address.port becoming non-zero) and *)
(* the notification of disk_broken_cv come from outside this file and are  *)
(* environment steps.  A reporter's sleep-and-retry before the first       *)
(* heartbeat changes nothing and is stuttering.                            *)
(***************************************************************************)
EXTENDS GenericPool

VARIABLES
    heartbeat,     \* the first heartbeat has set the coordinator's port
    diskBroken,    \* disk_broken_cv has been notified
    rtPc,          \* task reporter: "snap" or "send"
    rtTasks,       \* the copy of _s_task_signatures in its request
    rtGone,        \* accepted requests absent from the copy being sent
    goneReported,  \* accepted requests a delivered task report lacked
    dpPc,          \* disk reporter: "top" or "wait"
    rpPc,          \* tablet reporter: "top", "enum", "send" or "wait"
    rpVersion,     \* report_version set in the tablet report
    rpSeqs,        \* tabletSeq when the tablets were enumerated
    lastReport,    \* the last tablet report the coordinator received
    alreadyReported \* is_report_disk_state_already / _olap_table_already

repVars == <<heartbeat, diskBroken, rtPc, rtTasks, rtGone, goneReported,
             dpPc, rpPc, rpVersion, rpSeqs, lastReport, alreadyReported>>
vars == <<gvars, repVars>>

NoSeqs == [b \in Tablets |-> 0]
NoReport == [version |-> NoVersion, seqs |-> NoSeqs, after |-> {}]

Init ==
    /\ GInit
    /\ heartbeat = FALSE /\ diskBroken = FALSE
    /\ rtPc = "snap" /\ rtTasks = [tt \in TaskTypes |-> {}]
    /\ rtGone = {} /\ goneReported = {}
    /\ dpPc = "top"
    /\ rpPc = "top" /\ rpVersion = 0 /\ rpSeqs = NoSeqs
    /\ lastReport = NoReport
    /\ alreadyReported = {}

\* Steps of the pools leave the reporters alone, and the other way round.
PoolStep == GNext /\ UNCHANGED repVars

-----------------------------------------------------------------------------
(* Environment.                                                            *)
Heartbeat ==
    /\ ~heartbeat
    /\ heartbeat' = TRUE
    /\ UNCHANGED <<gvars, diskBroken, rtPc, rtTasks, rtGone, goneReported,
                   dpPc, rpPc, rpVersion, rpSeqs, lastReport,
                   alreadyReported>>

\* A disk breaks: disk_broken_cv wakes the reporters waiting on it, which
\* set their "already reported" flag.
NotifyDiskBroken ==
    /\ ~diskBroken
    /\ diskBroken' = TRUE
    /\ alreadyReported' = alreadyReported
                            \cup (IF dpPc = "wait" THEN {"disk"} ELSE {})
                            \cup (IF rpPc = "wait" THEN {"tablet"} ELSE {})
    /\ dpPc' = IF dpPc = "wait" THEN "top" ELSE dpPc
    /\ rpPc' = IF rpPc = "wait" THEN "top" ELSE rpPc
    /\ UNCHANGED <<gvars, heartbeat, rtPc, rtTasks, rtGone, goneReported,
                   rpVersion, rpSeqs, lastReport>>

-----------------------------------------------------------------------------
(* Task reporter.                                                          *)
\* Mutant of SnapshotTasks: the signatures are copied into the request
\* only on the first round, like the backend field set before the loop.
SnapshotTasksOnce ==
    /\ rtPc = "snap"
    /\ IF rtTasks = [tt \in TaskTypes |-> {}] /\ rtGone = {}
       THEN /\ rtTasks' = signatures
            /\ rtGone' = {t \in GTasks : gsubmitted[t] > 0
                                          /\ t.sig \notin signatures[t.type]}
       ELSE UNCHANGED <<rtTasks, rtGone>>
    /\ rtPc' = "send"
    /\ UNCHANGED <<gvars, heartbeat, diskBroken, goneReported, dpPc, rpPc,
                   rpVersion, rpSeqs, lastReport, alreadyReported>>

\* request.__set_tasks(_s_task_signatures) under _s_task_signatures_lock.
\* rtGone is the requests already sent whose signature the copy lacks.
SnapshotTasks ==
    /\ rtPc = "snap"
    /\ rtTasks' = signatures
    /\ rtGone' = {t \in GTasks : gsubmitted[t] > 0 /\ t.sig \notin signatures[t.type]}
    /\ rtPc' = "send"
    /\ UNCHANGED <<gvars, heartbeat, diskBroken, goneReported, dpPc, rpPc,
                   rpVersion, rpSeqs, lastReport, alreadyReported>>

\* report(): the coordinator receives the task list, or the RPC fails.
SendTaskReportDelivered ==
    /\ rtPc = "send"
    /\ goneReported' = goneReported \cup rtGone
    /\ rtPc' = "snap"
    /\ UNCHANGED <<gvars, heartbeat, diskBroken, rtTasks, rtGone, dpPc, rpPc,
                   rpVersion, rpSeqs, lastReport, alreadyReported>>

SendTaskReportFailed ==
    /\ rtPc = "send"
    /\ rtPc' = "snap"
    /\ UNCHANGED <<gvars, heartbeat, diskBroken, rtTasks, rtGone, goneReported,
                   dpPc, rpPc, rpVersion, rpSeqs, lastReport, alreadyReported>>

TaskReporterStep == SnapshotTasks \/ SendTaskReportDelivered \/ SendTaskReportFailed

-----------------------------------------------------------------------------
(* Disk-state reporter: after the heartbeat, one report (delivered or not, *)
(* the model does not tell them apart), then the timed wait.               *)
SendDiskReport ==
    /\ dpPc = "top"
    /\ heartbeat
    /\ dpPc' = "wait"
    /\ UNCHANGED <<gvars, heartbeat, diskBroken, rtPc, rtTasks, rtGone,
                   goneReported, rpPc, rpVersion, rpSeqs, lastReport,
                   alreadyReported>>

\* Mutant of WaitTimeout: wait() without a deadline, so only a disk
\* failure ends the wait.
WaitTimeoutNever(p) == FALSE /\ UNCHANGED vars

\* timed_wait returns false after _wait_duration: the next round starts.
WaitTimeout(p) ==
    /\ p = "disk" => dpPc = "wait"
    /\ p = "tablet" => rpPc = "wait"
    /\ dpPc' = IF p = "disk" THEN "top" ELSE dpPc
    /\ rpPc' = IF p = "tablet" THEN "top" ELSE rpPc
    /\ UNCHANGED <<gvars, heartbeat, diskBroken, rtPc, rtTasks, rtGone,
                   goneReported, rpVersion, rpSeqs, lastReport,
                   alreadyReported>>

DiskReporterStep == SendDiskReport \/ WaitTimeout("disk")

-----------------------------------------------------------------------------
(* Tablet reporter.                                                        *)
\* request.__set_report_version(_s_report_version), before the tablets are
\* enumerated.
ReadReportVersion ==
    /\ rpPc = "top"
    /\ heartbeat
    /\ rpVersion' = reportVersion
    /\ rpPc' = "enum"
    /\ UNCHANGED <<gvars, heartbeat, diskBroken, rtPc, rtTasks, rtGone,
                   goneReported, dpPc, rpSeqs, lastReport, alreadyReported>>

\* report_all_tablets_info: the engine's tablets at this moment, or a
\* failure, after which the send is skipped and the reporter waits.
EnumerateTablets ==
    /\ rpPc = "enum"
    /\ \/ rpSeqs' = tabletSeq /\ rpPc' = "send"
       \/ UNCHANGED rpSeqs /\ rpPc' = "wait"
    /\ UNCHANGED <<gvars, heartbeat, diskBroken, rtPc, rtTasks, rtGone,
                   goneReported, dpPc, rpVersion, lastReport, alreadyReported>>

\* Mutant of SendTabletReport: report_version is set when the request is
\* sent, after the tablets were enumerated.
SendTabletReportFreshVersion ==
    /\ rpPc = "send"
    /\ \/ lastReport' = [version |-> reportVersion, seqs |-> rpSeqs, after |-> finishes]
       \/ UNCHANGED lastReport
    /\ rpPc' = "wait"
    /\ UNCHANGED <<gvars, heartbeat, diskBroken, rtPc, rtTasks, rtGone,
                   goneReported, dpPc, rpVersion, rpSeqs, alreadyReported>>

\* report(): delivered with the finish requests the coordinator had
\* received by then, or lost.
SendTabletReport ==
    /\ rpPc = "send"
    /\ \/ lastReport' = [version |-> rpVersion, seqs |-> rpSeqs, after |-> finishes]
       \/ UNCHANGED lastReport
    /\ rpPc' = "wait"
    /\ UNCHANGED <<gvars, heartbeat, diskBroken, rtPc, rtTasks, rtGone,
                   goneReported, dpPc, rpVersion, rpSeqs, alreadyReported>>

TabletReporterStep ==
    ReadReportVersion \/ EnumerateTablets \/ SendTabletReport \/ WaitTimeout("tablet")

-----------------------------------------------------------------------------
Next ==
    \/ PoolStep
    \/ Heartbeat
    \/ NotifyDiskBroken
    \/ TaskReporterStep
    \/ DiskReporterStep
    \/ TabletReporterStep

\* Every thread is scheduled; the coordinator eventually receives a task
\* report (the RPC cannot fail forever).  Heartbeats, disk failures and
\* new requests are not obliged to happen.
Fairness ==
    /\ GFairness
    /\ WF_vars(TaskReporterStep) /\ SF_vars(SendTaskReportDelivered)
    /\ WF_vars(DiskReporterStep)
    /\ WF_vars(TabletReporterStep)

Spec == Init /\ [][Next]_vars /\ Fairness

-----------------------------------------------------------------------------
(* Properties                                                              *)

\* Report version ordering (tablet reporter vs. create-table workers): a
\* tablet report labelled V was enumerated after every tablet change whose
\* increment of _s_report_version is counted in V.  The worker changes the
\* tablet before the increment and the reporter reads the version before it
\* enumerates; the coordinator relies on this to discard older reports.
ReportCoversCountedChanges ==
    \A c \in counted :
        c.version <= lastReport.version => lastReport.seqs[c.tablet] >= c.seq

\* A tablet report the coordinator would keep: its version is not older
\* than the version of any finish request received before it.
Kept(r) == \A f \in r.after : f.version # NoVersion => f.version <= r.version

\* The coordinator never keeps a report that misses a tablet change whose
\* successful finish request it had already received (spec: the report
\* version lets the coordinator discard stale reports).
KeptReportReflectsFinishedChanges ==
    Kept(lastReport) =>
        \A f \in lastReport.after :
            f.status = OK /\ f.seq > 0 => lastReport.seqs[f.tablet] >= f.seq

\* The coordinator learns the outcome of every request the backend accepted:
\* its finish request arrives, or, when _finish_task gave up, a later task
\* report no longer lists its signature.
Known(t) == (\E f \in finishes : f.sig = t.sig /\ f.type = t.type) \/ t \in goneReported

TaskOutcomeEventuallyKnown ==
    \A t \in GTasks : (t.sig \in signatures[t.type]) ~> Known(t)

\* After the first heartbeat the disk and tablet reporters keep coming back
\* to the top of their loops: the wait on disk_broken_cv ends by itself.
ReportersKeepCycling ==
    [](heartbeat => (<>(dpPc = "top") /\ <>(rpPc = "top")))
=============================================================================
