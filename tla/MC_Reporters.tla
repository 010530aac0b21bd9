---------------------------- MODULE MC_Reporters ----------------------------
(***************************************************************************)
(* Instances of Reporters (and of the FIFO pools it composes) for TLC.     *)
(* Each thread is a model value whose pool is fixed by KindOfThread.       *)
(***************************************************************************)
EXTENDS Reporters

CONSTANTS s1, s2, s3, b1, c1, d1, r1, m1, x1, k1, p1, ms1, rs1, a1

KindOfThread ==
    [w \in GWorkers |->
        CASE w = c1 -> CREATE_TABLE
          [] w = d1 -> DROP_TABLE
          [] w = r1 -> RESTORE
          [] w = m1 -> STORAGE_MEDIUM_MIGRATE
          [] w = x1 -> CANCEL_DELETE_DATA
          [] w = k1 -> CHECK_CONSISTENCY
          [] w = p1 -> UPLOAD
          [] w = ms1 -> MAKE_SNAPSHOT
          [] w = rs1 -> RELEASE_SNAPSHOT
          [] w = a1 -> ALTER_TABLE]

Req(k, s, b) == [type |-> k, sig |-> s, tablet |-> b]

\* A create and a schema change of one tablet: the kinds whose change is
\* counted in report_version.  The schema change may first drop the output
\* of a failed earlier alter, a change that is not counted.
TabletChangeTasks == {Req(CREATE_TABLE, s1, b1), Req(SCHEMA_CHANGE, s2, b1)}

\* The same with a drop of the tablet, a change that is never counted.
TabletChangeDropTasks == TabletChangeTasks \cup {Req(DROP_TABLE, s3, b1)}

\* Create and drop of one tablet.
CreateDropTasks == {Req(CREATE_TABLE, s1, b1), Req(DROP_TABLE, s2, b1)}

\* Only creates change tablets: one create request.
CreateOnlyTasks == {Req(CREATE_TABLE, s1, b1)}
\* For the report-ordering question: the task and disk reporters and the
\* report's copy of the finish requests never feed back into the pools or
\* the tablet reporter, so states differing only in them are one.
OrderView == <<regVars, gpoolVars, engineVars, ghistVars, heartbeat, diskBroken,
               rpPc, rpVersion, rpSeqs, lastReport.version, lastReport.seqs>>
=============================================================================
