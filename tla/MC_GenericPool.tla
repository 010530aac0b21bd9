---------------------------- MODULE MC_GenericPool ----------------------------
(***************************************************************************)
(* Instances of GenericPool for TLC: the pools whose engine calls change  *)
(* no tablet with the drop pool, and the alter pool, on one tablet.  Each *)
(* thread is a model value whose pool KindOfThread fixes.  The make-      *)
(* snapshot and restore pools are checked with the clone pool (MC_Clone). *)
(***************************************************************************)
EXTENDS GenericPool

CONSTANTS s1, s2, b1, m1, x1, k1, p1, rs1, a1, d1,
          MaxSubmissions  \* requests the coordinator sends in one behaviour

KindOfThread ==
    [w \in GWorkers |->
        CASE w = m1 -> STORAGE_MEDIUM_MIGRATE
          [] w = x1 -> CANCEL_DELETE_DATA
          [] w = k1 -> CHECK_CONSISTENCY
          [] w = p1 -> UPLOAD
          [] w = rs1 -> RELEASE_SNAPSHOT
          [] w = a1 -> ALTER_TABLE
          [] w = d1 -> DROP_TABLE]

Req(k, s) == [type |-> k, sig |-> s, tablet |-> b1]

\* Two migrate requests, a drop, a cancel-delete, a consistency check, a
\* release-snapshot and an upload.
RegistryTasks ==
    {Req(STORAGE_MEDIUM_MIGRATE, s1), Req(STORAGE_MEDIUM_MIGRATE, s2),
     Req(DROP_TABLE, s1), Req(CANCEL_DELETE_DATA, s1), Req(CHECK_CONSISTENCY, s1),
     Req(RELEASE_SNAPSHOT, s1), Req(UPLOAD, s1)}

\* A schema change alone.
SchemaChangeTasks == {Req(SCHEMA_CHANGE, s1)}

\* Bounds the requests sent in one behaviour (each is sent at most twice).
SubmissionBound ==
    Cardinality({t \in GTasks : gsubmitted[t] >= 1})
      + Cardinality({t \in GTasks : gsubmitted[t] >= 2}) <= MaxSubmissions

\* The finish requests never feed back into the pools.
PoolView == <<regVars, gpoolVars, engineVars, gsubmitted>>
=============================================================================
