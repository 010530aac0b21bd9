------------------------------ MODULE MC_Clone ------------------------------
(***************************************************************************)
(* Instances of CloneTask for TLC: a clone thread beside threads of other *)
(* FIFO pools, each thread a model value whose pool KindOfThread fixes.   *)
(* The clone request names tablet b1 and has two source backends; their   *)
(* snapshot lists the header before the data file, the order the          *)
(* header-last list exists to correct.                                    *)
(***************************************************************************)
EXTENDS CloneTask

CONSTANTS s1, b1, b2, cl1, ms1, r1, sh1, src1, src2, d0, h0

KindOfThread ==
    [w \in GWorkers |->
        CASE w = cl1 -> CLONE
          [] w = ms1 -> MAKE_SNAPSHOT
          [] w = r1 -> RESTORE]

Req(k, s, b) == [type |-> k, sig |-> s, tablet |-> b]

\* The clone and a restore of b1, and a make-snapshot of b2.  A restore
\* that loads b1 first sends the clone down the PALO_CREATE_TABLE_EXIST
\* path; one that loads it during the clone makes the clone's load fail.
CloneSnapshotRestoreTasks ==
    {Req(CLONE, s1, b1), Req(RESTORE, s1, b1), Req(MAKE_SNAPSHOT, s1, b2)}

SourceList == <<src1, src2>>
SnapshotListing == <<h0, d0>>
=============================================================================
