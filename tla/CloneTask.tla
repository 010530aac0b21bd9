------------------------------ MODULE CloneTask ------------------------------
(***************************************************************************)
(* The clone pool of TaskWorkerPool (_clone_worker_thread_callback and     *)
(* _clone_copy), composed with the other FIFO pools of GenericPool.  A     *)
(* clone thread runs the FIFO loop of GenericPool around these steps:      *)
(*                                                                         *)
(*   check  get_table: an existing tablet short-cuts to the info step     *)
(*   shard  obtain_shard_path for the storage medium                       *)
(*   snap   per source backend: make_snapshot, then remove_all and         *)
(*          create_directories of shard/tablet/schema                      *)
(*   list   list the remote directory (DOWNLOAD_FILE_MAX_RETRY tries)      *)
(*   file   per file of the header-last list: get_length and download,     *)
(*          each retried DOWNLOAD_FILE_MAX_RETRY times, size checked       *)
(*   load   load_header if the copy succeeded                              *)
(*   clean  remove_all of the local directory after a failure (errors      *)
(*          ignored)                                                       *)
(*   info   _get_tablet_info, the committed-version check and the drop of  *)
(*          a stale tablet; the finish request's status                    *)
(*                                                                         *)
(* A retry loop is one step: its attempts overwrite one local file that no *)
(* other step reads, so only its outcome is observable.  The engine's      *)
(* tablet is stale when its version is behind clone_req.committed_version  *)
(* (or equal with another version hash); without a committed version it is *)
(* never stale.                                                            *)
(***************************************************************************)
EXTENDS GenericPool

CONSTANTS
    Shards,    \* root paths obtain_shard_path may return
    Sources,   \* clone_req.src_backends, in order
    Listing,   \* the snapshot directory's listing, in the order received
    HdrFiles   \* the names of Listing longer than 4 that end with ".hdr"

LOCAL SE == INSTANCE SequencesExt

Files == {Listing[i] : i \in DOMAIN Listing}
DataFiles == Files \ HdrFiles
FileStates == {"absent", "partial", "full"}
NoShard == "none"

\* AgentStatus values of the callback's status variable.
PALO_SUCCESS == "PALO_SUCCESS"
PALO_ERROR == "PALO_ERROR"
PALO_CREATE_TABLE_EXIST == "PALO_CREATE_TABLE_EXIST"

ASSUME HdrFiles \subseteq Files

CloneWorkers == {w \in GWorkers : GKindOf[w] = CLONE}

\* Mutant of HeaderLast: the files are downloaded in listing order.
ListingOrder(listing) == listing

\* file_name_list: each name of the listing is pushed to the back if it is
\* a header and inserted at the front otherwise.
HeaderLast(listing) ==
    SE!FoldLeft(LAMBDA list, name : IF name \in HdrFiles THEN Append(list, name)
                                    ELSE <<name>> \o list,
                <<>>, listing)

DownloadList == HeaderLast(Listing)

VARIABLES
    cpc,      \* clone thread -> step of the callback while gpc is "exec"
    cstatus,  \* clone thread -> its AgentStatus status
    cshard,   \* clone thread -> local_shard_root_path, NoShard if none
    csrc,     \* clone thread -> index in src_backends of the source tried
    cfile,    \* clone thread -> index in file_name_list of the file
    cstale,   \* clone thread -> the snapshot it copies is stale
    dir,      \* tablet -> shard -> file -> state of shard/tablet/schema/file
    stale,    \* tablets the engine holds at a stale version
    home      \* tablet -> the shard load_header loaded it from, or NoShard

cloneVars == <<cpc, cstatus, cshard, csrc, cfile, cstale, dir, stale, home>>
vars == <<gvars, cloneVars>>

NoFiles == [f \in Files |-> "absent"]

CloneTypeOK ==
    /\ GTypeOK
    /\ cpc \in [CloneWorkers -> {"idle", "check", "shard", "snap", "list", "file",
                                 "load", "clean", "info"}]
    /\ cstatus \in [CloneWorkers -> {PALO_SUCCESS, PALO_ERROR, PALO_CREATE_TABLE_EXIST}]
    /\ cshard \in [CloneWorkers -> Shards \cup {NoShard}]
    /\ csrc \in [CloneWorkers -> 0..Len(Sources)]
    /\ cfile \in [CloneWorkers -> 0..Len(DownloadList)]
    /\ cstale \in [CloneWorkers -> BOOLEAN]
    /\ dir \in [Tablets -> [Shards -> [Files -> FileStates]]]
    /\ stale \subseteq Tablets
    /\ home \in [Tablets -> Shards \cup {NoShard}]

Init ==
    /\ GInit
    /\ cpc = [w \in CloneWorkers |-> "idle"]
    /\ cstatus = [w \in CloneWorkers |-> PALO_SUCCESS]
    /\ cshard = [w \in CloneWorkers |-> NoShard]
    /\ csrc = [w \in CloneWorkers |-> 0]
    /\ cfile = [w \in CloneWorkers |-> 0]
    /\ cstale = [w \in CloneWorkers |-> FALSE]
    /\ dir = [b \in Tablets |-> [sh \in Shards |-> NoFiles]]
    /\ stale = {}
    /\ home = [b \in Tablets |-> NoShard]

-----------------------------------------------------------------------------
\* The request's tablet, and the directory shard/tablet/schema of a thread.
Tab(w) == gcur[w].tablet
LocalDir(w) == dir[Tab(w)][cshard[w]]

\* A step of the callback between taking the request and building the
\* finish request; the deque, the registry and the history stay.
CloneExec(w, from) ==
    /\ gpc[w] = "exec"
    /\ cpc[w] = from
    /\ UNCHANGED <<regVars, gqueue, gwait, gcur, galter, gver, ghistVars>>

\* The locked block of the loop: pop_front, as in every FIFO pool.
CloneTake(w) ==
    /\ GTakeTask(w)
    /\ cpc' = [cpc EXCEPT ![w] = "check"]
    /\ UNCHANGED <<cstatus, cshard, csrc, cfile, cstale, dir, stale, home>>

\* get_table(tablet_id, schema_hash): an existing tablet sets
\* PALO_CREATE_TABLE_EXIST, which skips the copy, the load and the cleanup.
CloneCheckTablet(w) ==
    /\ CloneExec(w, "check")
    /\ IF Tab(w) \in present
       THEN /\ cstatus' = [cstatus EXCEPT ![w] = PALO_CREATE_TABLE_EXIST]
            /\ cpc' = [cpc EXCEPT ![w] = "info"]
       ELSE /\ cpc' = [cpc EXCEPT ![w] = "shard"]
            /\ UNCHANGED cstatus
    /\ UNCHANGED <<gpc, gstatus, gmut, engineVars, cshard, csrc, cfile, cstale,
                   dir, stale, home>>

\* obtain_shard_path: on failure the copy and the load are skipped and the
\* cleanup path is "/tablet/schema", outside every shard; on success
\* _clone_copy starts with the first source (none: it returns success).
CloneObtainShard(w) ==
    /\ CloneExec(w, "shard")
    /\ \/ /\ cstatus' = [cstatus EXCEPT ![w] = PALO_ERROR]
          /\ cpc' = [cpc EXCEPT ![w] = "clean"]
          /\ UNCHANGED <<cshard, csrc>>
       \/ /\ \E sh \in Shards : cshard' = [cshard EXCEPT ![w] = sh]
          /\ csrc' = [csrc EXCEPT ![w] = 1]
          /\ cpc' = [cpc EXCEPT ![w] = IF Len(Sources) = 0 THEN "load" ELSE "snap"]
          /\ UNCHANGED cstatus
    /\ UNCHANGED <<gpc, gstatus, gmut, engineVars, cfile, cstale, dir, stale, home>>

\* The end of one source's iteration with status st (release_snapshot is
\* best effort and changes nothing local): break on success, else try the
\* next source; after the last one _clone_copy returns st.
NextSource(w, st) ==
    /\ cstatus' = [cstatus EXCEPT ![w] = st]
    /\ IF st = PALO_SUCCESS \/ csrc[w] = Len(Sources)
       THEN /\ cpc' = [cpc EXCEPT ![w] = "load"]
            /\ UNCHANGED csrc
       ELSE /\ cpc' = [cpc EXCEPT ![w] = "snap"]
            /\ csrc' = [csrc EXCEPT ![w] = @ + 1]

\* make_snapshot on the source: a failure or a missing snapshot_path is
\* "continue"; otherwise status is PALO_SUCCESS again and the local
\* directory is removed and created empty.  The snapshot may be stale.
CloneMakeSnapshot(w) ==
    /\ CloneExec(w, "snap")
    /\ \/ /\ NextSource(w, PALO_ERROR)
          /\ UNCHANGED <<dir, cstale>>
       \/ /\ dir' = [dir EXCEPT ![Tab(w)][cshard[w]] = NoFiles]
          /\ \E s \in BOOLEAN : cstale' = [cstale EXCEPT ![w] = s]
          /\ cstatus' = [cstatus EXCEPT ![w] = PALO_SUCCESS]
          /\ cpc' = [cpc EXCEPT ![w] = "list"]
          /\ UNCHANGED csrc
    /\ UNCHANGED <<gpc, gstatus, gmut, engineVars, cshard, cfile, stale, home>>

\* list_file_dir, tried DOWNLOAD_FILE_MAX_RETRY times; then the files of
\* the header-last list are copied one by one.
CloneListFiles(w) ==
    /\ CloneExec(w, "list")
    /\ \/ /\ NextSource(w, PALO_ERROR)
          /\ UNCHANGED cfile
       \/ IF Len(DownloadList) = 0
          THEN NextSource(w, PALO_SUCCESS) /\ UNCHANGED cfile
          ELSE /\ cfile' = [cfile EXCEPT ![w] = 1]
               /\ cpc' = [cpc EXCEPT ![w] = "file"]
               /\ UNCHANGED <<cstatus, csrc>>
    /\ UNCHANGED <<gpc, gstatus, gmut, engineVars, cshard, cstale, dir, stale, home>>

\* One file of the list: get_length, tried DOWNLOAD_FILE_MAX_RETRY times,
\* then download_file with the local size check, tried as often.  A failed
\* get_length leaves no file, failed downloads leave the last attempt's
\* bytes, and either failure ends this source.
CloneDownloadFile(w) ==
    LET f == DownloadList[cfile[w]]
    IN  /\ CloneExec(w, "file")
        /\ \/ /\ NextSource(w, PALO_ERROR)
              /\ UNCHANGED <<dir, cfile>>
           \/ /\ dir' = [dir EXCEPT ![Tab(w)][cshard[w]][f] = "partial"]
              /\ NextSource(w, PALO_ERROR)
              /\ UNCHANGED cfile
           \/ /\ dir' = [dir EXCEPT ![Tab(w)][cshard[w]][f] = "full"]
              /\ IF cfile[w] = Len(DownloadList)
                 THEN NextSource(w, PALO_SUCCESS) /\ UNCHANGED cfile
                 ELSE /\ cfile' = [cfile EXCEPT ![w] = @ + 1]
                      /\ UNCHANGED <<cstatus, csrc, cpc>>
        /\ UNCHANGED <<gpc, gstatus, gmut, engineVars, cshard, cstale, stale, home>>

\* load_header, only after a successful copy.  The engine reads the header
\* in the directory: it fails without a whole one or for a tablet it holds
\* already, and may fail otherwise; the tablet has the snapshot's version.
CloneLoadHeader(w) ==
    LET b == Tab(w)
    IN  /\ CloneExec(w, "load")
        /\ \/ /\ cstatus[w] # PALO_SUCCESS
              /\ UNCHANGED <<cstatus, engineVars, gmut, stale, home>>
           \/ /\ cstatus[w] = PALO_SUCCESS
              /\ cstatus' = [cstatus EXCEPT ![w] = PALO_ERROR]
              /\ UNCHANGED <<engineVars, gmut, stale, home>>
           \/ /\ cstatus[w] = PALO_SUCCESS
              /\ b \notin present
              /\ \E h \in HdrFiles : LocalDir(w)[h] = "full"
              /\ present' = present \cup {b}
              /\ tabletSeq' = [tabletSeq EXCEPT ![b] = @ + 1]
              /\ gmut' = [gmut EXCEPT ![w] = tabletSeq[b] + 1]
              /\ stale' = IF cstale[w] THEN stale \cup {b} ELSE stale \ {b}
              /\ home' = [home EXCEPT ![b] = cshard[w]]
              /\ UNCHANGED cstatus
        /\ cpc' = [cpc EXCEPT ![w] = "clean"]
        /\ UNCHANGED <<gpc, gstatus, cshard, csrc, cfile, cstale, dir>>

\* After a failure other than an existing tablet, remove_all of
\* shard/tablet/schema; a filesystem_error is ignored and the directory
\* stays as it was.
CloneCleanup(w) ==
    /\ CloneExec(w, "clean")
    /\ IF cstatus[w] \notin {PALO_SUCCESS, PALO_CREATE_TABLE_EXIST} /\ cshard[w] # NoShard
       THEN \/ dir' = [dir EXCEPT ![Tab(w)][cshard[w]] = NoFiles]
            \/ UNCHANGED dir
       ELSE UNCHANGED dir
    /\ cpc' = [cpc EXCEPT ![w] = "info"]
    /\ UNCHANGED <<gpc, gstatus, gmut, engineVars, cstatus, cshard, csrc, cfile,
                   cstale, stale, home>>

\* _drop_table of a stale tablet: the engine's drop_table.
DropStale(w) ==
    LET b == Tab(w)
    IN  /\ present' = present \ {b}
        /\ tabletSeq' = [tabletSeq EXCEPT ![b] = @ + 1]
        /\ gmut' = [gmut EXCEPT ![w] = tabletSeq[b] + 1]
        /\ home' = [home EXCEPT ![b] = NoShard]
        /\ UNCHANGED stale

\* For PALO_SUCCESS or PALO_CREATE_TABLE_EXIST, _get_tablet_info: it fails
\* for a tablet the engine does not hold and may fail otherwise; a stale
\* tablet is dropped (a failed drop is only logged) and is an error.  The
\* finish request is OK exactly when no error remains.
CloneTabletInfo(w) ==
    LET b == Tab(w)
        ok == cstatus[w] \in {PALO_SUCCESS, PALO_CREATE_TABLE_EXIST}
    IN  /\ CloneExec(w, "info")
        /\ \/ /\ gstatus' = [gstatus EXCEPT ![w] = RUNTIME_ERROR]
              /\ UNCHANGED <<engineVars, gmut, stale, home>>
           \/ /\ ok /\ b \in present /\ b \in stale
              /\ \/ DropStale(w)
                 \/ UNCHANGED <<engineVars, gmut, stale, home>>
              /\ gstatus' = [gstatus EXCEPT ![w] = RUNTIME_ERROR]
           \/ /\ ok /\ b \in present /\ b \notin stale
              /\ gstatus' = [gstatus EXCEPT ![w] = OK]
              /\ UNCHANGED <<engineVars, gmut, stale, home>>
        /\ gpc' = [gpc EXCEPT ![w] = "finish"]
        /\ UNCHANGED <<cpc, cstatus, cshard, csrc, cfile, cstale, dir>>

\* _remove_task_info; the next iteration starts with fresh locals.
CloneRemove(w) ==
    /\ GRemoveTask(w)
    /\ cpc' = [cpc EXCEPT ![w] = "idle"]
    /\ cstatus' = [cstatus EXCEPT ![w] = PALO_SUCCESS]
    /\ cshard' = [cshard EXCEPT ![w] = NoShard]
    /\ csrc' = [csrc EXCEPT ![w] = 0]
    /\ cfile' = [cfile EXCEPT ![w] = 0]
    /\ cstale' = [cstale EXCEPT ![w] = FALSE]
    /\ UNCHANGED <<dir, stale, home>>

CloneWorker(w) ==
    \/ (GWaitForTask(w) \/ GWakeUp(w) \/ GFinishTask(w)) /\ UNCHANGED cloneVars
    \/ CloneTake(w)
    \/ CloneCheckTablet(w)
    \/ CloneObtainShard(w)
    \/ CloneMakeSnapshot(w)
    \/ CloneListFiles(w)
    \/ CloneDownloadFile(w)
    \/ CloneLoadHeader(w)
    \/ CloneCleanup(w)
    \/ CloneTabletInfo(w)
    \/ CloneRemove(w)

\* A thread of another pool, which leaves the clone state alone.
OtherWorkerStep(w) == GWorkerStep(w) /\ UNCHANGED cloneVars

Next ==
    \/ \E t \in GTasks : GSubmitTask(t) /\ UNCHANGED cloneVars
    \/ \E w \in GWorkers \ CloneWorkers : OtherWorkerStep(w)
    \/ \E w \in CloneWorkers : CloneWorker(w)

\* Every thread is scheduled; no failure is obliged to happen or to stop.
Fairness ==
    /\ \A w \in GWorkers \ CloneWorkers : WF_vars(OtherWorkerStep(w))
    /\ \A w \in CloneWorkers : WF_vars(CloneWorker(w))

Spec == Init /\ [][Next]_vars /\ Fairness

-----------------------------------------------------------------------------
(* Properties                                                              *)

\* Header-last copying (spec invariant 5): wherever a tablet directory
\* holds a .hdr file, whole or in part, it holds every other file of the
\* snapshot whole, however downloads fail, sources are retried and the
\* best-effort cleanup fails.
HeaderImpliesCompleteData ==
    \A b \in Tablets, sh \in Shards :
        (\E h \in HdrFiles : dir[b][sh][h] # "absent") =>
            \A d \in DataFiles : dir[b][sh][d] = "full"

=============================================================================
