\* A clone thread with a make-snapshot and a restore thread, one request
\* each, under thread fairness.  The clone request has two sources whose
\* listing puts the header first, and one local shard.  Checked: clone
\* never leaves a header without its data, a loaded tablet keeps its
\* files, every accepted request is eventually removed, and the pools
\* implement TaskDispatch.
CONSTANTS
    TaskTypes = {PUSH, CREATE_TABLE, DROP_TABLE, STORAGE_MEDIUM_MIGRATE, CANCEL_DELETE_DATA, CHECK_CONSISTENCY, UPLOAD, RESTORE, MAKE_SNAPSHOT, RELEASE_SNAPSHOT, SCHEMA_CHANGE, ROLLUP, CLONE}
    PUSH = PUSH
    DELETE = DELETE
    HIGH = HIGH
    NORMAL = NORMAL
    CREATE_TABLE = CREATE_TABLE
    DROP_TABLE = DROP_TABLE
    STORAGE_MEDIUM_MIGRATE = STORAGE_MEDIUM_MIGRATE
    CANCEL_DELETE_DATA = CANCEL_DELETE_DATA
    CHECK_CONSISTENCY = CHECK_CONSISTENCY
    UPLOAD = UPLOAD
    RESTORE = RESTORE
    MAKE_SNAPSHOT = MAKE_SNAPSHOT
    RELEASE_SNAPSHOT = RELEASE_SNAPSHOT
    ALTER_TABLE = ALTER_TABLE
    SCHEMA_CHANGE = SCHEMA_CHANGE
    ROLLUP = ROLLUP
    CLONE = CLONE
    ALTER_TABLE_WAITING = ALTER_TABLE_WAITING
    ALTER_TABLE_RUNNING = ALTER_TABLE_RUNNING
    ALTER_TABLE_DONE = ALTER_TABLE_DONE
    ALTER_TABLE_FAILED = ALTER_TABLE_FAILED
    Users = {}
    Anon = Anon
    CounterModulus = 16
    GKindOf <- KindOfThread
    s1 = s1
    b1 = b1
    b2 = b2
    cl1 = cl1
    ms1 = ms1
    r1 = r1
    sh1 = sh1
    src1 = src1
    src2 = src2
    d0 = d0
    h0 = h0
    Tablets = {b1, b2}
    InitialTablets = {}
    Signatures = {s1}
    GWorkers = {cl1, ms1, r1}
    GTasks <- CloneSnapshotRestoreTasks
    GMaxSubmit = 1
    Shards = {sh1}
    Sources <- SourceList
    Listing <- SnapshotListing
    HdrFiles = {h0}
SPECIFICATION Spec
INVARIANT CloneTypeOK
INVARIANT HeaderImpliesCompleteData
PROPERTY GAcceptedTaskIsEventuallyRemoved
PROPERTY GDispatchRefinement
CHECK_DEADLOCK FALSE
