\* The migrate pool with one thread and two requests, the drop,
\* cancel-delete, consistency-check, release-snapshot and upload pools
\* with one each; every request may be sent twice, at most three sends in
\* a behaviour: the registry tracks every pool's pending requests.
CONSTANTS
    TaskTypes = {PUSH, CREATE_TABLE, DROP_TABLE, STORAGE_MEDIUM_MIGRATE, CANCEL_DELETE_DATA, CHECK_CONSISTENCY, UPLOAD, RESTORE, MAKE_SNAPSHOT, RELEASE_SNAPSHOT, SCHEMA_CHANGE, ROLLUP, CLONE}
    PUSH = PUSH
    DELETE = DELETE
    HIGH = HIGH
    NORMAL = NORMAL
    CREATE_TABLE = CREATE_TABLE
    DROP_TABLE = DROP_TABLE
    STORAGE_MEDIUM_MIGRATE = STORAGE_MEDIUM_MIGRATE
    CANCEL_DELETE_DATA = CANCEL_DELETE_DATA
    CHECK_CONSISTENCY = CHECK_CONSISTENCY
    UPLOAD = UPLOAD
    RESTORE = RESTORE
    MAKE_SNAPSHOT = MAKE_SNAPSHOT
    RELEASE_SNAPSHOT = RELEASE_SNAPSHOT
    ALTER_TABLE = ALTER_TABLE
    SCHEMA_CHANGE = SCHEMA_CHANGE
    ROLLUP = ROLLUP
    CLONE = CLONE
    ALTER_TABLE_WAITING = ALTER_TABLE_WAITING
    ALTER_TABLE_RUNNING = ALTER_TABLE_RUNNING
    ALTER_TABLE_DONE = ALTER_TABLE_DONE
    ALTER_TABLE_FAILED = ALTER_TABLE_FAILED
    Users = {}
    Anon = Anon
    CounterModulus = 16
    s1 = s1
    s2 = s2
    b1 = b1
    Tablets = {b1}
    InitialTablets = {b1}
    GKindOf <- KindOfThread
    m1 = m1
    x1 = x1
    k1 = k1
    p1 = p1
    rs1 = rs1
    a1 = a1
    d1 = d1
    Signatures = {s1, s2}
    GWorkers = {m1, d1, x1, k1, rs1, p1}
    GTasks <- RegistryTasks
    GMaxSubmit = 2
    MaxSubmissions = 3
SPECIFICATION GSpec
VIEW PoolView
CONSTRAINT SubmissionBound
INVARIANT GTypeOK
INVARIANT GRegistryTracksPendingTasks
CHECK_DEADLOCK FALSE
