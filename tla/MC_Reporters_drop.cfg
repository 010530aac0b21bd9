\* A create and a drop of one tablet with the tablet reporter: a report taken
\* before the drop, sent after the drop's finish request, is not stale by
\* its version.
CONSTANTS
    TaskTypes = {PUSH, CREATE_TABLE, DROP_TABLE, STORAGE_MEDIUM_MIGRATE, CANCEL_DELETE_DATA, CHECK_CONSISTENCY, UPLOAD, RESTORE, MAKE_SNAPSHOT, RELEASE_SNAPSHOT, SCHEMA_CHANGE, ROLLUP, CLONE}
    PUSH = PUSH
    DELETE = DELETE
    HIGH = HIGH
    NORMAL = NORMAL
    CREATE_TABLE = CREATE_TABLE
    DROP_TABLE = DROP_TABLE
    STORAGE_MEDIUM_MIGRATE = STORAGE_MEDIUM_MIGRATE
    CANCEL_DELETE_DATA = CANCEL_DELETE_DATA
    CHECK_CONSISTENCY = CHECK_CONSISTENCY
    UPLOAD = UPLOAD
    RESTORE = RESTORE
    MAKE_SNAPSHOT = MAKE_SNAPSHOT
    RELEASE_SNAPSHOT = RELEASE_SNAPSHOT
    ALTER_TABLE = ALTER_TABLE
    SCHEMA_CHANGE = SCHEMA_CHANGE
    ROLLUP = ROLLUP
    CLONE = CLONE
    ALTER_TABLE_WAITING = ALTER_TABLE_WAITING
    ALTER_TABLE_RUNNING = ALTER_TABLE_RUNNING
    ALTER_TABLE_DONE = ALTER_TABLE_DONE
    ALTER_TABLE_FAILED = ALTER_TABLE_FAILED
    Users = {}
    Anon = Anon
    CounterModulus = 16
    s1 = s1
    s2 = s2
    s3 = s3
    b1 = b1
    c1 = c1
    d1 = d1
    r1 = r1
    m1 = m1
    x1 = x1
    k1 = k1
    p1 = p1
    ms1 = ms1
    rs1 = rs1
    a1 = a1
    Signatures = {s1, s2, s3}
    Tablets = {b1}
    InitialTablets = {}
    GKindOf <- KindOfThread
    GWorkers = {c1, d1}
    GTasks <- CreateDropTasks
    GMaxSubmit = 1
SPECIFICATION Spec
INVARIANT KeptReportReflectsFinishedChanges
CHECK_DEADLOCK FALSE
