\* Push and delete pools together: 1 HIGH + 1 NORMAL push thread and one
\* delete thread, three push requests of two users and one delete request,
\* each sent up to twice.
CONSTANTS
    TaskTypes = {PUSH, DELETE}
    PUSH = PUSH
    DELETE = DELETE
    HIGH = HIGH
    NORMAL = NORMAL
    u1 = u1
    u2 = u2
    Users = {u1, u2}
    Anon = Anon
    s1 = s1
    s2 = s2
    s3 = s3
    s4 = s4
    Signatures = {s1, s2, s3, s4}
    CounterModulus = 16
    PushWorkers = {h1, n1}
    DeleteWorkers = {d1}
    PushNormal = 1
    PushHigh = 1
    Tasks <- MixedTasks
    MaxSubmit = 2
SPECIFICATION Spec
VIEW StateView
INVARIANT TypeOK
INVARIANT RegistryTracksPendingTasks
INVARIANT PushTotalsMatchPending
INVARIANT RunningCountsMatchHolders
PROPERTY DispatchSafety
CHECK_DEADLOCK FALSE
