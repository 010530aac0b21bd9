\* A HIGH-lane and a NORMAL-lane push thread; a NORMAL load of u1 is
\* followed by a HIGH load sent without resource_info.
CONSTANTS
    TaskTypes = {PUSH, DELETE}
    PUSH = PUSH
    DELETE = DELETE
    HIGH = HIGH
    NORMAL = NORMAL
    u1 = u1
    u2 = u2
    Users = {u1, u2}
    Anon = Anon
    s1 = s1
    s2 = s2
    s3 = s3
    s4 = s4
    Signatures = {s1, s2, s3, s4}
    CounterModulus = 16
    PushWorkers = {h1, n1}
    DeleteWorkers = {}
    PushNormal = 1
    PushHigh = 1
    Tasks <- AnonTasks
    MaxSubmit = 1
SPECIFICATION Spec
INVARIANT RunningCountsMatchHolders
CHECK_DEADLOCK FALSE
