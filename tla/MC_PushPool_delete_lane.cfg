\* The push pool (one HIGH, one NORMAL thread) and a one-thread delete
\* pool started together; one NORMAL delete request.
CONSTANTS
    TaskTypes = {PUSH, DELETE}
    PUSH = PUSH
    DELETE = DELETE
    HIGH = HIGH
    NORMAL = NORMAL
    u1 = u1
    u2 = u2
    Users = {u1, u2}
    Anon = Anon
    s1 = s1
    s2 = s2
    s3 = s3
    s4 = s4
    Signatures = {s1, s2, s3, s4}
    CounterModulus = 16
    PushWorkers = {h1, n1}
    DeleteWorkers = {d1}
    PushNormal = 1
    PushHigh = 1
    Tasks <- DeleteOnlyTasks
    MaxSubmit = 1
SPECIFICATION Spec
PROPERTY AcceptedTaskIsEventuallyRemoved
CHECK_DEADLOCK FALSE
