\* The push pool alone (one HIGH and one NORMAL thread) serving three
\* requests of two users, one of them HIGH: every accepted request is
\* eventually removed.
CONSTANTS
    TaskTypes = {PUSH, DELETE}
    PUSH = PUSH
    DELETE = DELETE
    HIGH = HIGH
    NORMAL = NORMAL
    u1 = u1
    u2 = u2
    Users = {u1, u2}
    Anon = Anon
    s1 = s1
    s2 = s2
    s3 = s3
    s4 = s4
    Signatures = {s1, s2, s3, s4}
    CounterModulus = 16
    PushWorkers = {h1, n1}
    DeleteWorkers = {}
    PushNormal = 1
    PushHigh = 1
    Tasks <- PushOnlyTasks
    MaxSubmit = 1
SPECIFICATION Spec
PROPERTY AcceptedTaskIsEventuallyRemoved
CHECK_DEADLOCK FALSE
