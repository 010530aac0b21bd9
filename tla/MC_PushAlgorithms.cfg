CONSTANTS
    TaskTypes = {PUSH}
    PUSH = PUSH
    DELETE = DELETE
    HIGH = HIGH
    NORMAL = NORMAL
    Users = {u1, u2}
    Anon = Anon
    Signatures = {Sig}
    Sig = Sig
    CounterModulus = 16
    MaxQueueLen = 3
    MaxCount = 2
    MaxThreads = 3
SPECIFICATION Spec
INVARIANT NextTaskIndexMatchesSpec
CHECK_DEADLOCK FALSE
