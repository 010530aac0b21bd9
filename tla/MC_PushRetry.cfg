CONSTANTS
    TaskTypes = {PUSH}
    PUSH = PUSH
    DELETE = DELETE
    HIGH = HIGH
    NORMAL = NORMAL
    Users = {u1}
    Anon = Anon
    Signatures = {}
    CounterModulus = 16
SPECIFICATION Spec
INVARIANT PushLoadRetriesTransientError
CHECK_DEADLOCK FALSE
