----------------------------- MODULE AgentTypes -----------------------------
(***************************************************************************)
(* Names shared by every module of the agent task-dispatch model of        *)
(* be/src/agent/task_worker_pool.cpp: task types (TTaskType), priorities   *)
(* (TPriority), the users of push tasks and the width of the uint32        *)
(* counters kept by the signature registry.                                *)
(***************************************************************************)
EXTENDS Integers

CONSTANTS
    TaskTypes,       \* the TTaskType values whose pools are modelled
    PUSH,            \* TTaskType::PUSH, the only type with user counters
    DELETE,          \* TTaskType::DELETE, served by the push callback too
    HIGH, NORMAL,    \* TPriority::HIGH and TPriority::NORMAL
    Users,           \* resource_info.user values of push tasks
    Anon,            \* the user key "" used when resource_info is unset
    Signatures,      \* coordinator-assigned task signatures (int64)
    CounterModulus   \* 2^32 in the code: the counters are uint32_t

ASSUME /\ PUSH \in TaskTypes
       /\ Anon \notin Users
       /\ CounterModulus \in Nat \ {0}

\* Every key of the per-user counter maps: a user, or "".
UserKeys == Users \cup {Anon}

\* Coordinator-visible task status codes (TStatusCode).
OK == "OK"
RUNTIME_ERROR == "RUNTIME_ERROR"
ANALYSIS_ERROR == "ANALYSIS_ERROR"
StatusCodes == {OK, RUNTIME_ERROR, ANALYSIS_ERROR}

\* uint32_t increment and decrement: they wrap around.
Inc(x) == (x + 1) % CounterModulus
Dec(x) == (x - 1) % CounterModulus
=============================================================================
