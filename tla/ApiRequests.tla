----------------------------- MODULE ApiRequests -----------------------------
(***************************************************************************)
(* The HTTP requests that the API (and the SAML/SCIM agent) serve at the   *)
(* same time, each in a goroutine of its own.  A request makes one call    *)
(* after the other, on Kubernetes, on OpenBao, on a store behind a mutex   *)
(* or, through projects.internalCall, on another handler of the API; each  *)
(* call is one step, and what the handler keeps between two calls is in    *)
(* seen.  A call may fail, with or without its effect: it was refused, or  *)
(* its answer was lost or came after the timeout.                          *)
(***************************************************************************)
EXTENDS Naturals, FiniteSets

CONSTANTS
    Requests,       \* each is made once
    Workloads,      \* bound: sets of operations clients use together
    Reliable,       \* bound: the workloads in which no call fails
    Nothing,        \* nil, "" or absent
    MaxConcurrent,  \* bound: requests under way at once
    MaxFailures     \* bound: calls that fail

ASSUME RequestAssumption ==
    /\ IsFiniteSet(Requests) /\ Nothing \notin Requests
    /\ MaxConcurrent \in Nat /\ MaxFailures \in Nat

VARIABLES
    workload,   \* the operations clients use in this behavior
    op,         \* what each request does: [does, name, item]
    at,         \* its next call, or "idle", "done", "refused"
    seen,       \* what it remembers
    failures,   \* bound
    overlapped, \* ghost: the names that two requests worked on at once
    failed      \* ghost: the names of requests of which a call failed

requestVars == <<workload, op, at, seen, failures, overlapped, failed>>

trouble == overlapped \cup failed

Answered == {"idle", "done", "refused"}

\* createProject and deleteProject go on when the handler they called answers.
Compound == {"createProject", "deleteProject"}

Reply(r, answer) ==
    IF op[r].does \notin Compound THEN answer
    ELSE IF answer = "done" THEN "agentDone" ELSE "agentRefused"

Others(r) == {s \in Requests \ {r} : at[s] \notin Answered}

\* The names that r would share with a request under way.
Shared(r, name) == {op[s].name : s \in Others(r)} \cap {name}

RequestsInit ==
    /\ workload \in Workloads
    /\ op = [r \in Requests |-> Nothing]
    /\ at = [r \in Requests |-> "idle"]
    /\ seen = [r \in Requests |-> Nothing]
    /\ failures = (IF workload \in Reliable THEN MaxFailures ELSE 0)
    /\ overlapped = {} /\ failed = {}

Begin(r, o, first) ==
    /\ at[r] = "idle"
    /\ Cardinality(Others(r)) < MaxConcurrent
    /\ op' = [op EXCEPT ![r] = o]
    /\ at' = [at EXCEPT ![r] = first]
    /\ overlapped' = overlapped \cup Shared(r, o.name)
    /\ UNCHANGED <<workload, seen, failures, failed>>

(* The ways a call ends: each says what comes next, and leaves seen to the *)
(* action it is part of.                                                   *)

Proceed(r, next) ==
    /\ at' = [at EXCEPT ![r] = next]
    /\ UNCHANGED <<workload, op, failures, overlapped, failed>>

Fail(r, next) ==
    /\ failures < MaxFailures
    /\ failures' = failures + 1
    /\ at' = [at EXCEPT ![r] = next]
    /\ failed' = failed \cup {op[r].name}
    /\ UNCHANGED <<workload, op, overlapped>>

Remember(r, what) == seen' = [seen EXCEPT ![r] = what]
=============================================================================
