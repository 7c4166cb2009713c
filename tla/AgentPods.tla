------------------------------ MODULE AgentPods ------------------------------
(***************************************************************************)
(* The agent manager in its Kubernetes mode: the handlers of               *)
(* src/api/internal/amgr/handler.go and the calls of k8s/agents.go they    *)
(* make on the cluster.  All objects of an agent have its name: its claim  *)
(* (the workspace), its ConfigMap (CLAUDE.md), the Secret with its API     *)
(* key, its Certificate, the Secret that cert-manager fills for it, and    *)
(* its pod.  An object is the request that wrote it.                       *)
(***************************************************************************)
EXTENDS ApiRequests

CONSTANTS
    Names,      \* project names: the agent of project p is pod agent-p
    Leftover,   \* bound: the names an earlier run of the API may have used,
                \* if the workload does
    Earlier     \* the writer of what it left

ASSUME PodsAssumption == Leftover \subseteq Names /\ Earlier \notin Requests \cup {Nothing}

VARIABLES
    obj,        \* the objects of each agent but its pod
    leaving,    \* the agents whose claim is Terminating
    pod,        \* the pod of each agent
    early,      \* ghost: the agents whose last create or start met a claim that
                \* was Terminating
    spared      \* ghost: the agents whose pod a delete left running when it
                \* went on

podVars == <<obj, leaving, pod, early, spared>>

Kinds   == {"claim", "config", "secret", "cert", "tls"}
Writers == Requests \cup {Earlier}

Pod == [key : BOOLEAN,                      \* refers to the Secret
        mounts : Writers \cup {Nothing},    \* the claim, once it runs
        going : BOOLEAN]                    \* Terminating

PodsTypeOK ==
    /\ obj \in [Names -> [Kinds -> Writers \cup {Nothing}]]
    /\ leaving \subseteq Names
    /\ pod \in [Names -> Pod \cup {Nothing}]
    /\ early \subseteq Names /\ spared \subseteq Names

Absent  == [k \in Kinds |-> Nothing]
Stopped == [k \in Kinds |-> Earlier]
Running == [key |-> TRUE, mounts |-> Earlier, going |-> FALSE]

PodsInit ==
    /\ obj \in [Names -> {Absent, Stopped}]
    /\ leaving = {} /\ early = {} /\ spared = {}
    /\ pod \in [Names -> {Nothing, Running}]
    /\ \A n \in Names : pod[n] # Nothing => obj[n] = Stopped
    /\ \A n \in Names : obj[n] # Absent => n \in Leftover \cap {o.name : o \in workload}

-----------------------------------------------------------------------------
(* Create, and what start shares with it.                                  *)

AgentOps == [createAgent |-> "claim", startAgent |-> "exists",
             stopAgent |-> "stopPod", deleteAgent |-> "deletePod",
             configureAgent |-> "readConfig"]

AgentRequest(r) ==
    /\ \E o \in workload :
           o.does \in DOMAIN AgentOps /\ Begin(r, o, AgentOps[o.does])
    /\ UNCHANGED <<podVars, seen>>

\* Mutant: start trusts that the other objects persist, and makes the pod only.
CheckStopped_PodOnly(r) ==
    /\ at[r] = "exists"
    /\ \/ Proceed(r, IF pod[op[r].name] = Nothing THEN "pod" ELSE "refused")
       \/ Fail(r, "pod")
    /\ UNCHANGED <<podVars, seen>>

\* Any error of the look-up is taken for a missing pod, and any pod, even one
\* that is Terminating, for a running one.
CheckStopped(r) ==
    /\ at[r] = "exists"
    /\ \/ Proceed(r, IF pod[op[r].name] = Nothing THEN "claim" ELSE "refused")
       \/ Fail(r, "claim")
    /\ UNCHANGED <<podVars, seen>>

\* Only a create carries an API key: start and createProject have none.
HasKey(r) == op[r].does = "createAgent"

AfterObject == [claim |-> "config", config |-> "secret", secret |-> "cert", cert |-> "pod"]

\* Mutant: an object that exists is replaced.
Put_Replaces(r, n, k) == obj' = [obj EXCEPT ![n][k] = r]

\* "already exists" is no error, whoever made the object.
Put(r, n, k) ==
    obj' = IF obj[n][k] = Nothing THEN [obj EXCEPT ![n][k] = r] ELSE obj

\* A claim that is Terminating is taken for one that can be used.
Meets(n, k) ==
    early' = IF k = "claim" THEN (early \ {n}) \cup (leaving \cap {n}) ELSE early

CreateObject(r) ==
    LET n == op[r].name
        k == at[r]
    IN  /\ k \in DOMAIN AfterObject
        /\ \/ /\ k = "secret" /\ ~HasKey(r)
              /\ Proceed(r, "cert")
              /\ UNCHANGED <<obj, early>>
           \/ /\ k = "secret" => HasKey(r)
              /\ Put(r, n, k) /\ Meets(n, k)
              /\ Proceed(r, AfterObject[k])
           \/ /\ k = "secret" => HasKey(r)
              /\ Put(r, n, k) \/ UNCHANGED obj
              /\ UNCHANGED early
              /\ Fail(r, IF k = "cert" THEN "pod" ELSE Reply(r, "refused"))
        /\ UNCHANGED <<leaving, pod, spared, seen>>

RunPod(r, n) ==
    pod' = [pod EXCEPT ![n] = [key |-> HasKey(r), mounts |-> Nothing, going |-> FALSE]]

CreatePod(r) ==
    LET n == op[r].name
    IN  /\ at[r] = "pod"
        /\ \/ pod[n] = Nothing /\ RunPod(r, n) /\ Proceed(r, Reply(r, "done"))
           \/ pod[n] # Nothing /\ Proceed(r, Reply(r, "refused")) /\ UNCHANGED pod
           \/ /\ (pod[n] = Nothing /\ RunPod(r, n)) \/ UNCHANGED pod
              /\ Fail(r, Reply(r, "refused"))
        /\ UNCHANGED <<obj, leaving, early, spared, seen>>

-----------------------------------------------------------------------------
(* Stop and delete.                                                        *)

TakeDown(n) ==
    /\ pod' = IF pod[n] = Nothing THEN pod ELSE [pod EXCEPT ![n].going = TRUE]
    /\ spared' = spared \ {n}

Lives(n) == pod[n] # Nothing /\ ~pod[n].going

Spare(n) ==
    /\ spared' = IF Lives(n) THEN spared \cup {n} ELSE spared
    /\ UNCHANGED pod

\* The error of the pod's deletion is the answer of the request; a delete
\* carries on with it.
RemovePod(r) ==
    LET n    == op[r].name
        next(a) == IF at[r] = "deletePod" THEN "dropClaim" ELSE a
        answer  == IF pod[n] = Nothing THEN "refused" ELSE "done"
    IN  /\ at[r] \in {"stopPod", "deletePod"}
        /\ \/ /\ TakeDown(n)
              /\ Remember(r, [answer |-> answer]) /\ Proceed(r, next(answer))
           \/ /\ \/ TakeDown(n)
                 \/ at[r] = "stopPod" /\ UNCHANGED <<pod, spared>>
                 \/ at[r] = "deletePod" /\ Spare(n)
              /\ Remember(r, [answer |-> "refused"])
              /\ Fail(r, next("refused"))
        /\ UNCHANGED <<obj, leaving, early>>

DropOf == [dropClaim |-> "claim", dropConfig |-> "config", dropSecret |-> "secret",
           dropCert |-> "cert", dropTls |-> "tls"]

\* Mutant: the Secret goes before the Certificate it is issued for.
AfterDrop_SecretFirst(r) ==
    CASE at[r] = "dropClaim" -> "dropConfig" [] at[r] = "dropConfig" -> "dropSecret"
      [] at[r] = "dropSecret" -> "dropTls" [] at[r] = "dropTls" -> "dropCert"
      [] OTHER -> Reply(r, seen[r].answer)

AfterDrop(r) ==
    CASE at[r] = "dropClaim" -> "dropConfig" [] at[r] = "dropConfig" -> "dropSecret"
      [] at[r] = "dropSecret" -> "dropCert" [] at[r] = "dropCert" -> "dropTls"
      [] OTHER -> Reply(r, seen[r].answer)

\* A claim stays, Terminating, as long as a running pod uses it.
Drop(n, k) ==
    IF k = "claim"
    THEN /\ leaving' = IF obj[n][k] = Nothing THEN leaving ELSE leaving \cup {n}
         /\ UNCHANGED obj
    ELSE /\ obj' = [obj EXCEPT ![n][k] = Nothing]
         /\ UNCHANGED leaving

\* Errors of the clean-up are logged.
CleanUp(r) ==
    /\ at[r] \in DOMAIN DropOf
    /\ \/ Drop(op[r].name, DropOf[at[r]]) /\ Proceed(r, AfterDrop(r))
       \/ UNCHANGED <<obj, leaving>> /\ Fail(r, AfterDrop(r))
    /\ UNCHANGED <<pod, early, spared, seen>>

-----------------------------------------------------------------------------
(* Update: UpdateAgentConfigMap reads the ConfigMap and writes it back, if *)
(* nobody else has in between; then the pod is read for the answer.        *)

ReadConfig(r) ==
    LET config == obj[op[r].name]["config"]
    IN  /\ at[r] = "readConfig"
        /\ Remember(r, config)
        /\ \/ Proceed(r, IF config = Nothing THEN "refused" ELSE "writeConfig")
           \/ Fail(r, "refused")
        /\ UNCHANGED podVars

WriteConfig(r) ==
    LET n     == op[r].name
        fresh == obj[n]["config"] = seen[r]
        write == obj' = IF fresh THEN [obj EXCEPT ![n]["config"] = r] ELSE obj
    IN  /\ at[r] = "writeConfig"
        /\ \/ write /\ Proceed(r, IF fresh THEN "readPod" ELSE "refused")
           \/ (write \/ UNCHANGED obj) /\ Fail(r, "refused")
        /\ UNCHANGED <<leaving, pod, early, spared, seen>>

ReadPod(r) ==
    /\ at[r] = "readPod"
    /\ \/ Proceed(r, IF pod[op[r].name] = Nothing THEN "refused" ELSE "done")
       \/ Fail(r, "refused")
    /\ UNCHANGED <<podVars, seen>>

-----------------------------------------------------------------------------
(* The cluster.                                                            *)

\* A pod waits until all it mounts is there.
PodStarts(n) ==
    /\ pod[n] # Nothing /\ pod[n].mounts = Nothing /\ ~pod[n].going
    /\ obj[n]["claim"] # Nothing /\ n \notin leaving
    /\ obj[n]["config"] # Nothing
    /\ pod[n].key => obj[n]["secret"] # Nothing
    /\ pod' = [pod EXCEPT ![n].mounts = obj[n]["claim"]]
    /\ UNCHANGED <<obj, leaving, early, spared, requestVars>>

PodEnds(n) ==
    /\ pod[n] # Nothing /\ pod[n].going
    /\ pod' = [pod EXCEPT ![n] = Nothing]
    /\ UNCHANGED <<obj, leaving, early, spared, requestVars>>

ClaimGoes(n) ==
    /\ n \in leaving
    /\ pod[n] # Nothing => pod[n].mounts = Nothing
    /\ obj' = [obj EXCEPT ![n]["claim"] = Nothing]
    /\ leaving' = leaving \ {n}
    /\ UNCHANGED <<pod, early, spared, requestVars>>

IssueTls(n) ==
    /\ obj[n]["cert"] # Nothing /\ obj[n]["tls"] = Nothing
    /\ obj' = [obj EXCEPT ![n]["tls"] = obj[n]["cert"]]
    /\ UNCHANGED <<leaving, pod, early, spared, requestVars>>

-----------------------------------------------------------------------------
Cluster ==
    \E n \in Names : PodStarts(n) \/ PodEnds(n) \/ ClaimGoes(n) \/ IssueTls(n)

AgentHandlers(r) ==
    \/ AgentRequest(r) \/ CheckStopped(r) \/ CreateObject(r) \/ CreatePod(r)
    \/ RemovePod(r) \/ CleanUp(r)
    \/ ReadConfig(r) \/ WriteConfig(r) \/ ReadPod(r)

-----------------------------------------------------------------------------
(* Properties.                                                             *)

\* amgr/handler.go:232-244 and k8s/agents.go:181: a pod finds the ConfigMap, the
\* Secret and the claim it mounts, or it never runs and each further start
\* answers that it does, whatever calls failed on the way: a create that stopped
\* half way is completed by the next one.  Requests that overlap on the agent
\* (overlapped), and a delete that goes on although the pod still runs (spared),
\* may take the objects away.  And a create or start that comes, even all alone,
\* while the claim of a deleted agent is Terminating takes it for its own
\* (early): its pod may lack the claim, but nothing else, until a create or start
\* meets no such claim.
AgentHasItsState ==
    \A n \in Names \ (overlapped \cup spared) :
        Lives(n) =>
            /\ obj[n]["config"] # Nothing
            /\ pod[n].key => obj[n]["secret"] # Nothing
            /\ n \in early \/ (obj[n]["claim"] # Nothing /\ n \notin leaving)

\* k8s/agents.go:398: the end of a delete that met no failure and no rival
\* leaves none of the agent's objects, whether the agent ran, was stopped or was
\* half made; the pod and the claim may still be Terminating.
DeleteLeavesNothing ==
    [][\A r \in Requests :
           /\ at[r] \in DOMAIN DropOf /\ at'[r] \notin DOMAIN DropOf
           /\ op[r].name \notin trouble'
           => LET n == op[r].name
              IN  /\ \A k \in Kinds \ {"claim"} : obj'[n][k] = Nothing
                  /\ obj'[n]["claim"] # Nothing => n \in leaving'
                  /\ pod'[n] # Nothing => pod'[n].going]_<<podVars, requestVars>>

\* amgr/handler.go:233: module AgentLifecycle, whatever overlaps or fails.
Lifecycle ==
    INSTANCE AgentLifecycle
    WITH Agents <- Names, Workspaces <- Writers,
         kept <- [n \in Names |-> obj[n]["claim"]],
         condemned <- leaving,
         mounted <- [n \in Names |-> IF pod[n] = Nothing THEN Nothing ELSE pod[n].mounts]

ImplementsLifecycle == Lifecycle!Spec
=============================================================================
