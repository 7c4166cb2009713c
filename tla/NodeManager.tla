---------------------------- MODULE NodeManager ----------------------------
(***************************************************************************)
(* The node manager of the API in its Kubernetes mode: the handlers of     *)
(* src/api/internal/nmgr/handler.go, their in-memory store of pending      *)
(* nodes (store.go), and the calls of src/api/internal/k8s they make on    *)
(* the cluster (nodes.go, provision.go).                                   *)
(*                                                                         *)
(* The k-th node that Store.Create appends is entry k: the slice keeps the *)
(* order of creation, so the first node with an ID is the least entry.     *)
(* Task k is the goroutine that create starts for entry k.  A machine is   *)
(* its address and, once it has joined, its node name: kubeadm join takes  *)
(* the machine's own hostname; the name in the request is not passed on.   *)
(***************************************************************************)
EXTENDS Naturals, Sequences, FiniteSets

CONSTANTS
    Requests,       \* concurrent HTTP requests
    Machines,       \* hosts
    Hosts,          \* bound: the machines that create requests name
    Members,        \* the machines that are nodes of the cluster at first
    Names,          \* node names a create request may ask for
    NoName,         \* a create request without a name
    minReadyNodes,  \* 4 in the code
    MaxCreates,     \* bound: nodes created
    MaxRequests,    \* bound: requests made
    MaxFailures,    \* bound: how often a node stops being Ready by itself
    MaxCrashes      \* bound: restarts of the API

Creates == 1 .. MaxCreates

ASSUME NodeAssumption ==
    /\ IsFiniteSet(Requests) /\ IsFiniteSet(Machines)
    /\ Members \subseteq Machines /\ Hosts \subseteq Machines
    /\ NoName \notin Names \cup Machines
    /\ Requests \cap Creates = {}
    /\ {minReadyNodes, MaxCreates, MaxRequests, MaxFailures, MaxCrashes} \subseteq Nat
    /\ minReadyNodes <= Cardinality(Members) + Cardinality(Requests)

VARIABLES
    entry,      \* store.nodes
    task,       \* the goroutine of each node created so far
    req,        \* where each request is, with its local variables
    joined,     \* the nodes of the cluster ...
    up,         \* ... whose condition Ready is True
    cordoned,   \* ... with spec.unschedulable
    labelled,   \* ... with the location label
    current,    \* the clients whose copy has the node's resourceVersion
    copy,       \* the node object each client has read
    requests,   \* bound
    failures,   \* bound
    crashes,    \* bound
    collided    \* ghost: IDs that were created while they were in the store

storeVars   == <<entry, task, collided>>
clusterVars == <<joined, up, cordoned, labelled>>
objectVars  == <<clusterVars, current, copy>>
boundVars   == <<requests, failures, crashes>>
vars == <<storeVars, req, objectVars, boundVars>>

\* An ID is a name, or the number in a generated "cnn-<number>".
Ids     == Names \cup Creates
Entry   == [id : Ids, host : Machines, status : {"Pending", "Error", "Ready"}]
Clients == Requests \cup Creates

Task    == [at : {"provisioning", "waiting", "labelling", "updating", "hardening",
                  "sleeping", "ended"}, id : Ids, host : Machines]

Idle       == [at |-> "idle"]
Creating   == [at : {"cluster", "store", "create"},
               name : Names \cup {NoName}, host : Machines, password : BOOLEAN]
Counting   == [at : {"count"}, node : Machines]
Decreasing == [at : {"cordon", "cordoning", "drain", "draining", "delete"},
               node : Machines]
Starting   == [at : {"uncordon", "uncordoning"}, node : Machines]

TypeOK ==
    /\ entry \in UNION {[some -> Entry] : some \in SUBSET Creates}
    /\ task \in Seq(Task) /\ Len(task) <= MaxCreates
    /\ DOMAIN entry \subseteq DOMAIN task
    /\ collided \subseteq Ids
    /\ req \in [Requests -> {Idle} \cup Creating \cup Counting \cup Decreasing
                            \cup Starting]
    /\ joined \subseteq Machines
    /\ up \subseteq joined /\ cordoned \subseteq joined /\ labelled \subseteq joined
    /\ current \in [Machines -> SUBSET Clients]
    /\ \A m \in Machines \ joined : current[m] = {}
    /\ copy \in [Clients -> [cordoned : BOOLEAN, labelled : BOOLEAN]]
    /\ requests \in 0 .. MaxRequests
    /\ failures \in 0 .. MaxFailures
    /\ crashes \in 0 .. MaxCrashes

Blank == [cordoned |-> FALSE, labelled |-> FALSE]

Init ==
    /\ entry = <<>> /\ task = <<>> /\ collided = {}
    /\ req = [r \in Requests |-> Idle]
    /\ joined = Members /\ up = Members /\ cordoned = {} /\ labelled = {}
    /\ current = [m \in Machines |-> {}]
    /\ copy = [x \in Clients |-> Blank]
    /\ requests = 0 /\ failures = 0 /\ crashes = 0

-----------------------------------------------------------------------------
(* The store: every operation is one critical section of Store.mu.         *)

Named(i) == {k \in DOMAIN entry : entry[k].id = i}

First(i) == CHOOSE k \in Named(i) : \A j \in Named(i) : k <= j

Without(i) ==
    IF Named(i) = {} THEN entry
    ELSE [k \in DOMAIN entry \ {First(i)} |-> entry[k]]

WithStatus(i, s) ==
    IF Named(i) = {} THEN entry ELSE [entry EXCEPT ![First(i)].status = s]

\* Mutant: the generated IDs start at zero.
NewId_FromZero(name) == IF name = NoName THEN Cardinality(DOMAIN entry) ELSE name

\* The ID a new node gets.
NewId(name) == IF name = NoName THEN Cardinality(DOMAIN entry) + 1 ELSE name

-----------------------------------------------------------------------------
(* The cluster.  Get copies the node object; Update writes the object that *)
(* was read, changed, and is refused when the object has changed since.    *)

Ready == up \ cordoned

Get(x, m) ==
    /\ m \in joined
    /\ current' = [current EXCEPT ![m] = @ \cup {x}]
    /\ copy' = [copy EXCEPT ![x] = [cordoned |-> m \in cordoned,
                                    labelled |-> m \in labelled]]
    /\ UNCHANGED clusterVars

\* set with m added to it, or taken from it
Put(set, m, in) == IF in THEN set \cup {m} ELSE set \ {m}

Write(x, m, object) ==
    /\ cordoned' = Put(cordoned, m, object.cordoned)
    /\ labelled' = Put(labelled, m, object.labelled)
    /\ current' = [current EXCEPT ![m] = {}]
    /\ copy' = [copy EXCEPT ![x] = Blank]
    /\ UNCHANGED <<joined, up>>

\* Mutant: the object is written whatever has changed since it was read.
Update_NoVersion(x, m, object) == m \in joined /\ Write(x, m, object)

Update(x, m, object) == x \in current[m] /\ Write(x, m, object)

Reads(x) == copy[x]

-----------------------------------------------------------------------------
(* Requests *)

Arrives(r) ==
    /\ req[r] = Idle
    /\ requests < MaxRequests
    /\ requests' = requests + 1
    /\ UNCHANGED <<failures, crashes>>

Begin(r, first) ==
    /\ Arrives(r)
    /\ req' = [req EXCEPT ![r] = first]
    /\ UNCHANGED <<storeVars, objectVars>>

Goto(r, at) == req' = [req EXCEPT ![r].at = at]

Return(r) == req' = [req EXCEPT ![r] = Idle]

\* create: the name must not be in the store (a refusal changes nothing).
CreateNode(r, name, host, password) ==
    /\ Len(task) < MaxCreates
    /\ name # NoName => Named(name) = {}
    /\ Begin(r, [at |-> "cluster", name |-> name, host |-> host, password |-> password])

\* Neither the name nor the address may be in the cluster; an error of GetNode or
\* of ListNodes lets it pass.
CheckCluster(r) ==
    /\ req[r].at = "cluster"
    /\ \/ Goto(r, "store")
       \/ {req[r].name, req[r].host} \cap joined # {} /\ Return(r)
    /\ UNCHANGED <<storeVars, objectVars, boundVars>>

CheckPending(r) ==
    /\ req[r].at = "store"
    /\ IF \E k \in DOMAIN entry : entry[k].host = req[r].host
       THEN Return(r) ELSE Goto(r, "create")
    /\ UNCHANGED <<storeVars, objectVars, boundVars>>

\* The node is stored and its goroutine started: it provisions the machine if a
\* password was given and sleeps three seconds if not.
StoreNode(r) ==
    LET k == Len(task) + 1
        i == NewId(req[r].name)
    IN
    /\ req[r].at = "create"
    /\ Len(task) < MaxCreates
    /\ entry' = [j \in DOMAIN entry \cup {k} |->
                    IF j = k THEN [id |-> i, host |-> req[r].host, status |-> "Pending"]
                             ELSE entry[j]]
    /\ task' = Append(task, [at |-> IF req[r].password THEN "provisioning" ELSE "sleeping",
                             id |-> i, host |-> req[r].host])
    /\ collided' = IF Named(i) = {} THEN collided ELSE collided \cup {i}
    /\ Return(r)
    /\ UNCHANGED <<objectVars, boundVars>>

\* Mutant: only delete counts.
StopNode_NoCount(r, m) == Begin(r, [at |-> "cordon", node |-> m])

\* stop and delete refuse below minReadyNodes; ListNodes failing counts as none.
StopNode(r, m) ==
    /\ Cardinality(Ready) >= minReadyNodes
    /\ Begin(r, [at |-> "cordon", node |-> m])

\* delete looks in the store first (DeletePending) and then counts.
DeleteNode(r, m) ==
    /\ Named(m) = {}
    /\ Begin(r, [at |-> "count", node |-> m])

\* Mutant: one Ready node less is enough.
CountReady_OffByOne(r) ==
    /\ req[r].at = "count"
    /\ IF Cardinality(Ready) + 1 >= minReadyNodes THEN Goto(r, "drain") ELSE Return(r)
    /\ UNCHANGED <<storeVars, objectVars, boundVars>>

CountReady(r) ==
    /\ req[r].at = "count"
    /\ IF Cardinality(Ready) >= minReadyNodes THEN Goto(r, "drain") ELSE Return(r)
    /\ UNCHANGED <<storeVars, objectVars, boundVars>>

\* A node of the store is deleted at once; its goroutine goes on.
DeletePending(r, i) ==
    /\ Arrives(r)
    /\ Named(i) # {}
    /\ entry' = Without(i)
    /\ UNCHANGED <<task, collided, req, objectVars>>

StartNode(r, m) == Begin(r, [at |-> "uncordon", node |-> m])

GetsNode(r) ==
    /\ req[r].at \in {"cordon", "drain", "uncordon"}
    /\ Get(r, req[r].node)
    /\ Goto(r, CASE req[r].at = "cordon"   -> "cordoning"
                 [] req[r].at = "drain"    -> "draining"
                 [] req[r].at = "uncordon" -> "uncordoning")
    /\ UNCHANGED <<storeVars, boundVars>>

\* stop is done when the node is cordoned; DrainAndDeleteNode evicts the pods.
Cordons(r) ==
    /\ req[r].at \in {"cordoning", "draining"}
    /\ Update(r, req[r].node, [Reads(r) EXCEPT !.cordoned = TRUE])
    /\ IF req[r].at = "cordoning" THEN Return(r) ELSE Goto(r, "delete")
    /\ UNCHANGED <<storeVars, boundVars>>

Uncordons(r) ==
    /\ req[r].at = "uncordoning"
    /\ Update(r, req[r].node, [Reads(r) EXCEPT !.cordoned = FALSE])
    /\ Return(r)
    /\ UNCHANGED <<storeVars, boundVars>>

Removes(r) ==
    LET m == req[r].node IN
    /\ req[r].at = "delete"
    /\ m \in joined
    /\ joined' = joined \ {m} /\ up' = up \ {m}
    /\ cordoned' = cordoned \ {m} /\ labelled' = labelled \ {m}
    /\ current' = [current EXCEPT ![m] = {}]
    /\ Return(r)
    /\ UNCHANGED <<storeVars, copy, boundVars>>

\* Any call of the cluster may fail: not found, a conflict, the request's timeout
\* or the client's leaving.  What was done before stays done.
Fails(r) ==
    /\ req[r].at \in {"count", "cordon", "cordoning", "drain", "draining", "delete",
                      "uncordon", "uncordoning"}
    /\ copy' = [copy EXCEPT ![r] = Blank]
    /\ current' = [m \in Machines |-> current[m] \ {r}]
    /\ Return(r)
    /\ UNCHANGED <<storeVars, clusterVars, boundVars>>

Request(r) ==
    \/ \E name \in Names \cup {NoName}, host \in Hosts, password \in BOOLEAN :
          CreateNode(r, name, host, password)
    \/ CheckCluster(r) \/ CheckPending(r) \/ StoreNode(r)
    \/ \E m \in Machines : StopNode(r, m) \/ DeleteNode(r, m) \/ StartNode(r, m)
    \/ \E i \in Ids : DeletePending(r, i)
    \/ CountReady(r) \/ GetsNode(r) \/ Cordons(r) \/ Uncordons(r) \/ Removes(r)
    \/ Fails(r)

-----------------------------------------------------------------------------
(* The goroutine of the k-th node: a real provisioning (ProvisionNode) or   *)
(* the short delay.                                                        *)

Moves(k, at) == task' = [task EXCEPT ![k].at = at]

\* kubeadm join succeeds: the machine is a node, not yet Ready.
Joins(k) ==
    LET m == task[k].host IN
    /\ task[k].at = "provisioning"
    /\ m \notin joined
    /\ joined' = joined \cup {m}
    /\ Moves(k, "waiting")
    /\ UNCHANGED <<entry, collided, req, up, cordoned, labelled, current, copy, boundVars>>

\* Mutant: the failure is logged but the entry is left as it was.
ProvisioningFails_Silently(k) ==
    /\ task[k].at \in {"provisioning", "waiting"}
    /\ Moves(k, "ended")
    /\ UNCHANGED <<entry, collided, req, objectVars, boundVars>>

\* A step before the join fails, or the node is not Ready within three minutes.
ProvisioningFails(k) ==
    /\ task[k].at \in {"provisioning", "waiting"}
    /\ entry' = WithStatus(task[k].id, "Error")
    /\ Moves(k, "ended")
    /\ UNCHANGED <<collided, req, objectVars, boundVars>>

\* waitForNodeByIP finds a Ready node; without a location it is not labelled.
SeesReady(k) ==
    /\ task[k].at = "waiting"
    /\ task[k].host \in up
    /\ Moves(k, "labelling") \/ Moves(k, "hardening")
    /\ UNCHANGED <<entry, collided, req, objectVars, boundVars>>

ReadsNode(k) ==
    /\ task[k].at = "labelling"
    /\ Get(k, task[k].host)
    /\ Moves(k, "updating")
    /\ UNCHANGED <<entry, collided, req, boundVars>>

Labels(k) ==
    /\ task[k].at = "updating"
    /\ Update(k, task[k].host, [Reads(k) EXCEPT !.labelled = TRUE])
    /\ Moves(k, "hardening")
    /\ UNCHANGED <<entry, collided, req, boundVars>>

\* Failing to label the node is only a warning.
LabelFails(k) ==
    /\ task[k].at \in {"labelling", "updating"}
    /\ copy' = [copy EXCEPT ![k] = Blank]
    /\ current' = [m \in Machines |-> current[m] \ {k}]
    /\ Moves(k, "hardening")
    /\ UNCHANGED <<entry, collided, req, clusterVars, boundVars>>

\* After the hardening script, whatever it returned, the entry makes way for the
\* node in the cluster.
Provisioned(k) ==
    /\ task[k].at = "hardening"
    /\ entry' = Without(task[k].id)
    /\ Moves(k, "ended")
    /\ UNCHANGED <<collided, req, objectVars, boundVars>>

Awakes(k) ==
    /\ task[k].at = "sleeping"
    /\ entry' = WithStatus(task[k].id, "Ready")
    /\ Moves(k, "ended")
    /\ UNCHANGED <<collided, req, objectVars, boundVars>>

Goroutine(k) ==
    \/ Joins(k) \/ ProvisioningFails(k) \/ SeesReady(k) \/ ReadsNode(k)
    \/ Labels(k) \/ LabelFails(k) \/ Provisioned(k) \/ Awakes(k)

-----------------------------------------------------------------------------
(* The environment *)

\* The kubelet reports a change of the node's condition: a new resourceVersion.
BecomesReady(m) ==
    /\ m \in joined \ up
    /\ up' = up \cup {m}
    /\ current' = [current EXCEPT ![m] = {}]
    /\ UNCHANGED <<storeVars, req, joined, cordoned, labelled, copy, boundVars>>

FailsToReport(m) ==
    /\ m \in up
    /\ failures < MaxFailures
    /\ failures' = failures + 1
    /\ up' = up \ {m}
    /\ current' = [current EXCEPT ![m] = {}]
    /\ UNCHANGED <<storeVars, req, joined, cordoned, labelled, copy, requests,
                   crashes>>

\* The API is restarted: its store, its requests and its goroutines are gone.
Crash ==
    /\ crashes < MaxCrashes
    /\ crashes' = crashes + 1
    /\ entry' = <<>>
    /\ task' = [k \in DOMAIN task |-> [task[k] EXCEPT !.at = "ended"]]
    /\ collided' = {}
    /\ req' = [r \in Requests |-> Idle]
    /\ current' = [m \in Machines |-> {}]
    /\ copy' = [x \in Clients |-> Blank]
    /\ UNCHANGED <<clusterVars, requests, failures>>

Next ==
    \/ \E r \in Requests : Request(r)
    \/ \E k \in DOMAIN task : Goroutine(k)
    \/ \E m \in Machines : BecomesReady(m) \/ FailsToReport(m)
    \/ Crash

Spec == Init /\ [][Next]_vars

-----------------------------------------------------------------------------
(* Properties *)

\* Each request that stops or deletes has counted the Ready nodes for itself, so K
\* concurrent ones leave K - 1 fewer than the rule wants, and never less than that;
\* nodes that fail by themselves come off.
ReadyFloor ==
    Cardinality(Ready) + failures + Cardinality(Requests) >= minReadyNodes

\* The rule of countReadyNodes: stop and delete leave at least three Ready nodes.
KeepsMinimum == Cardinality(Ready) + failures >= minReadyNodes - 1

\* A pending node has a goroutine that will settle it, however creates, deletes and
\* re-creates of one name interleave, except where two nodes had the same ID.
PendingIsWorkedOn ==
    \A k \in DOMAIN entry :
        entry[k].status = "Pending" =>
            \/ entry[k].id \in collided
            \/ \E j \in DOMAIN task : task[j].at # "ended" /\ task[j].id = entry[k].id

\* Concurrent writers of one node object lose none of each other's changes: while a
\* node stays in the cluster only a start request makes it schedulable again, and
\* its location label stays.
NoLostUpdate ==
    [][\A m \in joined \cap joined' :
          /\ m \in cordoned \ cordoned' =>
                \E r \in Requests : req[r] = [at |-> "uncordoning", node |-> m]
          /\ m \in labelled => m \in labelled']_vars
=============================================================================
