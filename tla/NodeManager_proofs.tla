------------------------ MODULE NodeManager_proofs ------------------------
(***************************************************************************)
(* Theorems about NodeManager, for any cluster and any number of requests, *)
(* provisionings, failures and restarts.                                   *)
(***************************************************************************)
EXTENDS NodeManager, FiniteSetTheorems, SequenceTheorems, TLAPS

RequestType == {Idle} \cup Creating \cup Counting \cup Decreasing \cup Starting
CopyType    == [cordoned : BOOLEAN, labelled : BOOLEAN]

USE DEF Creates, Clients

-----------------------------------------------------------------------------
(* Type correctness *)

LEMMA InitType == Init => TypeOK
<1> SUFFICES ASSUME Init PROVE TypeOK
  OBVIOUS
<1>1. entry \in [{} -> Entry] /\ DOMAIN entry = {}
  BY DEF Init
<1>2. copy \in [Clients -> CopyType]
  BY DEF Init, Blank, CopyType
<1>3. requests \in 0 .. MaxRequests /\ failures \in 0 .. MaxFailures
      /\ crashes \in 0 .. MaxCrashes
  BY NodeAssumption DEF Init
<1>4. task \in Seq(Task) /\ Len(task) <= MaxCreates
  BY NodeAssumption DEF Init
<1> QED
  BY <1>1, <1>2, <1>3, <1>4, NodeAssumption DEF Init, TypeOK, CopyType

LEMMA SameInterval ==
  ASSUME NEW m \in Nat, NEW n \in Nat, 1 .. m = 1 .. n
  PROVE  m = n
<1>1. m <= n
  <2>1. CASE m = 0 BY <2>1
  <2>2. CASE m # 0
    <3>1. m \in 1 .. m BY <2>2
    <3> QED BY <3>1
  <2> QED BY <2>1, <2>2
<1>2. n <= m
  <2>1. CASE n = 0 BY <2>1
  <2>2. CASE n # 0
    <3>1. n \in 1 .. n BY <2>2
    <3> QED BY <3>1
  <2> QED BY <2>1, <2>2
<1> QED
  BY <1>1, <1>2

\* What the bodies of requests and of goroutines do to the store's types.
LEMMA WithoutType ==
  ASSUME TypeOK, NEW i
  PROVE  /\ Without(i) \in UNION {[some -> Entry] : some \in SUBSET Creates}
         /\ DOMAIN Without(i) \subseteq DOMAIN entry
<1>1. PICK some \in SUBSET Creates : entry \in [some -> Entry]
  BY DEF TypeOK
<1>2. Without(i) = entry \/ Without(i) \in [some \ {First(i)} -> Entry]
  BY <1>1 DEF Without
<1> QED
  BY <1>1, <1>2

LEMMA WithStatusType ==
  ASSUME TypeOK, NEW i, NEW s \in {"Pending", "Error", "Ready"}
  PROVE  /\ WithStatus(i, s) \in UNION {[some -> Entry] : some \in SUBSET Creates}
         /\ DOMAIN WithStatus(i, s) = DOMAIN entry
<1>1. PICK some \in SUBSET Creates : entry \in [some -> Entry]
  BY DEF TypeOK
<1>2. WithStatus(i, s) \in [some -> Entry]
  BY <1>1 DEF WithStatus, Entry
<1> QED
  BY <1>1, <1>2

LEMMA NewIdType ==
  ASSUME TypeOK, Len(task) < MaxCreates, NEW name \in Names \cup {NoName}
  PROVE  NewId(name) \in Ids
<1>0. Len(task) \in Nat /\ DOMAIN task = 1 .. Len(task)
  BY DEF TypeOK
<1>1. IsFiniteSet(1 .. Len(task)) /\ Cardinality(1 .. Len(task)) = Len(task)
  <2>1. 1 \in Int /\ Len(task) \in Int
    BY <1>0
  <2>2. /\ IsFiniteSet(1 .. Len(task))
        /\ Cardinality(1 .. Len(task)) = IF 1 > Len(task) THEN 0 ELSE Len(task) - 1 + 1
    BY <2>1, FS_Interval
  <2> QED
    BY <1>0, <2>2
<1>2. DOMAIN entry \subseteq 1 .. Len(task)
  BY <1>0 DEF TypeOK
<1>3. Cardinality(DOMAIN entry) \in Nat /\ Cardinality(DOMAIN entry) <= Len(task)
  BY <1>1, <1>2, FS_Subset, FS_CardinalityType
<1> QED
  BY <1>0, <1>3, NodeAssumption DEF NewId, Ids

\* The parts of TypeOK, by the variables they are about.
StoreType ==
    /\ entry \in UNION {[some -> Entry] : some \in SUBSET Creates}
    /\ task \in Seq(Task) /\ Len(task) <= MaxCreates
    /\ DOMAIN entry \subseteq DOMAIN task
    /\ collided \subseteq Ids
ReqType == req \in [Requests -> RequestType]
ObjectType ==
    /\ joined \subseteq Machines
    /\ up \subseteq joined /\ cordoned \subseteq joined /\ labelled \subseteq joined
    /\ current \in [Machines -> SUBSET Clients]
    /\ \A m \in Machines \ joined : current[m] = {}
    /\ copy \in [Clients -> CopyType]
BoundType ==
    /\ requests \in 0 .. MaxRequests
    /\ failures \in 0 .. MaxFailures
    /\ crashes \in 0 .. MaxCrashes

LEMMA Parts == TypeOK <=> StoreType /\ ReqType /\ ObjectType /\ BoundType
BY DEF TypeOK, StoreType, ReqType, ObjectType, BoundType, RequestType, CopyType

LEMMA PartsNext == TypeOK' <=> StoreType' /\ ReqType' /\ ObjectType' /\ BoundType'
BY DEF TypeOK, StoreType, ReqType, ObjectType, BoundType, RequestType, CopyType

\* Where a request is tells its kind.
LEMMA Kinds ==
  ASSUME NEW q \in RequestType
  PROVE  /\ q.at \in {"cluster", "store", "create"} => q \in Creating
         /\ q.at = "count" => q \in Counting
         /\ q.at \in {"cordon", "cordoning", "drain", "draining", "delete"} =>
               q \in Decreasing
         /\ q.at \in {"uncordon", "uncordoning"} => q \in Starting
BY DEF RequestType, Idle, Creating, Counting, Decreasing, Starting

LEMMA GotoType ==
  ASSUME ReqType, NEW r \in Requests, NEW at, Goto(r, at),
         \/ req[r].at \in {"cluster", "store", "create"}
               /\ at \in {"cluster", "store", "create"}
         \/ req[r].at \in {"count", "cordon", "cordoning", "drain", "draining"}
               /\ at \in {"cordoning", "drain", "draining", "delete"}
         \/ req[r].at = "uncordon" /\ at = "uncordoning"
  PROVE  ReqType'
<1>1. req[r] \in RequestType
  BY DEF ReqType
<1>2. [req[r] EXCEPT !.at = at] \in RequestType
  <2>1. CASE req[r].at \in {"cluster", "store", "create"}
    BY <1>1, <2>1, Kinds DEF Creating, RequestType
  <2>2. CASE req[r].at \in {"count", "cordon", "cordoning", "drain", "draining"}
    BY <1>1, <2>2, Kinds DEF Counting, Decreasing, RequestType
  <2>3. CASE req[r].at = "uncordon"
    BY <1>1, <2>3, Kinds DEF Starting, RequestType
  <2> QED
    BY <2>1, <2>2, <2>3
<1> QED
  BY <1>2 DEF Goto, ReqType

LEMMA ReturnType == ASSUME ReqType, NEW r \in Requests, Return(r) PROVE ReqType'
BY DEF ReqType, Return, RequestType

LEMMA BeginType ==
  ASSUME ReqType, BoundType, NEW r \in Requests, NEW first \in RequestType,
         Begin(r, first)
  PROVE  ReqType' /\ BoundType'
BY NodeAssumption DEF ReqType, BoundType, Begin, Arrives, boundVars

LEMMA MovesType ==
  ASSUME StoreType, NEW k \in DOMAIN task, Moves(k, "waiting") \/ Moves(k, "ended")
            \/ Moves(k, "labelling") \/ Moves(k, "updating") \/ Moves(k, "hardening")
  PROVE  task' \in Seq(Task) /\ Len(task') <= MaxCreates /\ DOMAIN task' = DOMAIN task
<1>1. task \in Seq(Task) /\ task[k] \in Task
  BY DEF StoreType
<1> QED
  BY <1>1 DEF StoreType, Moves, Task

LEMMA GetType ==
  ASSUME ObjectType, NEW x \in Clients, NEW m \in Machines, Get(x, m)
  PROVE  ObjectType'
BY DEF ObjectType, CopyType, Get, clusterVars

LEMMA UpdateType ==
  ASSUME ObjectType, NEW x \in Clients, NEW m \in Machines, NEW object \in CopyType,
         Update(x, m, object)
  PROVE  ObjectType'
BY DEF ObjectType, CopyType, Update, Write, Put, Blank, clusterVars

LEMMA StoreSame ==
  ASSUME StoreType, UNCHANGED storeVars PROVE StoreType'
BY DEF StoreType, storeVars

LEMMA ObjectSame ==
  ASSUME ObjectType, UNCHANGED objectVars PROVE ObjectType'
BY DEF ObjectType, objectVars, clusterVars

LEMMA BoundSame ==
  ASSUME BoundType, UNCHANGED boundVars PROVE BoundType'
BY DEF BoundType, boundVars

LEMMA StoreNodeType ==
  ASSUME TypeOK, NEW r \in Requests, StoreNode(r)
  PROVE  StoreType'
<1> USE Parts
<1>1. req[r] \in Creating
  BY Kinds DEF StoreNode, ReqType
<1>2. NewId(req[r].name) \in Ids
  BY <1>1, NewIdType DEF StoreNode, Creating
<1>3. PICK some \in SUBSET Creates : entry \in [some -> Entry]
  BY DEF StoreType
<1>4. Len(task) + 1 \in Creates
  BY NodeAssumption DEF StoreNode, StoreType
<1>5. entry' \in [some \cup {Len(task) + 1} -> Entry]
  BY <1>1, <1>2, <1>3 DEF StoreNode, Creating, Entry
<1>6. [at |-> IF req[r].password THEN "provisioning" ELSE "sleeping",
       id |-> NewId(req[r].name), host |-> req[r].host] \in Task
  BY <1>1, <1>2 DEF Creating, Task
<1>7. /\ task' \in Seq(Task)
      /\ Len(task') = Len(task) + 1
      /\ DOMAIN task' = DOMAIN task \cup {Len(task) + 1}
  BY <1>6 DEF StoreNode, StoreType
<1>8. Len(task') <= MaxCreates
  BY <1>7, NodeAssumption DEF StoreNode, StoreType
<1>9. collided' \subseteq Ids
  BY <1>2 DEF StoreNode, StoreType
<1>10. DOMAIN entry' \subseteq DOMAIN task'
  BY <1>3, <1>5, <1>7 DEF StoreType
<1>11. some \cup {Len(task) + 1} \in SUBSET Creates
  BY <1>4
<1>12. entry' \in UNION {[any -> Entry] : any \in SUBSET Creates}
  BY <1>5, <1>11
<1> QED
  BY <1>7, <1>8, <1>9, <1>10, <1>12 DEF StoreType

LEMMA RequestStepType ==
  ASSUME TypeOK, NEW r \in Requests, Request(r)
  PROVE  TypeOK'
<1> USE Parts, PartsNext, StoreSame, ObjectSame, BoundSame
<1>0. req[r] \in RequestType /\ r \in Clients
  BY DEF ReqType
<1>1. ASSUME NEW name \in Names \cup {NoName}, NEW host \in Hosts,
             NEW password \in BOOLEAN, CreateNode(r, name, host, password)
      PROVE  TypeOK'
  <2>1. [at |-> "cluster", name |-> name, host |-> host, password |-> password]
          \in RequestType
    BY NodeAssumption DEF RequestType, Creating
  <2> QED
    BY <1>1, <2>1, BeginType DEF CreateNode, Begin
<1>2. CASE CheckCluster(r)
  BY <1>2, GotoType, ReturnType DEF CheckCluster
<1>3. CASE CheckPending(r)
  BY <1>3, GotoType, ReturnType DEF CheckPending
<1>4. CASE StoreNode(r)
  BY <1>4, StoreNodeType, ReturnType DEF StoreNode
<1>5. ASSUME NEW m \in Machines, StopNode(r, m) \/ DeleteNode(r, m) \/ StartNode(r, m)
      PROVE  TypeOK'
  <2>1. /\ [at |-> "cordon", node |-> m] \in RequestType
        /\ [at |-> "count", node |-> m] \in RequestType
        /\ [at |-> "uncordon", node |-> m] \in RequestType
    BY DEF RequestType, Counting, Decreasing, Starting
  <2> QED
    BY <1>5, <2>1, BeginType DEF StopNode, DeleteNode, StartNode, Begin
<1>6. ASSUME NEW i \in Ids, DeletePending(r, i) PROVE TypeOK'
  <2>1. StoreType'
    BY <1>6, WithoutType DEF DeletePending, StoreType
  <2>2. ReqType' /\ BoundType'
    BY <1>6, NodeAssumption DEF DeletePending, ReqType, BoundType, Arrives
  <2> QED
    BY <1>6, <2>1, <2>2 DEF DeletePending
<1>7. CASE CountReady(r)
  BY <1>7, GotoType, ReturnType DEF CountReady
<1>8. CASE GetsNode(r)
  <2>1. req[r].node \in Machines
    BY <1>0, <1>8, Kinds DEF GetsNode, Decreasing, Starting
  <2>2. ObjectType'
    BY <1>0, <1>8, <2>1, GetType DEF GetsNode
  <2>3. ReqType'
    BY <1>8, GotoType DEF GetsNode
  <2> QED
    BY <1>8, <2>2, <2>3 DEF GetsNode
<1>9. CASE Cordons(r)
  <2>1. req[r].node \in Machines
    BY <1>0, <1>9, Kinds DEF Cordons, Decreasing
  <2>2. [Reads(r) EXCEPT !.cordoned = TRUE] \in CopyType
    BY <1>0 DEF Reads, ObjectType, CopyType
  <2>3. ObjectType'
    BY <1>0, <1>9, <2>1, <2>2, UpdateType DEF Cordons
  <2>4. ReqType'
    BY <1>9, GotoType, ReturnType DEF Cordons
  <2> QED
    BY <1>9, <2>3, <2>4 DEF Cordons
<1>10. CASE Uncordons(r)
  <2>1. req[r].node \in Machines
    BY <1>0, <1>10, Kinds DEF Uncordons, Starting
  <2>2. [Reads(r) EXCEPT !.cordoned = FALSE] \in CopyType
    BY <1>0 DEF Reads, ObjectType, CopyType
  <2>3. ObjectType'
    BY <1>0, <1>10, <2>1, <2>2, UpdateType DEF Uncordons
  <2> QED
    BY <1>10, <2>3, ReturnType DEF Uncordons
<1>11. CASE Removes(r)
  <2>1. ObjectType'
    BY <1>11 DEF Removes, ObjectType
  <2> QED
    BY <1>11, <2>1, ReturnType DEF Removes
<1>12. CASE Fails(r)
  <2>1. ObjectType'
    BY <1>12 DEF Fails, ObjectType, Blank, CopyType, clusterVars
  <2> QED
    BY <1>12, <2>1, ReturnType DEF Fails
<1> QED
  BY <1>1, <1>2, <1>3, <1>4, <1>5, <1>6, <1>7, <1>8, <1>9, <1>10, <1>11, <1>12
     DEF Request

LEMMA GoroutineStepType ==
  ASSUME TypeOK, NEW k \in DOMAIN task, Goroutine(k)
  PROVE  TypeOK'
<1> USE Parts, PartsNext, StoreSame, ObjectSame, BoundSame
<1>1. k \in Clients /\ task[k] \in Task /\ task[k].host \in Machines
  <2>1. task \in Seq(Task) /\ Len(task) \in Nat /\ k \in 1 .. Len(task)
    BY DEF StoreType
  <2>2. task[k] \in Task /\ k \in 1 .. MaxCreates
    BY <2>1, NodeAssumption DEF StoreType
  <2> QED
    BY <2>2 DEF Task
<1>2. ASSUME UNCHANGED <<entry, collided>>,
             \/ Moves(k, "waiting") \/ Moves(k, "ended") \/ Moves(k, "labelling")
             \/ Moves(k, "updating") \/ Moves(k, "hardening")
      PROVE  StoreType'
  BY <1>2, MovesType DEF StoreType
<1>3. CASE Joins(k)
  <2>1. ObjectType'
    BY <1>1, <1>3 DEF Joins, ObjectType
  <2> QED
    BY <1>2, <1>3, <2>1 DEF Joins, ReqType
<1>4. CASE ProvisioningFails(k)
  <2>1. StoreType'
    BY <1>4, WithStatusType, MovesType DEF ProvisioningFails, StoreType
  <2> QED
    BY <1>4, <2>1 DEF ProvisioningFails, ReqType
<1>5. CASE SeesReady(k)
  BY <1>2, <1>5 DEF SeesReady, ReqType
<1>6. CASE ReadsNode(k)
  <2>1. ObjectType'
    BY <1>1, <1>6, GetType DEF ReadsNode
  <2> QED
    BY <1>2, <1>6, <2>1 DEF ReadsNode, ReqType
<1>7. CASE Labels(k)
  <2>1. [Reads(k) EXCEPT !.labelled = TRUE] \in CopyType
    BY <1>1 DEF Reads, ObjectType, CopyType
  <2>2. ObjectType'
    BY <1>1, <1>7, <2>1, UpdateType DEF Labels
  <2> QED
    BY <1>2, <1>7, <2>2 DEF Labels, ReqType
<1>8. CASE LabelFails(k)
  <2>1. ObjectType'
    BY <1>8 DEF LabelFails, ObjectType, Blank, CopyType, clusterVars
  <2> QED
    BY <1>2, <1>8, <2>1 DEF LabelFails, ReqType
<1>9. CASE Provisioned(k)
  <2>1. StoreType'
    BY <1>9, WithoutType, MovesType DEF Provisioned, StoreType
  <2> QED
    BY <1>9, <2>1 DEF Provisioned, ReqType
<1>10. CASE Awakes(k)
  <2>1. StoreType'
    BY <1>10, WithStatusType, MovesType DEF Awakes, StoreType
  <2> QED
    BY <1>10, <2>1 DEF Awakes, ReqType
<1> QED
  BY <1>3, <1>4, <1>5, <1>6, <1>7, <1>8, <1>9, <1>10 DEF Goroutine

LEMMA StepType == TypeOK /\ [Next]_vars => TypeOK'
<1> SUFFICES ASSUME TypeOK, [Next]_vars PROVE TypeOK'
  OBVIOUS
<1> USE Parts, PartsNext, StoreSame, ObjectSame, BoundSame
<1>1. ASSUME NEW m \in Machines, BecomesReady(m) \/ FailsToReport(m) PROVE TypeOK'
  <2>1. ObjectType'
    BY <1>1 DEF BecomesReady, FailsToReport, ObjectType
  <2>2. BoundType'
    BY <1>1, NodeAssumption DEF BecomesReady, FailsToReport, BoundType, boundVars
  <2> QED
    BY <1>1, <2>1, <2>2 DEF BecomesReady, FailsToReport, ReqType
<1>2. CASE Crash
  <2>1. task' \in Seq(Task) /\ Len(task') <= MaxCreates
    <3>1. task \in Seq(Task) /\ Len(task) \in Nat /\ DOMAIN task = 1 .. Len(task)
      BY DEF StoreType
    <3>2. task' \in [1 .. Len(task) -> Task]
      <4>1. task' = [k \in 1 .. Len(task) |-> [task[k] EXCEPT !.at = "ended"]]
        BY <1>2, <3>1 DEF Crash
      <4>2. ASSUME NEW k \in 1 .. Len(task) PROVE [task[k] EXCEPT !.at = "ended"] \in Task
        <5>1. task[k] \in Task
          BY <3>1, ElementOfSeq
        <5> QED
          BY <5>1 DEF Task
      <4> QED
        BY <4>1, <4>2
    <3>3. task' \in Seq(Task)
      BY <3>1, <3>2, SeqDef
    <3>4. Len(task') \in Nat /\ DOMAIN task' = 1 .. Len(task')
      BY <3>3, LenProperties
    <3>5. Len(task') = Len(task)
      BY <3>1, <3>2, <3>4, SameInterval
    <3> QED
      BY <3>3, <3>5 DEF StoreType
  <2>2. entry' \in [{} -> Entry] /\ DOMAIN entry' = {}
    BY <1>2 DEF Crash
  <2>3. StoreType'
    BY <1>2, <2>1, <2>2 DEF Crash, StoreType
  <2>4. ReqType'
    BY <1>2 DEF Crash, ReqType, RequestType
  <2>5. ObjectType'
    BY <1>2 DEF Crash, ObjectType, Blank, CopyType, clusterVars
  <2>6. BoundType'
    BY <1>2, NodeAssumption DEF Crash, BoundType
  <2> QED
    BY <2>3, <2>4, <2>5, <2>6
<1>3. CASE UNCHANGED vars
  BY <1>3 DEF vars, ReqType
<1> QED
  BY <1>1, <1>2, <1>3, RequestStepType, GoroutineStepType DEF Next

\* Every reachable state of the node manager is well typed: the store holds only
\* nodes that were created, with IDs that create can give, and the node conditions
\* are those of nodes in the cluster.
THEOREM NodesTypeCorrect == Spec => []TypeOK
BY InitType, StepType, PTL DEF Spec

-----------------------------------------------------------------------------
(* No update is lost, because the only copies that are written are fresh.  *)

\* Client x has read node m and is about to write it.
RequestReads(x, m) ==
    /\ x \in Requests
    /\ req[x].at \in {"cordoning", "draining", "uncordoning"}
    /\ req[x].node = m
TaskReads(x, m) ==
    x \in DOMAIN task /\ task[x].at = "updating" /\ task[x].host = m

Reading ==
    \A m \in Machines : \A x \in current[m] : RequestReads(x, m) \/ TaskReads(x, m)

\* A copy with the current resourceVersion is the node.
Fresh ==
    \A m \in Machines : \A x \in current[m] :
        copy[x].cordoned = (m \in cordoned) /\ copy[x].labelled = (m \in labelled)

USE DEF RequestReads, TaskReads

\* A request and a goroutine are never the same client.
LEMMA TasksAreCreates == ASSUME TypeOK PROVE DOMAIN task \subseteq Creates
BY NodeAssumption DEF TypeOK

LEMMA GetFresh ==
  ASSUME TypeOK, Fresh, NEW x \in Clients, NEW m \in Machines, Get(x, m),
         \A n \in Machines : x \notin current[n]
  PROVE  Fresh'
BY DEF TypeOK, Fresh, Get, clusterVars

\* A successful update of m ends the freshness of all copies of m; the copies of
\* other nodes are not touched.
LEMMA UpdateFresh ==
  ASSUME TypeOK, Fresh, NEW x \in Clients, NEW m \in Machines, NEW object \in CopyType,
         Update(x, m, object), \A n \in Machines \ {m} : x \notin current[n]
  PROVE  Fresh'
BY DEF TypeOK, Fresh, Update, Write, Put, clusterVars, CopyType

LEMMA RequestStepFresh ==
  ASSUME TypeOK, Reading, Fresh, NEW r \in Requests, Request(r)
  PROVE  Reading' /\ Fresh'
<1> USE TasksAreCreates, NodeAssumption
<1>0. req[r] \in RequestType /\ r \in Clients /\ r \notin DOMAIN task
  BY DEF TypeOK, RequestType
<1>a. ASSUME req[r].at \notin {"cordoning", "draining", "uncordoning"}
      PROVE  \A n \in Machines : r \notin current[n]
  BY <1>0, <1>a DEF Reading
<1>b. ASSUME NEW m \in Machines, req[r].node = m
      PROVE  \A n \in Machines \ {m} : r \notin current[n]
  BY <1>0, <1>b DEF Reading
<1>c. ASSUME UNCHANGED <<objectVars, task>>,
             \A q \in Requests \ {r} : req'[q] = req[q],
             req[r].at \notin {"cordoning", "draining", "uncordoning"}
      PROVE  Reading' /\ Fresh'
  BY <1>a, <1>c DEF Reading, Fresh, objectVars, clusterVars
<1>1. ASSUME NEW name \in Names \cup {NoName}, NEW host \in Hosts,
             NEW password \in BOOLEAN, CreateNode(r, name, host, password)
      PROVE  Reading' /\ Fresh'
  BY <1>c, <1>1 DEF CreateNode, Begin, Arrives, Idle, storeVars, TypeOK
<1>2. CASE CheckCluster(r)
  BY <1>c, <1>2 DEF CheckCluster, Goto, Return, storeVars, TypeOK
<1>3. CASE CheckPending(r)
  BY <1>c, <1>3 DEF CheckPending, Goto, Return, storeVars, TypeOK
<1>4. CASE StoreNode(r)
  <2>1. \A k \in DOMAIN task : k \in DOMAIN task' /\ task'[k] = task[k]
    BY <1>4 DEF StoreNode, TypeOK
  <2>2. \A n \in Machines : r \notin current[n]
    BY <1>a, <1>4 DEF StoreNode
  <2> QED
    BY <1>4, <2>1, <2>2 DEF StoreNode, Return, Reading, Fresh, objectVars,
       clusterVars, TypeOK
<1>5. ASSUME NEW m \in Machines, StopNode(r, m) \/ DeleteNode(r, m) \/ StartNode(r, m)
      PROVE  Reading' /\ Fresh'
  BY <1>c, <1>5 DEF StopNode, DeleteNode, StartNode, Begin, Arrives, Idle,
     storeVars, TypeOK
<1>6. ASSUME NEW i \in Ids, DeletePending(r, i) PROVE Reading' /\ Fresh'
  BY <1>6 DEF DeletePending, Reading, Fresh, objectVars, clusterVars
<1>7. CASE CountReady(r)
  BY <1>c, <1>7 DEF CountReady, Goto, Return, storeVars, TypeOK
<1>8. CASE GetsNode(r)
  <2>1. req[r].node \in Machines
    BY <1>0, <1>8, Kinds DEF GetsNode, Decreasing, Starting
  <2>2. \A n \in Machines : r \notin current[n]
    BY <1>a, <1>8 DEF GetsNode
  <2>3. Fresh'
    BY <1>0, <1>8, <2>1, <2>2, GetFresh DEF GetsNode
  <2>4. /\ req'[r].at \in {"cordoning", "draining", "uncordoning"}
        /\ req'[r].node = req[r].node
        /\ \A q \in Requests \ {r} : req'[q] = req[q]
    <3>1. req[r] \in Decreasing \cup Starting
      BY <1>0, <1>8, Kinds DEF GetsNode
    <3> QED
      BY <1>8, <3>1 DEF GetsNode, Goto, TypeOK, Decreasing, Starting
  <2>5. \A n \in Machines : current'[n] \subseteq
            current[n] \cup (IF n = req[r].node THEN {r} ELSE {})
    BY <1>8, <2>1 DEF GetsNode, Get, TypeOK
  <2>6. Reading'
    BY <1>8, <2>2, <2>4, <2>5 DEF Reading, GetsNode, storeVars
  <2> QED
    BY <2>3, <2>6
<1>9. ASSUME Cordons(r) \/ Uncordons(r) PROVE Reading' /\ Fresh'
  <2>1. req[r].node \in Machines
    BY <1>0, <1>9, Kinds DEF Cordons, Uncordons, Decreasing, Starting
  <2>2. PICK object \in CopyType : Update(r, req[r].node, object)
    <3>1. /\ [Reads(r) EXCEPT !.cordoned = TRUE] \in CopyType
          /\ [Reads(r) EXCEPT !.cordoned = FALSE] \in CopyType
      BY <1>0 DEF Reads, TypeOK, CopyType
    <3> QED
      BY <1>9, <3>1 DEF Cordons, Uncordons
  <2>3. Fresh'
    BY <1>0, <1>b, <2>1, <2>2, UpdateFresh
  <2>4. \A n \in Machines : current'[n] \subseteq current[n] \ {r}
    BY <1>b, <2>1, <2>2 DEF Update, Write, TypeOK
  <2>5. \A q \in Requests \ {r} : req'[q] = req[q]
    BY <1>9 DEF Cordons, Uncordons, Goto, Return, TypeOK
  <2>6. Reading'
    BY <1>9, <2>4, <2>5 DEF Reading, Cordons, Uncordons, storeVars
  <2> QED
    BY <2>3, <2>6
<1>10. CASE Removes(r)
  <2>1. \A n \in Machines : r \notin current[n]
    BY <1>a, <1>10 DEF Removes
  <2>2. \A n \in Machines : current'[n] = IF n = req[r].node THEN {} ELSE current[n]
    BY <1>10 DEF Removes, TypeOK
  <2>3. \A q \in Requests \ {r} : req'[q] = req[q]
    BY <1>10 DEF Removes, Return, TypeOK
  <2>4. Reading'
    BY <1>10, <2>1, <2>2, <2>3 DEF Reading, Removes, storeVars
  <2>5. Fresh'
    BY <1>10, <2>2 DEF Fresh, Removes
  <2> QED
    BY <2>4, <2>5
<1>11. CASE Fails(r)
  <2>1. \A n \in Machines : current'[n] = current[n] \ {r}
    BY <1>11 DEF Fails
  <2>2. \A q \in Requests \ {r} : req'[q] = req[q]
    BY <1>11 DEF Fails, Return, TypeOK
  <2>3. Reading'
    BY <1>11, <2>1, <2>2 DEF Reading, Fails, storeVars
  <2>4. Fresh'
    BY <1>0, <1>11, <2>1 DEF Fresh, Fails, clusterVars, TypeOK
  <2> QED
    BY <2>3, <2>4
<1> QED
  BY <1>1, <1>2, <1>3, <1>4, <1>5, <1>6, <1>7, <1>8, <1>9, <1>10, <1>11
     DEF Request

LEMMA GoroutineStepFresh ==
  ASSUME TypeOK, Reading, Fresh, NEW k \in DOMAIN task, Goroutine(k)
  PROVE  Reading' /\ Fresh'
<1> USE TasksAreCreates, NodeAssumption
<1>0. k \in Clients /\ k \notin Requests /\ task[k].host \in Machines
  <2>1. task[k] \in Task
    BY ElementOfSeq, LenProperties DEF TypeOK
  <2> QED
    BY <2>1 DEF Task
<1>a. ASSUME task[k].at # "updating" PROVE \A n \in Machines : k \notin current[n]
  BY <1>0, <1>a DEF Reading
<1>b. \A n \in Machines \ {task[k].host} : k \notin current[n]
  BY <1>0 DEF Reading
<1>c. ASSUME NEW at, Moves(k, at)
      PROVE  /\ DOMAIN task' = DOMAIN task
             /\ \A j \in DOMAIN task \ {k} : task'[j] = task[j]
             /\ task'[k].at = at /\ task'[k].host = task[k].host
  <2>1. task[k] \in Task
    BY ElementOfSeq, LenProperties DEF TypeOK
  <2> QED
    BY <1>c, <2>1 DEF Moves, Task
<1>d. ASSUME NEW at, Moves(k, at), UNCHANGED <<req, cordoned, labelled, current, copy>>,
             task[k].at # "updating"
      PROVE  Reading' /\ Fresh'
  BY <1>a, <1>c, <1>d DEF Reading, Fresh
<1>1. CASE Joins(k)
  BY <1>d, <1>1 DEF Joins
<1>2. CASE ProvisioningFails(k)
  BY <1>d, <1>2 DEF ProvisioningFails, objectVars, clusterVars
<1>3. CASE SeesReady(k)
  BY <1>d, <1>3 DEF SeesReady, objectVars, clusterVars
<1>4. CASE ReadsNode(k)
  <2>1. Fresh'
    BY <1>0, <1>a, <1>4, GetFresh DEF ReadsNode
  <2>2. \A n \in Machines : current'[n] \subseteq
            current[n] \cup (IF n = task[k].host THEN {k} ELSE {})
    BY <1>0, <1>4 DEF ReadsNode, Get, TypeOK
  <2>3. Reading'
    BY <1>a, <1>c, <1>4, <2>2 DEF Reading, ReadsNode
  <2> QED
    BY <2>1, <2>3
<1>5. CASE Labels(k)
  <2>1. [Reads(k) EXCEPT !.labelled = TRUE] \in CopyType
    BY <1>0 DEF Reads, TypeOK, CopyType
  <2>2. Fresh'
    BY <1>0, <1>b, <1>5, <2>1, UpdateFresh DEF Labels
  <2>3. \A n \in Machines : current'[n] \subseteq current[n] \ {k}
    BY <1>0, <1>b, <1>5 DEF Labels, Update, Write, TypeOK
  <2>4. Reading'
    BY <1>c, <1>5, <2>3 DEF Reading, Labels
  <2> QED
    BY <2>2, <2>4
<1>6. CASE LabelFails(k)
  <2>1. \A n \in Machines : current'[n] = current[n] \ {k}
    BY <1>6 DEF LabelFails
  <2>2. Reading'
    BY <1>c, <1>6, <2>1 DEF Reading, LabelFails
  <2>3. Fresh'
    BY <1>0, <1>6, <2>1 DEF Fresh, LabelFails, clusterVars, TypeOK
  <2> QED
    BY <2>2, <2>3
<1>7. CASE Provisioned(k)
  BY <1>d, <1>7 DEF Provisioned, objectVars, clusterVars
<1>8. CASE Awakes(k)
  BY <1>d, <1>8 DEF Awakes, objectVars, clusterVars
<1> QED
  BY <1>1, <1>2, <1>3, <1>4, <1>5, <1>6, <1>7, <1>8 DEF Goroutine

LEMMA StepFresh == TypeOK /\ Reading /\ Fresh /\ [Next]_vars => Reading' /\ Fresh'
<1> SUFFICES ASSUME TypeOK, Reading, Fresh, [Next]_vars PROVE Reading' /\ Fresh'
  OBVIOUS
<1>1. ASSUME NEW m \in Machines, BecomesReady(m) \/ FailsToReport(m)
      PROVE  Reading' /\ Fresh'
  <2>1. \A n \in Machines : current'[n] \subseteq current[n]
    BY <1>1 DEF BecomesReady, FailsToReport, TypeOK
  <2> QED
    BY <1>1, <2>1 DEF BecomesReady, FailsToReport, Reading, Fresh, storeVars
<1>2. CASE Crash
  BY <1>2 DEF Crash, Reading, Fresh
<1>3. CASE UNCHANGED vars
  BY <1>3 DEF vars, Reading, Fresh, storeVars, objectVars, clusterVars
<1> QED
  BY <1>1, <1>2, <1>3, RequestStepFresh, GoroutineStepFresh DEF Next

LEMMA InitFresh == Init => Reading /\ Fresh
BY DEF Init, Reading, Fresh

\* What NoLostUpdate says of a step.
KeepsUpdates ==
    \A m \in joined \cap joined' :
        /\ m \in cordoned \ cordoned' =>
              \E r \in Requests : req[r] = [at |-> "uncordoning", node |-> m]
        /\ m \in labelled => m \in labelled'

LEMMA StepKeepsUpdates == TypeOK /\ Fresh /\ Next => KeepsUpdates
<1> SUFFICES ASSUME TypeOK, Fresh, Next PROVE KeepsUpdates
  OBVIOUS
<1> USE NodeAssumption
<1>a. ASSUME UNCHANGED <<cordoned, labelled>> PROVE KeepsUpdates
  BY <1>a DEF KeepsUpdates
<1>1. ASSUME NEW r \in Requests, Request(r) PROVE KeepsUpdates
  <2>0. req[r] \in RequestType /\ copy[r] \in CopyType
    BY DEF TypeOK, RequestType, CopyType
  <2>1. CASE Cordons(r)
    <3>1. req[r].node \in Machines
      BY <2>0, <2>1, Kinds DEF Cordons, Decreasing
    <3>2. r \in current[req[r].node] /\ copy[r].labelled = (req[r].node \in labelled)
      BY <2>1, <3>1 DEF Cordons, Update, Fresh
    <3> QED
      BY <2>0, <2>1, <3>2 DEF Cordons, Update, Write, Put, Reads, KeepsUpdates, CopyType
  <2>2. CASE Uncordons(r)
    <3>1. req[r] = [at |-> "uncordoning", node |-> req[r].node] /\ req[r].node \in Machines
      BY <2>0, <2>2, Kinds DEF Uncordons, Starting
    <3>2. r \in current[req[r].node] /\ copy[r].labelled = (req[r].node \in labelled)
      BY <2>2, <3>1 DEF Uncordons, Update, Fresh
    <3>3. \A m \in cordoned \ cordoned' : m = req[r].node
      BY <2>0, <2>2 DEF Uncordons, Update, Write, Put, Reads, CopyType
    <3>4. labelled \subseteq labelled'
      BY <2>0, <2>2, <3>2 DEF Uncordons, Update, Write, Put, Reads, CopyType
    <3> QED
      BY <3>1, <3>3, <3>4 DEF KeepsUpdates
  <2>3. CASE Removes(r)
    BY <2>3 DEF Removes, KeepsUpdates
  <2>4. CASE ~Cordons(r) /\ ~Uncordons(r) /\ ~Removes(r)
    BY <1>1, <1>a, <2>4 DEF Request, CreateNode, CheckCluster, CheckPending, StoreNode,
       StopNode, DeleteNode, StartNode, DeletePending, CountReady, GetsNode, Fails,
       Begin, Get, objectVars, clusterVars
  <2> QED
    BY <2>1, <2>2, <2>3, <2>4
<1>2. ASSUME NEW k \in DOMAIN task, Goroutine(k) PROVE KeepsUpdates
  <2>1. CASE Labels(k)
    <3>0. k \in Clients /\ task[k].host \in Machines
      <4>1. task[k] \in Task /\ k \in Creates
        BY ElementOfSeq, LenProperties, TasksAreCreates DEF TypeOK
      <4> QED
        BY <4>1 DEF Task
    <3>1. copy[k] \in CopyType
      BY <3>0 DEF TypeOK, CopyType
    <3>2. copy[k].cordoned = (task[k].host \in cordoned)
      BY <2>1, <3>0 DEF Labels, Update, Fresh
    <3> QED
      BY <2>1, <3>1, <3>2 DEF Labels, Update, Write, Put, Reads, KeepsUpdates, CopyType
  <2>2. CASE ~Labels(k)
    BY <1>2, <1>a, <2>2 DEF Goroutine, Joins, ProvisioningFails, SeesReady, ReadsNode,
       LabelFails, Provisioned, Awakes, Get, objectVars, clusterVars
  <2> QED
    BY <2>1, <2>2
<1>3. ASSUME NEW m \in Machines, BecomesReady(m) \/ FailsToReport(m) PROVE KeepsUpdates
  BY <1>3, <1>a DEF BecomesReady, FailsToReport
<1>4. CASE Crash
  BY <1>4, <1>a DEF Crash, clusterVars
<1> QED
  BY <1>1, <1>2, <1>3, <1>4 DEF Next

\* Whatever requests and provisionings read and write a node at the same time, no
\* cordon and no label is lost: the copy each of them writes back is fresh.
THEOREM NoLostUpdateHolds == Spec => NoLostUpdate
<1>1. TypeOK /\ Reading /\ Fresh /\ [Next]_vars => TypeOK' /\ Reading' /\ Fresh'
  BY StepType, StepFresh
<1>2. TypeOK /\ Reading /\ Fresh /\ [Next]_vars => [KeepsUpdates]_vars
  BY StepKeepsUpdates
<1> QED
  BY InitType, InitFresh, <1>1, <1>2, PTL DEF Spec, NoLostUpdate, KeepsUpdates

-----------------------------------------------------------------------------
(* How far below the minimum concurrent requests can go.                   *)

\* The nodes that a request past its check is about to take from the cluster.
Taking(r)    == req[r].at \in {"cordon", "cordoning", "drain", "draining", "delete"}
Leaving      == {req[r].node : r \in {q \in Requests : Taking(q)}}

\* ReadyFloor alone is not inductive: what counts are the nodes no request takes.
SafeFloor ==
    Cardinality(Ready \ Leaving) + failures + Cardinality(Requests) >= minReadyNodes

\* A request takes one node.
LEMMA LeavingBound ==
  /\ IsFiniteSet(Leaving)
  /\ Cardinality(Leaving) <= Cardinality(Requests)
  /\ Cardinality(Leaving) \in Nat /\ Cardinality(Requests) \in Nat
<1> DEFINE Takers == {q \in Requests : Taking(q)}
           taken == [r \in Takers |-> req[r].node]
<1>1. IsFiniteSet(Takers) /\ Cardinality(Takers) <= Cardinality(Requests)
  BY NodeAssumption, FS_Subset, Takers \in SUBSET Requests
<1>2. taken \in Surjection(Takers, Leaving)
  BY DEF Surjection, Leaving
<1>3. IsFiniteSet(Leaving) /\ Cardinality(Leaving) <= Cardinality(Takers)
  BY <1>1, <1>2, FS_Surjection
<1>4. /\ Cardinality(Takers) \in Nat /\ Cardinality(Requests) \in Nat
      /\ Cardinality(Leaving) \in Nat
  BY <1>1, <1>3, NodeAssumption, FS_CardinalityType
<1> QED
  BY <1>1, <1>3, <1>4

LEMMA FiniteNodes ==
  ASSUME NEW S \in SUBSET Machines
  PROVE  IsFiniteSet(S) /\ Cardinality(S) \in Nat
BY NodeAssumption, FS_Subset, FS_CardinalityType

\* Where the Ready nodes that nobody takes grow, the bound survives.
LEMMA FloorGrows ==
  ASSUME TypeOK, TypeOK', SafeFloor, failures' = failures,
         Ready \ Leaving \subseteq Ready' \ Leaving'
  PROVE  SafeFloor'
<1>1. Ready \ Leaving \in SUBSET Machines /\ Ready' \ Leaving' \in SUBSET Machines
  BY DEF TypeOK, Ready
<1>2. /\ Cardinality(Ready \ Leaving) \in Nat /\ Cardinality(Ready' \ Leaving') \in Nat
      /\ Cardinality(Ready \ Leaving) <= Cardinality(Ready' \ Leaving')
  BY <1>1, FiniteNodes, FS_Subset
<1>3. failures \in Nat /\ minReadyNodes \in Nat /\ Cardinality(Requests) \in Nat
  BY NodeAssumption, FS_CardinalityType DEF TypeOK
<1> QED
  BY <1>2, <1>3 DEF SafeFloor

\* A request that has just counted enough may take one of the nodes it counted.
LEMMA FloorCounted ==
  ASSUME TypeOK, Cardinality(Ready) >= minReadyNodes, UNCHANGED <<up, cordoned, failures>>
  PROVE  SafeFloor'
<1>1. Ready \in SUBSET Machines /\ Ready' = Ready
  BY DEF TypeOK, Ready
<1>2. /\ IsFiniteSet(Leaving')
      /\ Cardinality(Leaving') <= Cardinality(Requests)
      /\ Cardinality(Leaving') \in Nat /\ Cardinality(Requests) \in Nat
  <2>1. (/\ IsFiniteSet(Leaving)
         /\ Cardinality(Leaving) <= Cardinality(Requests)
         /\ Cardinality(Leaving) \in Nat /\ Cardinality(Requests) \in Nat)'
    BY LeavingBound, PTL
  <2> QED
    BY <2>1
<1>3. /\ Cardinality(Ready \ Leaving') = Cardinality(Ready) - Cardinality(Ready \cap Leaving')
      /\ Cardinality(Leaving' \cap Ready) <= Cardinality(Leaving')
  BY <1>1, <1>2, FiniteNodes, FS_Difference, FS_Intersection
<1>4. Ready \cap Leaving' = Leaving' \cap Ready
  OBVIOUS
<1>5. /\ Cardinality(Ready) \in Nat /\ Cardinality(Ready \cap Leaving') \in Nat
      /\ failures \in Nat /\ minReadyNodes \in Nat
  BY <1>1, FiniteNodes, NodeAssumption DEF TypeOK
<1>6. Cardinality(Ready \ Leaving') + failures + Cardinality(Requests) >= minReadyNodes
  <2> DEFINE all   == Cardinality(Ready)
             safe  == Cardinality(Ready \ Leaving')
             taken == Cardinality(Ready \cap Leaving')
             most  == Cardinality(Leaving')
             K     == Cardinality(Requests)
  <2>1. /\ all \in Nat /\ taken \in Nat /\ most \in Nat /\ K \in Nat
        /\ failures \in Nat /\ minReadyNodes \in Nat
        /\ all >= minReadyNodes /\ taken <= most /\ most <= K
        /\ safe = all - taken
    BY <1>2, <1>3, <1>4, <1>5
  <2> HIDE DEF all, safe, taken, most, K
  <2>2. safe + failures + K >= minReadyNodes
    BY <2>1
  <2> QED
    BY <2>2 DEF safe, K
<1> QED
  BY <1>1, <1>6 DEF SafeFloor

\* A request stops taking its node.
LEMMA LeavingReturn ==
  ASSUME TypeOK, NEW r \in Requests, Return(r)
  PROVE  Leaving' \subseteq Leaving
BY DEF TypeOK, Leaving, Taking, Return, Idle

\* A request that goes on takes the same node.
LEMMA LeavingGoto ==
  ASSUME TypeOK, NEW r \in Requests, NEW at, Goto(r, at),
         Taking(r) \/ at \notin {"cordon", "cordoning", "drain", "draining", "delete"}
  PROVE  Leaving' \subseteq Leaving
<1>1. ASSUME NEW q \in Requests, Taking(q)'
      PROVE  Taking(q) /\ req'[q].node = req[q].node
  <2>1. CASE q = r
    <3>1. req[r] \in RequestType
      BY DEF TypeOK, RequestType
    <3>2. req'[r] = [req[r] EXCEPT !.at = at] /\ req'[r].at = at
      BY <3>1 DEF TypeOK, Goto, RequestType, Idle, Creating, Counting, Decreasing, Starting
    <3>3. Taking(r)
      BY <1>1, <2>1, <3>2 DEF Taking
    <3>4. req[r] \in Decreasing
      BY <3>1, <3>3, Kinds DEF Taking
    <3> QED
      BY <2>1, <3>2, <3>3, <3>4 DEF Decreasing
  <2>2. CASE q # r
    BY <1>1, <2>2 DEF TypeOK, Goto, Taking
  <2> QED
    BY <2>1, <2>2
<1> QED
  BY <1>1 DEF Leaving

\* A new request takes no node before it has counted.
LEMMA LeavingBegin ==
  ASSUME TypeOK, NEW r \in Requests, NEW first, Begin(r, first),
         first.at \notin {"cordon", "cordoning", "drain", "draining", "delete"}
  PROVE  Leaving' \subseteq Leaving
BY DEF TypeOK, Leaving, Taking, Begin

LEMMA RequestStepFloor ==
  ASSUME TypeOK, TypeOK', SafeFloor, NEW r \in Requests, Request(r)
  PROVE  SafeFloor'
<1>0. req[r] \in RequestType /\ copy[r] \in CopyType
  BY DEF TypeOK, RequestType, CopyType
<1>a. ASSUME Leaving' \subseteq Leaving, up \ cordoned \subseteq up' \ cordoned',
             failures' = failures
      PROVE  SafeFloor'
  BY <1>a, FloorGrows DEF Ready
<1>b. ASSUME Leaving' \subseteq Leaving, UNCHANGED objectVars, UNCHANGED boundVars
      PROVE  SafeFloor'
  BY <1>a, <1>b DEF objectVars, clusterVars, boundVars
<1>c. ASSUME NEW first, Begin(r, first),
             first.at \notin {"cordon", "cordoning", "drain", "draining", "delete"}
      PROVE  SafeFloor'
  BY <1>a, <1>c, LeavingBegin DEF Begin, Arrives, objectVars, clusterVars
<1>1. ASSUME NEW name \in Names \cup {NoName}, NEW host \in Hosts,
             NEW password \in BOOLEAN, CreateNode(r, name, host, password)
      PROVE  SafeFloor'
  BY <1>c, <1>1 DEF CreateNode
<1>2. CASE CheckCluster(r)
  BY <1>b, <1>2, LeavingGoto, LeavingReturn DEF CheckCluster
<1>3. CASE CheckPending(r)
  BY <1>b, <1>3, LeavingGoto, LeavingReturn DEF CheckPending
<1>4. CASE StoreNode(r)
  BY <1>b, <1>4, LeavingReturn DEF StoreNode
<1>5. ASSUME NEW m \in Machines, StopNode(r, m) PROVE SafeFloor'
  BY <1>5, FloorCounted DEF StopNode, Begin, Arrives, objectVars, clusterVars
<1>6. ASSUME NEW m \in Machines, DeleteNode(r, m) \/ StartNode(r, m) PROVE SafeFloor'
  BY <1>c, <1>6 DEF DeleteNode, StartNode
<1>7. ASSUME NEW i \in Ids, DeletePending(r, i) PROVE SafeFloor'
  <2>1. Leaving' = Leaving
    BY <1>7 DEF DeletePending, Leaving, Taking
  <2> QED
    BY <1>a, <1>7, <2>1 DEF DeletePending, Arrives, objectVars, clusterVars
<1>8. CASE CountReady(r)
  <2>1. CASE Cardinality(Ready) >= minReadyNodes
    BY <1>8, <2>1, FloorCounted DEF CountReady, objectVars, clusterVars, boundVars
  <2>2. CASE ~(Cardinality(Ready) >= minReadyNodes)
    BY <1>b, <1>8, <2>2, LeavingReturn DEF CountReady
  <2> QED
    BY <2>1, <2>2
<1>9. CASE GetsNode(r)
  <2>1. Leaving' \subseteq Leaving
    BY <1>9, LeavingGoto DEF GetsNode, Taking
  <2> QED
    BY <1>a, <1>9, <2>1 DEF GetsNode, Get, clusterVars, boundVars
<1>10. CASE Cordons(r)
  <2>1. Leaving' \subseteq Leaving
    BY <1>10, LeavingGoto, LeavingReturn DEF Cordons, Taking
  <2>2. req[r].node \in Leaving
    BY <1>10 DEF Cordons, Leaving, Taking
  <2>3. cordoned' = cordoned \cup {req[r].node} /\ up' = up /\ failures' = failures
    BY <1>0, <1>10 DEF Cordons, Update, Write, Put, Reads, CopyType, boundVars
  <2> QED
    BY <2>1, <2>2, <2>3, FloorGrows DEF Ready
<1>11. CASE Uncordons(r)
  <2>1. Leaving' \subseteq Leaving
    BY <1>11, LeavingReturn DEF Uncordons
  <2>2. cordoned' = cordoned \ {req[r].node} /\ up' = up /\ failures' = failures
    BY <1>0, <1>11 DEF Uncordons, Update, Write, Put, Reads, CopyType, boundVars
  <2> QED
    BY <1>a, <2>1, <2>2
<1>12. CASE Removes(r)
  <2>1. Leaving' \subseteq Leaving
    BY <1>12, LeavingReturn DEF Removes
  <2>2. req[r].node \in Leaving
    BY <1>12 DEF Removes, Leaving, Taking
  <2>3. /\ up' = up \ {req[r].node} /\ cordoned' = cordoned \ {req[r].node}
        /\ failures' = failures
    BY <1>12 DEF Removes, boundVars
  <2> QED
    BY <2>1, <2>2, <2>3, FloorGrows DEF Ready
<1>13. CASE Fails(r)
  BY <1>a, <1>13, LeavingReturn DEF Fails, clusterVars, boundVars
<1> QED
  BY <1>1, <1>2, <1>3, <1>4, <1>5, <1>6, <1>7, <1>8, <1>9, <1>10, <1>11, <1>12, <1>13
     DEF Request

\* A goroutine leaves the requests alone, and its label update the cordon.
LEMMA GoroutineStepFloor ==
  ASSUME TypeOK, TypeOK', Fresh, SafeFloor, NEW k \in DOMAIN task, Goroutine(k)
  PROVE  SafeFloor'
<1>1. req' = req /\ failures' = failures /\ up' = up
  BY DEF Goroutine, Joins, ProvisioningFails, SeesReady, ReadsNode, Labels, LabelFails,
     Provisioned, Awakes, Get, Update, Write, objectVars, clusterVars, boundVars
<1>2. cordoned' = cordoned
  <2>1. CASE Labels(k)
    <3>1. k \in Clients /\ task[k].host \in Machines
      <4>1. task[k] \in Task /\ k \in Creates
        BY ElementOfSeq, LenProperties, TasksAreCreates DEF TypeOK
      <4> QED
        BY <4>1 DEF Task
    <3>2. copy[k] \in CopyType /\ copy[k].cordoned = (task[k].host \in cordoned)
      BY <2>1, <3>1 DEF TypeOK, CopyType, Labels, Update, Fresh
    <3> QED
      BY <2>1, <3>2 DEF Labels, Update, Write, Put, Reads, CopyType
  <2>2. CASE ~Labels(k)
    BY <2>2 DEF Goroutine, Joins, ProvisioningFails, SeesReady, ReadsNode, LabelFails,
       Provisioned, Awakes, Get, objectVars, clusterVars
  <2> QED
    BY <2>1, <2>2
<1>3. Leaving' = Leaving /\ Ready' = Ready
  BY <1>1, <1>2 DEF Leaving, Taking, Ready
<1> QED
  BY <1>1, <1>3, FloorGrows

LEMMA FailureFloor ==
  ASSUME TypeOK, SafeFloor, NEW m \in Machines, FailsToReport(m)
  PROVE  SafeFloor'
<1> DEFINE S == Ready \ Leaving
<1>1. /\ S \in SUBSET Machines
      /\ (Ready \ Leaving)' = S \ {m}
      /\ failures' = failures + 1
  BY DEF TypeOK, Ready, Leaving, Taking, FailsToReport
<1>2. /\ IsFiniteSet(S) /\ Cardinality(S) \in Nat
      /\ Cardinality(S \ {m}) = IF m \in S THEN Cardinality(S) - 1 ELSE Cardinality(S)
  BY <1>1, FiniteNodes, FS_RemoveElement
<1>3. failures \in Nat /\ minReadyNodes \in Nat /\ Cardinality(Requests) \in Nat
  BY NodeAssumption, FS_CardinalityType DEF TypeOK
<1>4. Cardinality(S) + failures + Cardinality(Requests) >= minReadyNodes
  BY DEF SafeFloor
<1>5. Cardinality(S \ {m}) + (failures + 1) + Cardinality(Requests) >= minReadyNodes
  BY <1>2, <1>3, <1>4
<1> QED
  BY <1>1, <1>5 DEF SafeFloor

LEMMA StepFloor == TypeOK /\ TypeOK' /\ Fresh /\ SafeFloor /\ [Next]_vars => SafeFloor'
<1> SUFFICES ASSUME TypeOK, TypeOK', Fresh, SafeFloor, [Next]_vars PROVE SafeFloor'
  OBVIOUS
<1>1. ASSUME NEW m \in Machines, BecomesReady(m) PROVE SafeFloor'
  <2>1. Ready \subseteq Ready' /\ Leaving' = Leaving /\ failures' = failures
    BY <1>1 DEF BecomesReady, Ready, Leaving, Taking, boundVars
  <2> QED
    BY <2>1, FloorGrows
<1>2. CASE Crash
  <2>1. Ready' = Ready /\ Leaving' = {} /\ failures' = failures
    BY <1>2 DEF Crash, Ready, Leaving, Taking, Idle, clusterVars
  <2> QED
    BY <2>1, FloorGrows
<1>3. CASE UNCHANGED vars
  <2>1. Ready' = Ready /\ Leaving' = Leaving /\ failures' = failures
    BY <1>3 DEF vars, Ready, Leaving, Taking, objectVars, clusterVars, boundVars
  <2> QED
    BY <2>1, FloorGrows
<1> QED
  BY <1>1, <1>2, <1>3, RequestStepFloor, GoroutineStepFloor, FailureFloor DEF Next

LEMMA InitFloor == Init => SafeFloor
<1> SUFFICES ASSUME Init PROVE SafeFloor
  OBVIOUS
<1>1. Ready = Members /\ Leaving = {} /\ failures = 0
  BY DEF Init, Ready, Leaving, Taking, Idle
<1>2. Ready \ Leaving = Members
  BY <1>1
<1>3. Cardinality(Members) \in Nat /\ Cardinality(Requests) \in Nat
  BY NodeAssumption, FiniteNodes, FS_CardinalityType
<1> QED
  BY <1>1, <1>2, <1>3, NodeAssumption DEF SafeFloor

LEMMA FloorFollows == TypeOK /\ SafeFloor => ReadyFloor
<1> SUFFICES ASSUME TypeOK, SafeFloor PROVE ReadyFloor
  OBVIOUS
<1>1. Ready \in SUBSET Machines
  BY DEF TypeOK, Ready
<1>2. /\ Cardinality(Ready \ Leaving) <= Cardinality(Ready)
      /\ Cardinality(Ready \ Leaving) \in Nat /\ Cardinality(Ready) \in Nat
  BY <1>1, FiniteNodes, FS_Subset, Ready \ Leaving \in SUBSET Ready
<1>3. failures \in Nat /\ minReadyNodes \in Nat /\ Cardinality(Requests) \in Nat
  BY NodeAssumption, FS_CardinalityType DEF TypeOK
<1> QED
  BY <1>2, <1>3 DEF SafeFloor, ReadyFloor

\* However many stop and delete requests run at once, in whatever order they count,
\* cordon, fail and delete, they take the Ready nodes at most their own number below
\* the minimum that each of them has checked.
THEOREM ReadyFloorHolds == Spec => []ReadyFloor
<1>1. /\ TypeOK /\ Reading /\ Fresh /\ SafeFloor /\ [Next]_vars
      => TypeOK' /\ Reading' /\ Fresh' /\ SafeFloor'
  BY StepType, StepFresh, StepFloor
<1> QED
  BY InitType, InitFresh, InitFloor, FloorFollows, <1>1, PTL DEF Spec

\* One request at a time keeps the rule itself.
THEOREM KeepsMinimumWhenSerial ==
  ASSUME Cardinality(Requests) = 1
  PROVE  Spec => []KeepsMinimum
<1>1. TypeOK /\ ReadyFloor => KeepsMinimum
  <2> SUFFICES ASSUME TypeOK, ReadyFloor PROVE KeepsMinimum
    OBVIOUS
  <2>1. Cardinality(Ready) \in Nat
    BY FiniteNodes DEF TypeOK, Ready
  <2> QED
    BY <2>1, NodeAssumption DEF ReadyFloor, KeepsMinimum, TypeOK
<1> QED
  BY <1>1, NodesTypeCorrect, ReadyFloorHolds, PTL

-----------------------------------------------------------------------------
(* Pending nodes have a goroutine.                                         *)

\* Two nodes of the store have the same ID only if it collided.
UniqueIds ==
    \A j, k \in DOMAIN entry :
        entry[j].id = entry[k].id => j = k \/ entry[j].id \in collided

PendInv == UniqueIds /\ PendingIsWorkedOn

LEMMA DropsKeepPending ==
  ASSUME PendInv, NEW i, entry' = Without(i), UNCHANGED <<task, collided>>
  PROVE  PendInv'
<1>1. /\ DOMAIN entry' \subseteq DOMAIN entry
      /\ \A k \in DOMAIN entry' : entry'[k] = entry[k]
  BY DEF Without
<1> QED
  BY <1>1 DEF PendInv, UniqueIds, PendingIsWorkedOn

\* Without collision, an ID has one entry and it is the first.
LEMMA FirstIsOnly ==
  ASSUME TypeOK, UniqueIds, NEW k \in DOMAIN entry, entry[k].id \notin collided
  PROVE  First(entry[k].id) = k
<1>1. Named(entry[k].id) = {k}
  BY DEF UniqueIds, Named
<1>2. k <= k
  BY NodeAssumption DEF TypeOK
<1> QED
  BY <1>1, <1>2 DEF First

\* The goroutine that settles ID i may end.
LEMMA SettledKeepsPending ==
  ASSUME TypeOK, PendInv, NEW k \in DOMAIN task, Moves(k, "ended"), collided' = collided,
         \/ entry' = Without(task[k].id)
         \/ \E s \in {"Error", "Ready"} : entry' = WithStatus(task[k].id, s)
  PROVE  PendInv'
<1>1. PICK some \in SUBSET Creates : entry \in [some -> Entry]
  BY DEF TypeOK
<1>2. /\ DOMAIN entry' \subseteq DOMAIN entry
      /\ \A j \in DOMAIN entry' :
            /\ entry'[j].id = entry[j].id
            /\ entry'[j].status = "Pending" => entry[j].status = "Pending"
  BY <1>1 DEF Without, WithStatus, Entry
<1>3. UniqueIds'
  BY <1>2 DEF PendInv, UniqueIds
<1>4. ASSUME NEW j \in DOMAIN entry', entry'[j].status = "Pending",
             entry[j].id \notin collided
      PROVE  entry[j].id # task[k].id
  <2>1. j \in DOMAIN entry /\ First(entry[j].id) = j
    BY <1>2, <1>4, FirstIsOnly DEF PendInv
  <2>2. Named(entry[j].id) # {}
    BY <2>1 DEF Named
  <2> QED
    BY <1>1, <1>4, <2>1, <2>2 DEF Without, WithStatus, Entry
<1>5. task \in Seq(Task) /\ \A j \in DOMAIN task \ {k} : task'[j] = task[j]
  BY DEF TypeOK, Moves
<1>6. DOMAIN task' = DOMAIN task
  BY DEF Moves
<1>7. PendingIsWorkedOn'
  <2> SUFFICES ASSUME NEW j \in DOMAIN entry', entry'[j].status = "Pending",
                      entry[j].id \notin collided
               PROVE  \E t \in DOMAIN task' : task'[t].at # "ended"
                                               /\ task'[t].id = entry'[j].id
    BY <1>2 DEF PendingIsWorkedOn
  <2>1. PICK t \in DOMAIN task : task[t].at # "ended" /\ task[t].id = entry[j].id
    BY <1>2 DEF PendInv, PendingIsWorkedOn
  <2> QED
    BY <1>2, <1>4, <1>5, <1>6, <2>1
<1> QED
  BY <1>3, <1>7 DEF PendInv

LEMMA MovesKeepPending ==
  ASSUME TypeOK, PendInv, NEW k \in DOMAIN task, UNCHANGED <<entry, collided>>,
         \/ Moves(k, "waiting") \/ Moves(k, "labelling") \/ Moves(k, "updating")
         \/ Moves(k, "hardening")
  PROVE  PendInv'
<1>1. task[k] \in Task
  BY ElementOfSeq, LenProperties DEF TypeOK
<1>2. /\ DOMAIN task' = DOMAIN task
      /\ \A j \in DOMAIN task : /\ task'[j].id = task[j].id
                                /\ task[j].at # "ended" => task'[j].at # "ended"
  BY <1>1 DEF Moves, Task
<1> QED
  BY <1>2 DEF PendInv, UniqueIds, PendingIsWorkedOn

LEMMA StoreNodeKeepsPending ==
  ASSUME TypeOK, PendInv, NEW r \in Requests, StoreNode(r)
  PROVE  PendInv'
<1> DEFINE n == Len(task) + 1
           i == NewId(req[r].name)
<1>1. task \in Seq(Task) /\ DOMAIN entry \subseteq DOMAIN task /\ n \notin DOMAIN task
  BY DEF TypeOK
<1>2. /\ DOMAIN task' = DOMAIN task \cup {n}
      /\ \A j \in DOMAIN task : task'[j] = task[j]
      /\ task'[n].id = i /\ task'[n].at # "ended"
  BY <1>1 DEF StoreNode
<1>3. /\ DOMAIN entry' = DOMAIN entry \cup {n}
      /\ \A j \in DOMAIN entry : entry'[j] = entry[j]
      /\ entry'[n].id = i
  BY <1>1 DEF StoreNode
<1>4. /\ collided \subseteq collided'
      /\ (\E j \in DOMAIN entry : entry[j].id = i) => i \in collided'
  BY DEF StoreNode, Named
<1>5. UniqueIds'
  BY <1>1, <1>3, <1>4 DEF PendInv, UniqueIds
<1>6. PendingIsWorkedOn'
  BY <1>1, <1>2, <1>3, <1>4 DEF PendInv, PendingIsWorkedOn
<1> QED
  BY <1>5, <1>6 DEF PendInv

LEMMA StepPending == TypeOK /\ PendInv /\ [Next]_vars => PendInv'
<1> SUFFICES ASSUME TypeOK, PendInv, [Next]_vars PROVE PendInv'
  OBVIOUS
<1>a. ASSUME UNCHANGED storeVars PROVE PendInv'
  BY <1>a DEF storeVars, PendInv, UniqueIds, PendingIsWorkedOn
<1>1. ASSUME NEW r \in Requests, Request(r) PROVE PendInv'
  <2>1. CASE StoreNode(r)
    BY <2>1, StoreNodeKeepsPending
  <2>2. ASSUME NEW i \in Ids, DeletePending(r, i) PROVE PendInv'
    BY <2>2, DropsKeepPending DEF DeletePending
  <2>3. CASE ~StoreNode(r) /\ ~ \E i \in Ids : DeletePending(r, i)
    <3>1. UNCHANGED storeVars
      BY <1>1, <2>3 DEF Request, CreateNode, CheckCluster, CheckPending, StopNode,
         DeleteNode, StartNode, CountReady, GetsNode, Cordons, Uncordons, Removes,
         Fails, Begin
    <3> QED
      BY <1>a, <3>1
  <2> QED
    BY <2>1, <2>2, <2>3
<1>2. ASSUME NEW k \in DOMAIN task, Goroutine(k) PROVE PendInv'
  <2>1. CASE ProvisioningFails(k) \/ Provisioned(k) \/ Awakes(k)
    BY <2>1, SettledKeepsPending DEF ProvisioningFails, Provisioned, Awakes
  <2>2. CASE Joins(k) \/ SeesReady(k) \/ ReadsNode(k) \/ Labels(k) \/ LabelFails(k)
    BY <2>2, MovesKeepPending DEF Joins, SeesReady, ReadsNode, Labels, LabelFails
  <2> QED
    BY <1>2, <2>1, <2>2 DEF Goroutine
<1>3. ASSUME NEW m \in Machines, BecomesReady(m) \/ FailsToReport(m) PROVE PendInv'
  BY <1>3, <1>a DEF BecomesReady, FailsToReport
<1>4. CASE Crash
  BY <1>4 DEF Crash, PendInv, UniqueIds, PendingIsWorkedOn
<1>5. CASE UNCHANGED vars
  BY <1>5, <1>a DEF vars
<1> QED
  BY <1>1, <1>2, <1>3, <1>4, <1>5 DEF Next

LEMMA InitPending == Init => PendInv
BY DEF Init, PendInv, UniqueIds, PendingIsWorkedOn

\* A node that is shown as pending has a goroutine working on it, however creates,
\* deletes and re-creates of its name interleave, unless its ID was given twice.
THEOREM PendingIsWorkedOnHolds == Spec => []PendingIsWorkedOn
<1>1. TypeOK /\ PendInv /\ [Next]_vars => TypeOK' /\ PendInv'
  BY StepType, StepPending
<1>2. PendInv => PendingIsWorkedOn
  BY DEF PendInv
<1> QED
  BY InitType, InitPending, <1>1, <1>2, PTL DEF Spec
=============================================================================
