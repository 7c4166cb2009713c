-------------------------- MODULE Projects_proofs --------------------------
(***************************************************************************)
(* Theorems about Projects, for any names, paths, workloads, requests and  *)
(* failures: the requests first, then the agents, the projects and the     *)
(* boards.  A step moves one request, by one of the handlers of its        *)
(* operation; Alone says when another may be at work on the same name.     *)
(***************************************************************************)
EXTENDS Projects, SequenceTheorems, FiniteSetTheorems, WellFoundedInduction, TLAPS

-----------------------------------------------------------------------------
(* Sequences. *)

\* The least of some numbers.
LEMMA LeastNatural ==
  ASSUME NEW T \in SUBSET Nat, T # {}
  PROVE  Min(T) \in T /\ \A m \in T : Min(T) <= m
<1> DEFINE Less == {ss \in Nat \X Nat : ss[1] < ss[2]}
<1>1. IsWellFoundedOn(Less, Nat)
  BY NatLessThanWellFounded DEF OpToRel
<1> HIDE DEF Less
<1>2. PICK k \in T : \A m \in T : ~(<<m, k>> \in Less)
  BY <1>1, WFMin
<1>3. \A m \in T : m < k => <<m, k>> \in Less
  BY DEF Less
<1>4. ASSUME NEW m \in T PROVE k <= m
  <2>1. ~(m < k)
    BY <1>2, <1>3
  <2>2. m \in Nat /\ k \in Nat
    OBVIOUS
  <2> QED
    BY <2>1, <2>2
<1> QED
  BY <1>4 DEF Min

\* What remains of a sequence without the element in one place.
LEMMA Removed ==
  ASSUME NEW S, NEW s \in Seq(S), NEW i \in 1 .. Len(s)
  PROVE  /\ RemoveAt(s, i) \in Seq(S)
         /\ Len(RemoveAt(s, i)) = Len(s) - 1
         /\ \A j \in 1 .. Len(s) - 1 : RemoveAt(s, i)[j] = s[IF j < i THEN j ELSE j + 1]
<1>0. Len(s) \in Nat /\ \A j \in 1 .. Len(s) : s[j] \in S
  BY LenProperties, ElementOfSeq
<1> DEFINE a == SubSeq(s, 1, i - 1)
           b == SubSeq(s, i + 1, Len(s))
<1>1. a \in Seq(S) /\ Len(a) = i - 1 /\ \A j \in 1 .. i - 1 : a[j] = s[j]
  <2>1. \A j \in 1 .. i - 1 : s[j] \in S
    BY <1>0
  <2> QED
    BY <1>0, <2>1, SubSeqProperties
<1>2. b \in Seq(S) /\ Len(b) = Len(s) - i /\ \A j \in 1 .. Len(s) - i : b[j] = s[i + j]
  <2>1. \A j \in i + 1 .. Len(s) : s[j] \in S
    BY <1>0
  <2> QED
    BY <1>0, <2>1, SubSeqProperties
<1> HIDE DEF a, b
<1>3. /\ a \o b \in Seq(S) /\ Len(a \o b) = Len(s) - 1
      /\ \A j \in 1 .. Len(s) - 1 : (a \o b)[j] = IF j < i THEN a[j] ELSE b[j - (i - 1)]
  <2>1. /\ a \o b \in Seq(S) /\ Len(a \o b) = Len(a) + Len(b)
        /\ \A j \in 1 .. Len(a) + Len(b) : (a \o b)[j] = IF j <= Len(a) THEN a[j] ELSE b[j - Len(a)]
    BY <1>1, <1>2, ConcatProperties
  <2> QED
    BY <1>0, <1>1, <1>2, <2>1
<1>4. RemoveAt(s, i) = a \o b
  BY DEF RemoveAt, a, b
<1>5. ASSUME NEW j \in 1 .. Len(s) - 1 PROVE (a \o b)[j] = s[IF j < i THEN j ELSE j + 1]
  <2>1. CASE j < i
    BY <1>0, <1>1, <1>3, <2>1
  <2>2. CASE ~(j < i)
    <3>1. j - (i - 1) \in 1 .. Len(s) - i /\ i + (j - (i - 1)) = j + 1
      BY <1>0, <2>2
    <3> QED
      BY <1>2, <1>3, <2>2, <3>1
  <2> QED
    BY <2>1, <2>2
<1> QED
  BY <1>3, <1>4, <1>5
-----------------------------------------------------------------------------
(* Requests: where they can be, what they remember there, and whom they    *)
(* work with.                                                              *)

Final        == {"done", "refused"}
Replies      == {"agentDone", "agentRefused"}
CreatePoints == {"claim", "config", "secret", "cert", "pod"}
DropPoints   == {"dropClaim", "dropConfig", "dropSecret", "dropCert", "dropTls"}
AgentPoints  == {"exists", "stopPod", "deletePod", "readConfig", "writeConfig", "readPod"}
                \cup CreatePoints \cup DropPoints
BoardPoints  == BoardOps \cup {"activate", "encode"}
ProjectPoints == {"ide", "board", "find", "dropProject"} \cup Replies
Points == {"idle"} \cup Final \cup AgentPoints \cup BoardPoints \cup IdeOps \cup ProjectPoints

Operation == [does : DOMAIN AgentOps \cup BoardOps \cup IdeOps \cup Compound,
              name : Names \cup Paths \cup Nat \cup Patch \cup {Nothing},
              item : Nat \cup (Nat \X Nat) \cup {Nothing}]

\* A request is served by the handler of its operation.
Placed(r) ==
    /\ at[r] = "idle" <=> op[r] = Nothing
    /\ at[r] \in {"idle", "ide"} => seen[r] = Nothing
    /\ at[r] \in AgentPoints \cup {"ide", "board"} \cup Replies => op[r].name \in Names
    /\ at[r] \in CreatePoints => op[r].does \in {"createAgent", "startAgent", "createProject"}
    /\ at[r] = "exists" => op[r].does = "startAgent"
    /\ at[r] = "stopPod" => op[r].does = "stopAgent"
    /\ at[r] \in DropPoints \cup {"deletePod"} => op[r].does \in {"deleteAgent", "deleteProject"}
    /\ at[r] \in {"readConfig", "writeConfig", "readPod"} => op[r].does = "configureAgent"
    /\ at[r] \in {"ide", "board"} => op[r].does = "createProject"
    /\ at[r] \in Replies => op[r].does \in Compound
    /\ at[r] \in {"find", "dropProject"} => op[r].does = "deleteProject" /\ op[r].name = Nothing
    /\ at[r] \in BoardPoints =>
           /\ op[r].item \in Nat \X Nat /\ op[r].name = op[r].item[1]
           /\ at[r] \in BoardOps => op[r].does = at[r]
           /\ at[r] = "activate" => op[r].does = "sendCard"
           /\ at[r] = "encode" => op[r].does = "readBoard"
    /\ at[r] \in IdeOps =>
           /\ op[r].does = at[r] /\ op[r].item \in Nat
           /\ at[r] = "newIdeProject" => op[r].name \in Names
           /\ at[r] = "patchProject" => op[r].name \in Patch
           /\ at[r] \in {"putFile", "deleteFile", "renameFile"} => op[r].name \in Paths
    /\ op[r] # Nothing /\ op[r].does = "deleteProject" => op[r].item \in Nat

MadeIds == [id : Nat, board : Nat]

RequestTypes ==
    /\ workload \in Workloads
    /\ at \in [Requests -> Points]
    /\ op \in [Requests -> Operation \cup {Nothing}]

\* What a step of r leaves to the other requests.
Only(r) ==
    /\ \A s \in Requests \ {r} : at'[s] = at[s] /\ op'[s] = op[s]
    /\ overlapped \subseteq overlapped' /\ failed \subseteq failed' /\ workload' = workload

-----------------------------------------------------------------------------
LEMMA Domains ==
    /\ DOMAIN AgentOps = {"createAgent", "startAgent", "stopAgent", "deleteAgent", "configureAgent"}
    /\ DOMAIN AfterObject = {"claim", "config", "secret", "cert"}
    /\ DOMAIN DropOf = DropPoints
    /\ DOMAIN ProjectOps = Compound
BY DEF AgentOps, AfterObject, DropOf, DropPoints, ProjectOps, Compound

LEMMA FirstCalls ==
    /\ AgentOps["createAgent"] = "claim" /\ AgentOps["startAgent"] = "exists"
    /\ AgentOps["stopAgent"] = "stopPod" /\ AgentOps["deleteAgent"] = "deletePod"
    /\ AgentOps["configureAgent"] = "readConfig"
    /\ AfterObject["claim"] = "config" /\ AfterObject["config"] = "secret"
    /\ AfterObject["secret"] = "cert" /\ AfterObject["cert"] = "pod"
    /\ ProjectOps["createProject"] = "ide" /\ ProjectOps["deleteProject"] = "find"
BY DEF AgentOps, AfterObject, ProjectOps

\* The operations of a workload are of the kinds that handlers serve.
LEMMA Asked ==
    ASSUME workload \in Workloads, NEW o \in workload
    PROVE  /\ o \in Operation /\ o # Nothing
           /\ o.does \in DOMAIN AgentOps => o.name \in Names
           /\ o.does \in BoardOps => o.item \in Nat \X Nat /\ o.name = o.item[1]
           /\ o.does = "createProject" => o.name \in Names
           /\ o.does = "deleteProject" => o.name = Nothing /\ o.item \in Nat
           /\ o.does \in IdeOps =>
                  /\ o.item \in Nat
                  /\ o.does = "newIdeProject" => o.name \in Names
                  /\ o.does = "patchProject" => o.name \in Patch
                  /\ o.does \in {"putFile", "deleteFile", "renameFile"} => o.name \in Paths
<1>1. WellFormed(o) /\ o # Nothing
  BY OperationsAssumption, NothingAssumption
<1> QED
  BY <1>1, Domains DEF WellFormed, Operation, BoardOps, IdeOps, Compound

-----------------------------------------------------------------------------
(* One lemma per way in which a call ends.                                 *)

LEMMA BeginOnly ==
    ASSUME RequestTypes, NEW r \in Requests, NEW o \in workload, NEW first \in Points,
           Begin(r, o, first)
    PROVE  /\ RequestTypes' /\ Only(r) /\ at[r] = "idle"
           /\ at'[r] = first /\ op'[r] = o /\ seen' = seen
           /\ overlapped' = overlapped \cup Shared(r, o.name) /\ failed' = failed
           /\ trouble' = trouble \cup Shared(r, o.name)
<1>1. o \in Operation
  BY Asked DEF RequestTypes
<1> QED
  BY <1>1 DEF RequestTypes, Begin, Only, trouble

LEMMA ProceedOnly ==
    ASSUME RequestTypes, NEW r \in Requests, NEW next \in Points, Proceed(r, next)
    PROVE  /\ RequestTypes' /\ Only(r) /\ at'[r] = next /\ op' = op
           /\ overlapped' = overlapped /\ failed' = failed /\ trouble' = trouble
BY DEF RequestTypes, Proceed, Only, trouble

LEMMA FailOnly ==
    ASSUME RequestTypes, NEW r \in Requests, NEW next \in Points, Fail(r, next)
    PROVE  /\ RequestTypes' /\ Only(r) /\ at'[r] = next /\ op' = op
           /\ overlapped' = overlapped /\ failed' = failed \cup {op[r].name}
           /\ trouble' = trouble \cup {op[r].name}
BY DEF RequestTypes, Fail, Only, trouble

Answers(r) == at[r] \in DropPoints => seen[r] \in [answer : Final]

RInv ==
    /\ RequestTypes /\ DOMAIN seen = Requests
    /\ \A r \in Requests : Placed(r) /\ Answers(r)

\* What every handler does to the requests.
Serve(r) ==
    /\ RequestTypes' /\ Only(r) /\ Placed(r)' /\ Answers(r)'
    /\ DOMAIN seen' = Requests
    /\ \A s \in Requests \ {r} : seen'[s] = seen[s]

(* The handlers, by their part of the API.                                 *)

Begins(r) == AgentRequest(r) \/ BoardRequest(r) \/ IdeRequest(r) \/ ProjectRequest(r)

AgentStep(r) ==
    \/ CheckStopped(r) \/ CreateObject(r) \/ CreatePod(r) \/ RemovePod(r)
    \/ CleanUp(r) \/ ReadConfig(r) \/ WriteConfig(r) \/ ReadPod(r)

BoardStep(r) ==
    \/ boardMissing(r) \/ createBoard(r) \/ renameBoard(r)
    \/ createCard(r) \/ updateCard(r) \/ deleteCard(r) \/ sendCard(r) \/ activate(r)
    \/ createEdge(r) \/ updateEdge(r) \/ deleteEdge(r)
    \/ getBoard(r) \/ encode(r)

ProjectStep(r) ==
    \/ ideCreate(r) \/ ideUpdate(r) \/ ideDelete(r)
    \/ putFile(r) \/ deleteFile(r) \/ renameFile(r)
    \/ CreateIde(r) \/ CreateBoard(r) \/ LinkAll(r) \/ DropProject(r)

LEMMA Steps ==
    ASSUME [ProjectsNext]_projectVars
    PROVE  \/ UNCHANGED <<requestVars, boardVars, ideVars>> /\ (Cluster \/ UNCHANGED podVars)
           \/ \E r \in Requests :
                 \/ Begins(r) /\ UNCHANGED <<podVars, boardVars, ideVars>>
                 \/ AgentStep(r) /\ UNCHANGED <<boardVars, ideVars>>
                 \/ BoardStep(r) /\ UNCHANGED <<podVars, ideVars>>
                 \/ ProjectStep(r) /\ UNCHANGED podVars
                 \/ FindProject(r) /\ UNCHANGED <<podVars, boardVars, ideVars>>
<1>1. CASE Cluster /\ UNCHANGED <<boardVars, ideVars>>
  BY <1>1 DEF Cluster, PodStarts, PodEnds, ClaimGoes, IssueTls
<1>2. ASSUME NEW r \in Requests, AgentHandlers(r), UNCHANGED <<boardVars, ideVars>>
      PROVE  \/ Begins(r) /\ UNCHANGED <<podVars, boardVars, ideVars>>
             \/ AgentStep(r) /\ UNCHANGED <<boardVars, ideVars>>
  <2>1. AgentRequest(r) => UNCHANGED podVars
    BY DEF AgentRequest
  <2> QED
    BY <1>2, <2>1 DEF AgentHandlers, Begins, AgentStep
<1>3. ASSUME NEW r \in Requests, BoardHandlers(r), UNCHANGED <<podVars, ideVars>>
      PROVE  \/ Begins(r) /\ UNCHANGED <<podVars, boardVars, ideVars>>
             \/ BoardStep(r) /\ UNCHANGED <<podVars, ideVars>>
  <2>1. BoardRequest(r) => UNCHANGED boardVars
    BY DEF BoardRequest
  <2> QED
    BY <1>3, <2>1 DEF BoardHandlers, Begins, BoardStep
<1>4. ASSUME NEW r \in Requests, ProjectHandlers(r)
      PROVE  \/ Begins(r) /\ UNCHANGED <<podVars, boardVars, ideVars>>
             \/ ProjectStep(r) /\ UNCHANGED podVars
             \/ FindProject(r) /\ UNCHANGED <<podVars, boardVars, ideVars>>
  <2>1. CASE IdeRequest(r) \/ ProjectRequest(r)
    BY <2>1 DEF IdeRequest, ProjectRequest, Begins
  <2>2. CASE ProjectStep(r)
    <3>1. UNCHANGED podVars
      BY <2>2 DEF ProjectStep, ideCreate, ideUpdate, ideDelete, putFile, deleteFile,
                  renameFile, CreateIde, CreateBoard, LinkAll, DropProject, AtIde
    <3> QED
      BY <2>2, <3>1
  <2>3. CASE FindProject(r)
    BY <2>3 DEF FindProject, AtIde
  <2> QED
    BY <1>4, <2>1, <2>2, <2>3 DEF ProjectHandlers, ProjectStep
<1>5. CASE UNCHANGED projectVars
  BY <1>5 DEF projectVars
<1> QED
  BY <1>1, <1>2, <1>3, <1>4, <1>5 DEF ProjectsNext

LEMMA RequestServes ==
    ASSUME RInv, NEW r \in Requests, Begins(r)
    PROVE  Serve(r)
<1> USE DEF RInv, Serve, Begins
<1>1. CASE AgentRequest(r)
  <2>1. PICK o \in workload : o.does \in DOMAIN AgentOps /\ Begin(r, o, AgentOps[o.does])
    BY <1>1 DEF AgentRequest
  <2>2. /\ AgentOps[o.does] \in {"claim", "exists", "stopPod", "deletePod", "readConfig"}
        /\ AgentOps[o.does] = "claim" => o.does = "createAgent"
        /\ AgentOps[o.does] = "exists" => o.does = "startAgent"
        /\ AgentOps[o.does] = "stopPod" => o.does = "stopAgent"
        /\ AgentOps[o.does] = "deletePod" => o.does = "deleteAgent"
        /\ AgentOps[o.does] = "readConfig" => o.does = "configureAgent"
        /\ o.does # "deleteProject"
    BY <2>1, Domains, FirstCalls
  <2>3. AgentOps[o.does] \in Points
    BY <2>2 DEF Points, AgentPoints, CreatePoints
  <2>4. seen' = seen
    BY <1>1 DEF AgentRequest
  <2>5. o # Nothing /\ o.name \in Names
    BY <2>1, Asked DEF RequestTypes
  <2>6. RequestTypes' /\ Only(r) /\ at'[r] = AgentOps[o.does] /\ op'[r] = o
    BY <2>1, <2>3, BeginOnly
  <2>7. Placed(r)'
    BY <2>2, <2>5, <2>6 DEF Placed, AgentPoints, CreatePoints, DropPoints, BoardPoints,
                            BoardOps, IdeOps, Replies
  <2> QED
    BY <2>2, <2>4, <2>6, <2>7 DEF Answers, DropPoints
<1>2. CASE BoardRequest(r)
  <2>1. PICK o \in workload : o.does \in BoardOps /\ Begin(r, o, o.does)
    BY <1>2 DEF BoardRequest
  <2>2. seen' = seen
    BY <1>2 DEF BoardRequest
  <2>3. o # Nothing /\ o.item \in Nat \X Nat /\ o.name = o.item[1]
    BY <2>1, Asked DEF RequestTypes
  <2>4. RequestTypes' /\ Only(r) /\ at'[r] = o.does /\ op'[r] = o
    BY <2>1, BeginOnly DEF Points, BoardPoints
  <2>5. Placed(r)'
    BY <2>1, <2>3, <2>4 DEF Placed, AgentPoints, CreatePoints, DropPoints, BoardPoints,
                            BoardOps, IdeOps, Replies
  <2> QED
    BY <2>1, <2>2, <2>4, <2>5 DEF Answers, DropPoints, BoardOps
<1>3. CASE IdeRequest(r)
  <2>1. PICK o \in workload : o.does \in IdeOps /\ Begin(r, o, o.does)
    BY <1>3 DEF IdeRequest
  <2>2. seen' = seen
    BY <1>3 DEF IdeRequest
  <2>3. /\ o # Nothing /\ o.item \in Nat
        /\ o.does = "newIdeProject" => o.name \in Names
        /\ o.does = "patchProject" => o.name \in Patch
        /\ o.does \in {"putFile", "deleteFile", "renameFile"} => o.name \in Paths
    BY <2>1, Asked DEF RequestTypes
  <2>4. RequestTypes' /\ Only(r) /\ at'[r] = o.does /\ op'[r] = o
    BY <2>1, BeginOnly DEF Points
  <2>5. Placed(r)'
    BY <2>1, <2>3, <2>4 DEF Placed, AgentPoints, CreatePoints, DropPoints, BoardPoints,
                            BoardOps, IdeOps, Replies
  <2> QED
    BY <2>1, <2>2, <2>4, <2>5 DEF Answers, DropPoints, IdeOps
<1>4. CASE ProjectRequest(r)
  <2>1. PICK o \in workload : o.does \in DOMAIN ProjectOps /\ Begin(r, o, ProjectOps[o.does])
    BY <1>4 DEF ProjectRequest
  <2>2. \/ o.does = "createProject" /\ ProjectOps[o.does] = "ide"
        \/ o.does = "deleteProject" /\ ProjectOps[o.does] = "find"
    BY <2>1, Domains, FirstCalls DEF Compound
  <2>3. /\ o # Nothing
        /\ o.does = "createProject" => o.name \in Names
        /\ o.does = "deleteProject" => o.name = Nothing /\ o.item \in Nat
    BY <2>1, Asked DEF RequestTypes
  <2>4. seen' = seen
    BY <1>4 DEF ProjectRequest
  <2>5. RequestTypes' /\ Only(r) /\ at[r] = "idle" /\ at'[r] = ProjectOps[o.does] /\ op'[r] = o
    BY <2>1, <2>2, BeginOnly DEF Points, ProjectPoints
  <2>6. Placed(r)'
    BY <2>2, <2>3, <2>4, <2>5 DEF Placed, AgentPoints, CreatePoints, DropPoints,
                                   BoardPoints, BoardOps, IdeOps, Replies
  <2> QED
    BY <2>2, <2>4, <2>5, <2>6 DEF Answers, DropPoints
<1> QED
  BY <1>1, <1>2, <1>3, <1>4

LEMMA AgentServes ==
    ASSUME RInv, NEW r \in Requests, AgentStep(r)
    PROVE  Serve(r)
<1> USE DEF RInv, Serve, AgentStep
<1> DEFINE n == op[r].name
<1>0. {"claim", "config", "secret", "cert", "pod", "refused", "done", "dropClaim",
       "readPod", "writeConfig", "agentDone", "agentRefused",
       "dropConfig", "dropSecret", "dropCert", "dropTls"} \subseteq Points
  BY DEF Points, AgentPoints, CreatePoints, DropPoints, Final, ProjectPoints, Replies
<1>a. \A answer \in Final : Reply(r, answer) \in Final \cup Replies
  BY DEF Reply, Final, Replies
<1>b. Final \cup Replies \subseteq Points
  BY DEF Points, ProjectPoints
<1>1. CASE CheckStopped(r)
  <2>1. at[r] = "exists" /\ seen' = seen
    BY <1>1 DEF CheckStopped
  <2>2. PICK next \in {"claim", "pod", "refused"} : Proceed(r, next) \/ Fail(r, next)
    BY <1>1 DEF CheckStopped
  <2>3. next \in {"claim", "refused"}
    BY <1>1, <2>2 DEF CheckStopped, Proceed, Fail, RequestTypes
  <2>4. RequestTypes' /\ Only(r) /\ at'[r] = next /\ op' = op
    BY <1>0, <2>2, ProceedOnly, FailOnly
  <2> QED
    BY <2>1, <2>3, <2>4 DEF Placed, Answers, AgentPoints, CreatePoints, DropPoints,
                            BoardPoints, BoardOps, IdeOps, Replies
<1>2. CASE CreateObject(r)
  <2>1. at[r] \in {"claim", "config", "secret", "cert"} /\ seen' = seen
    BY <1>2, Domains DEF CreateObject
  <2>2. PICK next \in CreatePoints \cup Final \cup Replies :
           /\ next = "claim" => FALSE
           /\ Proceed(r, next) \/ Fail(r, next)
           /\ next \in Final => Reply(r, "refused") = next
           /\ next \in Replies => Reply(r, "refused") = next
    BY <1>2, <2>1, <1>a, FirstCalls DEF CreateObject, CreatePoints, Final, Replies
  <2>3. next \in Points
    BY <1>0, <1>b, <2>2 DEF CreatePoints
  <2>4. RequestTypes' /\ Only(r) /\ at'[r] = next /\ op' = op
    BY <2>2, <2>3, ProceedOnly, FailOnly
  <2>5. next \in Replies => op[r].does \in Compound
    BY <2>2 DEF Reply, Replies
  <2> QED
    BY <2>1, <2>2, <2>4, <2>5
       DEF Placed, Answers, AgentPoints, CreatePoints, DropPoints, BoardPoints, BoardOps,
           IdeOps, Replies, Final
<1>3. CASE CreatePod(r)
  <2>1. at[r] = "pod" /\ seen' = seen
    BY <1>3 DEF CreatePod
  <2>2. PICK next \in Final \cup Replies :
           /\ Proceed(r, next) \/ Fail(r, next)
           /\ next \in Replies => op[r].does \in Compound
    BY <1>3, <1>a DEF CreatePod, Reply, Final, Replies
  <2>3. RequestTypes' /\ Only(r) /\ at'[r] = next /\ op' = op
    BY <1>b, <2>2, ProceedOnly, FailOnly
  <2> QED
    BY <2>1, <2>2, <2>3
       DEF Placed, Answers, AgentPoints, CreatePoints, DropPoints, BoardPoints, BoardOps,
           IdeOps, Replies, Final
<1>4. CASE RemovePod(r)
  <2>1. at[r] \in {"stopPod", "deletePod"}
    BY <1>4 DEF RemovePod
  <2>2. PICK answer \in Final : Remember(r, [answer |-> answer])
    BY <1>4 DEF RemovePod, Final
  <2>3. PICK next \in Final \cup {"dropClaim"} :
           /\ Proceed(r, next) \/ Fail(r, next)
           /\ next = "dropClaim" <=> at[r] = "deletePod"
    BY <1>4, <2>1 DEF RemovePod, Final
  <2>4. RequestTypes' /\ Only(r) /\ at'[r] = next /\ op' = op
    BY <1>0, <1>b, <2>3, ProceedOnly, FailOnly
  <2>5. /\ DOMAIN seen' = Requests /\ seen'[r] \in [answer : Final]
        /\ \A s \in Requests \ {r} : seen'[s] = seen[s]
    BY <2>2 DEF Remember
  <2> QED
    BY <2>1, <2>3, <2>4, <2>5
       DEF Placed, Answers, AgentPoints, CreatePoints, DropPoints, BoardPoints, BoardOps,
           IdeOps, Replies, Final
<1>5. CASE CleanUp(r)
  <2>1. at[r] \in DropPoints /\ seen' = seen
    BY <1>5, Domains DEF CleanUp
  <2>2. seen[r].answer \in Final
    BY <2>1 DEF Answers
  <2>3. /\ AfterDrop(r) \in DropPoints \cup Final \cup Replies
        /\ AfterDrop(r) \in Replies => op[r].does \in Compound
    BY <2>1, <2>2, <1>a DEF AfterDrop, DropPoints, Reply, Final, Replies
  <2>4. Proceed(r, AfterDrop(r)) \/ Fail(r, AfterDrop(r))
    BY <1>5 DEF CleanUp
  <2>5. AfterDrop(r) \in Points
    BY <2>3, <1>b DEF Points, AgentPoints
  <2>6. RequestTypes' /\ Only(r) /\ at'[r] = AfterDrop(r) /\ op' = op
    BY <2>4, <2>5, ProceedOnly, FailOnly
  <2> QED
    BY <2>1, <2>2, <2>3, <2>6
       DEF Placed, Answers, AgentPoints, CreatePoints, DropPoints, BoardPoints, BoardOps,
           IdeOps, Replies, Final
<1>6. CASE ReadConfig(r)
  <2>1. at[r] = "readConfig"
    BY <1>6 DEF ReadConfig
  <2>2. PICK next \in {"refused", "writeConfig"} : Proceed(r, next) \/ Fail(r, next)
    BY <1>6 DEF ReadConfig
  <2>3. RequestTypes' /\ Only(r) /\ at'[r] = next /\ op' = op
    BY <1>0, <2>2, ProceedOnly, FailOnly
  <2>4. DOMAIN seen' = Requests /\ \A s \in Requests \ {r} : seen'[s] = seen[s]
    BY <1>6 DEF ReadConfig, Remember
  <2> QED
    BY <2>1, <2>3, <2>4
       DEF Placed, Answers, AgentPoints, CreatePoints, DropPoints, BoardPoints, BoardOps,
           IdeOps, Replies
<1>7. CASE WriteConfig(r) \/ ReadPod(r)
  <2>1. at[r] \in {"writeConfig", "readPod"} /\ seen' = seen
    BY <1>7 DEF WriteConfig, ReadPod
  <2>2. PICK next \in {"refused", "readPod", "done"} : Proceed(r, next) \/ Fail(r, next)
    BY <1>7 DEF WriteConfig, ReadPod
  <2>3. RequestTypes' /\ Only(r) /\ at'[r] = next /\ op' = op
    BY <1>0, <2>2, ProceedOnly, FailOnly
  <2> QED
    BY <2>1, <2>3
       DEF Placed, Answers, AgentPoints, CreatePoints, DropPoints, BoardPoints, BoardOps,
           IdeOps, Replies
<1> QED
  BY <1>1, <1>2, <1>3, <1>4, <1>5, <1>6, <1>7

LEMMA BoardServes ==
    ASSUME RInv, NEW r \in Requests, BoardStep(r)
    PROVE  Serve(r)
<1> USE DEF RInv, Serve, BoardStep
<1>1. /\ at[r] \in BoardPoints
      /\ at[r] = "sendCard" => sendCard(r)
      /\ at[r] = "readBoard" => getBoard(r) \/ boardMissing(r)
      /\ at[r] # "readBoard" => ~getBoard(r)
      /\ at[r] # "sendCard" => ~sendCard(r)
  BY DEF boardMissing, createBoard, renameBoard, createCard, updateCard, deleteCard,
         sendCard, activate, createEdge, updateEdge, deleteEdge, getBoard, encode,
         Serves, create, update, delete, BoardPoints, BoardOps
<1>2. PICK next \in Final \cup {"activate", "encode"} :
         /\ Proceed(r, next)
         /\ next = "activate" => at[r] = "sendCard"
         /\ next = "encode" => at[r] \in {"readBoard", "encode"}
  <2>1. CASE sendCard(r)
    BY <2>1 DEF sendCard, Final
  <2>2. CASE getBoard(r)
    BY <2>2 DEF getBoard
  <2>3. CASE boardMissing(r) \/ createBoard(r) \/ renameBoard(r) \/ activate(r)
    BY <2>3 DEF boardMissing, createBoard, renameBoard, activate, Final
  <2>4. CASE createCard(r) \/ createEdge(r)
    BY <2>4 DEF createCard, createEdge, create, Final
  <2>5. CASE updateCard(r) \/ updateEdge(r)
    BY <2>5 DEF updateCard, updateEdge, update, Final
  <2>6. CASE deleteCard(r) \/ deleteEdge(r)
    BY <2>6 DEF deleteCard, deleteEdge, delete, Final
  <2>7. CASE encode(r)
    BY <2>7 DEF encode, Final
  <2> QED
    BY <2>1, <2>2, <2>3, <2>4, <2>5, <2>6, <2>7
<1>3. DOMAIN seen' = Requests /\ \A s \in Requests \ {r} : seen'[s] = seen[s]
  BY DEF boardMissing, createBoard, renameBoard, createCard, updateCard, deleteCard,
         sendCard, activate, createEdge, updateEdge, deleteEdge, getBoard, encode,
         Serves, create, update, delete, Remember
<1>4. next \in Points
  BY <1>2 DEF Points, BoardPoints, Final
<1>5. RequestTypes' /\ Only(r) /\ at'[r] = next /\ op' = op
  BY <1>2, <1>4, ProceedOnly
<1>6. /\ at[r] = "sendCard" => op[r].does = "sendCard"
      /\ at[r] \in {"readBoard", "encode"} => op[r].does = "readBoard"
      /\ op[r].item \in Nat \X Nat /\ op[r].name = op[r].item[1]
      /\ op[r] # Nothing
      /\ op[r].does = "deleteProject" => op[r].item \in Nat
  BY <1>1 DEF Placed, BoardPoints, BoardOps
<1> QED
  BY <1>1, <1>2, <1>3, <1>5, <1>6
     DEF Placed, Answers, AgentPoints, CreatePoints, DropPoints, BoardPoints, BoardOps,
         IdeOps, Replies, Final

LEMMA ProjectServes ==
    ASSUME RInv, NEW r \in Requests, ProjectStep(r)
    PROVE  Serve(r)
<1> USE DEF RInv, Serve, ProjectStep
<1>1. PICK next \in Final \cup {"board", "claim"} :
         /\ Proceed(r, next) \/ Fail(r, next)
         /\ next = "board" => at[r] = "ide"
         /\ next = "claim" => at[r] = "board"
  <2>1. CASE ideCreate(r) \/ ideUpdate(r) \/ ideDelete(r)
    BY <2>1 DEF ideCreate, ideUpdate, ideDelete, Found, Final
  <2>2. CASE putFile(r) \/ deleteFile(r) \/ renameFile(r)
    BY <2>2 DEF putFile, deleteFile, renameFile, Final
  <2>3. CASE CreateIde(r)
    BY <2>3 DEF CreateIde, AtIde, Final
  <2>4. CASE CreateBoard(r)
    BY <2>4 DEF CreateBoard
  <2>5. CASE LinkAll(r) \/ DropProject(r)
    BY <2>5 DEF LinkAll, DropProject, Final
  <2> QED
    BY <2>1, <2>2, <2>3, <2>4, <2>5
<1>2. DOMAIN seen' = Requests /\ \A s \in Requests \ {r} : seen'[s] = seen[s]
  BY DEF ideCreate, ideUpdate, ideDelete, putFile, deleteFile, renameFile, CreateIde,
         CreateBoard, LinkAll, DropProject, Remember
<1>3. next \in Points
  BY <1>1 DEF Points, AgentPoints, CreatePoints, ProjectPoints
<1>4. RequestTypes' /\ Only(r) /\ at'[r] = next /\ op' = op
  BY <1>1, <1>3, ProceedOnly, FailOnly
<1>5. at[r] \in IdeOps \cup {"ide", "board", "dropProject"} \cup Replies
  BY DEF ideCreate, ideUpdate, ideDelete, putFile, deleteFile, renameFile, CreateIde,
         CreateBoard, LinkAll, DropProject, LastCall, AtIde, IdeOps, Replies
<1>6. op[r] # Nothing /\ (op[r].does = "deleteProject" => op[r].item \in Nat)
  BY <1>5 DEF Placed, IdeOps, Replies
<1>7. at[r] \in {"ide", "board"} => op[r].name \in Names /\ op[r].does = "createProject"
  BY DEF Placed
<1> QED
  BY <1>1, <1>2, <1>4, <1>6, <1>7
     DEF Placed, Answers, AgentPoints, CreatePoints, DropPoints, BoardPoints, BoardOps,
         IdeOps, Replies, Final

-----------------------------------------------------------------------------
(* Projects: the places of the IDs, and the types of the records.          *)

AnyProject == [id : Nat, name : Names \cup {Demo}, made : Names \cup {Demo},
               board : Nat, agent : Names \cup {Nothing}]

\* r has made its project, and has not linked it yet.
Making(r) ==
    /\ op[r] # Nothing /\ op[r].does = "createProject"
    /\ at[r] \in {"board"} \cup CreatePoints \cup Replies

ProjectTypes ==
    /\ projects \in Seq(AnyProject) /\ boards \in Seq(Texts)
    /\ \A r \in Requests : Making(r) => seen[r] \in MadeIds

\* PlaceOf finds the first project with an ID.
LEMMA PlaceOfFirst ==
    ASSUME projects \in Seq(AnyProject), NEW id
    PROVE  \/ PlaceOf(id) = 0 /\ \A k \in DOMAIN projects : projects[k].id # id
           \/ /\ PlaceOf(id) \in DOMAIN projects /\ projects[PlaceOf(id)].id = id
              /\ \A k \in DOMAIN projects : projects[k].id = id => PlaceOf(id) <= k
<1> DEFINE T == {k \in 1 .. Len(projects) : projects[k].id = id}
<1>1. PlaceOf(id) = IF T # {} THEN Min(T) ELSE 0
  BY DEF PlaceOf, SelectInSeq
<1>2. DOMAIN projects = 1 .. Len(projects) /\ Len(projects) \in Nat
  BY LenProperties
<1>3. CASE T = {}
  BY <1>1, <1>2, <1>3
<1>4. CASE T # {}
  <2>1. T \in SUBSET Nat
    BY <1>2
  <2>2. Min(T) \in T /\ \A m \in T : Min(T) <= m
    BY <1>4, <2>1, LeastNatural
  <2> QED
    BY <1>1, <1>2, <1>4, <2>2
<1> QED
  BY <1>3, <1>4

\* What each operation of the store does to the list of projects.
LEMMA Appended ==
    ASSUME projects \in Seq(AnyProject), NEW r, NEW name \in Names, CreateProject(r, name)
    PROVE  /\ projects' \in Seq(AnyProject)
           /\ Len(projects) \in Nat /\ DOMAIN projects = 1 .. Len(projects)
           /\ DOMAIN projects' = 1 .. Len(projects) + 1
           /\ \A k \in DOMAIN projects : projects'[k] = projects[k]
           /\ projects'[NextId] = [id |-> NextId, name |-> name, made |-> name,
                                   board |-> 0, agent |-> Nothing]
<1> DEFINE p == [id |-> NextId, name |-> name, made |-> name, board |-> 0, agent |-> Nothing]
<1>1. Len(projects) \in Nat /\ DOMAIN projects = 1 .. Len(projects)
  BY LenProperties
<1>2. p \in AnyProject
  BY <1>1 DEF AnyProject, NextId
<1>3. projects' = Append(projects, p)
  BY DEF CreateProject
<1> HIDE DEF p
<1>4. /\ Append(projects, p) \in Seq(AnyProject)
      /\ Len(Append(projects, p)) = Len(projects) + 1
      /\ \A k \in 1 .. Len(projects) : Append(projects, p)[k] = projects[k]
      /\ Append(projects, p)[Len(projects) + 1] = p
  BY <1>2, AppendProperties
<1>5. DOMAIN projects' = 1 .. Len(projects) + 1
  BY <1>3, <1>4, LenProperties
<1> QED
  BY <1>1, <1>3, <1>4, <1>5 DEF NextId, p

\* The places after a deletion, by those before it.
Before(k, j) == IF j < k THEN j ELSE j + 1

LEMMA Shortened ==
    ASSUME projects \in Seq(AnyProject), NEW id, DeleteProject(id), PlaceOf(id) # 0
    PROVE  /\ projects' \in Seq(AnyProject) /\ Len(projects') = Len(projects) - 1
           /\ PlaceOf(id) \in DOMAIN projects
           /\ \A j \in DOMAIN projects' :
                 /\ Before(PlaceOf(id), j) \in DOMAIN projects \ {PlaceOf(id)}
                 /\ projects'[j] = projects[Before(PlaceOf(id), j)]
           /\ \A i, j \in DOMAIN projects' :
                 Before(PlaceOf(id), i) = Before(PlaceOf(id), j) => i = j
           /\ \A k \in DOMAIN projects \ {PlaceOf(id)} :
                 \E j \in DOMAIN projects' : Before(PlaceOf(id), j) = k
<1> DEFINE k == PlaceOf(id)
<1>1. Len(projects) \in Nat /\ DOMAIN projects = 1 .. Len(projects)
  BY LenProperties
<1>2. k \in 1 .. Len(projects)
  BY <1>1, PlaceOfFirst
<1>3. projects' = RemoveAt(projects, k)
  BY DEF DeleteProject
<1> HIDE DEF k
<1>4. /\ projects' \in Seq(AnyProject) /\ Len(projects') = Len(projects) - 1
      /\ \A j \in 1 .. Len(projects) - 1 : projects'[j] = projects[Before(k, j)]
  BY <1>2, <1>3, Removed DEF Before
<1>5. DOMAIN projects' = 1 .. Len(projects) - 1
  BY <1>4, LenProperties
<1>6. \A j \in DOMAIN projects' : Before(k, j) \in DOMAIN projects \ {k}
  BY <1>1, <1>2, <1>5 DEF Before
<1>7. \A i, j \in DOMAIN projects' : Before(k, i) = Before(k, j) => i = j
  BY <1>1, <1>2, <1>5 DEF Before
<1>8. ASSUME NEW l \in DOMAIN projects \ {k} PROVE \E j \in DOMAIN projects' : Before(k, j) = l
  <2>1. CASE l < k
    <3>1. l \in DOMAIN projects' /\ Before(k, l) = l
      BY <1>1, <1>2, <1>5, <2>1 DEF Before
    <3> QED BY <3>1
  <2>2. CASE l > k
    <3>1. l - 1 \in DOMAIN projects' /\ Before(k, l - 1) = l
      BY <1>1, <1>2, <1>5, <2>2 DEF Before
    <3> QED BY <3>1
  <2> QED
    BY <1>1, <1>2, <2>1, <2>2
<1> QED
  BY <1>1, <1>2, <1>4, <1>5, <1>6, <1>7, <1>8 DEF k

\* A record after an update.
Updated(p, name, board, agent) ==
    [p EXCEPT !.name = Given(name, @), !.board = Given(board, @), !.agent = Given(agent, @)]

LEMMA UpdatedFields ==
    ASSUME NEW p \in AnyProject, NEW name \in Names \cup {Unset}, NEW board \in Nat \cup {Unset},
           NEW agent \in Names \cup {Nothing, Unset}
    PROVE  /\ Updated(p, name, board, agent) \in AnyProject
           /\ Updated(p, name, board, agent).id = p.id
           /\ Updated(p, name, board, agent).made = p.made
           /\ Updated(p, name, board, agent).board = Given(board, p.board)
           /\ Updated(p, name, board, agent).agent = Given(agent, p.agent)
<1>1. /\ Given(name, p.name) \in Names \cup {Demo} /\ Given(board, p.board) \in Nat
      /\ Given(agent, p.agent) \in Names \cup {Nothing}
  BY DEF Given, AnyProject
<1> QED
  BY <1>1 DEF Updated, AnyProject

LEMMA Updates ==
    ASSUME projects \in Seq(AnyProject), NEW id, NEW name \in Names \cup {Unset},
           NEW board \in Nat \cup {Unset}, NEW agent \in Names \cup {Nothing, Unset},
           UpdateProject(id, name, board, agent)
    PROVE  /\ projects' \in Seq(AnyProject) /\ DOMAIN projects' = DOMAIN projects
           /\ \A k \in DOMAIN projects :
                 projects'[k] = IF k = PlaceOf(id) THEN Updated(projects[k], name, board, agent)
                                ELSE projects[k]
<1>1. DOMAIN projects = 1 .. Len(projects) /\ 0 \notin DOMAIN projects
  BY LenProperties
<1>2. CASE PlaceOf(id) = 0
  BY <1>1, <1>2 DEF UpdateProject
<1>3. CASE PlaceOf(id) # 0
  <2> DEFINE k == PlaceOf(id)
             p == Updated(projects[k], name, board, agent)
  <2>1. k \in DOMAIN projects
    BY <1>3, PlaceOfFirst
  <2>2. projects[k] \in AnyProject
    BY <1>1, <2>1, ElementOfSeq
  <2>3. p \in AnyProject
    BY <2>2, UpdatedFields
  <2>4. projects' = [projects EXCEPT ![k] = p]
    BY <1>3 DEF UpdateProject, Updated
  <2> HIDE DEF k, p
  <2>5. /\ projects' \in Seq(AnyProject) /\ Len(projects') = Len(projects)
        /\ \A j \in 1 .. Len(projects) : projects'[j] = IF j = k THEN p ELSE projects[j]
    BY <1>1, <2>1, <2>3, <2>4, ExceptSeq
  <2>6. DOMAIN projects' = DOMAIN projects
    BY <1>1, <2>5, LenProperties
  <2> QED
    BY <1>1, <2>5, <2>6 DEF k, p
<1> QED
  BY <1>2, <1>3

LEMMA FindServes ==
    ASSUME RInv, ProjectTypes, NEW r \in Requests, FindProject(r)
    PROVE  /\ Serve(r) /\ seen' = seen
           /\ op[r] # Nothing /\ op[r].does = "deleteProject" /\ at[r] = "find"
           /\ op'[r].does = "deleteProject" /\ op'[r].item = op[r].item
           /\ \/ op'[r].name = op[r].name /\ at'[r] # "deletePod"
              \/ /\ op'[r].name \in Names /\ at'[r] = "deletePod"
                 /\ Shared(r, op'[r].name) \subseteq overlapped'
<1> USE DEF RInv
<1> DEFINE id == op[r].item
           k == PlaceOf(id)
           agent == projects[k].agent
<1>1. /\ at[r] = "find" /\ seen' = seen /\ workload' = workload
      /\ op[r] # Nothing /\ op[r].does = "deleteProject" /\ op[r].name = Nothing
      /\ op[r] \in Operation /\ op[r].item \in Nat
  BY DEF FindProject, AtIde, Placed, RequestTypes
<1>2. CASE Proceed(r, "refused") \/ Fail(r, "refused")
  <2>1. RequestTypes' /\ Only(r) /\ at'[r] = "refused" /\ op' = op
    BY <1>2, ProceedOnly, FailOnly DEF Points, Final
  <2> QED
    BY <1>1, <2>1 DEF Serve, Placed, Answers, AgentPoints, CreatePoints, DropPoints, BoardPoints, BoardOps,
                      IdeOps, Replies, Final
<1>3. CASE /\ k # 0
           /\ op' = [op EXCEPT ![r].name = agent]
           /\ at' = [at EXCEPT ![r] = IF agent = Nothing THEN "dropProject" ELSE "deletePod"]
           /\ overlapped' = overlapped \cup (IF agent = Nothing THEN {} ELSE Shared(r, agent))
           /\ failed' = failed
  <2>1. agent \in Names \cup {Nothing}
    <3>1. projects[k] \in AnyProject
      BY <1>3, PlaceOfFirst, LenProperties, ElementOfSeq DEF ProjectTypes
    <3> QED
      BY <3>1 DEF AnyProject
  <2> HIDE DEF agent, id, k
  <2>2. [op[r] EXCEPT !.name = agent] \in Operation
    BY <1>1, <2>1 DEF Operation
  <2>3. /\ op' \in [Requests -> Operation \cup {Nothing}]
        /\ op'[r] = [op[r] EXCEPT !.name = agent]
        /\ \A s \in Requests \ {r} : op'[s] = op[s]
    BY <1>3, <2>2 DEF RequestTypes
  <2>4. op'[r].name = agent /\ op'[r].does = "deleteProject" /\ op'[r].item = op[r].item
    BY <1>1, <2>3 DEF Operation
  <2>5. op'[r] # Nothing
    <3>1. op'[r] \in [does : {"deleteProject"}, name : Names \cup {Nothing}, item : Nat]
      <4>1. op'[r] = [does |-> "deleteProject", name |-> agent, item |-> op[r].item]
        BY <1>1, <2>3 DEF Operation
      <4> QED
        BY <1>1, <2>1, <4>1
    <3> QED
      BY <3>1, NothingAssumption
  <2>6. /\ at' \in [Requests -> Points]
        /\ \A s \in Requests \ {r} : at'[s] = at[s]
        /\ at'[r] = IF agent = Nothing THEN "dropProject" ELSE "deletePod"
    BY <1>3 DEF RequestTypes, Points, AgentPoints, ProjectPoints
  <2>7. RequestTypes' /\ Only(r)
    BY <1>1, <1>3, <2>3, <2>6 DEF RequestTypes, Only
  <2>8. Placed(r)'
    BY <1>1, <2>1, <2>4, <2>5, <2>6
       DEF Placed, AgentPoints, CreatePoints, DropPoints, BoardPoints, BoardOps, IdeOps, Replies
  <2>9. Answers(r)'
    BY <2>6 DEF Answers, DropPoints
  <2>10. \/ op'[r].name = op[r].name /\ at'[r] # "deletePod"
         \/ op'[r].name \in Names /\ at'[r] = "deletePod" /\ Shared(r, op'[r].name) \subseteq overlapped'
    <3>1. CASE agent = Nothing
      BY <1>1, <2>4, <2>6, <3>1
    <3>2. CASE agent # Nothing
      <4>1. agent \in Names /\ Shared(r, agent) \subseteq overlapped'
        BY <1>3, <2>1, <3>2 DEF agent, id
      <4> QED
        BY <2>4, <2>6, <3>2, <4>1
    <3> QED
      BY <3>1, <3>2
  <2> QED
    BY <1>1, <2>4, <2>7, <2>8, <2>9, <2>10 DEF Serve
<1> QED
  BY <1>2, <1>3 DEF FindProject, AfterLook

-----------------------------------------------------------------------------
LEMMA Serving ==
    ASSUME RInv, ProjectTypes, [ProjectsNext]_projectVars
    PROVE  /\ RInv'
           /\ \/ UNCHANGED requestVars
              \/ \E r \in Requests : Serve(r)
<1> USE DEF RInv
<1>1. CASE UNCHANGED requestVars
  BY <1>1 DEF requestVars, RequestTypes, Placed, Answers
<1>2. ASSUME NEW r \in Requests, Serve(r) PROVE RInv'
  <2>1. \A s \in Requests \ {r} : at'[s] = at[s] /\ op'[s] = op[s] /\ seen'[s] = seen[s]
    BY <1>2 DEF Serve, Only
  <2>2. \A s \in Requests \ {r} : Placed(s)' /\ Answers(s)'
    BY <2>1 DEF Placed, Answers
  <2> QED
    BY <1>2, <2>2 DEF Serve
<1>3. UNCHANGED requestVars \/ \E r \in Requests : Serve(r)
  BY Steps, RequestServes, AgentServes, BoardServes, ProjectServes, FindServes
<1> QED
  BY <1>1, <1>2, <1>3

\* Where the handlers go on.
LEMMA NextCalls ==
    ASSUME RInv, NEW r \in Requests
    PROVE  /\ Begins(r) =>
                 /\ at[r] = "idle" /\ seen' = seen
                 /\ at'[r] \in BoardOps \cup IdeOps
                              \cup {"claim", "exists", "stopPod", "deletePod", "readConfig", "ide", "find"}
           /\ AgentStep(r) =>
                 /\ at'[r] \in Final \cup Replies \cup DropPoints
                              \cup {"claim", "config", "secret", "cert", "pod", "writeConfig", "readPod"}
                 /\ at'[r] = "claim" => at[r] = "exists"
           /\ BoardStep(r) =>
                 /\ at'[r] \in Final \cup {"activate", "encode"}
                 /\ at'[r] = "activate" => sendCard(r)
                 /\ at'[r] = "encode" => getBoard(r) \/ encode(r)
           /\ ProjectStep(r) =>
                 /\ at'[r] \in Final \cup {"board", "claim"}
                 /\ at'[r] = "board" => at[r] = "ide"
                 /\ at'[r] = "claim" => at[r] = "board"
           /\ FindProject(r) => at'[r] \in {"refused", "dropProject", "deletePod"}
<1> USE DEF RInv
<1>0. at \in [Requests -> Points]
  BY DEF RequestTypes
<1>1. ASSUME Begins(r)
      PROVE  /\ at[r] = "idle" /\ seen' = seen
             /\ at'[r] \in BoardOps \cup IdeOps
                          \cup {"claim", "exists", "stopPod", "deletePod", "readConfig", "ide", "find"}
  <2>1. at[r] = "idle" /\ seen' = seen
    BY <1>1 DEF Begins, AgentRequest, BoardRequest, IdeRequest, ProjectRequest, Begin
  <2>2. CASE AgentRequest(r)
    <3>1. PICK o \in workload : o.does \in DOMAIN AgentOps /\ Begin(r, o, AgentOps[o.does])
      BY <2>2 DEF AgentRequest
    <3>2. at'[r] = AgentOps[o.does]
      BY <1>0, <3>1 DEF Begin
    <3> QED
      BY <2>1, <3>1, <3>2, Domains, FirstCalls
  <2>3. CASE BoardRequest(r) \/ IdeRequest(r)
    BY <1>0, <2>1, <2>3 DEF BoardRequest, IdeRequest, Begin
  <2>4. CASE ProjectRequest(r)
    <3>1. PICK o \in workload : o.does \in DOMAIN ProjectOps /\ Begin(r, o, ProjectOps[o.does])
      BY <2>4 DEF ProjectRequest
    <3>2. at'[r] = ProjectOps[o.does]
      BY <1>0, <3>1 DEF Begin
    <3> QED
      BY <2>1, <3>1, <3>2, Domains, FirstCalls DEF Compound
  <2> QED
    BY <1>1, <2>2, <2>3, <2>4 DEF Begins
<1>2. ASSUME AgentStep(r)
      PROVE  /\ at'[r] \in Final \cup Replies \cup DropPoints
                          \cup {"claim", "config", "secret", "cert", "pod", "writeConfig", "readPod"}
             /\ at'[r] = "claim" => at[r] = "exists"
  <2>1. CASE CheckStopped(r) \/ ReadConfig(r) \/ WriteConfig(r) \/ ReadPod(r)
    BY <1>0, <2>1 DEF CheckStopped, ReadConfig, WriteConfig, ReadPod, Proceed, Fail, Final
  <2>2. CASE CreateObject(r)
    BY <1>0, <2>2, Domains, FirstCalls
       DEF CreateObject, Proceed, Fail, Reply, Final, Replies
  <2>3. CASE CreatePod(r) \/ RemovePod(r)
    BY <1>0, <2>3 DEF CreatePod, RemovePod, Proceed, Fail, Reply, Final, Replies, DropPoints
  <2>4. CASE CleanUp(r)
    <3>1. seen[r].answer \in Final
      BY <2>4, Domains DEF CleanUp, Answers
    <3>2. at'[r] = AfterDrop(r)
      BY <1>0, <2>4 DEF CleanUp, Proceed, Fail
    <3> QED
      BY <3>1, <3>2 DEF AfterDrop, Reply, Final, Replies, DropPoints
  <2> QED
    BY <1>2, <2>1, <2>2, <2>3, <2>4 DEF AgentStep
<1>3. ASSUME BoardStep(r)
      PROVE  /\ at'[r] \in Final \cup {"activate", "encode"}
             /\ at'[r] = "activate" => sendCard(r)
             /\ at'[r] = "encode" => getBoard(r) \/ encode(r)
  BY <1>0, <1>3 DEF BoardStep, boardMissing, createBoard, renameBoard, createCard, updateCard,
            deleteCard, sendCard, activate, createEdge, updateEdge, deleteEdge, getBoard,
            encode, create, update, delete, Proceed, Final
<1>4. ASSUME ProjectStep(r)
      PROVE  /\ at'[r] \in Final \cup {"board", "claim"}
             /\ at'[r] = "board" => at[r] = "ide"
             /\ at'[r] = "claim" => at[r] = "board"
  BY <1>0, <1>4 DEF ProjectStep, ideCreate, ideUpdate, ideDelete, putFile, deleteFile, renameFile,
              CreateIde, CreateBoard, LinkAll, DropProject, Proceed, Fail, AtIde, Found, Final
<1>5. ASSUME FindProject(r) PROVE at'[r] \in {"refused", "dropProject", "deletePod"}
  BY <1>0, <1>5 DEF FindProject, AfterLook, Proceed, Fail
<1> QED
  BY <1>1, <1>2, <1>3, <1>4, <1>5

\* A request changes by its own steps only.
LEMMA OwnSteps ==
    ASSUME RInv, ProjectTypes, [ProjectsNext]_projectVars, NEW r \in Requests
    PROVE  \/ at'[r] = at[r] /\ op'[r] = op[r] /\ seen'[r] = seen[r]
           \/ Begins(r) \/ AgentStep(r) \/ BoardStep(r) \/ ProjectStep(r) \/ FindProject(r)
<1>1. ASSUME NEW s \in Requests \ {r}, Serve(s)
      PROVE  at'[r] = at[r] /\ op'[r] = op[r] /\ seen'[r] = seen[r]
  BY <1>1 DEF Serve, Only
<1> QED
  BY <1>1, Steps, RequestServes, AgentServes, BoardServes, ProjectServes, FindServes DEF requestVars

\* What becomes of the list of projects in a step.
LEMMA ListSteps ==
    ASSUME RInv, ProjectTypes, NEW r \in Requests, ProjectStep(r)
    PROVE  \/ UNCHANGED projects
           \/ CreateProject(r, op[r].name) /\ op[r].name \in Names
              /\ (ideCreate(r) \/ CreateIde(r))
           \/ /\ op[r] # Nothing /\ op[r].item \in Nat
              /\ DeleteProject(op[r].item) /\ PlaceOf(op[r].item) # 0
              /\ ideDelete(r) \/ DropProject(r)
           \/ /\ ideUpdate(r) /\ op[r] # Nothing /\ op[r].does = "patchProject"
              /\ op[r].name \in Patch /\ op[r].item \in Nat
              /\ UpdateProject(op[r].item, op[r].name.name, op[r].name.board, op[r].name.agent)
           \/ /\ LinkAll(r) /\ UpdateProject(seen[r].id, Unset, seen[r].board, AgentOf(r))
              /\ Making(r) /\ seen[r] \in MadeIds /\ AgentOf(r) \in Names \cup {Nothing}
<1> USE DEF RInv
<1>1. CASE ideCreate(r) \/ CreateIde(r)
  <2>1. op[r].name \in Names
    BY <1>1 DEF ideCreate, CreateIde, AtIde, Placed, IdeOps
  <2> QED
    BY <1>1, <2>1 DEF ideCreate, CreateIde, ideVars
<1>2. CASE ideUpdate(r)
  <2>1. op[r] # Nothing /\ op[r].does = "patchProject" /\ op[r].name \in Patch /\ op[r].item \in Nat
    BY <1>2 DEF ideUpdate, AtIde, Placed, IdeOps
  <2> QED
    BY <1>2, <2>1 DEF ideUpdate
<1>3. CASE ideDelete(r)
  <2>1. op[r] # Nothing /\ op[r].item \in Nat
    BY <1>3 DEF ideDelete, AtIde, Placed, IdeOps
  <2>2. DeleteProject(op[r].item)
    BY <1>3 DEF ideDelete
  <2>3. PlaceOf(op[r].item) = 0 => UNCHANGED projects
    BY <2>2 DEF DeleteProject, ideVars
  <2> QED
    BY <1>3, <2>1, <2>2, <2>3
<1>4. CASE DropProject(r)
  <2>1. op[r] # Nothing /\ op[r].item \in Nat
    BY <1>4 DEF DropProject, LastCall, Placed
  <2>2. DeleteProject(op[r].item) \/ UNCHANGED projects
    BY <1>4 DEF DropProject, ideVars
  <2>3. DeleteProject(op[r].item) /\ PlaceOf(op[r].item) = 0 => UNCHANGED projects
    BY DEF DeleteProject, ideVars
  <2> QED
    BY <1>4, <2>1, <2>2, <2>3
<1>5. CASE LinkAll(r)
  <2>1. Making(r)
    BY <1>5 DEF LinkAll, Making, Replies
  <2>2. seen[r] \in MadeIds /\ op[r].name \in Names
    BY <1>5, <2>1 DEF ProjectTypes, LinkAll, Placed, Replies
  <2>3. AgentOf(r) \in Names \cup {Nothing}
    BY <2>2 DEF AgentOf
  <2> QED
    BY <1>5, <2>1, <2>2, <2>3 DEF LinkAll, ideVars
<1>6. CASE putFile(r) \/ deleteFile(r) \/ renameFile(r) \/ CreateBoard(r)
  BY <1>6 DEF putFile, deleteFile, renameFile, CreateBoard, ideVars
<1> QED
  BY <1>1, <1>2, <1>3, <1>4, <1>5, <1>6 DEF ProjectStep

\* Where a request begins to make its project, and what it remembers of it.
LEMMA MakingSteps ==
    ASSUME RInv, ProjectTypes, [ProjectsNext]_projectVars, NEW s \in Requests, Making(s)'
    PROVE  \/ /\ CreateIde(s) /\ CreateProject(s, op[s].name) /\ at[s] = "ide" /\ ~Making(s)
              /\ seen'[s] = Made(NextId, 0) /\ op' = op /\ at'[s] = "board"
           \/ /\ CreateBoard(s) /\ Making(s) /\ at[s] = "board" /\ NewBoard(s)
              /\ seen'[s] = Made(seen[s].id, Len(boards) + 1) /\ op' = op
           \/ /\ Making(s) /\ seen'[s] = seen[s] /\ op'[s] = op[s]
              /\ (at'[s] = "agentRefused" /\ at[s] # "agentRefused" => AgentStep(s))
<1> USE DEF RInv
<1>0. Placed(s) /\ Placed(s)'
  BY Serving
<1>1. CASE UNCHANGED requestVars
  BY <1>1 DEF requestVars, Making
<1>2. ASSUME NEW r \in Requests, Serve(r), r # s
      PROVE  Making(s) /\ seen'[s] = seen[s] /\ op'[s] = op[s] /\ at'[s] = at[s]
  BY <1>2 DEF Serve, Only, Making
<1>3. CASE Begins(s)
  <2>1. op[s] = Nothing /\ at[s] = "idle"
    BY <1>0, <1>3 DEF Begins, AgentRequest, BoardRequest, IdeRequest, ProjectRequest, Begin, Placed
  <2>2. ~Making(s)'
    <3>1. CASE AgentRequest(s)
      BY <3>1, Domains DEF AgentRequest, Begin, RequestTypes, Making
    <3>2. CASE BoardRequest(s) \/ IdeRequest(s)
      BY <3>2 DEF BoardRequest, IdeRequest, BoardOps, IdeOps, Begin, RequestTypes, Making
    <3>3. CASE ProjectRequest(s)
      <4>1. PICK o \in workload : o.does \in DOMAIN ProjectOps /\ Begin(s, o, ProjectOps[o.does])
        BY <3>3 DEF ProjectRequest
      <4>2. ProjectOps[o.does] \in {"ide", "find"}
        BY <4>1, Domains, FirstCalls DEF Compound
      <4>3. at'[s] \in {"ide", "find"}
        BY <4>1, <4>2 DEF Begin, RequestTypes
      <4> QED
        BY <4>3 DEF Making, CreatePoints, Replies
    <3> QED
      BY <1>3, <3>1, <3>2, <3>3 DEF Begins
  <2> QED
    BY <2>2
<1>4. CASE AgentStep(s)
  <2>1. Serve(s)
    BY <1>4, AgentServes
  <2>2. op' = op
    BY <1>4 DEF AgentStep, CheckStopped, CreateObject, CreatePod, RemovePod, CleanUp,
                ReadConfig, WriteConfig, ReadPod, Proceed, Fail
  <2>3. op[s].does = "createProject" /\ op[s] # Nothing
    BY <2>2 DEF Making
  <2>4. at[s] \in AgentPoints
    BY <1>4, Domains DEF AgentStep, CheckStopped, CreateObject, CreatePod, RemovePod, CleanUp,
                ReadConfig, WriteConfig, ReadPod, AgentPoints, CreatePoints
  <2>5. at[s] \in CreatePoints
    BY <1>0, <2>3, <2>4 DEF Placed, AgentPoints
  <2>6. seen' = seen
    BY <1>4, <2>5 DEF AgentStep, CheckStopped, CreateObject, CreatePod, RemovePod, CleanUp,
                ReadConfig, WriteConfig, ReadPod, CreatePoints
  <2> QED
    BY <1>4, <2>2, <2>3, <2>5, <2>6 DEF Making
<1>5. CASE BoardStep(s)
  <2>1. op' = op
    BY <1>5 DEF BoardStep, boardMissing, createBoard, renameBoard, createCard, updateCard, deleteCard,
         sendCard, activate, createEdge, updateEdge, deleteEdge, getBoard, encode,
         Serves, create, update, delete, Proceed
  <2>2. at[s] \in BoardPoints
    BY <1>5 DEF BoardStep, boardMissing, createBoard, renameBoard, createCard, updateCard, deleteCard,
         sendCard, activate, createEdge, updateEdge, deleteEdge, getBoard, encode,
         Serves, create, update, delete, BoardPoints, BoardOps
  <2>3. op[s].does # "createProject"
    BY <1>0, <2>2 DEF Placed, BoardPoints, BoardOps
  <2> QED
    BY <2>1, <2>3 DEF Making
<1>6. CASE ProjectStep(s)
  <2>1. op' = op
    BY <1>6 DEF ProjectStep, ideCreate, ideUpdate, ideDelete, putFile, deleteFile, renameFile,
                CreateIde, CreateBoard, LinkAll, DropProject, Proceed, Fail
  <2>2. op[s] # Nothing /\ op[s].does = "createProject"
    BY <2>1 DEF Making
  <2>3. CASE CreateIde(s)
    <3>1. at[s] = "ide" /\ ~Making(s)
      BY <2>3 DEF CreateIde, AtIde, Making, CreatePoints, Replies
    <3>2. at'[s] # "refused"
      BY DEF Making, CreatePoints, Replies
    <3>3. /\ CreateProject(s, op[s].name) /\ Remember(s, Made(NextId, 0))
          /\ Proceed(s, "board")
      BY <2>3, <3>2 DEF CreateIde, Fail, RequestTypes
    <3> QED
      BY <2>1, <2>3, <3>1, <3>3 DEF Remember, Proceed, RequestTypes
  <2>4. CASE CreateBoard(s)
    <3>1. at[s] = "board" /\ Making(s)
      BY <2>2, <2>4 DEF CreateBoard, Making
    <3>2. \/ NewBoard(s) /\ seen'[s] = Made(seen[s].id, Len(boards) + 1)
          \/ seen' = seen
      BY <2>4 DEF CreateBoard, Remember
    <3>3. at'[s] = "claim"
      BY <2>4 DEF CreateBoard, Proceed, Fail, RequestTypes
    <3> QED
      BY <2>1, <2>4, <3>1, <3>2, <3>3
  <2>5. ~(LinkAll(s) \/ DropProject(s))
    <3>1. LinkAll(s) \/ DropProject(s) => at'[s] = "done"
      BY DEF LinkAll, DropProject, Proceed, Fail, RequestTypes
    <3> QED
      BY <3>1 DEF Making, CreatePoints, Replies
  <2>6. ~(ideCreate(s) \/ ideUpdate(s) \/ ideDelete(s) \/ putFile(s) \/ deleteFile(s) \/ renameFile(s))
    <3>1. at[s] \in IdeOps => op[s].does # "createProject"
      BY <1>0 DEF Placed, IdeOps
    <3> QED
      BY <2>2, <3>1 DEF ideCreate, ideUpdate, ideDelete, putFile, deleteFile, renameFile, AtIde, IdeOps
  <2> QED
    BY <1>6, <2>3, <2>4, <2>5, <2>6 DEF ProjectStep
<1>7. CASE FindProject(s)
  BY <1>7, FindServes DEF Making
<1> QED
  BY <1>1, <1>2, <1>3, <1>4, <1>5, <1>6, <1>7, Steps, RequestServes, AgentServes, BoardServes,
     ProjectServes, FindServes

\* What becomes of the list of boards in a step.
LEMMA BoardSteps ==
    ASSUME RInv, ProjectTypes, [ProjectsNext]_projectVars
    PROVE  \/ UNCHANGED boards
           \/ \E r \in Requests : NewBoard(r) /\ (createBoard(r) \/ CreateBoard(r))
           \/ \E r \in Requests : renameBoard(r) /\ NameBoard(r, op[r].item[1])
                                  /\ op[r].item[1] \in DOMAIN boards
<1>1. ASSUME NEW r \in Requests, BoardStep(r)
      PROVE  \/ UNCHANGED boards
             \/ NewBoard(r) /\ createBoard(r)
             \/ renameBoard(r) /\ NameBoard(r, op[r].item[1]) /\ op[r].item[1] \in DOMAIN boards
  <2>1. CASE createBoard(r) \/ renameBoard(r)
    BY <2>1 DEF createBoard, renameBoard, HasBoard
  <2>2. CASE createCard(r) \/ createEdge(r)
    BY <2>2 DEF createCard, createEdge, create, Create
  <2>3. CASE updateCard(r) \/ updateEdge(r)
    BY <2>3 DEF updateCard, updateEdge, update, Store
  <2>4. CASE deleteCard(r) \/ deleteEdge(r)
    BY <2>4 DEF deleteCard, deleteEdge, delete, Delete, boardVars
  <2>5. CASE boardMissing(r) \/ sendCard(r) \/ activate(r) \/ getBoard(r) \/ encode(r)
    BY <2>5 DEF boardMissing, sendCard, activate, getBoard, encode, Store, boardVars
  <2> QED
    BY <1>1, <2>1, <2>2, <2>3, <2>4, <2>5 DEF BoardStep
<1>2. ASSUME NEW r \in Requests, ProjectStep(r)
      PROVE  UNCHANGED boards \/ (NewBoard(r) /\ CreateBoard(r))
  <2>1. CASE CreateBoard(r)
    BY <2>1 DEF CreateBoard, boardVars
  <2>2. CASE \/ ideCreate(r) \/ ideUpdate(r) \/ ideDelete(r)
             \/ putFile(r) \/ deleteFile(r) \/ renameFile(r)
             \/ CreateIde(r) \/ LinkAll(r) \/ DropProject(r)
    <3>1. UNCHANGED boardVars
      BY <2>2 DEF ideCreate, ideUpdate, ideDelete, putFile, deleteFile, renameFile,
                  CreateIde, LinkAll, DropProject, AtIde
    <3> QED
      BY <3>1 DEF boardVars
  <2> QED
    BY <1>2, <2>1, <2>2 DEF ProjectStep
<1> QED
  BY <1>1, <1>2, Steps DEF boardVars

LEMMA ProjectTypesInit == ProjectsInit => RInv /\ ProjectTypes
<1> SUFFICES ASSUME ProjectsInit PROVE RInv /\ ProjectTypes
  OBVIOUS
<1> USE DEF ProjectsInit
<1>1. /\ workload \in Workloads
      /\ op = [r \in Requests |-> Nothing] /\ at = [r \in Requests |-> "idle"]
      /\ seen = [r \in Requests |-> Nothing]
  BY DEF RequestsInit
<1>2. RInv
  BY <1>1 DEF RInv, RequestTypes, Placed, Answers, Points, AgentPoints, CreatePoints, DropPoints,
              BoardPoints, BoardOps, IdeOps, Replies
<1>3. boards \in Seq(Texts)
  <2>1. Original \in Texts
    BY DEF Texts
  <2> QED
    BY <2>1 DEF BoardInit
<1>4. projects \in Seq(AnyProject)
  <2> DEFINE p == [id |-> 1, name |-> Demo, made |-> Demo, board |-> 1, agent |-> Nothing]
  <2>1. p \in AnyProject
    BY DEF AnyProject
  <2> HIDE DEF p
  <2>2. <<p>> \in Seq(AnyProject)
    BY <2>1
  <2> QED
    BY <2>2 DEF p
<1>5. \A r \in Requests : ~Making(r)
  BY <1>1 DEF Making
<1> QED
  BY <1>2, <1>3, <1>4, <1>5 DEF ProjectTypes

LEMMA ProjectTypesStep ==
    ASSUME RInv, ProjectTypes, [ProjectsNext]_projectVars
    PROVE  ProjectTypes'
<1> USE DEF ProjectTypes
<1>1. projects' \in Seq(AnyProject)
  <2>1. ASSUME NEW r \in Requests, ProjectStep(r) PROVE projects' \in Seq(AnyProject)
    <3>1. CASE UNCHANGED projects
      BY <3>1
    <3>2. CASE CreateProject(r, op[r].name) /\ op[r].name \in Names
      BY <3>2, Appended
    <3>3. CASE DeleteProject(op[r].item) /\ PlaceOf(op[r].item) # 0
      BY <3>3, Shortened
    <3>4. CASE /\ op[r].name \in Patch
               /\ UpdateProject(op[r].item, op[r].name.name, op[r].name.board, op[r].name.agent)
      BY <3>4, Updates DEF Patch
    <3>5. CASE /\ UpdateProject(seen[r].id, Unset, seen[r].board, AgentOf(r)) /\ seen[r] \in MadeIds
               /\ AgentOf(r) \in Names \cup {Nothing}
      <4>1. seen[r].board \in Nat
        BY <3>5 DEF MadeIds
      <4> QED
        BY <3>5, <4>1, Updates
    <3> QED
      BY <2>1, <3>1, <3>2, <3>3, <3>4, <3>5, ListSteps
  <2> QED
    BY <2>1, Steps DEF ideVars
<1>2. boards' \in Seq(Texts)
  <2>1. ASSUME NEW r \in Requests, NewBoard(r) PROVE boards' \in Seq(Texts)
    BY <2>1, AppendProperties DEF NewBoard, Texts
  <2>2. ASSUME NEW r \in Requests, NEW b \in DOMAIN boards, NameBoard(r, b) PROVE boards' \in Seq(Texts)
    BY <2>2, ExceptSeq, LenProperties DEF NameBoard, Texts
  <2> QED
    BY <2>1, <2>2, BoardSteps
<1>3. ASSUME NEW s \in Requests, Making(s)' PROVE seen'[s] \in MadeIds
  <2>1. Len(projects) \in Nat /\ Len(boards) \in Nat
    BY LenProperties
  <2>2. NextId \in Nat
    BY <2>1 DEF NextId
  <2>3. seen'[s] = Made(NextId, 0) => seen'[s] \in MadeIds
    BY <2>2 DEF Made, MadeIds
  <2>4. Making(s) /\ seen'[s] = Made(seen[s].id, Len(boards) + 1) => seen'[s] \in MadeIds
    BY <2>1 DEF Made, MadeIds
  <2> QED
    BY <1>3, <2>3, <2>4, MakingSteps
<1> QED
  BY <1>1, <1>2, <1>3

LEMMA ProjectsTyped == ProjectsSpec => [](RInv /\ ProjectTypes)
<1>1. RInv /\ ProjectTypes /\ [ProjectsNext]_projectVars => (RInv /\ ProjectTypes)'
  BY Serving, ProjectTypesStep
<1> QED
  BY <1>1, ProjectTypesInit, PTL DEF ProjectsSpec

-----------------------------------------------------------------------------
(* The agents: types, and what they promise of the workspace.              *)

AgentTypes ==
    /\ obj \in [Names -> [Kinds -> Writers \cup {Nothing}]]
    /\ leaving \subseteq Names
    /\ pod \in [Names -> Pod \cup {Nothing}]

\* A pod runs in the workspace of its agent, and there is one to delete.
Mounts ==
    /\ \A n \in Names : pod[n] # Nothing => pod[n].mounts \in {obj[n]["claim"], Nothing}
    /\ \A n \in leaving : obj[n]["claim"] # Nothing

LEMMA PodsTypesInit == ProjectsInit => AgentTypes /\ Mounts
<1> SUFFICES ASSUME PodsInit PROVE AgentTypes /\ Mounts
  BY DEF ProjectsInit
<1>1. Absent \in [Kinds -> Writers \cup {Nothing}] /\ Stopped \in [Kinds -> Writers \cup {Nothing}]
  BY DEF Absent, Stopped, Writers
<1>2. Running \in Pod
  BY DEF Running, Pod, Writers
<1>3. AgentTypes
  BY <1>1, <1>2 DEF PodsInit, AgentTypes
<1>4. \A n \in Names : pod[n] # Nothing => pod[n].mounts = Earlier /\ obj[n]["claim"] = Earlier
  BY DEF PodsInit, Running, Stopped, Kinds
<1> QED
  BY <1>3, <1>4 DEF Mounts, PodsInit

\* What becomes of an agent in a step of a handler.
LEMMA PodSteps ==
    ASSUME RInv, NEW r \in Requests, AgentStep(r)
    PROVE  /\ op[r].name \in Names /\ op[r] # Nothing /\ op' = op
           /\ \/ UNCHANGED <<obj, leaving, pod>>
              \/ CreateObject(r) /\ at[r] \in Kinds /\ Put(r, op[r].name, at[r]) /\ UNCHANGED <<leaving, pod>>
              \/ CreatePod(r) /\ pod[op[r].name] = Nothing /\ RunPod(r, op[r].name) /\ UNCHANGED <<obj, leaving>>
              \/ RemovePod(r) /\ TakeDown(op[r].name) /\ UNCHANGED <<obj, leaving>>
              \/ /\ CleanUp(r) /\ Drop(op[r].name, DropOf[at[r]]) /\ UNCHANGED pod
                 /\ at[r] \in DropPoints /\ DropOf[at[r]] \in Kinds
              \/ WriteConfig(r) /\ obj' = [obj EXCEPT ![op[r].name]["config"] = r] /\ UNCHANGED <<leaving, pod>>
<1>1. op' = op
  BY DEF AgentStep, CheckStopped, CreateObject, CreatePod, RemovePod, CleanUp,
         ReadConfig, WriteConfig, ReadPod, Proceed, Fail
<1>2. at[r] \in AgentPoints
  BY Domains DEF AgentStep, CheckStopped, CreateObject, CreatePod, RemovePod, CleanUp,
         ReadConfig, WriteConfig, ReadPod, AgentPoints, CreatePoints
<1>3. op[r].name \in Names /\ op[r] # Nothing
  BY <1>2 DEF RInv, Placed, AgentPoints, CreatePoints, DropPoints
<1>4. CASE CheckStopped(r) \/ ReadConfig(r) \/ ReadPod(r)
  BY <1>1, <1>3, <1>4 DEF CheckStopped, ReadConfig, ReadPod, podVars
<1>5. CASE CreateObject(r)
  BY <1>1, <1>3, <1>5, Domains DEF CreateObject, Kinds, podVars
<1>6. CASE CreatePod(r)
  BY <1>1, <1>3, <1>6 DEF CreatePod, podVars
<1>7. CASE RemovePod(r)
  BY <1>1, <1>3, <1>7 DEF RemovePod, Spare, podVars
<1>8. CASE CleanUp(r)
  <2>1. at[r] \in DropPoints /\ DropOf[at[r]] \in Kinds
    BY <1>8, Domains DEF CleanUp, DropPoints, DropOf, Kinds
  <2> QED
    BY <1>1, <1>3, <1>8, <2>1 DEF CleanUp, podVars
<1>9. CASE WriteConfig(r)
  BY <1>1, <1>3, <1>9 DEF WriteConfig, podVars
<1> QED
  BY <1>4, <1>5, <1>6, <1>7, <1>8, <1>9 DEF AgentStep

LEMMA ClusterSteps ==
    ASSUME Cluster
    PROVE  \E n \in Names : PodStarts(n) \/ PodEnds(n) \/ ClaimGoes(n) \/ IssueTls(n)
BY DEF Cluster

\* The mapping of the agents to AgentLifecycle.
Claims  == [n \in Names |-> obj[n]["claim"]]
Mounted == [n \in Names |-> IF pod[n] = Nothing THEN Nothing ELSE pod[n].mounts]

AgentMove == Lifecycle!Next \/ UNCHANGED Lifecycle!vars

LEMMA NoMove ==
    ASSUME Claims' = Claims, Mounted' = Mounted, leaving' = leaving
    PROVE  AgentMove
BY DEF AgentMove, Lifecycle!vars, Claims, Mounted

LEMMA RequestsWrite ==
    /\ Requests \subseteq Writers /\ Nothing \notin Writers
    /\ \A w \in Writers : w # Nothing
BY RequestAssumption, PodsAssumption DEF Writers

\* One lemma per kind of step: it preserves the types and Mounts, and is a step
\* of AgentLifecycle or none.
AgentKept == AgentTypes' /\ Mounts' /\ AgentMove

LEMMA PutKept ==
    ASSUME AgentTypes, Mounts, NEW r \in Requests, NEW n \in Names, NEW k \in Kinds,
           Put(r, n, k), UNCHANGED <<leaving, pod>>
    PROVE  AgentKept
<1>1. AgentTypes'
  BY RequestsWrite DEF Put, AgentTypes
<1>2. Mounted' = Mounted
  BY DEF Mounted
<1>3. \A m \in Names : obj[m]["claim"] # Nothing => obj'[m]["claim"] = obj[m]["claim"]
  BY DEF AgentTypes, Put, Kinds
<1>4. ASSUME NEW m \in Names, pod'[m] # Nothing PROVE pod'[m].mounts \in {obj'[m]["claim"], Nothing}
  BY <1>3, <1>4 DEF Mounts
<1>5. Mounts'
  BY <1>3, <1>4 DEF Mounts, AgentTypes
<1>6. CASE k = "claim" /\ obj[n][k] = Nothing
  <2>1. Claims' = [Claims EXCEPT ![n] = r]
    BY <1>6 DEF Claims, Put, AgentTypes, Kinds
  <2>2. Claims[n] = Nothing
    BY <1>6 DEF Claims
  <2>3. Lifecycle!Provision(n)
    BY <1>2, <2>1, <2>2, RequestsWrite DEF Lifecycle!Provision, Claims, Mounted
  <2> QED
    BY <1>1, <1>5, <2>3 DEF AgentKept, AgentMove, Lifecycle!Next
<1>7. CASE ~(k = "claim" /\ obj[n][k] = Nothing)
  <2>1. Claims' = Claims
    BY <1>7 DEF Claims, Put, AgentTypes, Kinds
  <2> QED
    BY <1>1, <1>2, <1>5, <2>1, NoMove DEF AgentKept
<1> QED
  BY <1>6, <1>7

LEMMA RunKept ==
    ASSUME AgentTypes, Mounts, NEW r \in Requests, NEW n \in Names,
           pod[n] = Nothing, RunPod(r, n), UNCHANGED <<obj, leaving>>
    PROVE  AgentKept
<1> DEFINE p == [key |-> HasKey(r), mounts |-> Nothing, going |-> FALSE]
<1>1. p \in Pod
  BY DEF Pod, HasKey
<1>2. p.mounts = Nothing
  OBVIOUS
<1>3. pod' = [pod EXCEPT ![n] = p]
  BY DEF RunPod
<1> HIDE DEF p
<1>4. AgentTypes'
  BY <1>1, <1>3 DEF AgentTypes
<1>5. Mounts'
  BY <1>2, <1>3 DEF Mounts, AgentTypes
<1>6. Mounted' = Mounted /\ Claims' = Claims
  BY <1>2, <1>3 DEF Mounted, Claims, AgentTypes
<1> QED
  BY <1>4, <1>5, <1>6, NoMove DEF AgentKept

LEMMA TakeDownKept ==
    ASSUME AgentTypes, Mounts, NEW n \in Names, TakeDown(n), UNCHANGED <<obj, leaving>>
    PROVE  AgentKept
<1>1. CASE pod[n] = Nothing
  BY <1>1, NoMove DEF TakeDown, AgentKept, AgentTypes, Mounts, Claims, Mounted
<1>2. CASE pod[n] # Nothing
  <2> DEFINE p == [pod[n] EXCEPT !.going = TRUE]
  <2>1. pod[n] \in Pod
    BY <1>2 DEF AgentTypes
  <2>2. p \in Pod /\ p.mounts = pod[n].mounts
    BY <2>1 DEF Pod
  <2>3. pod' = [pod EXCEPT ![n] = p]
    BY <1>2 DEF TakeDown
  <2>4. p # Nothing
    BY <2>2, NothingAssumption
  <2> HIDE DEF p
  <2>5. AgentTypes'
    BY <2>2, <2>3 DEF AgentTypes
  <2>6. Mounts'
    BY <1>2, <2>2, <2>3 DEF Mounts, AgentTypes
  <2>7. Mounted' = Mounted /\ Claims' = Claims
    BY <1>2, <2>2, <2>3, <2>4 DEF Mounted, Claims, AgentTypes
  <2> QED
    BY <2>5, <2>6, <2>7, NoMove DEF AgentKept
<1> QED
  BY <1>1, <1>2

LEMMA DropKept ==
    ASSUME AgentTypes, Mounts, NEW n \in Names, NEW k \in Kinds, Drop(n, k), UNCHANGED pod
    PROVE  AgentKept
<1>1. Mounted' = Mounted
  BY DEF Mounted
<1>2. CASE k = "claim"
  <2>1. obj' = obj /\ Claims' = Claims
    BY <1>2 DEF Drop, Claims
  <2>2. leaving' = IF obj[n]["claim"] = Nothing THEN leaving ELSE leaving \cup {n}
    BY <1>2 DEF Drop
  <2>3. AgentTypes' /\ Mounts'
    BY <2>1, <2>2 DEF AgentTypes, Mounts
  <2>4. CASE obj[n]["claim"] = Nothing
    BY <1>1, <2>1, <2>2, <2>3, <2>4, NoMove DEF AgentKept
  <2>5. CASE obj[n]["claim"] # Nothing
    <3>1. Lifecycle!Condemn(n)
      BY <1>1, <2>1, <2>2, <2>5 DEF Lifecycle!Condemn, Claims, Mounted
    <3> QED
      BY <2>3, <3>1 DEF AgentKept, AgentMove, Lifecycle!Next
  <2> QED
    BY <2>4, <2>5
<1>3. CASE k # "claim"
  <2>1. obj' = [obj EXCEPT ![n][k] = Nothing] /\ leaving' = leaving
    BY <1>3 DEF Drop
  <2>2. AgentTypes'
    BY <2>1 DEF AgentTypes
  <2>3. \A m \in Names : obj'[m]["claim"] = obj[m]["claim"]
    BY <1>3, <2>1 DEF AgentTypes, Kinds
  <2>4. Mounts' /\ Claims' = Claims
    BY <2>1, <2>3 DEF Mounts, Claims, AgentTypes
  <2> QED
    BY <1>1, <2>1, <2>2, <2>4, NoMove DEF AgentKept
<1> QED
  BY <1>2, <1>3

LEMMA ConfigKept ==
    ASSUME AgentTypes, Mounts, NEW r \in Requests, NEW n \in Names,
           obj' = [obj EXCEPT ![n]["config"] = r], UNCHANGED <<leaving, pod>>
    PROVE  AgentKept
<1>1. AgentTypes'
  BY RequestsWrite DEF AgentTypes, Kinds
<1>2. \A m \in Names : obj'[m]["claim"] = obj[m]["claim"]
  BY DEF AgentTypes, Kinds
<1>3. Mounts' /\ Claims' = Claims /\ Mounted' = Mounted
  BY <1>2 DEF Mounts, Claims, Mounted, AgentTypes
<1> QED
  BY <1>1, <1>3, NoMove DEF AgentKept

LEMMA ClusterKept ==
    ASSUME AgentTypes, Mounts, NEW n \in Names,
           PodStarts(n) \/ PodEnds(n) \/ ClaimGoes(n) \/ IssueTls(n)
    PROVE  AgentKept
<1>1. CASE PodStarts(n)
  <2> DEFINE w == obj[n]["claim"]
             p == [pod[n] EXCEPT !.mounts = w]
  <2>1. pod[n] \in Pod /\ pod[n].mounts = Nothing /\ w # Nothing /\ w \in Writers
        /\ n \notin leaving /\ pod[n] # Nothing
    BY <1>1 DEF PodStarts, AgentTypes, Kinds
  <2>2. p \in Pod /\ p.mounts = w
    BY <2>1 DEF Pod
  <2>3. pod' = [pod EXCEPT ![n] = p] /\ UNCHANGED <<obj, leaving>>
    BY <1>1 DEF PodStarts
  <2>4. p # Nothing
    BY <2>2, NothingAssumption
  <2>5. Claims[n] = w /\ Claims' = Claims
    BY <2>3 DEF Claims
  <2> HIDE DEF p, w
  <2>6. AgentTypes'
    BY <2>2, <2>3 DEF AgentTypes
  <2>7. Mounts'
    BY <2>2, <2>3, <2>5 DEF Mounts, AgentTypes, Claims
  <2>8. Mounted[n] = Nothing /\ Mounted' = [Mounted EXCEPT ![n] = w]
    BY <2>1, <2>2, <2>3, <2>4 DEF Mounted, AgentTypes
  <2>9. Lifecycle!Start(n)
    BY <2>1, <2>3, <2>5, <2>8 DEF Lifecycle!Start, Claims, Mounted
  <2> QED
    BY <2>6, <2>7, <2>9 DEF AgentKept, AgentMove, Lifecycle!Next
<1>2. CASE PodEnds(n)
  <2>1. pod[n] # Nothing /\ pod' = [pod EXCEPT ![n] = Nothing] /\ UNCHANGED <<obj, leaving>>
    BY <1>2 DEF PodEnds
  <2>2. AgentTypes' /\ Mounts'
    BY <2>1 DEF AgentTypes, Mounts
  <2>3. Claims' = Claims /\ Mounted' = [Mounted EXCEPT ![n] = Nothing]
    BY <2>1 DEF Claims, Mounted, AgentTypes
  <2>4. CASE pod[n].mounts = Nothing
    <3>1. Mounted' = Mounted
      BY <2>1, <2>4 DEF Mounted, AgentTypes
    <3> QED
      BY <2>1, <2>2, <2>3, <3>1, NoMove DEF AgentKept
  <2>5. CASE pod[n].mounts # Nothing
    <3>1. Lifecycle!Stop(n)
      BY <2>1, <2>3, <2>5 DEF Lifecycle!Stop, Claims, Mounted
    <3> QED
      BY <2>2, <3>1 DEF AgentKept, AgentMove, Lifecycle!Next
  <2> QED
    BY <2>4, <2>5
<1>3. CASE ClaimGoes(n)
  <2>1. /\ n \in leaving /\ (pod[n] # Nothing => pod[n].mounts = Nothing)
        /\ obj' = [obj EXCEPT ![n]["claim"] = Nothing] /\ leaving' = leaving \ {n} /\ pod' = pod
    BY <1>3 DEF ClaimGoes
  <2>2. AgentTypes'
    BY <2>1 DEF AgentTypes, Kinds
  <2>3. \A m \in Names : obj'[m]["claim"] = IF m = n THEN Nothing ELSE obj[m]["claim"]
    BY <2>1 DEF AgentTypes, Kinds
  <2>4. Mounts'
    BY <2>1, <2>3 DEF Mounts, AgentTypes
  <2>5. Claims' = [Claims EXCEPT ![n] = Nothing] /\ Mounted' = Mounted /\ Mounted[n] = Nothing
    BY <2>1, <2>3 DEF Claims, Mounted
  <2>6. Lifecycle!Destroy(n)
    BY <2>1, <2>5 DEF Lifecycle!Destroy, Claims, Mounted
  <2> QED
    BY <2>2, <2>4, <2>6 DEF AgentKept, AgentMove, Lifecycle!Next
<1>4. CASE IssueTls(n)
  <2>1. obj' = [obj EXCEPT ![n]["tls"] = obj[n]["cert"]] /\ UNCHANGED <<leaving, pod>>
    BY <1>4 DEF IssueTls
  <2>2. AgentTypes'
    BY <2>1 DEF AgentTypes, Kinds
  <2>3. \A m \in Names : obj'[m]["claim"] = obj[m]["claim"]
    BY <2>1 DEF AgentTypes, Kinds
  <2>4. Mounts' /\ Claims' = Claims /\ Mounted' = Mounted
    BY <2>1, <2>3 DEF Mounts, Claims, Mounted, AgentTypes
  <2> QED
    BY <2>1, <2>2, <2>4, NoMove DEF AgentKept
<1> QED
  BY <1>1, <1>2, <1>3, <1>4

LEMMA AgentSteps ==
    ASSUME RInv, AgentTypes, Mounts, [ProjectsNext]_projectVars
    PROVE  AgentKept
<1>1. CASE UNCHANGED <<obj, leaving, pod>>
  BY <1>1, NoMove DEF AgentKept, AgentTypes, Mounts, Claims, Mounted
<1>2. CASE Cluster
  BY <1>2, ClusterKept DEF Cluster
<1>3. ASSUME NEW r \in Requests, AgentStep(r) PROVE AgentKept
  BY <1>1, <1>3, PodSteps, PutKept, RunKept, TakeDownKept, DropKept, ConfigKept
<1> QED
  BY <1>1, <1>2, <1>3, Steps DEF podVars

LEMMA PodsTyped == ProjectsSpec => [](AgentTypes /\ Mounts)
<1>1. RInv /\ AgentTypes /\ Mounts /\ [ProjectsNext]_projectVars => (AgentTypes /\ Mounts)'
  BY AgentSteps DEF AgentKept
<1> QED
  BY <1>1, PodsTypesInit, ProjectsTyped, PTL DEF ProjectsSpec

\* amgr/handler.go and k8s/agents.go implement AgentLifecycle, whatever overlaps or
\* fails: the workspace is made once, a pod runs in the one its agent has, and it
\* goes only after a delete, when no pod runs in it any more.
THEOREM AgentsImplementLifecycle == ProjectsSpec => ImplementsLifecycle
<1>1. ProjectsInit => Lifecycle!Init
  <2> SUFFICES ASSUME ProjectsInit PROVE Lifecycle!Init
    OBVIOUS
  <2>1. AgentTypes /\ Mounts /\ leaving = {}
    BY PodsTypesInit DEF ProjectsInit, PodsInit
  <2>2. \A n \in Names : obj[n]["claim"] \in Writers \cup {Nothing}
    BY <2>1 DEF AgentTypes, Kinds
  <2>3. \A n \in Names : pod[n] # Nothing => pod[n].mounts \in Writers \cup {Nothing}
    BY <2>1 DEF AgentTypes, Pod
  <2> QED
    BY <2>1, <2>2, <2>3 DEF Lifecycle!Init, Mounts
<1>2. RInv /\ AgentTypes /\ Mounts /\ [ProjectsNext]_projectVars => [Lifecycle!Next]_(Lifecycle!vars)
  BY AgentSteps DEF AgentKept, AgentMove
<1> QED
  BY <1>1, <1>2, ProjectsTyped, PodsTyped, PTL DEF ProjectsSpec, ImplementsLifecycle, Lifecycle!Spec

-----------------------------------------------------------------------------
(* Requests that overlap.                                                  *)

\* The names that two requests under way work on are known.
Alone ==
    \A r, s \in Requests :
        r # s /\ at[r] \notin Answered /\ at[s] \notin Answered /\ op[r].name = op[s].name
        => op[r].name \in overlapped

\* A step of r tells the names that r takes up.
Tells(r) ==
    \/ at'[r] \in Answered
    \/ at[r] \notin Answered /\ op'[r].name = op[r].name
    \/ Shared(r, op'[r].name) \subseteq overlapped'

LEMMA StepPoints ==
    ASSUME NEW r \in Requests
    PROVE  /\ AgentStep(r) => at[r] \in AgentPoints /\ op' = op
           /\ BoardStep(r) => at[r] \in BoardPoints /\ op' = op
           /\ ProjectStep(r) =>
                 at[r] \in IdeOps \cup {"ide", "board", "dropProject"} \cup Replies /\ op' = op
<1>1. ASSUME AgentStep(r) PROVE at[r] \in AgentPoints /\ op' = op
  <2>1. op' = op
    BY <1>1 DEF AgentStep, CheckStopped, CreateObject, CreatePod, RemovePod, CleanUp,
                ReadConfig, WriteConfig, ReadPod, Proceed, Fail
  <2>2. at[r] \in AgentPoints
    BY <1>1, Domains DEF AgentStep, CheckStopped, CreateObject, CreatePod, RemovePod, CleanUp,
                         ReadConfig, WriteConfig, ReadPod, AgentPoints, CreatePoints
  <2> QED
    BY <2>1, <2>2
<1>2. ASSUME BoardStep(r) PROVE at[r] \in BoardPoints /\ op' = op
  BY <1>2 DEF BoardStep, boardMissing, createBoard, renameBoard, createCard, updateCard,
              deleteCard, sendCard, activate, createEdge, updateEdge, deleteEdge, getBoard,
              encode, Serves, create, update, delete, BoardPoints, BoardOps, Proceed
<1>3. ASSUME ProjectStep(r)
      PROVE  at[r] \in IdeOps \cup {"ide", "board", "dropProject"} \cup Replies /\ op' = op
  <2>1. op' = op
    BY <1>3 DEF ProjectStep, ideCreate, ideUpdate, ideDelete, putFile, deleteFile, renameFile,
                CreateIde, CreateBoard, LinkAll, DropProject, Proceed, Fail
  <2>2. at[r] \in IdeOps \cup {"ide", "board", "dropProject"} \cup Replies
    BY <1>3 DEF ProjectStep, ideCreate, ideUpdate, ideDelete, putFile, deleteFile, renameFile,
                CreateIde, CreateBoard, LinkAll, DropProject, LastCall, AtIde, IdeOps, Replies
  <2> QED
    BY <2>1, <2>2
<1> QED
  BY <1>1, <1>2, <1>3

LEMMA Telling ==
    ASSUME RInv, ProjectTypes, [ProjectsNext]_projectVars
    PROVE  UNCHANGED requestVars \/ \E r \in Requests : Serve(r) /\ Tells(r)
<1>1. ASSUME NEW r \in Requests, Begins(r) PROVE Tells(r)
  <2>1. PICK o, first : Begin(r, o, first)
    BY <1>1 DEF Begins, AgentRequest, BoardRequest, IdeRequest, ProjectRequest
  <2>2. op'[r] = o /\ overlapped' = overlapped \cup Shared(r, o.name)
    BY <2>1 DEF Begin, RInv, RequestTypes
  <2> QED
    BY <2>2 DEF Tells
<1>2. ASSUME NEW r \in Requests, AgentStep(r) \/ BoardStep(r) \/ ProjectStep(r) PROVE Tells(r)
  BY <1>2, StepPoints DEF Tells, Answered, AgentPoints, CreatePoints, DropPoints, BoardPoints,
                          BoardOps, IdeOps, Replies
<1>3. ASSUME NEW r \in Requests, FindProject(r) PROVE Tells(r)
  BY <1>3, FindServes DEF Tells, Answered
<1> QED
  BY <1>1, <1>2, <1>3, Steps, RequestServes, AgentServes, BoardServes, ProjectServes, FindServes

LEMMA AloneStep ==
    ASSUME RInv, ProjectTypes, Alone, [ProjectsNext]_projectVars
    PROVE  Alone'
<1>1. CASE UNCHANGED requestVars
  BY <1>1 DEF requestVars, Alone, Answered
<1>2. ASSUME NEW r \in Requests, Serve(r), Tells(r),
             NEW s \in Requests \ {r}, at'[r] \notin Answered, at'[s] \notin Answered,
             op'[r].name = op'[s].name
      PROVE  op'[r].name \in overlapped'
  <2>1. at'[s] = at[s] /\ op'[s] = op[s] /\ overlapped \subseteq overlapped'
    BY <1>2 DEF Serve, Only
  <2>2. CASE at[r] \notin Answered /\ op'[r].name = op[r].name
    BY <1>2, <2>1, <2>2 DEF Alone, Answered
  <2>3. CASE Shared(r, op'[r].name) \subseteq overlapped'
    <3>1. s \in Others(r)
      BY <1>2, <2>1 DEF Others, Answered
    <3> QED
      BY <1>2, <2>1, <2>3, <3>1 DEF Shared
  <2> QED
    BY <1>2, <2>2, <2>3 DEF Tells, Answered
<1>3. ASSUME NEW r \in Requests, Serve(r), Tells(r) PROVE Alone'
  <2>1. ASSUME NEW s \in Requests \ {r}, NEW t \in Requests \ {r}, s # t,
               at'[s] \notin Answered, at'[t] \notin Answered, op'[s].name = op'[t].name
        PROVE  op'[s].name \in overlapped'
    BY <1>3, <2>1 DEF Serve, Only, Alone, Answered
  <2>2. ASSUME NEW s \in Requests \ {r}, at'[s] \notin Answered, at'[r] \notin Answered,
               op'[s].name = op'[r].name
        PROVE  op'[s].name \in overlapped'
    BY <1>2, <1>3, <2>2
  <2>3. ASSUME NEW s \in Requests, NEW t \in Requests, s # t,
               at'[s] \notin Answered, at'[t] \notin Answered, op'[s].name = op'[t].name
        PROVE  op'[s].name \in overlapped'
    <3>1. CASE s = r
      BY <2>2, <2>3, <3>1
    <3>2. CASE t = r
      BY <2>2, <2>3, <3>2
    <3>3. CASE s # r /\ t # r
      BY <2>1, <2>3, <3>3
    <3> QED
      BY <3>1, <3>2, <3>3
  <2> QED
    BY <2>3 DEF Alone, Answered
<1> QED
  BY <1>1, <1>3, Telling

LEMMA AloneHolds == ProjectsSpec => []Alone
<1>1. ProjectsInit => Alone
  BY DEF ProjectsInit, RequestsInit, Alone, Answered
<1>2. RInv /\ ProjectTypes /\ Alone /\ [ProjectsNext]_projectVars => Alone'
  BY AloneStep
<1> QED
  BY <1>1, <1>2, ProjectsTyped, PTL DEF ProjectsSpec

-----------------------------------------------------------------------------
(* The objects of an agent that nobody else works on.                      *)

Down(n) == pod[n] = Nothing \/ pod[n].going

\* The claim is there to stay.
Holds(n) == obj[n]["claim"] # Nothing /\ n \notin leaving

\* What a request may count on, as far as it has got.
Counts(r, n) ==
    /\ at[r] \in {"config", "secret", "cert", "pod"} => n \in early \/ Holds(n)
    /\ at[r] \in {"secret", "cert", "pod"} => obj[n]["config"] # Nothing
    /\ at[r] \in {"cert", "pod"} /\ HasKey(r) => obj[n]["secret"] # Nothing

\* A deletion goes on with the pod down, or spares it.
Felled(r, n) == at[r] \in DropPoints => n \in spared \/ Down(n)

\* What a deletion of which no call failed has taken down.
AgentGone(r) == at[r] \in Replies /\ op[r].does = "deleteProject"

Took(r, n) ==
    /\ at[r] \in DropPoints \/ AgentGone(r) => Down(n)
    /\ at[r] \in DropPoints \ {"dropClaim"} \/ AgentGone(r) => ~Holds(n)
    /\ at[r] \in {"dropSecret", "dropCert", "dropTls"} \/ AgentGone(r) => obj[n]["config"] = Nothing
    /\ at[r] \in {"dropCert", "dropTls"} \/ AgentGone(r) => obj[n]["secret"] = Nothing
    /\ at[r] = "dropTls" \/ AgentGone(r) => obj[n]["cert"] = Nothing
    /\ AgentGone(r) => obj[n]["tls"] = Nothing

HasState(n) ==
    Lives(n) =>
        /\ obj[n]["config"] # Nothing
        /\ pod[n].key => obj[n]["secret"] # Nothing
        /\ n \in early \/ Holds(n)

\* What is true of a request and its agent, as long as no other works on it.
Alright(r, n) ==
    /\ n \notin spared => HasState(n)
    /\ Counts(r, n) /\ Felled(r, n)
    /\ n \notin failed => Took(r, n)

Undisturbed ==
    /\ \A n \in Names \ overlapped : n \notin spared => HasState(n)
    /\ \A r \in Requests :
          at[r] \notin Answered /\ op[r].name \in Names \ overlapped => Alright(r, op[r].name)

\* The effect of a step on the objects of one agent.
ObjectPut(n, k, w) ==
    /\ \A m \in Names \ {n} : obj'[m] = obj[m]
    /\ \A j \in Kinds : obj'[n][j] = IF j = k THEN w ELSE obj[n][j]

LEMMA ObjectWritten ==
    ASSUME AgentTypes, NEW n \in Names, NEW k \in Kinds, NEW w,
           obj' = [obj EXCEPT ![n][k] = w]
    PROVE  ObjectPut(n, k, w)
BY DEF AgentTypes, ObjectPut

SameAgent(n) ==
    /\ obj'[n] = obj[n] /\ pod'[n] = pod[n] /\ (n \in leaving' <=> n \in leaving)
    /\ (n \in early' <=> n \in early) /\ (n \in spared' <=> n \in spared)

LEMMA SameKept ==
    ASSUME NEW r, NEW n, SameAgent(n), at'[r] = at[r], op'[r] = op[r], failed \subseteq failed'
    PROVE  /\ (n \notin spared => HasState(n)) => (n \notin spared => HasState(n))'
           /\ Alright(r, n) => Alright(r, n)'
<1>1. HasState(n) <=> HasState(n)'
  BY DEF SameAgent, HasState, Holds, Lives
<1>2. Counts(r, n) => Counts(r, n)'
  BY DEF SameAgent, Counts, Holds, HasKey
<1>3. Felled(r, n) => Felled(r, n)'
  BY DEF SameAgent, Felled, Down
<1>4. Took(r, n) => Took(r, n)'
  BY DEF SameAgent, Took, Holds, Down, AgentGone
<1>5. n \in spared' <=> n \in spared
  BY DEF SameAgent
<1> QED
  BY <1>1, <1>2, <1>3, <1>4, <1>5 DEF Alright

\* The step of the handler itself.
LEMMA CreateCounts ==
    ASSUME RInv, AgentTypes, NEW r \in Requests, NEW n \in Names, n = op[r].name,
           CreateObject(r), Alright(r, n), op' = op
    PROVE  Alright(r, n)'
<1> DEFINE k == at[r]
<1>1. /\ k \in {"claim", "config", "secret", "cert"} /\ k \in Kinds
      /\ UNCHANGED <<leaving, pod, spared>>
      /\ op[r].does \in {"createAgent", "startAgent", "createProject"}
  BY Domains DEF CreateObject, Kinds, RInv, Placed, CreatePoints
<1>2. \/ k = "secret" /\ ~HasKey(r) /\ Proceed(r, "cert") /\ UNCHANGED <<obj, early>>
      \/ Put(r, n, k) /\ Meets(n, k) /\ Proceed(r, AfterObject[k])
      \/ /\ Put(r, n, k) \/ UNCHANGED obj
         /\ UNCHANGED early
         /\ Fail(r, IF k = "cert" THEN "pod" ELSE Reply(r, "refused"))
  BY DEF CreateObject
<1>3. /\ HasKey(r)' = HasKey(r)
      /\ at'[r] \notin DropPoints /\ ~AgentGone(r)'
  BY <1>1, <1>2, FirstCalls DEF HasKey, AgentGone, Proceed, Fail, RInv, RequestTypes, Reply, DropPoints
<1>4. Felled(r, n)' /\ Took(r, n)'
  BY <1>3 DEF Felled, Took, DropPoints
<1>5. ASSUME Put(r, n, k)
      PROVE  /\ \A j \in Kinds : obj[n][j] # Nothing => obj'[n][j] # Nothing
             /\ obj'[n][k] # Nothing
  BY <1>1, <1>5, RequestsWrite DEF Put, AgentTypes
<1>6. \A j \in Kinds : obj[n][j] # Nothing => obj'[n][j] # Nothing
  BY <1>2, <1>5
<1>7. n \in early \/ Holds(n) => n \in early' \/ Holds(n)'
  <2>1. CASE UNCHANGED early
    BY <1>1, <1>6, <2>1 DEF Holds, Kinds
  <2>2. CASE Put(r, n, k) /\ Meets(n, k)
    BY <1>1, <1>5, <1>6, <2>2 DEF Holds, Kinds, Meets
  <2> QED
    BY <1>2, <2>1, <2>2
<1>8. (n \notin spared => HasState(n))'
  BY <1>1, <1>6, <1>7 DEF Alright, HasState, Lives, Kinds
<1>9. Counts(r, n)'
  <2>1. CASE k = "secret" /\ ~HasKey(r) /\ Proceed(r, "cert") /\ UNCHANGED <<obj, early>>
    <3>1. at'[r] = "cert"
      BY <2>1 DEF Proceed, RInv, RequestTypes
    <3> QED
      BY <1>1, <1>3, <1>7, <2>1, <3>1 DEF Alright, Counts
  <2>2. CASE Put(r, n, k) /\ Meets(n, k) /\ Proceed(r, AfterObject[k])
    <3>1. at'[r] = AfterObject[k]
      BY <2>2 DEF Proceed, RInv, RequestTypes
    <3>2. k = "claim" => n \in early' \/ Holds(n)'
      BY <1>1, <1>5, <2>2 DEF Meets, Holds
    <3>3. n \in early' \/ Holds(n)'
      BY <1>1, <1>7, <3>2 DEF Alright, Counts
    <3> QED
      BY <1>1, <1>3, <1>5, <1>6, <2>2, <3>1, <3>3, FirstCalls DEF Alright, Counts, Kinds
  <2>3. CASE UNCHANGED early /\ Fail(r, IF k = "cert" THEN "pod" ELSE Reply(r, "refused"))
    <3>1. at'[r] = IF k = "cert" THEN "pod" ELSE Reply(r, "refused")
      BY <2>3 DEF Fail, RInv, RequestTypes
    <3>2. Reply(r, "refused") \in Final \cup Replies
      BY DEF Reply, Final, Replies
    <3> QED
      BY <1>1, <1>3, <1>6, <1>7, <3>1, <3>2 DEF Alright, Counts, Kinds, Final, Replies
  <2> QED
    BY <1>2, <2>1, <2>2, <2>3
<1> QED
  BY <1>4, <1>8, <1>9 DEF Alright

LEMMA PodCounts ==
    ASSUME RInv, AgentTypes, NEW r \in Requests, NEW n \in Names, n = op[r].name,
           CreatePod(r), Alright(r, n), op' = op
    PROVE  Alright(r, n)'
<1>1. /\ at[r] = "pod" /\ UNCHANGED <<obj, leaving, early, spared>>
      /\ op[r].does \in {"createAgent", "startAgent", "createProject"}
  BY DEF CreatePod, RInv, Placed, CreatePoints
<1>2. at'[r] \in Final \cup Replies
  BY DEF CreatePod, Proceed, Fail, RInv, RequestTypes, Reply, Final, Replies
<1>3. \/ pod[n] = Nothing /\ RunPod(r, n)
      \/ UNCHANGED pod
  BY DEF CreatePod
<1>4. ASSUME UNCHANGED pod PROVE (n \notin spared => HasState(n))'
  BY <1>1, <1>4 DEF Alright, HasState, Holds, Lives
<1>5. ASSUME pod[n] = Nothing, RunPod(r, n) PROVE HasState(n)'
  <2>1. pod'[n] = [key |-> HasKey(r), mounts |-> Nothing, going |-> FALSE]
    BY <1>5 DEF RunPod, AgentTypes
  <2> QED
    BY <1>1, <2>1 DEF Alright, HasState, Counts, Holds
<1>6. Counts(r, n)' /\ Felled(r, n)' /\ Took(r, n)'
  BY <1>1, <1>2 DEF Counts, Felled, Took, AgentGone, DropPoints, Final, Replies
<1> QED
  BY <1>3, <1>4, <1>5, <1>6 DEF Alright

LEMMA TakenDown ==
    ASSUME AgentTypes, NEW n \in Names, TakeDown(n)
    PROVE  Down(n)'
<1>1. CASE pod[n] = Nothing
  BY <1>1 DEF TakeDown, Down
<1>2. CASE pod[n] # Nothing
  <2>1. pod[n] \in Pod
    BY <1>2 DEF AgentTypes
  <2>2. pod'[n] = [pod[n] EXCEPT !.going = TRUE]
    BY <1>2 DEF TakeDown, AgentTypes
  <2> QED
    BY <2>1, <2>2 DEF Pod, Down
<1> QED
  BY <1>1, <1>2

LEMMA RemoveCounts ==
    ASSUME RInv, AgentTypes, NEW r \in Requests, NEW n \in Names, n = op[r].name,
           RemovePod(r), Alright(r, n), op' = op
    PROVE  Alright(r, n)'
<1>1. UNCHANGED <<obj, leaving, early>>
  BY DEF RemovePod
<1>2. at'[r] \in {"dropClaim"} \cup Final /\ (at'[r] = "dropClaim" => at[r] = "deletePod")
  BY DEF RemovePod, Proceed, Fail, RInv, RequestTypes, Final
<1>3. Counts(r, n)' /\ ~AgentGone(r)'
  BY <1>2 DEF Counts, AgentGone, Final, Replies
<1>4. CASE TakeDown(n)
  <2>1. Down(n)'
    BY <1>4, TakenDown
  <2>2. HasState(n)' /\ Felled(r, n)'
    BY <2>1 DEF Down, HasState, Lives, Felled
  <2>3. Took(r, n)'
    BY <1>2, <1>3, <2>1 DEF Took, DropPoints, Final
  <2> QED
    BY <1>3, <2>2, <2>3 DEF Alright
<1>5. CASE ~TakeDown(n)
  <2>1. /\ \/ at[r] = "stopPod" /\ UNCHANGED <<pod, spared>>
           \/ at[r] = "deletePod" /\ Spare(n)
        /\ \E next : Fail(r, next)
    BY <1>5 DEF RemovePod
  <2>2. n \in failed'
    BY <2>1 DEF Fail
  <2>3. UNCHANGED pod /\ (n \in spared => n \in spared') /\ (at[r] = "deletePod" /\ Lives(n) => n \in spared')
    BY <2>1 DEF Spare
  <2>4. (n \notin spared => HasState(n))'
    BY <1>1, <2>3 DEF Alright, HasState, Lives, Holds
  <2>5. Felled(r, n)'
    BY <1>2, <2>3 DEF Felled, Lives, Down, DropPoints, Final
  <2> QED
    BY <1>3, <2>2, <2>4, <2>5 DEF Alright
<1> QED
  BY <1>4, <1>5

\* Nothing is left of the agent but what is Terminating.
LeavesNothing(n) ==
    /\ \A k \in Kinds \ {"claim"} : obj[n][k] = Nothing
    /\ obj[n]["claim"] # Nothing => n \in leaving
    /\ pod[n] # Nothing => pod[n].going

LEMMA CleanCounts ==
    ASSUME RInv, AgentTypes, NEW r \in Requests, NEW n \in Names, n = op[r].name,
           CleanUp(r), Alright(r, n), op' = op
    PROVE  /\ Alright(r, n)'
           /\ n \notin failed' /\ at'[r] \notin DropPoints => LeavesNothing(n)'
<1> DEFINE k == DropOf[at[r]]
<1>1. at[r] \in DropPoints /\ UNCHANGED <<pod, early, spared, seen>>
  BY Domains DEF CleanUp
<1>2. \/ Drop(n, k) /\ Proceed(r, AfterDrop(r))
      \/ UNCHANGED <<obj, leaving>> /\ Fail(r, AfterDrop(r))
  BY DEF CleanUp
<1>3. at'[r] = AfterDrop(r) /\ failed \subseteq failed'
  BY <1>2 DEF Proceed, Fail, RInv, RequestTypes
<1>4. n \in spared \/ Down(n)
  BY <1>1 DEF Alright, Felled
<1>5. seen[r].answer \in Final
  BY <1>1 DEF RInv, Answers
<1>6. at[r] = "dropTls" => at'[r] \in Final \cup Replies
  BY <1>3, <1>5 DEF AfterDrop, Reply, Final, Replies
<1>7. /\ at[r] = "dropClaim" => at'[r] = "dropConfig" /\ k = "claim"
      /\ at[r] = "dropConfig" => at'[r] = "dropSecret" /\ k = "config"
      /\ at[r] = "dropSecret" => at'[r] = "dropCert" /\ k = "secret"
      /\ at[r] = "dropCert" => at'[r] = "dropTls" /\ k = "cert"
      /\ at[r] = "dropTls" => k = "tls"
  BY <1>3 DEF AfterDrop, DropOf
<1> HIDE DEF k
<1>8. (n \notin spared => HasState(n))' /\ Felled(r, n)'
  BY <1>1, <1>4 DEF HasState, Lives, Felled, Down
<1>9. Counts(r, n)'
  BY <1>1, <1>6, <1>7 DEF Counts, DropPoints, Final, Replies
<1>10. ASSUME n \notin failed'
       PROVE  Took(r, n)' /\ (at'[r] \notin DropPoints => LeavesNothing(n)')
  <2>1. Drop(n, k) /\ Took(r, n)
    BY <1>2, <1>3, <1>10 DEF Fail, Alright
  <2>2. \/ /\ k = "claim" /\ obj' = obj
           /\ leaving' = IF obj[n]["claim"] = Nothing THEN leaving ELSE leaving \cup {n}
        \/ k # "claim" /\ leaving' = leaving /\ obj' = [obj EXCEPT ![n][k] = Nothing]
    BY <2>1 DEF Drop
  <2>3. k # "claim" => \A j \in Kinds : obj'[n][j] = IF j = k THEN Nothing ELSE obj[n][j]
    BY SMTT(20), <1>1, <1>7, <2>2, ObjectWritten DEF ObjectPut, Kinds, DropPoints
  <2>4. Down(n)'
    BY <1>1, <2>1 DEF Took, Down
  <2>5. CASE at[r] = "dropClaim"
    BY <1>1, <1>7, <2>2, <2>4, <2>5 DEF Took, AgentGone, DropPoints, Replies, Holds
  <2>6. CASE at[r] \in {"dropConfig", "dropSecret", "dropCert"}
    BY <1>1, <1>7, <2>1, <2>2, <2>3, <2>4, <2>6 DEF Took, AgentGone, DropPoints, Replies, Kinds, Holds
  <2>7. CASE at[r] = "dropTls"
    <3>1. /\ obj'[n]["config"] = Nothing /\ obj'[n]["secret"] = Nothing
          /\ obj'[n]["cert"] = Nothing /\ obj'[n]["tls"] = Nothing /\ ~Holds(n)'
      BY <1>7, <2>1, <2>2, <2>3, <2>7 DEF Took, DropPoints, Kinds, Holds
    <3> QED
      BY <1>6, <2>4, <2>7, <3>1 DEF Took, DropPoints, Replies, Final, Kinds, LeavesNothing, Holds, Down
  <2> QED
    BY <1>1, <2>5, <2>6, <2>7 DEF DropPoints
<1> QED
  BY <1>8, <1>9, <1>10 DEF Alright

LEMMA ConfigCounts ==
    ASSUME RInv, AgentTypes, NEW r \in Requests, NEW n \in Names, n = op[r].name,
           Alright(r, n), op' = op,
           CheckStopped(r) \/ ReadConfig(r) \/ WriteConfig(r) \/ ReadPod(r)
    PROVE  Alright(r, n)'
<1>1. UNCHANGED <<leaving, pod, early, spared>>
  BY DEF CheckStopped, ReadConfig, WriteConfig, ReadPod, podVars
<1>2. at'[r] \in {"claim", "refused", "writeConfig", "readPod", "done"}
  <2>1. CASE CheckStopped(r)
    BY <2>1 DEF CheckStopped, Proceed, Fail, RInv, RequestTypes
  <2>2. CASE ReadConfig(r)
    BY <2>2 DEF ReadConfig, Proceed, Fail, RInv, RequestTypes
  <2>3. CASE WriteConfig(r)
    BY <2>3 DEF WriteConfig, Proceed, Fail, RInv, RequestTypes
  <2>4. CASE ReadPod(r)
    BY <2>4 DEF ReadPod, Proceed, Fail, RInv, RequestTypes
  <2> QED
    BY <2>1, <2>2, <2>3, <2>4
<1>3. \A j \in Kinds : obj[n][j] # Nothing => obj'[n][j] # Nothing
  <2>1. CASE UNCHANGED obj
    BY <2>1
  <2>2. CASE obj' = [obj EXCEPT ![n]["config"] = r]
    <3>1. ObjectPut(n, "config", r)
      BY <2>2, ObjectWritten DEF Kinds
    <3> QED
      BY <3>1, RequestsWrite DEF ObjectPut
  <2> QED
    BY <2>1, <2>2 DEF CheckStopped, ReadConfig, WriteConfig, ReadPod, podVars
<1>4. (n \notin spared => HasState(n))'
  BY <1>1, <1>3 DEF Alright, HasState, Lives, Holds, Kinds
<1> QED
  BY <1>2, <1>4 DEF Alright, Counts, Felled, Took, AgentGone, DropPoints, Replies

\* What the cluster does to an agent takes nothing that its requests count on.
LEMMA ClusterCounts ==
    ASSUME AgentTypes, NEW n \in Names, NEW m \in Names, NEW r,
           PodStarts(n) \/ PodEnds(n) \/ ClaimGoes(n) \/ IssueTls(n)
    PROVE  /\ (m \notin spared => HasState(m)) => (m \notin spared => HasState(m))'
           /\ Alright(r, m) => Alright(r, m)'
<1>1. /\ at' = at /\ op' = op /\ HasKey(r)' = HasKey(r) /\ failed' = failed
      /\ early' = early /\ spared' = spared
  BY DEF PodStarts, PodEnds, ClaimGoes, IssueTls, requestVars, HasKey
<1>2. CASE m # n
  <2>1. SameAgent(m)
    BY <1>1, <1>2 DEF SameAgent, PodStarts, PodEnds, ClaimGoes, IssueTls, AgentTypes
  <2> QED
    BY <1>1, <2>1, SameKept
<1>3. CASE m = n /\ PodStarts(n)
  <2>1. UNCHANGED <<obj, leaving>> /\ pod[n] \in Pod /\ pod'[n] = [pod[n] EXCEPT !.mounts = obj[n]["claim"]]
    BY <1>3 DEF PodStarts, AgentTypes
  <2>2. /\ pod'[n].going = pod[n].going /\ pod'[n].key = pod[n].key /\ pod[n] # Nothing
        /\ pod'[n] # Nothing
    <3>1. pod'[n] = [key |-> pod[n].key, mounts |-> obj[n]["claim"], going |-> pod[n].going]
      BY <2>1 DEF Pod
    <3>2. obj[n]["claim"] \in Writers \cup {Nothing}
      BY DEF AgentTypes, Kinds
    <3>3. pod'[n] \in Pod
      BY <2>1, <3>1, <3>2 DEF Pod
    <3> QED
      BY <1>3, <3>1, <3>3, NothingAssumption DEF PodStarts
  <2>3. HasState(m) => HasState(m)'
    BY <1>1, <1>3, <2>1, <2>2 DEF HasState, Lives, Holds
  <2>4. Counts(r, m) => Counts(r, m)'
    BY <1>1, <1>3, <2>1, <2>2 DEF Counts, Holds
  <2>5. (Felled(r, m) => Felled(r, m)') /\ (Took(r, m) => Took(r, m)')
    BY <1>1, <1>3, <2>1, <2>2 DEF Felled, Took, AgentGone, Down, Holds
  <2> QED
    BY <1>1, <2>3, <2>4, <2>5 DEF Alright
<1>4. CASE m = n /\ PodEnds(n)
  <2>1. UNCHANGED <<obj, leaving>> /\ pod'[n] = Nothing
    BY <1>4 DEF PodEnds, AgentTypes
  <2>2. HasState(m)'
    BY <1>4, <2>1 DEF HasState, Lives
  <2>3. Counts(r, m) => Counts(r, m)'
    BY <1>1, <1>4, <2>1 DEF Counts, Holds
  <2>4. (Felled(r, m) => Felled(r, m)') /\ (Took(r, m) => Took(r, m)')
    BY <1>1, <1>4, <2>1 DEF Felled, Took, AgentGone, Down, Holds
  <2> QED
    BY <1>1, <2>2, <2>3, <2>4 DEF Alright
<1>5. CASE m = n /\ ClaimGoes(n)
  <2>1. /\ n \in leaving /\ pod' = pod /\ leaving' = leaving \ {n}
        /\ obj' = [obj EXCEPT ![n]["claim"] = Nothing]
    BY <1>5 DEF ClaimGoes
  <2>2. ObjectPut(n, "claim", Nothing)
    BY <2>1, ObjectWritten DEF Kinds
  <2>3. /\ obj'[n]["claim"] = Nothing
        /\ \A k \in Kinds \ {"claim"} : obj'[n][k] = obj[n][k]
    BY <2>2 DEF ObjectPut, Kinds
  <2>4. ~Holds(n) /\ ~Holds(n)'
    BY <2>1, <2>3 DEF Holds
  <2>5. HasState(m) => HasState(m)'
    BY <1>1, <1>5, <2>1, <2>3, <2>4 DEF HasState, Lives, Kinds
  <2>6. Counts(r, m) => Counts(r, m)'
    BY <1>1, <1>5, <2>3, <2>4 DEF Counts, Kinds
  <2>7. (Felled(r, m) => Felled(r, m)') /\ (Took(r, m) => Took(r, m)')
    BY <1>1, <1>5, <2>1, <2>3, <2>4 DEF Felled, Took, AgentGone, Down, Kinds
  <2> QED
    BY <1>1, <2>5, <2>6, <2>7 DEF Alright
<1>6. CASE m = n /\ IssueTls(n)
  <2>1. /\ ObjectPut(n, "tls", obj[n]["cert"]) /\ UNCHANGED <<leaving, pod>>
        /\ obj[n]["cert"] # Nothing
    BY <1>6, ObjectWritten DEF IssueTls, Kinds
  <2>2. \A k \in Kinds \ {"tls"} : obj'[n][k] = obj[n][k]
    BY <2>1 DEF ObjectPut
  <2>3. HasState(m) => HasState(m)'
    BY <1>1, <1>6, <2>1, <2>2 DEF HasState, Lives, Holds, Kinds
  <2>4. Counts(r, m) => Counts(r, m)'
    BY <1>1, <1>6, <2>1, <2>2 DEF Counts, Holds, Kinds
  <2>5. (Felled(r, m) => Felled(r, m)') /\ (Took(r, m) => Took(r, m)')
    BY <1>1, <1>6, <2>1, <2>2 DEF Felled, Took, AgentGone, Down, Holds, Kinds
  <2> QED
    BY <1>1, <2>3, <2>4, <2>5 DEF Alright
<1> QED
  BY <1>2, <1>3, <1>4, <1>5, <1>6

\* A step of another handler promises nothing of the objects.
Elsewhere(r) ==
    at'[r] \notin {"config", "secret", "cert", "pod"} \cup DropPoints \cup Replies

LEMMA ElsewhereSteps ==
    ASSUME RInv, NEW r \in Requests,
           Begins(r) \/ BoardStep(r) \/ ProjectStep(r) \/ FindProject(r)
    PROVE  Elsewhere(r)
BY NextCalls DEF Elsewhere, DropPoints, Replies, Final, BoardOps, IdeOps

\* A step of an agent's handler leaves the other agents alone.
LEMMA OtherAgents ==
    ASSUME RInv, AgentTypes, NEW r \in Requests, AgentStep(r),
           NEW m \in Names, m # op[r].name
    PROVE  SameAgent(m)
<1> DEFINE n == op[r].name
<1>1. n \in Names
  BY PodSteps
<1>2. obj'[m] = obj[m] /\ pod'[m] = pod[m] /\ (m \in leaving' <=> m \in leaving)
  <2>1. CASE UNCHANGED <<obj, leaving, pod>>
    BY <2>1
  <2>2. CASE at[r] \in Kinds /\ Put(r, n, at[r]) /\ UNCHANGED <<leaving, pod>>
    BY <1>1, <2>2 DEF Put, AgentTypes
  <2>3. CASE (RunPod(r, n) \/ TakeDown(n)) /\ UNCHANGED <<obj, leaving>>
    BY <1>1, <2>3 DEF RunPod, TakeDown, AgentTypes
  <2>4. CASE Drop(n, DropOf[at[r]]) /\ UNCHANGED pod
    BY <1>1, <2>4 DEF Drop, AgentTypes
  <2>5. CASE obj' = [obj EXCEPT ![n]["config"] = r] /\ UNCHANGED <<leaving, pod>>
    BY <1>1, <2>5 DEF AgentTypes
  <2> QED
    BY <2>1, <2>2, <2>3, <2>4, <2>5, PodSteps
<1>3. (m \in early' <=> m \in early) /\ (m \in spared' <=> m \in spared)
  BY DEF AgentStep, CheckStopped, CreateObject, CreatePod, RemovePod, CleanUp, ReadConfig,
         WriteConfig, ReadPod, podVars, Meets, TakeDown, Spare
<1> QED
  BY <1>2, <1>3 DEF SameAgent

LEMMA OwnAgent ==
    ASSUME RInv, AgentTypes, Undisturbed, NEW r \in Requests, AgentStep(r), Serve(r),
           op[r].name \notin overlapped'
    PROVE  Alright(r, op[r].name)'
<1> DEFINE n == op[r].name
<1>1. n \in Names /\ op' = op
  BY PodSteps
<1>2. overlapped \subseteq overlapped'
  BY DEF Serve, Only
<1>3. at[r] \notin Answered
  BY StepPoints DEF Answered, AgentPoints, CreatePoints, DropPoints
<1>4. Alright(r, n)
  BY <1>1, <1>2, <1>3 DEF Undisturbed
<1> QED
  BY <1>1, <1>4, CreateCounts, PodCounts, RemoveCounts, CleanCounts, ConfigCounts DEF AgentStep

LEMMA UndisturbedStep ==
    ASSUME RInv, ProjectTypes, AgentTypes, Alone, Undisturbed, [ProjectsNext]_projectVars
    PROVE  Undisturbed'
<1>1. CASE UNCHANGED requestVars /\ UNCHANGED podVars
  <2>1. \A n \in Names : SameAgent(n)
    BY <1>1 DEF podVars, SameAgent
  <2>2. at' = at /\ op' = op /\ overlapped' = overlapped /\ failed' = failed
    BY <1>1 DEF requestVars
  <2> QED
    BY <2>1, <2>2, SameKept DEF Undisturbed, Answered
<1>2. CASE Cluster /\ UNCHANGED requestVars
  <2>1. PICK n \in Names : PodStarts(n) \/ PodEnds(n) \/ ClaimGoes(n) \/ IssueTls(n)
    BY <1>2, ClusterSteps
  <2>2. at' = at /\ op' = op /\ overlapped' = overlapped /\ failed' = failed
    BY <1>2 DEF requestVars
  <2> QED
    BY <2>1, <2>2, ClusterCounts DEF Undisturbed, Answered
<1>3. ASSUME NEW r \in Requests, Serve(r), Elsewhere(r), UNCHANGED podVars
      PROVE  Undisturbed'
  <2>1. \A n \in Names : SameAgent(n)
    BY <1>3 DEF podVars, SameAgent
  <2>2. /\ \A s \in Requests \ {r} : at'[s] = at[s] /\ op'[s] = op[s]
        /\ overlapped \subseteq overlapped' /\ failed \subseteq failed'
    BY <1>3 DEF Serve, Only
  <2>3. ASSUME NEW n \in Names \ overlapped' PROVE (n \notin spared => HasState(n))'
    <3>1. n \notin spared => HasState(n)
      BY <2>2, <2>3 DEF Undisturbed
    <3> QED
      BY <2>1, <3>1 DEF SameAgent, HasState, Lives, Holds
  <2>4. ASSUME NEW n \in Names \ overlapped' PROVE Alright(r, n)'
    <3>1. Counts(r, n)' /\ Felled(r, n)' /\ Took(r, n)'
      BY <1>3 DEF Elsewhere, Counts, Felled, Took, AgentGone, DropPoints
    <3> QED
      BY <2>3, <3>1 DEF Alright
  <2>5. ASSUME NEW s \in Requests \ {r}, at'[s] \notin Answered, op'[s].name \in Names \ overlapped'
        PROVE  Alright(s, op[s].name)'
    <3>0. PICK m : m = op[s].name
      OBVIOUS
    <3>1. at[s] \notin Answered /\ m \in Names \ overlapped /\ op'[s].name = m
      BY <2>2, <2>5, <3>0
    <3>2. Alright(s, m) /\ SameAgent(m)
      BY <2>1, <3>0, <3>1 DEF Undisturbed
    <3>3. Alright(s, m)'
      BY <2>2, <3>2, SameKept
    <3> QED
      BY <3>1, <3>3
  <2> QED
    BY <2>2, <2>3, <2>4, <2>5 DEF Undisturbed, Answered
<1>4. ASSUME NEW r \in Requests, Serve(r), AgentStep(r)
      PROVE  Undisturbed'
  <2> DEFINE n == op[r].name
  <2>1. n \in Names /\ op' = op
    BY <1>4, PodSteps
  <2>2. /\ \A s \in Requests \ {r} : at'[s] = at[s]
        /\ overlapped \subseteq overlapped' /\ failed \subseteq failed'
    BY <1>4 DEF Serve, Only
  <2>3. at[r] \notin Answered
    BY <1>4, StepPoints DEF Answered, AgentPoints, CreatePoints, DropPoints
  <2>4. \A m \in Names \ {n} : SameAgent(m)
    BY <1>4, OtherAgents
  <2>5. n \notin overlapped' => Alright(r, n)'
    BY <1>4, OwnAgent
  <2>6. ASSUME NEW m \in Names \ overlapped' PROVE (m \notin spared => HasState(m))'
    <3>1. CASE m = n
      BY <2>1, <2>5, <2>6, <3>1 DEF Alright
    <3>2. CASE m # n
      <4>1. m \notin spared => HasState(m)
        BY <2>2, <2>6 DEF Undisturbed
      <4> QED
        BY <2>4, <3>2, <4>1 DEF HasState, SameAgent, Lives, Holds
    <3> QED
      BY <3>1, <3>2
  <2>7. ASSUME NEW s \in Requests, at'[s] \notin Answered, op[s].name \in Names \ overlapped'
        PROVE  Alright(s, op[s].name)'
    <3>1. CASE s = r
      BY <2>5, <2>7, <3>1
    <3>2. CASE s # r
      <4>0. PICK m : m = op[s].name
        OBVIOUS
      <4>1. at'[s] = at[s] /\ op'[s] = op[s]
        BY <2>1, <2>2, <3>2
      <4>2. m # n
        BY <2>2, <2>3, <2>7, <3>2, <4>0, <4>1 DEF Alone
      <4>3. Alright(s, m) /\ SameAgent(m)
        BY <2>2, <2>4, <2>7, <4>0, <4>1, <4>2 DEF Undisturbed
      <4>4. op'[s].name = m
        BY <4>0, <4>1
      <4>5. Alright(s, m)'
        BY <2>2, <4>1, <4>3, SameKept
      <4> QED
        BY <4>4, <4>5
    <3> QED
      BY <3>1, <3>2
  <2> QED
    BY <2>1, <2>6, <2>7 DEF Undisturbed, Answered
<1> QED
  <2>1. UNCHANGED <<requestVars, boardVars, ideVars>> => UNCHANGED requestVars
    OBVIOUS
  <2> QED
    BY <1>1, <1>2, <1>3, <1>4, <2>1, Steps, RequestServes, AgentServes, BoardServes, ProjectServes, FindServes,
       ElsewhereSteps

LEMMA UndisturbedInit == ProjectsInit => Undisturbed
<1> SUFFICES ASSUME PodsInit, RequestsInit PROVE Undisturbed
  BY DEF ProjectsInit
<1>1. \A r \in Requests : at[r] \in Answered
  BY DEF RequestsInit, Answered
<1>2. Earlier # Nothing
  BY PodsAssumption
<1>3. \A n \in Names : HasState(n)
  BY <1>2 DEF PodsInit, HasState, Lives, Holds, Running, Stopped, Kinds
<1> QED
  BY <1>1, <1>3 DEF Undisturbed

LEMMA UndisturbedHolds == ProjectsSpec => []Undisturbed
<1>1. RInv /\ ProjectTypes /\ AgentTypes /\ Alone /\ Undisturbed /\ [ProjectsNext]_projectVars
      => Undisturbed'
  BY UndisturbedStep
<1> QED
  BY <1>1, UndisturbedInit, ProjectsTyped, PodsTyped, AloneHolds, PTL DEF ProjectsSpec

\* amgr/handler.go:232-244: a pod finds the ConfigMap, the Secret and the claim it
\* mounts, for any number of requests, agents and failed calls: unless requests
\* overlapped on the agent, or a delete went on while the pod ran; and but for the
\* claim, if the agent's last create or start met one that was Terminating.
THEOREM PodsFindTheirState == ProjectsSpec => []AgentHasItsState
<1>1. Undisturbed => AgentHasItsState
  BY DEF Undisturbed, HasState, Holds, AgentHasItsState
<1> QED
  BY <1>1, UndisturbedHolds, PTL

\* k8s/agents.go:398: a delete that met no failure and no rival leaves none of the
\* agent's objects, whatever it found.
THEOREM DeleteIsComplete == ProjectsSpec => DeleteLeavesNothing
<1> DEFINE A == \A r \in Requests :
           /\ at[r] \in DOMAIN DropOf /\ at'[r] \notin DOMAIN DropOf
           /\ op[r].name \notin trouble'
           => LET n == op[r].name
              IN  /\ \A k \in Kinds \ {"claim"} : obj'[n][k] = Nothing
                  /\ obj'[n]["claim"] # Nothing => n \in leaving'
                  /\ pod'[n] # Nothing => pod'[n].going
<1>1. ASSUME RInv, ProjectTypes, AgentTypes, Undisturbed, [ProjectsNext]_projectVars
      PROVE  A
  <2>1. ASSUME NEW r \in Requests, at[r] \in DropPoints, at'[r] \notin DropPoints,
               op[r].name \notin trouble'
        PROVE  LET n == op[r].name
               IN  /\ \A k \in Kinds \ {"claim"} : obj'[n][k] = Nothing
                   /\ obj'[n]["claim"] # Nothing => n \in leaving'
                   /\ pod'[n] # Nothing => pod'[n].going
    <3>1. at'[r] # at[r]
      BY <2>1
    <3>2. PICK s \in Requests : /\ Begins(s) \/ AgentStep(s) \/ BoardStep(s) \/ ProjectStep(s) \/ FindProject(s)
                                /\ Serve(s)
      BY <1>1, <3>1, Steps, RequestServes, AgentServes, BoardServes, ProjectServes, FindServes
         DEF requestVars
    <3>3. s = r
      BY <3>1, <3>2 DEF Serve, Only
    <3>4. at[s] \in DropPoints => ~Begins(s)
      BY DEF Begins, AgentRequest, BoardRequest, IdeRequest, ProjectRequest, Begin, DropPoints
    <3>5. AgentStep(r) /\ op' = op
      BY <2>1, <3>2, <3>3, <3>4, StepPoints, FindServes, <1>1
         DEF BoardPoints, BoardOps, IdeOps, DropPoints, Replies
    <3>6. CleanUp(r)
      BY <2>1, <3>5, Domains DEF AgentStep, CheckStopped, CreateObject, CreatePod, RemovePod,
                 ReadConfig, WriteConfig, ReadPod, DropPoints
    <3>7. op[r].name \in Names
      BY <1>1, <3>5, PodSteps
    <3>8. overlapped \subseteq overlapped' /\ at[r] \notin Answered
      BY <2>1, <3>2, <3>3 DEF Serve, Only, Answered, DropPoints
    <3>9. op[r].name \notin overlapped' /\ op[r].name \notin failed'
      BY <2>1 DEF trouble
    <3>10. Alright(r, op[r].name)
      BY <1>1, <3>7, <3>8, <3>9 DEF Undisturbed
    <3>11. LeavesNothing(op[r].name)'
      BY <1>1, <2>1, <3>5, <3>6, <3>7, <3>9, <3>10, CleanCounts
    <3> QED
      BY <3>5, <3>11 DEF LeavesNothing
  <2> QED
    BY <2>1, Domains
<1>2. RInv /\ ProjectTypes /\ AgentTypes /\ Undisturbed /\ [ProjectsNext]_projectVars => A
  BY <1>1
<1>3. ProjectsSpec => [][A]_projectVars
  BY <1>2, ProjectsTyped, PodsTyped, UndisturbedHolds, PTL DEF ProjectsSpec
<1>4. UNCHANGED projectVars => UNCHANGED <<podVars, requestVars>>
  BY DEF projectVars
<1> QED
  BY <1>2, ProjectsTyped, PodsTyped, UndisturbedHolds, PTL DEF ProjectsSpec, DeleteLeavesNothing

-----------------------------------------------------------------------------
(* The end of deleteProject. *)

\* projects/handler.go:197: when deleteProject removes a record, nothing is left of
\* the agent that it names but what is Terminating, for any number of requests,
\* projects and agents: unless the project got that agent after the look-up, a
\* call for the agent failed, or another request worked on it at the same time.
THEOREM DeletesTakeTheAgent == ProjectsSpec => DeleteTakesTheAgent
<1> DEFINE A == \A r \in Requests :
           LastCall(r) /\ projects' # projects /\ at'[r] # at[r] =>
               LET n == projects[PlaceOf(op[r].item)].agent
               IN  n \in Names \ trouble /\ n = op[r].name =>
                       /\ \A k \in Kinds \ {"claim"} : obj[n][k] = Nothing
                       /\ obj[n]["claim"] # Nothing => n \in leaving
                       /\ pod[n] # Nothing => pod[n].going
<1>1. ASSUME RInv, Undisturbed
      PROVE  A
  <2>1. ASSUME NEW r \in Requests, LastCall(r), op[r].name \in Names \ trouble
        PROVE  LeavesNothing(op[r].name)
    <3>1. at[r] # "dropProject" /\ op[r].does = "deleteProject"
      BY <1>1, <2>1, NothingAssumption DEF LastCall, RInv, Placed
    <3>2. AgentGone(r) /\ at[r] \notin Answered
      BY <2>1, <3>1 DEF LastCall, AgentGone, Replies, Answered
    <3>3. op[r].name \in Names \ overlapped /\ op[r].name \notin failed
      BY <2>1 DEF trouble
    <3>4. Took(r, op[r].name)
      BY <1>1, <3>2, <3>3 DEF Undisturbed, Alright
    <3> QED
      BY <3>2, <3>4 DEF Took, LeavesNothing, Down, Holds, Kinds
  <2> QED
    BY <2>1 DEF LeavesNothing
<1>2. RInv /\ Undisturbed => A
  BY <1>1
<1> QED
  BY <1>2, ProjectsTyped, UndisturbedHolds, PTL DEF DeleteTakesTheAgent

-----------------------------------------------------------------------------
(* The IDs: each request adds one project, board, card or edge at most.    *)

Pending(P) == {r \in Requests : at[r] \in P}

\* A request that leaves P, and never returns to it, spends its share.
LEMMA Spending ==
    ASSUME NEW P, \A s \in Requests : at'[s] \in P => at[s] \in P
    PROVE  /\ Cardinality(Pending(P)) \in Nat /\ Cardinality(Pending(P)') \in Nat
           /\ Cardinality(Pending(P)') <= Cardinality(Pending(P))
           /\ \A r \in Requests : at[r] \in P /\ at'[r] \notin P =>
                 Cardinality(Pending(P)') + 1 <= Cardinality(Pending(P))
<1>1. IsFiniteSet(Pending(P)) /\ Cardinality(Pending(P)) \in Nat
  <2>1. Pending(P) \in SUBSET Requests
    BY DEF Pending
  <2> QED
    BY <2>1, RequestAssumption, FS_Subset, FS_CardinalityType
<1>2. Pending(P)' \in SUBSET Pending(P)
  BY DEF Pending
<1>3. Cardinality(Pending(P)') <= Cardinality(Pending(P)) /\ Cardinality(Pending(P)') \in Nat
  BY <1>1, <1>2, FS_Subset, FS_CardinalityType
<1>4. ASSUME NEW r \in Requests, at[r] \in P, at'[r] \notin P
      PROVE  Cardinality(Pending(P)') + 1 <= Cardinality(Pending(P))
  <2>1. Pending(P)' \in SUBSET (Pending(P) \ {r}) /\ r \in Pending(P)
    BY <1>2, <1>4 DEF Pending
  <2>2. IsFiniteSet(Pending(P) \ {r}) /\ Cardinality(Pending(P) \ {r}) = Cardinality(Pending(P)) - 1
    BY <1>1, <2>1, FS_RemoveElement
  <2>3. Cardinality(Pending(P)') <= Cardinality(Pending(P) \ {r})
    BY <2>1, <2>2, FS_Subset
  <2> QED
    BY <1>1, <1>3, <2>2, <2>3
<1> QED
  BY <1>1, <1>3, <1>4

ToProject == {"idle", "ide", "newIdeProject"}
ToBoard   == {"idle", "ide", "board", "createBoard"}
ToCard    == {"idle", "createCard"}
ToEdge    == {"idle", "createEdge"}

\* A handler goes on, it never starts again.
LEMMA Onward ==
    ASSUME RInv, ProjectTypes, [ProjectsNext]_projectVars, NEW s \in Requests
    PROVE  /\ at'[s] \in ToProject => at[s] \in ToProject
           /\ at'[s] \in ToBoard => at[s] \in ToBoard
           /\ at'[s] \in ToCard => at[s] \in ToCard
           /\ at'[s] \in ToEdge => at[s] \in ToEdge
BY OwnSteps, NextCalls DEF ToProject, ToBoard, ToCard, ToEdge, Final, Replies, DropPoints

\* What the requests under way may still add.
Counting ==
    /\ Len(projects) + Cardinality(Pending(ToProject)) <= MaxProjects
    /\ Len(boards) + Cardinality(Pending(ToBoard)) <= MaxProjects

LEMMA AllPending ==
    ASSUME RequestsInit, NEW P, "idle" \in P
    PROVE  Cardinality(Pending(P)) = Cardinality(Requests)
<1>1. Pending(P) = Requests
  BY DEF RequestsInit, Pending
<1> QED
  BY <1>1

LEMMA CountingInit == ProjectsInit => Counting
<1> SUFFICES ASSUME ProjectsInit PROVE Counting
  OBVIOUS
<1>1. Cardinality(Requests) \in Nat
  BY RequestAssumption, FS_CardinalityType
<1>2. Len(projects) = 1 /\ Len(boards) = 1
  BY DEF ProjectsInit, BoardInit
<1>3. /\ Cardinality(Pending(ToProject)) = Cardinality(Requests)
      /\ Cardinality(Pending(ToBoard)) = Cardinality(Requests)
  BY AllPending DEF ProjectsInit, ToProject, ToBoard
<1> QED
  BY <1>1, <1>2, <1>3 DEF Counting, MaxProjects

LEMMA NewBoardLonger ==
    ASSUME boards \in Seq(Texts), NEW r \in Requests, NewBoard(r)
    PROVE  /\ boards' \in Seq(Texts) /\ Len(boards') = Len(boards) + 1
           /\ Len(boards) \in Nat /\ DOMAIN boards = 1 .. Len(boards)
           /\ DOMAIN boards' = 1 .. Len(boards) + 1
<1>1. r \in Texts
  BY DEF Texts
<1>2. boards' \in Seq(Texts) /\ Len(boards') = Len(boards) + 1
  BY <1>1, AppendProperties DEF NewBoard
<1>3. Len(boards) \in Nat /\ DOMAIN boards = 1 .. Len(boards)
  BY LenProperties
<1>4. DOMAIN boards' = 1 .. Len(boards) + 1
  BY <1>2, LenProperties
<1> QED
  BY <1>2, <1>3, <1>4

\* How long the lists of projects and boards are after a step.
LEMMA Lengths ==
    ASSUME RInv, ProjectTypes, [ProjectsNext]_projectVars
    PROVE  /\ Len(projects) \in Nat /\ Len(boards) \in Nat
           /\ Len(projects') \in Nat /\ Len(boards') \in Nat
           /\ \/ Len(projects') <= Len(projects)
              \/ /\ Len(projects') = Len(projects) + 1
                 /\ \E r \in Requests : at[r] \in ToProject /\ at'[r] \notin ToProject
                                        /\ CreateProject(r, op[r].name) /\ op[r].name \in Names
                                        /\ ProjectStep(r) /\ (ideCreate(r) \/ CreateIde(r))
           /\ \/ Len(boards') = Len(boards)
              \/ /\ Len(boards') = Len(boards) + 1
                 /\ \E r \in Requests : at[r] \in ToBoard /\ at'[r] \notin ToBoard
<1>0. Len(projects) \in Nat /\ Len(boards) \in Nat /\ at \in [Requests -> Points]
  BY LenProperties DEF ProjectTypes, RInv, RequestTypes
<1>1. Len(projects') \in Nat /\ Len(boards') \in Nat
  BY ProjectTypesStep, LenProperties DEF ProjectTypes
<1>2. \/ Len(projects') <= Len(projects)
      \/ /\ Len(projects') = Len(projects) + 1
         /\ \E r \in Requests : at[r] \in ToProject /\ at'[r] \notin ToProject
                                /\ CreateProject(r, op[r].name) /\ op[r].name \in Names
                                /\ ProjectStep(r) /\ (ideCreate(r) \/ CreateIde(r))
  <2>1. CASE UNCHANGED projects
    BY <1>0, <2>1
  <2>2. ASSUME NEW r \in Requests, ProjectStep(r), CreateProject(r, op[r].name), op[r].name \in Names,
               ideCreate(r) \/ CreateIde(r)
        PROVE  /\ Len(projects') = Len(projects) + 1
               /\ at[r] \in ToProject /\ at'[r] \notin ToProject
    <3>1. DOMAIN projects' = 1 .. Len(projects) + 1 /\ projects' \in Seq(AnyProject)
      BY <2>2, Appended DEF ProjectTypes
    <3>2. Len(projects') = Len(projects) + 1
      BY <1>0, <1>1, <3>1, LenProperties
    <3>3. at[r] \in ToProject /\ at'[r] \in {"done", "board", "refused"}
      BY <1>0, <2>2 DEF ideCreate, CreateIde, AtIde, Proceed, Fail, ToProject
    <3> QED
      BY <3>2, <3>3 DEF ToProject
  <2>3. ASSUME NEW r \in Requests, DeleteProject(op[r].item), PlaceOf(op[r].item) # 0
        PROVE  Len(projects') <= Len(projects)
    BY <1>0, <2>3, Shortened DEF ProjectTypes
  <2>4. ASSUME DOMAIN projects' = DOMAIN projects, projects' \in Seq(AnyProject)
        PROVE  Len(projects') <= Len(projects)
    BY <1>0, <1>1, <2>4, LenProperties DEF ProjectTypes
  <2>5. ASSUME NEW r \in Requests, op[r].name \in Patch,
               UpdateProject(op[r].item, op[r].name.name, op[r].name.board, op[r].name.agent)
        PROVE  Len(projects') <= Len(projects)
    BY <2>4, <2>5, Updates DEF ProjectTypes, Patch
  <2>6. ASSUME NEW r \in Requests, UpdateProject(seen[r].id, Unset, seen[r].board, AgentOf(r)), seen[r] \in MadeIds,
               AgentOf(r) \in Names \cup {Nothing}
        PROVE  Len(projects') <= Len(projects)
    <3>1. seen[r].board \in Nat
      BY <2>6 DEF MadeIds
    <3> QED
      BY <2>4, <2>6, <3>1, Updates DEF ProjectTypes
  <2> QED
    BY <2>1, <2>2, <2>3, <2>5, <2>6, Steps, ListSteps DEF ideVars
<1>3. \/ Len(boards') = Len(boards)
      \/ /\ Len(boards') = Len(boards) + 1
         /\ \E r \in Requests : at[r] \in ToBoard /\ at'[r] \notin ToBoard
  <2>1. ASSUME NEW r \in Requests, NewBoard(r), createBoard(r) \/ CreateBoard(r)
        PROVE  Len(boards') = Len(boards) + 1 /\ at[r] \in ToBoard /\ at'[r] \notin ToBoard
    <3>1. at[r] \in ToBoard /\ at'[r] \in {"done", "claim"}
      BY <1>0, <2>1 DEF createBoard, CreateBoard, Serves, Proceed, Fail, ToBoard
    <3> QED
      BY <2>1, <3>1, NewBoardLonger DEF ProjectTypes, ToBoard
  <2>2. ASSUME NEW r \in Requests, NEW b \in DOMAIN boards, NameBoard(r, b)
        PROVE  Len(boards') = Len(boards)
    BY <2>2, ExceptSeq, LenProperties DEF NameBoard, Texts, ProjectTypes
  <2> QED
    BY <2>1, <2>2, BoardSteps
<1> QED
  BY <1>0, <1>1, <1>2, <1>3

LEMMA CountingStep ==
    ASSUME RInv, ProjectTypes, Counting, [ProjectsNext]_projectVars
    PROVE  Counting'
<1>0. Cardinality(Requests) \in Nat /\ MaxProjects \in Nat
  BY RequestAssumption, FS_CardinalityType DEF MaxProjects
<1> DEFINE P == Cardinality(Pending(ToProject))
           B == Cardinality(Pending(ToBoard))
<1>1. /\ P \in Nat /\ P' \in Nat /\ P' <= P
      /\ \A r \in Requests : at[r] \in ToProject /\ at'[r] \notin ToProject => P' + 1 <= P
  BY Onward, Spending
<1>2. /\ B \in Nat /\ B' \in Nat /\ B' <= B
      /\ \A r \in Requests : at[r] \in ToBoard /\ at'[r] \notin ToBoard => B' + 1 <= B
  BY Onward, Spending
<1>3. Len(projects) + P <= MaxProjects /\ Len(boards) + B <= MaxProjects
  BY DEF Counting
<1> HIDE DEF P, B
<1>4. /\ Len(projects) \in Nat /\ Len(boards) \in Nat /\ Len(projects') \in Nat /\ Len(boards') \in Nat
      /\ Len(projects') <= Len(projects) \/ (Len(projects') = Len(projects) + 1 /\ P' + 1 <= P)
      /\ Len(boards') = Len(boards) \/ (Len(boards') = Len(boards) + 1 /\ B' + 1 <= B)
  BY <1>1, <1>2, Lengths
<1>a. \A l, l2, p, p2, m \in Nat :
         l + p <= m /\ p2 <= p /\ (l2 <= l \/ (l2 = l + 1 /\ p2 + 1 <= p)) => l2 + p2 <= m
  OBVIOUS
<1>5. Len(projects') + P' <= MaxProjects
  BY <1>0, <1>1, <1>3, <1>4, <1>a
<1>6. Len(boards') + B' <= MaxProjects
  <2>1. Len(boards') <= Len(boards) \/ (Len(boards') = Len(boards) + 1 /\ B' + 1 <= B)
    BY <1>4
  <2> QED
    BY <1>0, <1>2, <1>3, <1>4, <1>a, <2>1
<1> QED
  BY <1>5, <1>6 DEF Counting, P, B, MaxProjects

LEMMA CountingHolds == ProjectsSpec => []Counting
<1>1. RInv /\ ProjectTypes /\ Counting /\ [ProjectsNext]_projectVars => Counting'
  BY CountingStep
<1> QED
  BY <1>1, CountingInit, ProjectsTyped, PTL DEF ProjectsSpec

\* So the next project, or board, has an ID within the bound.
LEMMA RoomForOne ==
    ASSUME Counting, RInv, ProjectTypes, NEW r \in Requests
    PROVE  /\ at[r] \in ToProject => NextId \in 1 .. MaxProjects
           /\ at[r] \in ToBoard => Len(boards) + 1 \in 1 .. MaxProjects
<1>1. ASSUME NEW P, at[r] \in P PROVE Cardinality(Pending(P)) \in Nat /\ Cardinality(Pending(P)) >= 1
  <2>1. Pending(P) \in SUBSET Requests /\ r \in Pending(P)
    BY <1>1 DEF Pending
  <2>2. IsFiniteSet(Pending(P)) /\ Cardinality(Pending(P)) \in Nat
    BY <2>1, RequestAssumption, FS_Subset, FS_CardinalityType
  <2>3. Cardinality(Pending(P)) # 0
    BY <2>1, <2>2, FS_EmptySet
  <2> QED
    BY <2>2, <2>3
<1>2. Len(projects) \in Nat /\ Len(boards) \in Nat /\ MaxProjects \in Nat
  BY LenProperties, RequestAssumption, FS_CardinalityType DEF ProjectTypes, MaxProjects
<1>3. at[r] \in ToProject => NextId \in 1 .. MaxProjects
  BY <1>1, <1>2 DEF Counting, NextId
<1>4. at[r] \in ToBoard => Len(boards) + 1 \in 1 .. MaxProjects
  BY <1>1, <1>2 DEF Counting
<1> QED
  BY <1>3, <1>4

-----------------------------------------------------------------------------
(* A project, its files, its agent and its board.                          *)

FilesTyped ==
    /\ files \in [1 .. MaxProjects -> (SUBSET Paths) \cup {Nothing}]
    /\ collided \subseteq 1 .. MaxProjects
    /\ \A k \in DOMAIN projects : projects[k].id \in 1 .. MaxProjects

\* The agents made for an ID, and those that clients asked for.
MadeAgents(id)  == {op[r].name : r \in Creators(id)}
AskedAgents(id) == {set.agent : set \in Patches(id)}

\* What was made for an ID, or asked of it, stays so.
Remembered ==
    \A id \in Nat :
        /\ MadeAgents(id) \subseteq MadeAgents(id)'
        /\ Patches(id) \subseteq Patches(id)' /\ AskedAgents(id) \subseteq AskedAgents(id)'

\* As long as an ID was not given twice at once, it says whose the project is.
Own ==
    /\ \A k, l \in DOMAIN projects :
          k # l /\ projects[k].id = projects[l].id => projects[k].id \in collided
    /\ \A s, t \in Requests :
          Making(s) /\ Making(t) /\ s # t /\ seen[s].id = seen[t].id => seen[s].id \in collided
    /\ \A s \in Requests : \A k \in DOMAIN projects :
          Making(s) /\ projects[k].id = seen[s].id /\ seen[s].id \notin collided =>
              projects[k].made = op[s].name
    /\ \A k \in DOMAIN projects :
          /\ projects[k].agent \in
                {Nothing} \cup MadeAgents(projects[k].id) \cup AskedAgents(projects[k].id)
          /\ projects[k].id \notin collided =>
                /\ projects[k].agent \in
                      {Nothing, projects[k].made} \cup AskedAgents(projects[k].id)
                /\ files[projects[k].id] # Nothing

\* What a step leaves of those who make projects, when it makes none.
MakersKept ==
    \A s \in Requests :
        Making(s)' => Making(s) /\ seen'[s].id = seen[s].id /\ op'[s].name = op[s].name

LEMMA MakersStay ==
    ASSUME RInv, ProjectTypes, [ProjectsNext]_projectVars, Len(projects') <= Len(projects)
    PROVE  MakersKept
<1>1. ASSUME NEW s \in Requests, Making(s)'
      PROVE  Making(s) /\ seen'[s].id = seen[s].id /\ op'[s].name = op[s].name
  <2>1. CASE CreateIde(s) /\ CreateProject(s, op[s].name) /\ at[s] = "ide"
    <3>1. op[s].name \in Names
      BY <2>1 DEF RInv, Placed
    <3>2. DOMAIN projects' = 1 .. Len(projects) + 1 /\ projects' \in Seq(AnyProject) /\ Len(projects) \in Nat
      BY <2>1, <3>1, Appended DEF ProjectTypes
    <3>3. Len(projects') = Len(projects) + 1
      BY <3>2, LenProperties
    <3> QED
      BY <3>2, <3>3
  <2>2. CASE Making(s) /\ seen'[s] = Made(seen[s].id, Len(boards) + 1) /\ op' = op
    BY <2>2 DEF Made
  <2> QED
    BY <1>1, <2>1, <2>2, MakingSteps
<1> QED
  BY <1>1 DEF MakersKept

\* A request keeps what it was asked, and the project it made.
LEMMA Remembers ==
    ASSUME RInv, ProjectTypes, [ProjectsNext]_projectVars, NEW s \in Requests, op[s] # Nothing
    PROVE  /\ op'[s] # Nothing /\ op'[s].does = op[s].does
           /\ op[s].does # "deleteProject" => op'[s] = op[s]
           /\ op[s].does = "createProject" /\ seen[s] # Nothing =>
                 seen'[s] # Nothing /\ seen'[s].id = seen[s].id
<1> USE DEF RInv
<1>0. Placed(s)
  OBVIOUS
<1>1. CASE Begins(s)
  BY <1>0, <1>1 DEF Begins, AgentRequest, BoardRequest, IdeRequest, ProjectRequest, Begin, Placed
<1>2. CASE AgentStep(s)
  <2>1. op' = op
    BY <1>2 DEF AgentStep, CheckStopped, CreateObject, CreatePod, RemovePod, CleanUp,
                ReadConfig, WriteConfig, ReadPod, Proceed, Fail
  <2>2. op[s].does = "createProject" => at[s] \notin {"stopPod", "deletePod", "readConfig"}
    BY <1>0 DEF Placed, DropPoints
  <2>3. op[s].does = "createProject" => seen' = seen
    BY <1>2, <2>2 DEF AgentStep, CheckStopped, CreateObject, CreatePod, RemovePod, CleanUp,
                ReadConfig, WriteConfig, ReadPod
  <2> QED
    BY <2>1, <2>3
<1>3. CASE BoardStep(s)
  <2>1. op' = op
    BY <1>3 DEF BoardStep, boardMissing, createBoard, renameBoard, createCard, updateCard, deleteCard,
         sendCard, activate, createEdge, updateEdge, deleteEdge, getBoard, encode,
         Serves, create, update, delete, Proceed
  <2>2. at[s] \in BoardPoints
    BY <1>3 DEF BoardStep, boardMissing, createBoard, renameBoard, createCard, updateCard, deleteCard,
         sendCard, activate, createEdge, updateEdge, deleteEdge, getBoard, encode,
         Serves, create, update, delete, BoardPoints, BoardOps
  <2>3. op[s].does # "createProject"
    BY <1>0, <2>2 DEF Placed, BoardPoints, BoardOps
  <2> QED
    BY <2>1, <2>3
<1>4. CASE ProjectStep(s)
  <2>1. op' = op
    BY <1>4 DEF ProjectStep, ideCreate, ideUpdate, ideDelete, putFile, deleteFile, renameFile,
                CreateIde, CreateBoard, LinkAll, DropProject, Proceed, Fail
  <2>2. CASE CreateIde(s)
    BY <1>0, <2>1, <2>2 DEF CreateIde, AtIde, Placed
  <2>3. CASE CreateBoard(s)
    <3>1. op[s].does = "createProject" => Making(s)
      BY <2>3 DEF CreateBoard, Making
    <3>2. op[s].does = "createProject" => seen[s] \in MadeIds
      BY <3>1 DEF ProjectTypes
    <3>3. seen' = seen \/ seen'[s] = Made(seen[s].id, Len(boards) + 1)
      BY <2>3 DEF CreateBoard, Remember
    <3>4. Len(boards) + 1 \in Nat
      BY LenProperties DEF ProjectTypes
    <3>5. ASSUME seen[s] \in MadeIds PROVE Made(seen[s].id, Len(boards) + 1) # Nothing
      BY <3>4, <3>5, NothingAssumption DEF Made, MadeIds
    <3> QED
      BY <2>1, <3>2, <3>3, <3>5 DEF Made
  <2>4. CASE \/ ideCreate(s) \/ ideUpdate(s) \/ ideDelete(s) \/ putFile(s) \/ deleteFile(s)
             \/ renameFile(s) \/ LinkAll(s) \/ DropProject(s)
    BY <2>1, <2>4 DEF ideCreate, ideUpdate, ideDelete, putFile, deleteFile, renameFile, LinkAll,
                      DropProject
  <2> QED
    BY <1>4, <2>2, <2>3, <2>4 DEF ProjectStep
<1>5. CASE FindProject(s)
  <2>1. op[s].does = "deleteProject" /\ op'[s].does = "deleteProject"
    BY <1>5, FindServes
  <2>2. op'[s] # Nothing
    <3>1. at'[s] # "idle" /\ Placed(s)'
      BY <1>5, FindServes, NextCalls DEF Serve
    <3> QED
      BY <3>1 DEF Placed
  <2> QED
    BY <2>1, <2>2
<1> QED
  BY <1>1, <1>2, <1>3, <1>4, <1>5, OwnSteps

LEMMA RememberedStep ==
    ASSUME RInv, ProjectTypes, [ProjectsNext]_projectVars
    PROVE  Remembered
<1> SUFFICES ASSUME NEW id \in Nat
             PROVE  /\ MadeAgents(id) \subseteq MadeAgents(id)'
                    /\ Patches(id) \subseteq Patches(id)'
                    /\ AskedAgents(id) \subseteq AskedAgents(id)'
  BY DEF Remembered
<1>1. ASSUME NEW s \in Creators(id) PROVE s \in Creators(id)' /\ op'[s].name = op[s].name
  BY Remembers DEF Creators
<1>2. Patches(id) \subseteq Patches(id)'
  <2>1. ASSUME NEW s \in Requests, op[s] # Nothing, op[s].does = "patchProject", op[s].item = id
        PROVE  op'[s] # Nothing /\ op'[s] = op[s]
    BY <2>1, Remembers
  <2> QED
    BY <2>1 DEF Patches
<1> QED
  BY <1>1, <1>2 DEF MadeAgents, AskedAgents

\* What a step does to the projects and their files.
LEMMA FileSteps ==
    ASSUME RInv, FilesTyped, NEW r \in Requests, putFile(r) \/ deleteFile(r) \/ renameFile(r)
    PROVE  /\ UNCHANGED <<projects, collided>>
           /\ files' \in [1 .. MaxProjects -> (SUBSET Paths) \cup {Nothing}]
           /\ \A i \in 1 .. MaxProjects : files[i] # Nothing => files'[i] # Nothing
<1> DEFINE id == op[r].item
<1>0. \A paths \in SUBSET Paths : Nothing # paths
  BY NothingAssumption
<1>1. op[r].name \in Paths /\ UNCHANGED <<projects, collided>>
  BY DEF RInv, Placed, putFile, deleteFile, renameFile, AtIde, IdeOps
<1>2. ASSUME NEW paths \in SUBSET Paths, files' = [files EXCEPT ![id] = paths]
      PROVE  /\ files' \in [1 .. MaxProjects -> (SUBSET Paths) \cup {Nothing}]
             /\ \A i \in 1 .. MaxProjects : files[i] # Nothing => files'[i] # Nothing
  BY <1>0, <1>2 DEF FilesTyped
<1>3. CASE files' = files
  BY <1>1, <1>3 DEF FilesTyped
<1>4. CASE id \notin 1 .. MaxProjects
  <2>1. DOMAIN files = 1 .. MaxProjects /\ files = [i \in 1 .. MaxProjects |-> files[i]]
    BY DEF FilesTyped
  <2>2. \A x : [files EXCEPT ![id] = x] = files
    BY <1>4, <2>1
  <2>3. files' = files
    BY <1>4, <2>2 DEF putFile, deleteFile, renameFile
  <2> QED
    BY <1>3, <2>3
<1>5. CASE id \in 1 .. MaxProjects
  <2>1. files[id] # Nothing => files[id] \in SUBSET Paths
    BY <1>5 DEF FilesTyped
  <2>2. CASE putFile(r)
    <3> DEFINE new == (IF HasFiles(id) THEN files[id] ELSE {}) \cup {op[r].name}
    <3>1. new \in SUBSET Paths
      BY <1>1, <2>1 DEF HasFiles
    <3>2. files' = [files EXCEPT ![id] = new]
      BY <1>5, <2>2 DEF putFile, FilesTyped
    <3> HIDE DEF new
    <3> QED
      BY <1>1, <1>2, <3>1, <3>2
  <2>3. CASE deleteFile(r)
    <3>1. files' = files \/ (HasFiles(id) /\ files' = [files EXCEPT ![id] = files[id] \ {op[r].name}])
      BY <1>5, <2>3 DEF deleteFile, FilesTyped
    <3>2. HasFiles(id) => files[id] \ {op[r].name} \in SUBSET Paths
      BY <2>1 DEF HasFiles
    <3> QED
      BY <1>1, <1>2, <1>3, <3>1, <3>2
  <2>4. CASE renameFile(r)
    <3> DEFINE to == CHOOSE path \in Paths : path # op[r].name
               new == (files[id] \ {op[r].name}) \cup {to}
    <3>1. to \in Paths
      <4>1. \E path \in Paths : path # op[r].name
        BY PathsAssumption
      <4> QED
        BY <4>1
    <3>2. files' = files \/ (HasFiles(id) /\ files' = [files EXCEPT ![id] = new])
      BY <1>5, <2>4 DEF renameFile, FilesTyped
    <3> HIDE DEF to
    <3>3. HasFiles(id) => new \in SUBSET Paths
      BY <2>1, <3>1 DEF HasFiles
    <3> QED
      BY <1>1, <1>2, <1>3, <3>2, <3>3
  <2> QED
    BY <2>2, <2>3, <2>4
<1> QED
  BY <1>4, <1>5

LEMMA IdeSteps ==
    ASSUME RInv, ProjectTypes, FilesTyped, NEW r \in Requests, ProjectStep(r)
    PROVE  \/ UNCHANGED ideVars
           \/ CreateProject(r, op[r].name) /\ op[r].name \in Names
              /\ (ideCreate(r) \/ CreateIde(r)) /\ at[r] \in ToProject
           \/ DeleteProject(op[r].item) /\ PlaceOf(op[r].item) # 0
           \/ /\ op[r] # Nothing /\ op[r].does = "patchProject"
              /\ op[r].name \in Patch /\ op[r].item \in Nat
              /\ UpdateProject(op[r].item, op[r].name.name, op[r].name.board, op[r].name.agent)
           \/ /\ LinkAll(r) /\ UpdateProject(seen[r].id, Unset, seen[r].board, AgentOf(r))
              /\ Making(r) /\ seen[r] \in MadeIds /\ op[r].name \in Names
           \/ putFile(r) \/ deleteFile(r) \/ renameFile(r)
<1> USE DEF RInv
<1>1. CASE ideCreate(r) \/ CreateIde(r)
  <2>1. op[r].name \in Names /\ at[r] \in ToProject
    BY <1>1 DEF ideCreate, CreateIde, AtIde, Placed, IdeOps, ToProject
  <2> QED
    BY <1>1, <2>1 DEF ideCreate, CreateIde
<1>2. CASE ideUpdate(r)
  <2>1. op[r] # Nothing /\ op[r].does = "patchProject" /\ op[r].name \in Patch /\ op[r].item \in Nat
    BY <1>2 DEF ideUpdate, AtIde, Placed, IdeOps
  <2> QED
    BY <1>2, <2>1 DEF ideUpdate
<1>3. CASE ideDelete(r) \/ DropProject(r)
  <2>1. DeleteProject(op[r].item) \/ UNCHANGED ideVars
    BY <1>3 DEF ideDelete, DropProject
  <2>2. DeleteProject(op[r].item) /\ PlaceOf(op[r].item) = 0 => UNCHANGED ideVars
    BY DEF DeleteProject
  <2> QED
    BY <2>1, <2>2
<1>4. CASE LinkAll(r)
  <2>1. Making(r)
    BY <1>4 DEF LinkAll, Making, Replies
  <2>2. seen[r] \in MadeIds /\ op[r].name \in Names
    BY <1>4, <2>1 DEF ProjectTypes, LinkAll, Placed, Replies
  <2> QED
    BY <1>4, <2>1, <2>2 DEF LinkAll
<1>5. CASE CreateBoard(r)
  BY <1>5 DEF CreateBoard
<1> QED
  BY <1>1, <1>2, <1>3, <1>4, <1>5 DEF ProjectStep

\* Nobody else has the ID that is given, or it collides.
LEMMA NewIsFree ==
    ASSUME RInv, ProjectTypes, NEW r \in Requests, ~IsTaken(r, NextId)
    PROVE  /\ \A k \in DOMAIN projects : projects[k].id # NextId
           /\ \A s \in Requests \ {r} : Making(s) => seen[s].id # NextId
<1>1. \A k \in DOMAIN projects : projects[k].id # NextId
  <2>1. PlaceOf(NextId) = 0 /\ 0 \notin DOMAIN projects
    BY LenProperties DEF IsTaken, ProjectTypes
  <2> QED
    BY <2>1, PlaceOfFirst DEF ProjectTypes
<1>2. ASSUME NEW s \in Requests \ {r}, Making(s), seen[s].id = NextId PROVE FALSE
  <2>1. seen[s] # Nothing
    BY <1>2, NothingAssumption DEF ProjectTypes, MadeIds
  <2>2. s \in Creating(r, NextId)
    BY <1>2, <2>1 DEF Creating, Others, Making, Answered, CreatePoints, Replies
  <2> QED
    BY <2>2 DEF IsTaken
<1> QED
  BY <1>1, <1>2

LEMMA MaxIsNat == MaxProjects \in Nat /\ 1 .. MaxProjects \subseteq Nat
BY RequestAssumption, FS_CardinalityType DEF MaxProjects

LEMMA OwnCreated ==
    ASSUME RInv, ProjectTypes, FilesTyped, Own, Remembered, [ProjectsNext]_projectVars,
           NEW r \in Requests, Serve(r), op[r].name \in Names, CreateProject(r, op[r].name),
           at[r] \in ToProject, NextId \in 1 .. MaxProjects
    PROVE  FilesTyped' /\ Own'
<1> DEFINE n == NextId
<1>1. /\ DOMAIN projects = 1 .. Len(projects) /\ Len(projects) \in Nat
      /\ DOMAIN projects' = 1 .. Len(projects) + 1 /\ n = Len(projects) + 1
      /\ \A k \in DOMAIN projects : projects'[k] = projects[k]
      /\ projects'[n].id = n /\ projects'[n].made = op[r].name /\ projects'[n].agent = Nothing
  <2>1. /\ DOMAIN projects = 1 .. Len(projects) /\ Len(projects) \in Nat
        /\ DOMAIN projects' = 1 .. Len(projects) + 1
        /\ \A k \in DOMAIN projects : projects'[k] = projects[k]
        /\ projects'[n] = [id |-> n, name |-> op[r].name, made |-> op[r].name,
                           board |-> 0, agent |-> Nothing]
    BY Appended DEF ProjectTypes
  <2>2. n = Len(projects) + 1
    BY DEF NextId
  <2> HIDE DEF n
  <2> QED
    BY <2>1, <2>2
<1>2. /\ files' = [files EXCEPT ![n] = {Spec_md}]
      /\ collided' = IF IsTaken(r, n) THEN collided \cup {n} ELSE collided
  BY DEF CreateProject
<1>3. {Spec_md} \in SUBSET Paths /\ {Spec_md} # Nothing
  BY PathsAssumption, NothingAssumption
<1> HIDE DEF n
<1>4. n \in 1 .. MaxProjects
  BY DEF n
<1>5. FilesTyped'
  <2>1. PICK most : most = MaxProjects
    OBVIOUS
  <2>2. files' \in [1 .. most -> (SUBSET Paths) \cup {Nothing}]
    BY <1>2, <1>3, <2>1 DEF FilesTyped
  <2>3. collided' \subseteq 1 .. most
    BY <1>2, <1>4, <2>1 DEF FilesTyped
  <2>4. ASSUME NEW k \in DOMAIN projects' PROVE projects'[k].id \in 1 .. most
    <3>1. CASE k = n
      BY <1>1, <1>4, <2>1, <3>1
    <3>2. CASE k # n
      BY <1>1, <2>1, <3>2 DEF FilesTyped
    <3> QED
      BY <3>1, <3>2
  <2> QED
    BY <2>1, <2>2, <2>3, <2>4 DEF FilesTyped, MaxProjects
<1>6. /\ files'[n] # Nothing
      /\ \A i \in 1 .. MaxProjects : files[i] # Nothing => files'[i] # Nothing
  BY <1>2, <1>3, <1>4 DEF FilesTyped
<1>7. n \notin collided' =>
         /\ \A k \in DOMAIN projects : projects[k].id # n
         /\ \A s \in Requests \ {r} : Making(s) => seen[s].id # n
  BY <1>2, NewIsFree DEF n
<1>8. \A s \in Requests \ {r} : /\ Making(s)' <=> Making(s)
                                /\ seen'[s] = seen[s] /\ op'[s] = op[s]
  BY DEF Serve, Only, Making
<1>9. ASSUME Making(r)' PROVE seen'[r].id = n /\ op'[r].name = op[r].name
  <2>1. ~Making(r)
    BY DEF Making, ToProject, CreatePoints, Replies
  <2>2. seen'[r] = Made(NextId, 0) /\ op' = op
    BY <1>9, <2>1, MakingSteps
  <2> QED
    BY <2>2 DEF Made, n
<1>10. collided \subseteq collided'
  BY <1>2
<1>11. ASSUME NEW k \in DOMAIN projects', NEW l \in DOMAIN projects', k # l,
              projects'[k].id = projects'[l].id
       PROVE  projects'[k].id \in collided'
  <2>1. CASE k \in DOMAIN projects /\ l \in DOMAIN projects
    BY <1>1, <1>10, <1>11, <2>1 DEF Own
  <2>2. CASE k = n \/ l = n
    BY <1>1, <1>7, <1>11, <2>2
  <2> QED
    BY <1>1, <2>1, <2>2
<1>12. ASSUME NEW s \in Requests, NEW t \in Requests, Making(s)', Making(t)', s # t,
              seen'[s].id = seen'[t].id
       PROVE  seen'[s].id \in collided'
  BY <1>7, <1>8, <1>9, <1>10, <1>12 DEF Own
<1>13. ASSUME NEW s \in Requests, NEW k \in DOMAIN projects', Making(s)',
              projects'[k].id = seen'[s].id, seen'[s].id \notin collided'
       PROVE  projects'[k].made = op'[s].name
  <2>1. CASE s = r
    <3>1. projects'[k].id = n /\ n \notin collided'
      BY <1>9, <1>13, <2>1
    <3>2. k = n
      BY <1>1, <1>7, <3>1
    <3> QED
      BY <1>1, <1>9, <1>13, <2>1, <3>2
  <2>2. CASE s # r
    <3>1. Making(s) /\ seen'[s] = seen[s] /\ op'[s] = op[s]
      BY <1>8, <1>13, <2>2
    <3>2. k \in DOMAIN projects
      BY <1>1, <1>7, <1>13, <2>2, <3>1
    <3> QED
      BY <1>1, <1>10, <1>13, <3>1, <3>2 DEF Own
  <2> QED
    BY <2>1, <2>2
<1>14. ASSUME NEW k \in DOMAIN projects'
       PROVE  /\ projects'[k].agent \in
                    {Nothing} \cup MadeAgents(projects[k].id)' \cup AskedAgents(projects[k].id)'
              /\ projects'[k].id \notin collided' =>
                    /\ projects'[k].agent \in
                          {Nothing, projects'[k].made} \cup AskedAgents(projects[k].id)'
                    /\ files'[projects'[k].id] # Nothing
  <2>1. CASE k \in DOMAIN projects
    <3>1. projects'[k] = projects[k] /\ projects[k].id \in Nat
      BY <1>1, <2>1, MaxIsNat DEF FilesTyped
    <3>2. PICK i \in Nat : i = projects[k].id
      BY <3>1
    <3>3. MadeAgents(i) \subseteq MadeAgents(i)' /\ AskedAgents(i) \subseteq AskedAgents(i)'
      BY DEF Remembered
    <3>4. /\ projects[k].agent \in {Nothing} \cup MadeAgents(i) \cup AskedAgents(i)
          /\ i \notin collided =>
                 projects[k].agent \in {Nothing, projects[k].made} \cup AskedAgents(i) /\ files[i] # Nothing
      BY <2>1, <3>2 DEF Own
    <3>5. /\ projects[k].agent \in {Nothing} \cup MadeAgents(i)' \cup AskedAgents(i)'
          /\ i \notin collided' =>
                 /\ projects[k].agent \in {Nothing, projects[k].made} \cup AskedAgents(i)'
                 /\ files'[i] # Nothing
      BY <1>6, <1>10, <2>1, <3>2, <3>3, <3>4 DEF FilesTyped
    <3> QED
      BY <3>1, <3>2, <3>5
  <2>2. CASE k = n
    BY <1>1, <1>6, <2>2
  <2> QED
    BY <1>1, <2>1, <2>2
<1> QED
  BY <1>5, <1>11, <1>12, <1>13, <1>14 DEF Own

LEMMA OwnShortened ==
    ASSUME RInv, ProjectTypes, FilesTyped, Own, Remembered, MakersKept, NEW id,
           DeleteProject(id), PlaceOf(id) # 0
    PROVE  FilesTyped' /\ Own'
<1> DEFINE p == PlaceOf(id)
           B(j) == Before(p, j)
<1>1. /\ p \in DOMAIN projects /\ projects[p].id = id
      /\ \A j \in DOMAIN projects' : B(j) \in DOMAIN projects \ {p} /\ projects'[j] = projects[B(j)]
      /\ \A i, j \in DOMAIN projects' : B(i) = B(j) => i = j
  <2>1. projects[p].id = id
    BY PlaceOfFirst DEF ProjectTypes
  <2> QED
    BY <2>1, Shortened DEF ProjectTypes
<1>2. files' = [files EXCEPT ![id] = Nothing] /\ collided' = collided
  BY DEF DeleteProject
<1> HIDE DEF p, B
<1>3. FilesTyped'
  BY <1>1, <1>2 DEF FilesTyped, MaxProjects
<1>4. ASSUME NEW k \in DOMAIN projects'
      PROVE  /\ projects'[k].agent \in
                   {Nothing} \cup MadeAgents(projects[k].id)' \cup AskedAgents(projects[k].id)'
             /\ projects'[k].id \notin collided' =>
                   /\ projects'[k].agent \in
                         {Nothing, projects'[k].made} \cup AskedAgents(projects[k].id)'
                   /\ files'[projects'[k].id] # Nothing
  <2>1. projects'[k].id \notin collided => projects'[k].id # id
    BY <1>1, <1>4 DEF Own
  <2>2. projects'[k] = projects[B(k)] /\ B(k) \in DOMAIN projects /\ projects[B(k)].id \in Nat
    BY <1>1, <1>4, MaxIsNat DEF FilesTyped
  <2>3. PICK i \in Nat : i = projects[B(k)].id
    BY <2>2
  <2>4. MadeAgents(i) \subseteq MadeAgents(i)' /\ AskedAgents(i) \subseteq AskedAgents(i)'
    BY DEF Remembered
  <2>5. /\ projects[B(k)].agent \in {Nothing} \cup MadeAgents(i) \cup AskedAgents(i)
        /\ i \notin collided =>
              /\ projects[B(k)].agent \in {Nothing, projects[B(k)].made} \cup AskedAgents(i)
              /\ files[i] # Nothing
    BY <2>2, <2>3 DEF Own
  <2>6. i \notin collided' => files'[i] = files[i]
    BY <1>2, <2>1, <2>2, <2>3 DEF FilesTyped
  <2>7. /\ projects[B(k)].agent \in {Nothing} \cup MadeAgents(i)' \cup AskedAgents(i)'
        /\ i \notin collided' =>
              /\ projects[B(k)].agent \in {Nothing, projects[B(k)].made} \cup AskedAgents(i)'
              /\ files'[i] # Nothing
    BY <1>2, <2>4, <2>5, <2>6
  <2> QED
    BY <2>2, <2>3, <2>7
<1>5. ASSUME NEW k \in DOMAIN projects', NEW l \in DOMAIN projects', k # l,
             projects'[k].id = projects'[l].id
      PROVE  projects'[k].id \in collided'
  BY <1>1, <1>2, <1>5 DEF Own
<1>6. ASSUME NEW s \in Requests, NEW t \in Requests, Making(s)', Making(t)', s # t,
             seen'[s].id = seen'[t].id
      PROVE  seen'[s].id \in collided'
  BY <1>2, <1>6 DEF Own, MakersKept
<1>7. ASSUME NEW s \in Requests, NEW k \in DOMAIN projects', Making(s)',
             projects'[k].id = seen'[s].id, seen'[s].id \notin collided'
      PROVE  projects'[k].made = op'[s].name
  BY <1>1, <1>2, <1>7 DEF Own, MakersKept
<1> QED
  BY <1>3, <1>4, <1>5, <1>6, <1>7 DEF Own

\* The list keeps its projects, and the agent of one of them may change.
LEMMA OwnEdited ==
    ASSUME FilesTyped, Own, Remembered, MakersKept, DOMAIN projects' = DOMAIN projects,
           \A k \in DOMAIN projects :
               /\ projects'[k].id = projects[k].id /\ projects'[k].made = projects[k].made
               /\ \/ projects'[k].agent = projects[k].agent
                  \/ projects'[k].agent \in AskedAgents(projects[k].id)
                  \/ /\ projects'[k].agent \in {Nothing} \cup MadeAgents(projects[k].id)
                     /\ projects[k].id \notin collided =>
                           projects'[k].agent \in {projects[k].made, Nothing},
           collided' = collided,
           files' \in [1 .. MaxProjects -> (SUBSET Paths) \cup {Nothing}],
           \A i \in 1 .. MaxProjects : files[i] # Nothing => files'[i] # Nothing
    PROVE  FilesTyped' /\ Own'
<1>1. FilesTyped'
  BY DEF FilesTyped
<1>2. ASSUME NEW k \in DOMAIN projects
      PROVE  /\ projects'[k].agent \in
                   {Nothing} \cup MadeAgents(projects[k].id)' \cup AskedAgents(projects[k].id)'
             /\ projects'[k].id \notin collided' =>
                   /\ projects'[k].agent \in
                         {Nothing, projects'[k].made} \cup AskedAgents(projects[k].id)'
                   /\ files'[projects'[k].id] # Nothing
  <2>1. PICK i \in 1 .. MaxProjects : i = projects[k].id
    BY DEF FilesTyped
  <2>2. MadeAgents(i) \subseteq MadeAgents(i)' /\ AskedAgents(i) \subseteq AskedAgents(i)'
    BY MaxIsNat DEF Remembered
  <2>3. /\ projects[k].agent \in {Nothing} \cup MadeAgents(i) \cup AskedAgents(i)
        /\ i \notin collided =>
              /\ projects[k].agent \in {Nothing, projects[k].made} \cup AskedAgents(i)
              /\ files[i] # Nothing
    BY <2>1 DEF Own
  <2>4. \/ projects'[k].agent = projects[k].agent
        \/ projects'[k].agent \in AskedAgents(i)
        \/ /\ projects'[k].agent \in {Nothing} \cup MadeAgents(i)
           /\ i \notin collided => projects'[k].agent \in {projects[k].made, Nothing}
    BY <2>1
  <2>5. projects'[k].id = i /\ projects'[k].made = projects[k].made
    BY <2>1
  <2>6. /\ projects'[k].agent \in {Nothing} \cup MadeAgents(i)' \cup AskedAgents(i)'
        /\ i \notin collided' =>
              projects'[k].agent \in {Nothing, projects[k].made} \cup AskedAgents(i)' /\ files'[i] # Nothing
    BY <2>2, <2>3, <2>4
  <2> QED
    BY <2>5, <2>6
<1> QED
  <2>1. /\ \A k, l \in DOMAIN projects' :
               k # l /\ projects'[k].id = projects'[l].id => projects'[k].id \in collided'
        /\ \A s, t \in Requests :
               Making(s)' /\ Making(t)' /\ s # t /\ seen'[s].id = seen'[t].id => seen'[s].id \in collided'
        /\ \A s \in Requests : \A k \in DOMAIN projects' :
               Making(s)' /\ projects'[k].id = seen'[s].id /\ seen'[s].id \notin collided' =>
                   projects'[k].made = op'[s].name
    BY DEF Own, MakersKept
  <2> QED
    BY <1>1, <1>2, <2>1 DEF Own

LEMMA OwnStep ==
    ASSUME RInv, ProjectTypes, Counting, FilesTyped, Own, [ProjectsNext]_projectVars
    PROVE  FilesTyped' /\ Own'
<1>a. Remembered
  BY RememberedStep
<1>0. ASSUME UNCHANGED ideVars PROVE FilesTyped' /\ Own'
  <2>1. MakersKept
    BY <1>0, MakersStay, LenProperties DEF ideVars, ProjectTypes
  <2> QED
    BY <1>0, <1>a, <2>1, OwnEdited DEF ideVars, FilesTyped
<1>1. ASSUME NEW r \in Requests, ProjectStep(r) PROVE FilesTyped' /\ Own'
  <2>0. Serve(r)
    BY <1>1, ProjectServes
  <2>1. CASE CreateProject(r, op[r].name) /\ op[r].name \in Names /\ at[r] \in ToProject
    BY <1>a, <2>0, <2>1, RoomForOne, OwnCreated
  <2>2. ASSUME DOMAIN projects' = DOMAIN projects, projects' \in Seq(AnyProject)
        PROVE  MakersKept
    <3>1. Len(projects') <= Len(projects)
      BY <2>2, LenProperties DEF ProjectTypes
    <3> QED
      BY <3>1, MakersStay
  <2>3. CASE DeleteProject(op[r].item) /\ PlaceOf(op[r].item) # 0
    <3>1. Len(projects') <= Len(projects)
      <4>1. Len(projects') = Len(projects) - 1 /\ Len(projects) \in Nat
        BY <2>3, Shortened, LenProperties DEF ProjectTypes
      <4> QED
        BY <4>1
    <3>2. MakersKept
      BY <3>1, MakersStay
    <3> QED
      BY <1>a, <2>3, <3>2, OwnShortened
  <2>4. CASE /\ op[r] # Nothing /\ op[r].does = "patchProject"
             /\ op[r].name \in Patch /\ op[r].item \in Nat
             /\ UpdateProject(op[r].item, op[r].name.name, op[r].name.board, op[r].name.agent)
    <3>0. PICK set \in Patch : set = op[r].name
      BY <2>4
    <3>1. /\ projects' \in Seq(AnyProject) /\ DOMAIN projects' = DOMAIN projects
          /\ \A k \in DOMAIN projects :
                projects'[k] = IF k = PlaceOf(op[r].item)
                               THEN Updated(projects[k], set.name, set.board, set.agent)
                               ELSE projects[k]
      <4>1. /\ set.name \in Names \cup {Unset} /\ set.board \in Nat \cup {Unset}
            /\ set.agent \in Names \cup {Nothing, Unset}
        BY DEF Patch
      <4>2. UpdateProject(op[r].item, set.name, set.board, set.agent)
        BY <2>4, <3>0
      <4> QED
        BY <4>1, <4>2, Updates DEF ProjectTypes
    <3>2. \A k \in DOMAIN projects : projects[k] \in AnyProject
      BY LenProperties, ElementOfSeq DEF ProjectTypes
    <3>3. set.agent \in AskedAgents(op[r].item)
      BY <2>4, <3>0 DEF AskedAgents, Patches
    <3>4. ASSUME NEW k \in DOMAIN projects
          PROVE  /\ projects'[k].id = projects[k].id /\ projects'[k].made = projects[k].made
                 /\ \/ projects'[k].agent = projects[k].agent
                    \/ projects'[k].agent \in AskedAgents(projects[k].id)
      <4>1. CASE k # PlaceOf(op[r].item)
        BY <3>1, <4>1
      <4>2. CASE k = PlaceOf(op[r].item)
        <5>1. projects'[k] = Updated(projects[k], set.name, set.board, set.agent)
          BY <3>1, <4>2
        <5>2. /\ projects'[k].id = projects[k].id /\ projects'[k].made = projects[k].made
              /\ projects'[k].agent = Given(set.agent, projects[k].agent)
          <6>1. /\ set.name \in Names \cup {Unset} /\ set.board \in Nat \cup {Unset}
                /\ set.agent \in Names \cup {Nothing, Unset}
            BY DEF Patch
          <6>2. projects[k] \in AnyProject
            BY <3>2
          <6>3. LET p == projects[k]
                    u == Updated(p, set.name, set.board, set.agent)
                IN  u.id = p.id /\ u.made = p.made /\ u.agent = Given(set.agent, p.agent)
            BY <6>1, <6>2, UpdatedFields
          <6> QED
            BY <5>1, <6>3
        <5>3. projects[k].id = op[r].item
          <6>1. 0 \notin DOMAIN projects
            BY LenProperties DEF ProjectTypes
          <6> QED
            BY <4>2, <6>1, PlaceOfFirst DEF ProjectTypes
        <5> QED
          BY <3>3, <5>2, <5>3 DEF Given
      <4> QED
        BY <4>1, <4>2
    <3>5. UNCHANGED <<files, collided>>
      BY <2>4 DEF UpdateProject
    <3> QED
      BY <1>a, <2>2, <3>1, <3>4, <3>5, OwnEdited DEF FilesTyped
  <2>5. CASE /\ LinkAll(r) /\ UpdateProject(seen[r].id, Unset, seen[r].board, AgentOf(r))
             /\ Making(r) /\ seen[r] \in MadeIds /\ op[r].name \in Names
    <3>0. seen[r].board \in Nat /\ AgentOf(r) \in Names \cup {Nothing} /\ AgentOf(r) \in {op[r].name, Nothing}
      BY <2>5 DEF MadeIds, AgentOf
    <3>1. /\ projects' \in Seq(AnyProject) /\ DOMAIN projects' = DOMAIN projects
          /\ \A k \in DOMAIN projects :
                projects'[k] = IF k = PlaceOf(seen[r].id)
                               THEN Updated(projects[k], Unset, seen[r].board, AgentOf(r))
                               ELSE projects[k]
      BY <2>5, <3>0, Updates DEF ProjectTypes
    <3>2. \A k \in DOMAIN projects : projects[k] \in AnyProject
      BY LenProperties, ElementOfSeq DEF ProjectTypes
    <3>a. op[r].name \in MadeAgents(seen[r].id)
      <4>1. seen[r] # Nothing
        BY <2>5, NothingAssumption DEF MadeIds
      <4>2. r \in Creators(seen[r].id)
        BY <2>5, <4>1 DEF Creators, Making
      <4> QED
        BY <4>2 DEF MadeAgents
    <3>3. ASSUME NEW k \in DOMAIN projects
          PROVE  /\ projects'[k].id = projects[k].id /\ projects'[k].made = projects[k].made
                 /\ \/ projects'[k].agent = projects[k].agent
                    \/ projects'[k].agent \in AskedAgents(projects[k].id)
                    \/ /\ projects'[k].agent \in {Nothing} \cup MadeAgents(projects[k].id)
                       /\ projects[k].id \notin collided =>
                             projects'[k].agent \in {projects[k].made, Nothing}
      <4>1. CASE k # PlaceOf(seen[r].id)
        BY <3>1, <4>1
      <4>2. CASE k = PlaceOf(seen[r].id)
        <5>1. projects'[k] = Updated(projects[k], Unset, seen[r].board, AgentOf(r))
          BY <3>1, <4>2
        <5>2. /\ projects'[k].id = projects[k].id /\ projects'[k].made = projects[k].made
              /\ projects'[k].agent = AgentOf(r)
          <6>1. /\ projects'[k].id = projects[k].id /\ projects'[k].made = projects[k].made
                /\ projects'[k].agent = Given(AgentOf(r), projects[k].agent)
            BY <3>0, <3>2, <5>1, UpdatedFields
          <6> QED
            BY <3>0, <6>1, NothingAssumption DEF Given
        <5>3. projects[k].id = seen[r].id
          <6>1. 0 \notin DOMAIN projects
            BY LenProperties DEF ProjectTypes
          <6> QED
            BY <4>2, <6>1, PlaceOfFirst DEF ProjectTypes
        <5>4. projects[k].id \notin collided => projects[k].made = op[r].name
          BY <2>5, <5>3 DEF Own
        <5> QED
          BY <3>0, <3>a, <5>2, <5>3, <5>4
      <4> QED
        BY <4>1, <4>2
    <3>4. UNCHANGED <<files, collided>>
      BY <2>5 DEF UpdateProject
    <3> QED
      BY <1>a, <2>2, <3>1, <3>3, <3>4, OwnEdited DEF FilesTyped
  <2>6. CASE putFile(r) \/ deleteFile(r) \/ renameFile(r)
    <3>1. /\ UNCHANGED <<projects, collided>>
          /\ files' \in [1 .. MaxProjects -> (SUBSET Paths) \cup {Nothing}]
          /\ \A i \in 1 .. MaxProjects : files[i] # Nothing => files'[i] # Nothing
      BY <2>6, FileSteps
    <3>2. MakersKept
      BY <2>2, <3>1 DEF ProjectTypes
    <3> QED
      BY <1>a, <3>1, <3>2, OwnEdited
  <2> QED
    BY <1>0, <1>1, <2>1, <2>3, <2>4, <2>5, <2>6, IdeSteps
<1> QED
  BY <1>0, <1>1, Steps DEF ideVars

LEMMA OwnInit == ProjectsInit => FilesTyped /\ Own
<1> SUFFICES ASSUME ProjectsInit PROVE FilesTyped /\ Own
  OBVIOUS
<1>1. MaxProjects \in Nat /\ 1 \in 1 .. MaxProjects
  BY RequestAssumption, FS_CardinalityType DEF MaxProjects
<1>2. /\ DOMAIN projects = {1} /\ projects[1].id = 1 /\ projects[1].agent = Nothing
      /\ collided = {} /\ files = [i \in 1 .. MaxProjects |-> IF i = 1 THEN {Spec_md} ELSE Nothing]
  BY DEF ProjectsInit
<1>3. {Spec_md} \in SUBSET Paths /\ {Spec_md} # Nothing
  BY PathsAssumption, NothingAssumption
<1>4. FilesTyped
  BY <1>1, <1>2, <1>3 DEF FilesTyped
<1>5. \A s \in Requests : ~Making(s)
  BY DEF ProjectsInit, RequestsInit, Making
<1> QED
  BY <1>1, <1>2, <1>3, <1>4, <1>5 DEF Own

LEMMA OwnHolds == ProjectsSpec => [](FilesTyped /\ Own)
<1>1. RInv /\ ProjectTypes /\ Counting /\ FilesTyped /\ Own /\ [ProjectsNext]_projectVars
      => (FilesTyped /\ Own)'
  BY OwnStep
<1> QED
  BY <1>1, OwnInit, ProjectsTyped, CountingHolds, PTL DEF ProjectsSpec

-----------------------------------------------------------------------------
(* The boards of the projects.                                             *)

\* The project in a place has a board that no client asked for.
Unasked(k) ==
    /\ projects[k].board # 0
    /\ \A set \in Patches(projects[k].id) : set.board # projects[k].board

\* A board is linked once.
BoardsApart ==
    /\ \A k, l \in DOMAIN projects :
          k # l /\ Unasked(k) /\ Unasked(l) => projects[k].board # projects[l].board
    /\ \A k \in DOMAIN projects : Unasked(k) => projects[k].board \in 0 .. Len(boards)
    /\ \A s \in Requests : Making(s) =>
          /\ seen[s].board \in 0 .. Len(boards)
          /\ seen[s].board # 0 =>
                /\ \A k \in DOMAIN projects : Unasked(k) => projects[k].board # seen[s].board
                /\ \A t \in Requests : s # t /\ Making(t) => seen[s].board # seen[t].board

\* The board of each project is one of before, or the one of a request that is
\* done with it, and no two have the same, unless a client asked for it.
Relinked ==
    /\ \A k \in DOMAIN projects' : Unasked(k)' =>
          \/ \E j \in DOMAIN projects : Unasked(j) /\ projects'[k].board = projects[j].board
          \/ \E r \in Requests : Making(r) /\ ~Making(r)' /\ projects'[k].board = seen[r].board
    /\ \A k, l \in DOMAIN projects' :
          k # l /\ Unasked(k)' /\ Unasked(l)' => projects'[k].board # projects'[l].board

LEMMA StaysAsked ==
    ASSUME Remembered, NEW k, NEW j, projects[j].id \in Nat,
           projects'[k].id = projects[j].id, projects'[k].board = projects[j].board, Unasked(k)'
    PROVE  Unasked(j)
<1>1. Patches(projects[j].id) \subseteq Patches(projects[k].id)'
  <2>1. PICK id \in Nat : id = projects[j].id
    OBVIOUS
  <2>2. Patches(id) \subseteq Patches(id)'
    BY DEF Remembered
  <2> QED
    BY <2>1, <2>2
<1> QED
  BY <1>1 DEF Unasked

LEMMA SameBoards ==
    ASSUME Remembered, BoardsApart, DOMAIN projects' = DOMAIN projects,
           \A k \in DOMAIN projects :
               /\ projects[k].id \in Nat /\ projects'[k].id = projects[k].id
               /\ Unasked(k)' => projects'[k].board = projects[k].board
    PROVE  Relinked
<1>1. \A k \in DOMAIN projects : Unasked(k)' => Unasked(k) /\ projects'[k].board = projects[k].board
  BY StaysAsked
<1> QED
  BY <1>1 DEF Relinked, BoardsApart

LEMMA RelinkedStep ==
    ASSUME RInv, ProjectTypes, FilesTyped, BoardsApart, [ProjectsNext]_projectVars
    PROVE  Relinked
<1>a. Remembered
  BY RememberedStep
<1>b. \A k \in DOMAIN projects : projects[k] \in AnyProject /\ projects[k].id \in Nat
  <2>1. \A k \in DOMAIN projects : projects[k] \in AnyProject
    BY LenProperties, ElementOfSeq DEF ProjectTypes
  <2> QED
    BY <2>1 DEF AnyProject
<1>0. ASSUME UNCHANGED projects PROVE Relinked
  BY <1>0, <1>a, <1>b, SameBoards
<1>1. ASSUME NEW r \in Requests, ProjectStep(r) PROVE Relinked
  <2>1. CASE CreateProject(r, op[r].name) /\ op[r].name \in Names
    <3>1. /\ DOMAIN projects = 1 .. Len(projects) /\ Len(projects) \in Nat
          /\ DOMAIN projects' = 1 .. Len(projects) + 1
          /\ \A k \in DOMAIN projects : projects'[k] = projects[k]
          /\ projects'[NextId].board = 0
      <4>1. /\ DOMAIN projects = 1 .. Len(projects) /\ Len(projects) \in Nat
            /\ DOMAIN projects' = 1 .. Len(projects) + 1
            /\ \A k \in DOMAIN projects : projects'[k] = projects[k]
            /\ projects'[NextId] = [id |-> NextId, name |-> op[r].name, made |-> op[r].name,
                                    board |-> 0, agent |-> Nothing]
        BY <2>1, Appended DEF ProjectTypes
      <4> QED
        BY <4>1
    <3>2. NextId = Len(projects) + 1
      BY DEF NextId
    <3>3. \A k \in DOMAIN projects' : Unasked(k)' => k \in DOMAIN projects
      BY <3>1, <3>2 DEF Unasked
    <3>4. \A k \in DOMAIN projects : Unasked(k)' => Unasked(k)
      BY <1>a, <1>b, <3>1, StaysAsked
    <3> QED
      BY <3>1, <3>3, <3>4 DEF Relinked, BoardsApart
  <2>2. CASE DeleteProject(op[r].item) /\ PlaceOf(op[r].item) # 0
    <3> DEFINE B(j) == Before(PlaceOf(op[r].item), j)
    <3>1. /\ \A j \in DOMAIN projects' : B(j) \in DOMAIN projects /\ projects'[j] = projects[B(j)]
          /\ \A i, j \in DOMAIN projects' : B(i) = B(j) => i = j
      BY <2>2, Shortened DEF ProjectTypes
    <3>2. ASSUME NEW j \in DOMAIN projects', Unasked(j)' PROVE Unasked(B(j))
      <4>1. PICK b \in DOMAIN projects : b = B(j)
        BY <3>1
      <4>2. projects'[j] = projects[b]
        BY <3>1, <4>1
      <4>3. Unasked(b)
        BY <1>a, <1>b, <3>2, <4>2, StaysAsked
      <4> QED
        BY <4>1, <4>3
    <3> HIDE DEF B
    <3> QED
      BY <3>1, <3>2 DEF Relinked, BoardsApart
  <2>3. CASE /\ op[r] # Nothing /\ op[r].does = "patchProject"
             /\ op[r].name \in Patch /\ op[r].item \in Nat
             /\ UpdateProject(op[r].item, op[r].name.name, op[r].name.board, op[r].name.agent)
    <3>0. PICK set \in Patch : set = op[r].name
      BY <2>3
    <3>a. /\ set.name \in Names \cup {Unset} /\ set.board \in Nat \cup {Unset}
          /\ set.agent \in Names \cup {Nothing, Unset}
      BY DEF Patch
    <3>b. UpdateProject(op[r].item, set.name, set.board, set.agent)
      BY <2>3, <3>0
    <3>1. /\ DOMAIN projects' = DOMAIN projects
          /\ \A k \in DOMAIN projects :
                projects'[k] = IF k = PlaceOf(op[r].item)
                               THEN Updated(projects[k], set.name, set.board, set.agent)
                               ELSE projects[k]
      BY <3>a, <3>b, Updates DEF ProjectTypes
    <3>2. ASSUME NEW k \in DOMAIN projects
          PROVE  /\ projects'[k].id = projects[k].id
                 /\ Unasked(k)' => projects'[k].board = projects[k].board
      <4>1. CASE k # PlaceOf(op[r].item)
        BY <3>1, <4>1
      <4>2. CASE k = PlaceOf(op[r].item)
        <5>1. /\ projects'[k].id = projects[k].id
              /\ projects'[k].board = Given(set.board, projects[k].board)
          <6>1. projects[k] \in AnyProject
            BY <1>b
          <6>2. LET p == projects[k]
                    u == Updated(p, set.name, set.board, set.agent)
                IN  u.id = p.id /\ u.board = Given(set.board, p.board)
            BY <3>a, <6>1, UpdatedFields
          <6> QED
            BY <3>1, <4>2, <6>2
        <5>2. projects[k].id = op[r].item
          <6>1. 0 \notin DOMAIN projects
            BY LenProperties DEF ProjectTypes
          <6> QED
            BY <4>2, <6>1, PlaceOfFirst DEF ProjectTypes
        <5>3. set \in Patches(op[r].item)
          BY <2>3, <3>0 DEF Patches
        <5>4. set \in Patches(projects[k].id)'
          <6>1. PICK id \in Nat : id = op[r].item
            BY <2>3
          <6>2. set \in Patches(id)'
            BY <1>a, <5>3, <6>1 DEF Remembered
          <6> QED
            BY <5>1, <5>2, <6>1, <6>2
        <5> QED
          BY <5>1, <5>4 DEF Given, Unasked
      <4> QED
        BY <4>1, <4>2
    <3> QED
      BY <1>a, <1>b, <3>1, <3>2, SameBoards
  <2>4. CASE /\ LinkAll(r) /\ UpdateProject(seen[r].id, Unset, seen[r].board, AgentOf(r))
             /\ Making(r) /\ seen[r] \in MadeIds /\ op[r].name \in Names
    <3>2. seen[r].board \in Nat /\ AgentOf(r) \in Names \cup {Nothing}
      BY <2>4 DEF MadeIds, AgentOf
    <3>3. /\ DOMAIN projects' = DOMAIN projects
          /\ \A k \in DOMAIN projects :
                projects'[k] = IF k = PlaceOf(seen[r].id)
                               THEN Updated(projects[k], Unset, seen[r].board, AgentOf(r))
                               ELSE projects[k]
      BY <2>4, <3>2, Updates DEF ProjectTypes
    <3>4. ASSUME NEW k \in DOMAIN projects
          PROVE  /\ projects'[k].id = projects[k].id
                 /\ projects'[k].board = IF k = PlaceOf(seen[r].id) THEN seen[r].board
                                         ELSE projects[k].board
      <4>1. CASE k # PlaceOf(seen[r].id)
        BY <3>3, <4>1
      <4>2. CASE k = PlaceOf(seen[r].id)
        <5>1. projects[k] \in AnyProject
          BY <1>b
        <5>2. LET p == projects[k]
                  u == Updated(p, Unset, seen[r].board, AgentOf(r))
              IN  u.id = p.id /\ u.board = Given(seen[r].board, p.board)
          BY <3>2, <5>1, UpdatedFields
        <5> QED
          BY <3>2, <3>3, <4>2, <5>2, NothingAssumption DEF Given
      <4> QED
        BY <4>1, <4>2
    <3>5. ~Making(r)'
      <4>1. at'[r] = "done"
        BY <2>4 DEF LinkAll, Proceed, Fail, RInv, RequestTypes
      <4> QED
        BY <4>1 DEF Making, CreatePoints, Replies
    <3>6. \A k \in DOMAIN projects :
             seen[r].board # 0 /\ Unasked(k) => projects[k].board # seen[r].board
      BY <2>4 DEF BoardsApart
    <3>7. \A k \in DOMAIN projects : k # PlaceOf(seen[r].id) /\ Unasked(k)' => Unasked(k)
      BY <1>a, <1>b, <3>4, StaysAsked
    <3>8. \A k \in DOMAIN projects' : k = PlaceOf(seen[r].id) /\ Unasked(k)' => seen[r].board # 0
      BY <3>3, <3>4 DEF Unasked
    <3>9. ASSUME NEW k \in DOMAIN projects', Unasked(k)'
          PROVE  \/ \E j \in DOMAIN projects : Unasked(j) /\ projects'[k].board = projects[j].board
                 \/ projects'[k].board = seen[r].board
      BY <3>3, <3>4, <3>7, <3>9
    <3>10. ASSUME NEW k \in DOMAIN projects', NEW l \in DOMAIN projects', k # l,
                  Unasked(k)', Unasked(l)'
           PROVE  projects'[k].board # projects'[l].board
      <4>1. CASE k = PlaceOf(seen[r].id)
        BY <3>3, <3>4, <3>6, <3>7, <3>8, <3>10, <4>1
      <4>2. CASE l = PlaceOf(seen[r].id)
        BY <3>3, <3>4, <3>6, <3>7, <3>8, <3>10, <4>2
      <4>3. CASE k # PlaceOf(seen[r].id) /\ l # PlaceOf(seen[r].id)
        BY <3>3, <3>4, <3>7, <3>10, <4>3 DEF BoardsApart
      <4> QED
        BY <4>1, <4>2, <4>3
    <3> QED
      BY <2>4, <3>5, <3>9, <3>10 DEF Relinked
  <2>5. CASE putFile(r) \/ deleteFile(r) \/ renameFile(r)
    BY <1>0, <2>5, FileSteps
  <2> QED
    BY <1>0, <1>1, <2>1, <2>2, <2>3, <2>4, <2>5, IdeSteps DEF ideVars
<1> QED
  BY <1>0, <1>1, Steps DEF ideVars

\* A request that goes on to make its project has no board yet, or the newest.
LEMMA NewestBoard ==
    ASSUME RInv, ProjectTypes, [ProjectsNext]_projectVars, NEW s \in Requests, Making(s)'
    PROVE  \/ seen'[s].board = 0
           \/ Making(s) /\ seen'[s].board = seen[s].board
           \/ CreateBoard(s) /\ seen'[s].board = Len(boards) + 1 /\ Len(boards') = Len(boards) + 1
<1>1. CASE seen'[s] = Made(NextId, 0)
  BY <1>1 DEF Made
<1>2. CASE CreateBoard(s) /\ NewBoard(s) /\ seen'[s] = Made(seen[s].id, Len(boards) + 1)
  BY <1>2, NewBoardLonger DEF Made, ProjectTypes
<1> QED
  BY <1>1, <1>2, MakingSteps

LEMMA BoardsApartStep ==
    ASSUME RInv, ProjectTypes, FilesTyped, BoardsApart, [ProjectsNext]_projectVars
    PROVE  BoardsApart'
<1>1. /\ Len(boards) \in Nat /\ Len(boards') \in Nat /\ Len(boards) <= Len(boards')
  BY Lengths
<1>2. Relinked
  BY RelinkedStep
<1>3. ASSUME NEW k \in DOMAIN projects', Unasked(k)' PROVE projects'[k].board \in 0 .. Len(boards)
  BY <1>1, <1>2, <1>3 DEF Relinked, BoardsApart
<1>4. ASSUME NEW s \in Requests, Making(s)'
      PROVE  seen'[s].board \in 0 .. Len(boards')
  BY <1>1, <1>4, NewestBoard DEF BoardsApart
<1>5. ASSUME NEW s \in Requests, Making(s)', seen'[s].board # 0, NEW k \in DOMAIN projects',
             Unasked(k)'
      PROVE  projects'[k].board # seen'[s].board
  <2>1. CASE seen'[s].board = Len(boards) + 1
    BY <1>1, <1>3, <1>5, <2>1
  <2>2. CASE Making(s) /\ seen'[s].board = seen[s].board
    <3>1. ASSUME NEW j \in DOMAIN projects, Unasked(j), projects'[k].board = projects[j].board
          PROVE  projects'[k].board # seen'[s].board
      BY <1>5, <2>2, <3>1 DEF BoardsApart
    <3>2. ASSUME NEW r \in Requests, Making(r), ~Making(r)', projects'[k].board = seen[r].board
          PROVE  projects'[k].board # seen'[s].board
      <4>1. r # s
        BY <1>5, <3>2
      <4> QED
        BY <1>5, <2>2, <3>2, <4>1 DEF BoardsApart
    <3> QED
      BY <1>2, <1>5, <3>1, <3>2 DEF Relinked
  <2> QED
    BY <1>5, <2>1, <2>2, NewestBoard
<1>6. ASSUME NEW s \in Requests, NEW t \in Requests, s # t, Making(s)', Making(t)',
             seen'[s].board # 0
      PROVE  seen'[s].board # seen'[t].board
  <2>1. CASE CreateBoard(s) /\ seen'[s].board = Len(boards) + 1
    <3>1. at[s] = "board" /\ at'[s] = "claim"
      BY <2>1 DEF CreateBoard, Proceed, Fail, RInv, RequestTypes
    <3>2. ~CreateBoard(t)
      <4>1. CreateBoard(t) => Serve(t)
        BY ProjectServes DEF ProjectStep
      <4> QED
        BY <1>6, <3>1, <4>1 DEF Serve, Only
    <3>3. seen'[t].board = 0 \/ (Making(t) /\ seen'[t].board = seen[t].board)
      BY <1>6, <3>2, NewestBoard
    <3>4. seen'[t].board \in 0 .. Len(boards)
      BY <1>1, <3>3 DEF BoardsApart
    <3> QED
      BY <1>1, <2>1, <3>4
  <2>2. CASE Making(s) /\ seen'[s].board = seen[s].board
    <3>1. seen[s].board \in 0 .. Len(boards)
      BY <2>2 DEF BoardsApart
    <3>2. \/ seen'[t].board = 0
          \/ Making(t) /\ seen'[t].board = seen[t].board
          \/ seen'[t].board = Len(boards) + 1
      BY <1>6, NewestBoard
    <3> QED
      BY <1>1, <1>6, <2>2, <3>1, <3>2 DEF BoardsApart
  <2> QED
    BY <1>6, <2>1, <2>2, NewestBoard
<1>7. \A k \in DOMAIN projects' : Unasked(k)' => projects'[k].board \in 0 .. Len(boards')
  BY <1>1, <1>3
<1>8. \A k, l \in DOMAIN projects' :
          k # l /\ Unasked(k)' /\ Unasked(l)' => projects'[k].board # projects'[l].board
  BY <1>2 DEF Relinked
<1> QED
  BY <1>4, <1>5, <1>6, <1>7, <1>8 DEF BoardsApart

LEMMA BoardsApartInit == ProjectsInit => BoardsApart
<1> SUFFICES ASSUME ProjectsInit PROVE BoardsApart
  OBVIOUS
<1>1. DOMAIN projects = {1} /\ projects[1].board = 1 /\ Len(boards) = 1
  BY DEF ProjectsInit, BoardInit
<1>2. \A s \in Requests : ~Making(s)
  BY DEF ProjectsInit, RequestsInit, Making
<1> QED
  BY <1>1, <1>2 DEF BoardsApart

LEMMA BoardsApartHolds == ProjectsSpec => []BoardsApart
<1>1. RInv /\ ProjectTypes /\ FilesTyped /\ BoardsApart /\ [ProjectsNext]_projectVars => BoardsApart'
  BY BoardsApartStep
<1> QED
  BY <1>1, BoardsApartInit, ProjectsTyped, OwnHolds, PTL DEF ProjectsSpec

\* ide/store.go:64 and projects/handler.go:165: for any number of requests,
\* whatever overlaps or fails, a project is linked to the agent and to the board
\* that were made for it and keeps its files, unless a client's PATCH says
\* otherwise; an ID given twice at once mixes up only the agents of those that
\* were given it, and may cost one of them its files.
THEOREM ProjectsStayApart == ProjectsSpec => []ProjectsKeepTheirOwn
<1>1. ASSUME ProjectTypes, FilesTyped, Own, BoardsApart, NEW p \in Range(projects)
      PROVE  LET made  == IF p.id \in collided THEN {op[r].name : r \in Creators(p.id)} ELSE {p.made}
                 asked == {set.agent : set \in Patches(p.id)}
             IN  /\ p.agent \in {Nothing} \cup made \cup asked
                 /\ files[p.id] # Nothing \/ p.id \in collided
                 /\ \A q \in Range(projects) :
                        p.board = q.board /\ p.board # 0 /\ p # q =>
                            \E set \in Patches(p.id) \cup Patches(q.id) : set.board = p.board
  <2>1. PICK k \in DOMAIN projects : p = projects[k]
    BY <1>1 DEF Range
  <2>2. /\ p.agent \in {Nothing} \cup MadeAgents(p.id) \cup AskedAgents(p.id)
        /\ p.id \notin collided =>
              p.agent \in {Nothing, p.made} \cup AskedAgents(p.id) /\ files[p.id] # Nothing
    BY <1>1, <2>1 DEF Own
  <2>3. ASSUME NEW q \in Range(projects), p.board = q.board, p.board # 0, p # q
        PROVE  \E set \in Patches(p.id) \cup Patches(q.id) : set.board = p.board
    <3>1. PICK l \in DOMAIN projects : q = projects[l]
      BY DEF Range
    <3>2. ~(Unasked(k) /\ Unasked(l))
      BY <1>1, <2>1, <2>3, <3>1 DEF BoardsApart
    <3> QED
      BY <2>1, <2>3, <3>1, <3>2 DEF Unasked
  <2> QED
    BY <2>2, <2>3 DEF MadeAgents, AskedAgents
<1>2. ProjectTypes /\ FilesTyped /\ Own /\ BoardsApart => ProjectsKeepTheirOwn
  BY <1>1 DEF ProjectsKeepTheirOwn
<1> QED
  BY <1>2, ProjectsTyped, OwnHolds, BoardsApartHolds, PTL

-----------------------------------------------------------------------------
(* Boards: the slices and what a change of one leaves of the others.       *)

BoardShape ==
    /\ array \in [Sorts -> Seq(Seq(Item))]
    /\ count \in [Sorts -> Seq(Nat)]
    /\ nextN \in [Sorts -> Nat \ {0}]
    /\ latest \in [Sorts -> [1 .. MaxId -> Texts \cup {Nothing}]]
    /\ deleted \in [Sorts -> SUBSET (1 .. MaxId)]
    /\ \A s \in Sorts :
          /\ Len(array[s]) = Len(boards) /\ Len(count[s]) = Len(boards)
          /\ \A b \in DOMAIN boards : count[s][b] <= Len(array[s][b])

LEMMA ShapeFacts ==
    ASSUME BoardShape, boards \in Seq(Texts), NEW s \in Sorts
    PROVE  /\ array[s] \in Seq(Seq(Item)) /\ count[s] \in Seq(Nat)
           /\ DOMAIN array[s] = DOMAIN boards /\ DOMAIN count[s] = DOMAIN boards
           /\ DOMAIN boards = 1 .. Len(boards) /\ Len(boards) \in Nat
           /\ \A b \in DOMAIN boards :
                 /\ array[s][b] \in Seq(Item) /\ Len(array[s][b]) \in Nat
                 /\ DOMAIN array[s][b] = 1 .. Len(array[s][b])
                 /\ count[s][b] \in Nat /\ count[s][b] <= Len(array[s][b])
                 /\ \A k \in 1 .. Len(array[s][b]) : array[s][b][k] \in Item
<1>1. array[s] \in Seq(Seq(Item)) /\ count[s] \in Seq(Nat)
  BY DEF BoardShape
<1>2. DOMAIN array[s] = DOMAIN boards /\ DOMAIN count[s] = DOMAIN boards
      /\ DOMAIN boards = 1 .. Len(boards) /\ Len(boards) \in Nat
  BY <1>1, LenProperties DEF BoardShape
<1>3. ASSUME NEW b \in DOMAIN boards
      PROVE  /\ array[s][b] \in Seq(Item) /\ Len(array[s][b]) \in Nat
             /\ DOMAIN array[s][b] = 1 .. Len(array[s][b])
             /\ count[s][b] \in Nat /\ count[s][b] <= Len(array[s][b])
             /\ \A k \in 1 .. Len(array[s][b]) : array[s][b][k] \in Item
  <2>1. b \in 1 .. Len(array[s]) /\ b \in 1 .. Len(count[s])
    BY <1>2 DEF BoardShape
  <2>2. array[s][b] \in Seq(Item) /\ count[s][b] \in Nat
    BY <1>1, <2>1, ElementOfSeq
  <2> QED
    BY <2>2, LenProperties, ElementOfSeq DEF BoardShape
<1> QED
  BY <1>1, <1>2, <1>3

\* The slice of board b, of sort s, has array w and length n; the others are as
\* they were.
SliceSet(s, b, w, n) ==
    /\ array'[s][b] = w /\ count'[s][b] = n
    /\ \A c \in DOMAIN boards \ {b} : array'[s][c] = array[s][c] /\ count'[s][c] = count[s][c]
    /\ \A t \in Sorts \ {s} : array'[t] = array[t] /\ count'[t] = count[t]

LEMMA SliceWritten ==
    ASSUME BoardShape, boards \in Seq(Texts), NEW s \in Sorts, NEW b \in DOMAIN boards,
           NEW w \in Seq(Item), NEW n \in Nat,
           array' = [array EXCEPT ![s][b] = w], count' = [count EXCEPT ![s][b] = n], boards' = boards
    PROVE  /\ SliceSet(s, b, w, n)
           /\ array' \in [Sorts -> Seq(Seq(Item))] /\ count' \in [Sorts -> Seq(Nat)]
           /\ \A t \in Sorts : Len(array'[t]) = Len(boards) /\ Len(count'[t]) = Len(boards)
           /\ n <= Len(w) => \A t \in Sorts : \A c \in DOMAIN boards : count'[t][c] <= Len(array'[t][c])
<1> DEFINE a == [array[s] EXCEPT ![b] = w]
           m == [count[s] EXCEPT ![b] = n]
<1>1. /\ array[s] \in Seq(Seq(Item)) /\ count[s] \in Seq(Nat)
      /\ DOMAIN boards = 1 .. Len(boards) /\ Len(array[s]) = Len(boards) /\ Len(count[s]) = Len(boards)
  BY ShapeFacts DEF BoardShape
<1>2. /\ a \in Seq(Seq(Item)) /\ Len(a) = Len(boards)
      /\ \A c \in DOMAIN boards : a[c] = IF c = b THEN w ELSE array[s][c]
  BY <1>1, ExceptSeq
<1>3. /\ m \in Seq(Nat) /\ Len(m) = Len(boards)
      /\ \A c \in DOMAIN boards : m[c] = IF c = b THEN n ELSE count[s][c]
  BY <1>1, ExceptSeq
<1>4. array' = [array EXCEPT ![s] = a] /\ count' = [count EXCEPT ![s] = m]
  OBVIOUS
<1> HIDE DEF a, m
<1>5. /\ array' \in [Sorts -> Seq(Seq(Item))] /\ count' \in [Sorts -> Seq(Nat)]
      /\ array'[s] = a /\ count'[s] = m
      /\ \A t \in Sorts \ {s} : array'[t] = array[t] /\ count'[t] = count[t]
  <2>1. PICK A, C : A = Seq(Seq(Item)) /\ C = Seq(Nat)
    OBVIOUS
  <2>2. array \in [Sorts -> A] /\ count \in [Sorts -> C]
    BY <2>1 DEF BoardShape
  <2>3. a \in A /\ m \in C
    BY <1>2, <1>3, <2>1
  <2>4. array' \in [Sorts -> A] /\ array'[s] = a /\ \A t \in Sorts \ {s} : array'[t] = array[t]
    BY <1>4, <2>2, <2>3
  <2>5. count' \in [Sorts -> C] /\ count'[s] = m /\ \A t \in Sorts \ {s} : count'[t] = count[t]
    BY <1>4, <2>2, <2>3
  <2> QED
    BY <2>1, <2>4, <2>5
<1>6. SliceSet(s, b, w, n)
  BY <1>2, <1>3, <1>5 DEF SliceSet
<1>7. \A t \in Sorts : Len(array'[t]) = Len(boards) /\ Len(count'[t]) = Len(boards)
  BY <1>2, <1>3, <1>5 DEF BoardShape
<1>8. ASSUME n <= Len(w), NEW t \in Sorts, NEW c \in DOMAIN boards
      PROVE  count'[t][c] <= Len(array'[t][c])
  BY <1>6, <1>8 DEF SliceSet, BoardShape
<1> QED
  BY <1>5, <1>6, <1>7, <1>8

\* IndexOf finds an item in use.
LEMMA IndexFound ==
    ASSUME BoardShape, boards \in Seq(Texts), NEW s \in Sorts, NEW b, NEW i
    PROVE  \/ IndexOf(s, b, i) = 0
              /\ (b \in DOMAIN boards => \A k \in 1 .. count[s][b] : array[s][b][k].id # i)
           \/ /\ b \in DOMAIN boards
              /\ IndexOf(s, b, i) \in 1 .. count[s][b]
              /\ array[s][b][IndexOf(s, b, i)].id = i
<1> DEFINE w == Items(s, b)
           T == {k \in 1 .. Len(w) : w[k].id = i}
<1>1. IndexOf(s, b, i) = IF T # {} THEN Min(T) ELSE 0
  BY DEF IndexOf, SelectInSeq
<1>2. Len(w) \in Nat /\ (b \notin DOMAIN boards => Len(w) = 0)
      /\ (b \in DOMAIN boards =>
             Len(w) = count[s][b] /\ \A k \in 1 .. count[s][b] : w[k] = array[s][b][k])
  <2>1. CASE b \notin DOMAIN boards
    BY <2>1 DEF Items
  <2>2. CASE b \in DOMAIN boards
    <3>1. /\ count[s][b] \in Nat /\ count[s][b] <= Len(array[s][b]) /\ array[s][b] \in Seq(Item)
          /\ Len(array[s][b]) \in Nat
      BY <2>2, ShapeFacts
    <3>2. w = SubSeq(array[s][b], 1, count[s][b])
      BY <2>2 DEF Items
    <3>3. \A k \in 1 .. count[s][b] : array[s][b][k] \in Item
      BY <2>2, <3>1, ShapeFacts
    <3> HIDE DEF w
    <3>4. /\ Len(SubSeq(array[s][b], 1, count[s][b])) = count[s][b]
          /\ \A k \in 1 .. count[s][b] : SubSeq(array[s][b], 1, count[s][b])[k] = array[s][b][k]
      BY <3>1, <3>3, SubSeqProperties
    <3> QED
      BY <2>2, <3>1, <3>2, <3>4
  <2> QED
    BY <2>1, <2>2
<1> HIDE DEF w
<1>3. CASE T = {}
  BY <1>1, <1>2, <1>3
<1>4. CASE T # {}
  <2>1. T \in SUBSET Nat
    BY <1>2
  <2>2. Min(T) \in T
    BY <1>4, <2>1, LeastNatural
  <2> QED
    BY <1>1, <1>2, <1>4, <2>2
<1> QED
  BY <1>3, <1>4

\* Create adds an item with the next ID at the end of the slice.
LEMMA CreatedSlice ==
    ASSUME BoardShape, boards \in Seq(Texts), NEW r \in Requests, NEW s \in Sorts,
           NEW b \in DOMAIN boards, Create(r, s, b), nextN[s] \in 1 .. MaxId
    PROVE  /\ BoardShape'
           /\ \E w \in Seq(Item) :
                 /\ SliceSet(s, b, w, count[s][b] + 1)
                 /\ \A k \in 1 .. count[s][b] : w[k] = array[s][b][k]
                 /\ w[count[s][b] + 1] = Todo(nextN[s], r)
           /\ nextN'[s] = nextN[s] + 1 /\ \A t \in Sorts \ {s} : nextN'[t] = nextN[t]
           /\ latest'[s][nextN[s]] = r
           /\ \A i \in 1 .. MaxId : i # nextN[s] => latest'[s][i] = latest[s][i]
           /\ \A t \in Sorts \ {s} : latest'[t] = latest[t]
           /\ boards' = boards /\ deleted' = deleted
<1> DEFINE i == nextN[s]
           x == Todo(i, r)
           n == count[s][b] + 1
           v == array[s][b]
           w == IF n <= Len(v) THEN [v EXCEPT ![n] = x] ELSE Append(v, x)
<1>1. /\ v \in Seq(Item) /\ Len(v) \in Nat /\ count[s][b] \in Nat /\ count[s][b] <= Len(v)
      /\ n \in Nat
  BY ShapeFacts
<1>2. x \in Item
  BY DEF Todo, Item, Texts
<1>3. /\ nextN' = [nextN EXCEPT ![s] = i + 1]
      /\ array' = [array EXCEPT ![s][b] = w]
      /\ count' = [count EXCEPT ![s][b] = n]
      /\ latest' = [latest EXCEPT ![s][i] = r]
      /\ UNCHANGED <<boards, deleted>>
  BY DEF Create, NewId
<1> HIDE DEF x
<1>4. w \in Seq(Item) /\ n <= Len(w) /\ w[n] = x /\ \A k \in 1 .. count[s][b] : w[k] = v[k]
  <2>1. CASE n <= Len(v)
    <3>1. /\ [v EXCEPT ![n] = x] \in Seq(Item) /\ Len([v EXCEPT ![n] = x]) = Len(v)
          /\ \A k \in 1 .. Len(v) : [v EXCEPT ![n] = x][k] = IF k = n THEN x ELSE v[k]
      BY <1>1, <1>2, <2>1, ExceptSeq
    <3> QED
      BY <1>1, <2>1, <3>1
  <2>2. CASE ~(n <= Len(v))
    <3>1. n = Len(v) + 1
      BY SMTT(20), <1>1, <2>2
    <3>2. /\ Append(v, x) \in Seq(Item) /\ Len(Append(v, x)) = Len(v) + 1
          /\ \A k \in 1 .. Len(v) : Append(v, x)[k] = v[k]
          /\ Append(v, x)[Len(v) + 1] = x
      BY <1>1, <1>2, AppendProperties
    <3> QED
      BY <1>1, <2>2, <3>1, <3>2
  <2> QED
    BY <2>1, <2>2
<1> HIDE DEF w
<1>5. /\ SliceSet(s, b, w, n)
      /\ array' \in [Sorts -> Seq(Seq(Item))] /\ count' \in [Sorts -> Seq(Nat)]
      /\ \A t \in Sorts : Len(array'[t]) = Len(boards) /\ Len(count'[t]) = Len(boards)
      /\ \A t \in Sorts : \A c \in DOMAIN boards : count'[t][c] <= Len(array'[t][c])
  BY <1>1, <1>3, <1>4, SliceWritten
<1>6. /\ nextN' \in [Sorts -> Nat \ {0}] /\ nextN'[s] = nextN[s] + 1
      /\ \A t \in Sorts \ {s} : nextN'[t] = nextN[t]
  <2>1. i + 1 \in Nat \ {0} /\ nextN \in [Sorts -> Nat \ {0}]
    BY DEF BoardShape
  <2> HIDE DEF i
  <2>2. nextN' \in [Sorts -> Nat \ {0}] /\ nextN'[s] = i + 1
        /\ \A t \in Sorts \ {s} : nextN'[t] = nextN[t]
    BY <1>3, <2>1
  <2> QED
    BY <2>2 DEF i
<1>7. /\ latest' \in [Sorts -> [1 .. MaxId -> Texts \cup {Nothing}]]
      /\ latest'[s][i] = r /\ \A j \in 1 .. MaxId : j # i => latest'[s][j] = latest[s][j]
      /\ \A t \in Sorts \ {s} : latest'[t] = latest[t]
  <2>1. i \in 1 .. MaxId /\ r \in Texts
    BY DEF Texts
  <2> HIDE DEF i
  <2> QED
    BY <1>3, <2>1 DEF BoardShape
<1>8. BoardShape'
  BY <1>3, <1>5, <1>6, <1>7 DEF BoardShape, MaxId
<1> QED
  BY <1>3, <1>4, <1>5, <1>6, <1>7, <1>8 DEF x

\* Store replaces an item in use by one with its ID, or does nothing.
LEMMA StoredSlice ==
    ASSUME BoardShape, boards \in Seq(Texts), NEW s \in Sorts, NEW b, NEW x,
           Store(s, b, x),
           b \in DOMAIN boards /\ IndexOf(s, b, x.id) # 0 => x \in Item
    PROVE  /\ UNCHANGED <<boards, count, nextN, deleted>>
           /\ \/ IndexOf(s, b, x.id) = 0 /\ UNCHANGED array
              \/ /\ b \in DOMAIN boards
                 /\ IndexOf(s, b, x.id) \in 1 .. count[s][b]
                 /\ array[s][b][IndexOf(s, b, x.id)].id = x.id
                 /\ array' \in [Sorts -> Seq(Seq(Item))]
                 /\ \A t \in Sorts : Len(array'[t]) = Len(boards)
                 /\ \A t \in Sorts : \A c \in DOMAIN boards : count[t][c] <= Len(array'[t][c])
                 /\ \E w \in Seq(Item) :
                       /\ SliceSet(s, b, w, count[s][b])
                       /\ \A k \in 1 .. count[s][b] :
                             w[k] = IF k = IndexOf(s, b, x.id) THEN x ELSE array[s][b][k]
<1> DEFINE k == IndexOf(s, b, x.id)
           v == array[s][b]
           w == [v EXCEPT ![k] = x]
<1>1. UNCHANGED <<boards, count, nextN, deleted>>
  BY DEF Store
<1>2. CASE k = 0
  BY <1>1, <1>2 DEF Store
<1>3. CASE k # 0
  <2>1. b \in DOMAIN boards /\ k \in 1 .. count[s][b] /\ v[k].id = x.id
    BY <1>3, IndexFound
  <2>2. /\ v \in Seq(Item) /\ Len(v) \in Nat /\ count[s][b] \in Nat /\ count[s][b] <= Len(v)
    BY <2>1, ShapeFacts
  <2>3. x \in Item
    BY <1>3, <2>1
  <2>4. array' = [array EXCEPT ![s][b] = w]
    BY <1>3 DEF Store
  <2> HIDE DEF k
  <2>5. /\ w \in Seq(Item) /\ Len(w) = Len(v)
        /\ \A j \in 1 .. Len(v) : w[j] = IF j = k THEN x ELSE v[j]
    BY <2>1, <2>2, <2>3, ExceptSeq
  <2> HIDE DEF w
  <2>6. count' = [count EXCEPT ![s][b] = count[s][b]]
    <3> DEFINE m == count[s]
    <3>1. m \in Seq(Nat) /\ b \in DOMAIN m
      BY <2>1, ShapeFacts
    <3>2. m \in [1 .. Len(m) -> Nat]
      BY <3>1, LenProperties
    <3> HIDE DEF m
    <3>3. [m EXCEPT ![b] = m[b]] = m
      BY <3>2
    <3> QED
      BY <1>1, <3>3 DEF BoardShape, m
  <2>7. /\ SliceSet(s, b, w, count[s][b])
        /\ array' \in [Sorts -> Seq(Seq(Item))]
        /\ \A t \in Sorts : Len(array'[t]) = Len(boards)
        /\ \A t \in Sorts : \A c \in DOMAIN boards : count'[t][c] <= Len(array'[t][c])
    <3>1. count[s][b] <= Len(w) /\ boards' = boards
      BY <1>1, <2>2, <2>5
    <3> HIDE DEF v
    <3> QED
      BY <2>1, <2>2, <2>4, <2>5, <2>6, <3>1, SliceWritten
  <2>8. \A j \in 1 .. count[s][b] : w[j] = IF j = k THEN x ELSE v[j]
    BY <2>2, <2>5
  <2> QED
    BY <1>1, <2>1, <2>5, <2>7, <2>8 DEF k
<1> QED
  BY <1>2, <1>3

\* Delete takes an item out of the slice, and those behind it move up.
LEMMA DeletedSlice ==
    ASSUME BoardShape, boards \in Seq(Texts), NEW s \in Sorts, NEW b, NEW i,
           IndexOf(s, b, i) # 0, Delete(s, b, i)
    PROVE  /\ BoardShape'
           /\ b \in DOMAIN boards /\ count[s][b] \in Nat
           /\ IndexOf(s, b, i) \in 1 .. count[s][b]
           /\ array[s][b][IndexOf(s, b, i)].id = i
           /\ \E w \in Seq(Item) :
                 /\ SliceSet(s, b, w, count[s][b] - 1)
                 /\ \A k \in 1 .. count[s][b] - 1 :
                       w[k] = array[s][b][IF k < IndexOf(s, b, i) THEN k ELSE k + 1]
           /\ deleted'[s] = deleted[s] \cup {i} /\ \A t \in Sorts \ {s} : deleted'[t] = deleted[t]
           /\ boards' = boards /\ nextN' = nextN /\ latest' = latest
<1> DEFINE k == IndexOf(s, b, i)
           n == count[s][b]
           v == array[s][b]
           w == [j \in DOMAIN v |-> IF j \in k .. n - 1 THEN v[j + 1] ELSE v[j]]
<1>1. b \in DOMAIN boards /\ k \in 1 .. n /\ v[k].id = i
  BY IndexFound
<1>2. /\ v \in Seq(Item) /\ Len(v) \in Nat /\ n \in Nat /\ n <= Len(v)
      /\ DOMAIN v = 1 .. Len(v) /\ \A j \in 1 .. Len(v) : v[j] \in Item
  BY <1>1, ShapeFacts
<1>3. /\ array' = [array EXCEPT ![s][b] = w]
      /\ count' = [count EXCEPT ![s][b] = n - 1]
      /\ deleted' = [deleted EXCEPT ![s] = deleted[s] \cup {i}]
      /\ UNCHANGED <<boards, nextN, latest>>
  BY DEF Delete
<1>4. i \in 1 .. MaxId
  <2>1. v[k] \in Item
    BY <1>1, <1>2
  <2> QED
    BY <1>1, <2>1 DEF Item
<1> HIDE DEF k, n, v
<1>5. w \in Seq(Item) /\ Len(w) = Len(v)
  <2>1. w \in [1 .. Len(v) -> Item]
    BY <1>1, <1>2
  <2> HIDE DEF w
  <2>2. w \in Seq(Item)
    BY <1>2, <2>1, SeqDef
  <2> QED
    BY <1>2, <2>1, <2>2, LenProperties
<1>6. \A j \in 1 .. n - 1 : w[j] = v[IF j < k THEN j ELSE j + 1]
  BY <1>1, <1>2
<1> HIDE DEF w
<1>7. /\ SliceSet(s, b, w, n - 1)
      /\ array' \in [Sorts -> Seq(Seq(Item))] /\ count' \in [Sorts -> Seq(Nat)]
      /\ \A t \in Sorts : Len(array'[t]) = Len(boards) /\ Len(count'[t]) = Len(boards)
      /\ \A t \in Sorts : \A c \in DOMAIN boards : count'[t][c] <= Len(array'[t][c])
  <2>1. n - 1 \in Nat /\ n - 1 <= Len(w)
    BY <1>1, <1>2, <1>5
  <2> QED
    BY <1>1, <1>3, <1>5, <2>1, SliceWritten
<1>8. /\ deleted' \in [Sorts -> SUBSET (1 .. MaxId)]
      /\ deleted'[s] = deleted[s] \cup {i} /\ \A t \in Sorts \ {s} : deleted'[t] = deleted[t]
  BY <1>3, <1>4 DEF BoardShape
<1>9. BoardShape'
  BY <1>3, <1>7, <1>8 DEF BoardShape, MaxId
<1> QED
  BY <1>1, <1>2, <1>3, <1>5, <1>6, <1>7, <1>8, <1>9 DEF k, n, v

\* A new board has an empty slice of each sort.
LEMMA NewSlices ==
    ASSUME BoardShape, boards \in Seq(Texts), NEW r \in Requests, NewBoard(r)
    PROVE  /\ BoardShape' /\ boards' \in Seq(Texts)
           /\ DOMAIN boards' = DOMAIN boards \cup {Len(boards) + 1}
           /\ \A s \in Sorts :
                 /\ \A b \in DOMAIN boards : array'[s][b] = array[s][b] /\ count'[s][b] = count[s][b]
                 /\ count'[s][Len(boards) + 1] = 0
           /\ nextN' = nextN /\ latest' = latest /\ deleted' = deleted
<1>1. /\ boards' \in Seq(Texts) /\ Len(boards') = Len(boards) + 1 /\ Len(boards) \in Nat
      /\ DOMAIN boards = 1 .. Len(boards) /\ DOMAIN boards' = 1 .. Len(boards) + 1
  BY NewBoardLonger
<1>2. ASSUME NEW s \in Sorts
      PROVE  /\ array'[s] \in Seq(Seq(Item)) /\ count'[s] \in Seq(Nat)
             /\ Len(array'[s]) = Len(boards) + 1 /\ Len(count'[s]) = Len(boards) + 1
             /\ \A b \in DOMAIN boards : array'[s][b] = array[s][b] /\ count'[s][b] = count[s][b]
             /\ count'[s][Len(boards) + 1] = 0 /\ array'[s][Len(boards) + 1] = <<>>
  <2>1. array'[s] = Append(array[s], <<>>) /\ count'[s] = Append(count[s], 0)
    BY DEF NewBoard
  <2>2. <<>> \in Seq(Item)
    OBVIOUS
  <2>3. /\ array[s] \in Seq(Seq(Item)) /\ count[s] \in Seq(Nat)
        /\ Len(array[s]) = Len(boards) /\ Len(count[s]) = Len(boards)
    BY DEF BoardShape
  <2>4. /\ array'[s] \in Seq(Seq(Item)) /\ Len(array'[s]) = Len(boards) + 1
        /\ \A b \in DOMAIN boards : array'[s][b] = array[s][b]
        /\ array'[s][Len(boards) + 1] = <<>>
    BY <1>1, <2>1, <2>2, <2>3, AppendProperties
  <2>5. /\ count'[s] \in Seq(Nat) /\ Len(count'[s]) = Len(boards) + 1
        /\ \A b \in DOMAIN boards : count'[s][b] = count[s][b]
        /\ count'[s][Len(boards) + 1] = 0
    BY <1>1, <2>1, <2>3, AppendProperties
  <2> QED
    BY <2>4, <2>5
<1>3. array' \in [Sorts -> Seq(Seq(Item))] /\ count' \in [Sorts -> Seq(Nat)]
  BY <1>2 DEF NewBoard
<1>4. UNCHANGED <<nextN, latest, deleted>>
  BY DEF NewBoard
<1>5. ASSUME NEW s \in Sorts, NEW b \in DOMAIN boards' PROVE count'[s][b] <= Len(array'[s][b])
  <2>1. CASE b \in DOMAIN boards
    BY <1>2, <2>1 DEF BoardShape
  <2>2. CASE b = Len(boards) + 1
    BY <1>2, <2>2
  <2> QED
    BY <1>1, <2>1, <2>2
<1>6. BoardShape'
  BY <1>1, <1>2, <1>3, <1>4, <1>5 DEF BoardShape, MaxId
<1> QED
  BY <1>1, <1>2, <1>4, <1>6

-----------------------------------------------------------------------------
(* What a step does to the items of one sort.                              *)

ToItem(s) == IF s = "card" THEN ToCard ELSE ToEdge

Numbering == \A s \in Sorts : nextN[s] + Cardinality(Pending(ToItem(s))) <= MaxId + 1

Copies == \A r \in Requests : at[r] = "activate" => seen[r] \in Item

GhostsKept == stale' = stale /\ undone' = undone

SameItems(s) ==
    /\ array'[s] = array[s] /\ count'[s] = count[s] /\ nextN'[s] = nextN[s]
    /\ latest'[s] = latest[s] /\ deleted'[s] = deleted[s]

\* A board is added, with no item.
Widened(s) ==
    /\ DOMAIN boards' = DOMAIN boards \cup {Len(boards) + 1}
    /\ \A b \in DOMAIN boards : array'[s][b] = array[s][b] /\ count'[s][b] = count[s][b]
    /\ count'[s][Len(boards) + 1] = 0
    /\ nextN'[s] = nextN[s] /\ latest'[s] = latest[s] /\ deleted'[s] = deleted[s]

OtherBoards(s, b) ==
    /\ b \in DOMAIN boards
    /\ \A c \in DOMAIN boards \ {b} : array'[s][c] = array[s][c] /\ count'[s][c] = count[s][c]

OtherTexts(s, i) == \A j \in 1 .. MaxId : j # i => latest'[s][j] = latest[s][j]

Added(r, s, b) ==
    LET n == count[s][b]
    IN  /\ OtherBoards(s, b)
        /\ count'[s][b] = n + 1
        /\ \A k \in 1 .. n : array'[s][b][k] = array[s][b][k]
        /\ array'[s][b][n + 1] = Todo(nextN[s], r)
        /\ nextN[s] \in 1 .. MaxId /\ nextN'[s] = nextN[s] + 1
        /\ deleted'[s] = deleted[s]
        /\ latest'[s][nextN[s]] = r /\ OtherTexts(s, nextN[s])

\* Item k becomes x.
Written(s, b, k, x) ==
    /\ OtherBoards(s, b)
    /\ count'[s][b] = count[s][b] /\ k \in 1 .. count[s][b]
    /\ x.id = array[s][b][k].id
    /\ \A j \in 1 .. count[s][b] : array'[s][b][j] = IF j = k THEN x ELSE array[s][b][j]
    /\ nextN'[s] = nextN[s] /\ deleted'[s] = deleted[s]

Taken(s, b, k) ==
    /\ OtherBoards(s, b)
    /\ count'[s][b] = count[s][b] - 1 /\ k \in 1 .. count[s][b]
    /\ \A j \in 1 .. count[s][b] - 1 : array'[s][b][j] = array[s][b][IF j < k THEN j ELSE j + 1]
    /\ nextN'[s] = nextN[s] /\ latest'[s] = latest[s]
    /\ deleted'[s] = deleted[s] \cup {array[s][b][k].id}

\* Card i is updated.
Rewritten(i) == stale' = stale \cup Sending(i) /\ undone' = undone \ {i}

\* The copy of request r is stored.
Copied(r) ==
    /\ stale' = stale
    /\ undone' = IF r \in stale THEN undone \cup {seen[r].id} ELSE undone \ {seen[r].id}

\* What request r does to the items of sort s.
ItemMove(r, s) ==
    LET b == op[r].item[1]
    IN  /\ at[r] \in BoardOps \cup {"activate"} /\ DOMAIN boards' = DOMAIN boards
        /\ at'[r] \in Final
        /\ \/ Added(r, s, b) /\ at[r] \in ToItem(s) /\ GhostsKept
           \/ \E k \in 1 .. count[s][b] :
                 Written(s, b, k, Todo(op[r].item[2], r)) /\ latest'[s][op[r].item[2]] = r
                 /\ OtherTexts(s, op[r].item[2])
                 /\ IF s = "card" THEN Rewritten(op[r].item[2]) ELSE GhostsKept
           \/ \E k \in 1 .. count[s][b] :
                 s = "card" /\ at[r] = "activate" /\ Written(s, b, k, Activated(r))
                 /\ latest'[s] = latest[s] /\ Copied(r)
           \/ \E k \in 1 .. count[s][b] : Taken(s, b, k) /\ GhostsKept

\* Only sendCard does more than nothing to the ghosts.
SameBoard ==
    /\ DOMAIN boards' = DOMAIN boards /\ \A s \in Sorts : SameItems(s)
    /\ undone' = undone
    /\ stale' = stale \/ \E r \in Requests : stale' = stale \cup {r}

-----------------------------------------------------------------------------
LEMMA RoomForItem ==
    ASSUME RInv, BoardShape, Numbering, NEW r \in Requests, NEW s \in Sorts, at[r] \in ToItem(s)
    PROVE  nextN[s] \in 1 .. MaxId
<1>1. Pending(ToItem(s)) \in SUBSET Requests /\ r \in Pending(ToItem(s))
  BY DEF Pending
<1>2. IsFiniteSet(Pending(ToItem(s))) /\ Cardinality(Pending(ToItem(s))) \in Nat
  BY <1>1, RequestAssumption, FS_Subset, FS_CardinalityType
<1>3. Cardinality(Pending(ToItem(s))) # 0
  BY <1>1, <1>2, FS_EmptySet
<1>4. nextN[s] \in Nat \ {0} /\ MaxId \in Nat
  BY RequestAssumption, FS_CardinalityType DEF BoardShape, MaxId
<1> QED
  BY <1>2, <1>3, <1>4 DEF Numbering

LEMMA CreateMoves ==
    ASSUME RInv, BoardShape, boards \in Seq(Texts), Numbering, NEW r \in Requests, NEW s \in Sorts,
           NEW does \in ToItem(s), does \in BoardOps, create(r, does, s)
    PROVE  BoardShape' /\ boards' = boards /\ ItemMove(r, s) /\ \A t \in Sorts \ {s} : SameItems(t)
<1> DEFINE b == op[r].item[1]
<1>1. /\ b \in DOMAIN boards /\ Create(r, s, b) /\ at[r] \in ToItem(s) /\ at[r] \in BoardOps
      /\ Proceed(r, "done")
  BY DEF create, Serves, HasBoard
<1>2. nextN[s] \in 1 .. MaxId
  BY <1>1, RoomForItem
<1> HIDE DEF b
<1>3. /\ BoardShape'
      /\ \E w \in Seq(Item) :
            /\ SliceSet(s, b, w, count[s][b] + 1)
            /\ \A k \in 1 .. count[s][b] : w[k] = array[s][b][k]
            /\ w[count[s][b] + 1] = Todo(nextN[s], r)
      /\ nextN'[s] = nextN[s] + 1 /\ \A t \in Sorts \ {s} : nextN'[t] = nextN[t]
      /\ latest'[s][nextN[s]] = r
      /\ \A i \in 1 .. MaxId : i # nextN[s] => latest'[s][i] = latest[s][i]
      /\ \A t \in Sorts \ {s} : latest'[t] = latest[t]
      /\ boards' = boards /\ deleted' = deleted
  BY <1>1, <1>2, CreatedSlice
<1>4. Added(r, s, b)
  BY <1>1, <1>2, <1>3 DEF Added, OtherBoards, OtherTexts, SliceSet
<1>5. \A t \in Sorts \ {s} : SameItems(t)
  BY <1>3 DEF SameItems, SliceSet
<1>6. at'[r] \in Final
  BY <1>1 DEF Proceed, RInv, RequestTypes, Final
<1>7. GhostsKept
  BY <1>1 DEF Create, GhostsKept
<1> QED
  BY <1>1, <1>3, <1>4, <1>5, <1>6, <1>7 DEF ItemMove, b

LEMMA UpdateMoves ==
    ASSUME RInv, BoardShape, boards \in Seq(Texts), NEW r \in Requests, NEW s \in Sorts,
           NEW does \in BoardOps, update(r, does, s)
    PROVE  /\ BoardShape' /\ boards' = boards
           /\ \/ (\A t \in Sorts : SameItems(t)) /\ GhostsKept
              \/ ItemMove(r, s) /\ \A t \in Sorts \ {s} : SameItems(t)
<1> DEFINE b == op[r].item[1]
           i == op[r].item[2]
           x == Todo(i, r)
           k == IndexOf(s, b, i)
<1>1. /\ at[r] \in BoardOps /\ Store(s, b, x)
      /\ latest' = IF k # 0 THEN [latest EXCEPT ![s][i] = r] ELSE latest
      /\ IF k # 0 /\ s = "card" THEN Rewritten(i) ELSE GhostsKept
      /\ Proceed(r, IF k # 0 THEN "done" ELSE "refused")
  BY DEF update, Serves, Rewritten, GhostsKept
<1>2. x.id = i
  BY DEF Todo
<1>3. ASSUME b \in DOMAIN boards, k # 0 PROVE x \in Item /\ i \in 1 .. MaxId
  <2>1. k \in 1 .. count[s][b] /\ array[s][b][k].id = i
    BY <1>3, IndexFound
  <2>2. array[s][b][k] \in Item
    <3>1. count[s][b] \in Nat /\ count[s][b] <= Len(array[s][b]) /\ Len(array[s][b]) \in Nat
      BY <1>3, ShapeFacts
    <3> HIDE DEF k
    <3>2. k \in 1 .. Len(array[s][b])
      BY <2>1, <3>1
    <3> QED
      BY <1>3, <3>2, ShapeFacts
  <2> HIDE DEF i, k
  <2>3. i \in 1 .. MaxId
    BY <2>1, <2>2 DEF Item
  <2> QED
    BY <2>3 DEF x, Todo, Item, Texts
<1> HIDE DEF b, x
<1>4. /\ UNCHANGED <<boards, count, nextN, deleted>>
      /\ \/ k = 0 /\ UNCHANGED array
         \/ /\ b \in DOMAIN boards
            /\ k \in 1 .. count[s][b]
            /\ array[s][b][k].id = i
            /\ array' \in [Sorts -> Seq(Seq(Item))]
            /\ \A t \in Sorts : Len(array'[t]) = Len(boards)
            /\ \A t \in Sorts : \A c \in DOMAIN boards : count[t][c] <= Len(array'[t][c])
            /\ \E w \in Seq(Item) :
                  /\ SliceSet(s, b, w, count[s][b])
                  /\ \A j \in 1 .. count[s][b] : w[j] = IF j = k THEN x ELSE array[s][b][j]
  <2>1. x.id = i /\ (b \in DOMAIN boards /\ IndexOf(s, b, x.id) # 0 => x \in Item)
    BY <1>2, <1>3
  <2>2. IndexOf(s, b, x.id) = k
    BY <2>1
  <2> HIDE DEF i, k
  <2>3. b \in DOMAIN boards /\ IndexOf(s, b, x.id) # 0 => x \in Item
    BY <2>1
  <2>4. /\ UNCHANGED <<boards, count, nextN, deleted>>
        /\ \/ IndexOf(s, b, x.id) = 0 /\ UNCHANGED array
           \/ /\ b \in DOMAIN boards
              /\ IndexOf(s, b, x.id) \in 1 .. count[s][b]
              /\ array[s][b][IndexOf(s, b, x.id)].id = x.id
              /\ array' \in [Sorts -> Seq(Seq(Item))]
              /\ \A t \in Sorts : Len(array'[t]) = Len(boards)
              /\ \A t \in Sorts : \A c \in DOMAIN boards : count[t][c] <= Len(array'[t][c])
              /\ \E w \in Seq(Item) :
                    /\ SliceSet(s, b, w, count[s][b])
                    /\ \A j \in 1 .. count[s][b] :
                          w[j] = IF j = IndexOf(s, b, x.id) THEN x ELSE array[s][b][j]
    BY <1>1, <2>3, StoredSlice
  <2> QED
    BY <2>1, <2>2, <2>4
<1> HIDE DEF k
<1>5. CASE k = 0 /\ UNCHANGED array
  <2>1. latest' = latest /\ GhostsKept
    BY <1>1, <1>5
  <2> QED
    BY <1>1, <1>4, <1>5, <2>1 DEF SameItems, BoardShape, MaxId
<1>6. CASE /\ k # 0 /\ b \in DOMAIN boards
           /\ k \in 1 .. count[s][b]
           /\ array[s][b][k].id = i
           /\ array' \in [Sorts -> Seq(Seq(Item))]
           /\ \A t \in Sorts : Len(array'[t]) = Len(boards)
           /\ \A t \in Sorts : \A c \in DOMAIN boards : count[t][c] <= Len(array'[t][c])
           /\ \E w \in Seq(Item) :
                 /\ SliceSet(s, b, w, count[s][b])
                 /\ \A j \in 1 .. count[s][b] : w[j] = IF j = k THEN x ELSE array[s][b][j]
  <2>1. i \in 1 .. MaxId
    BY <1>3, <1>6 DEF k
  <2>2. latest' = [latest EXCEPT ![s][i] = r] /\ at'[r] \in Final
    BY <1>1, <1>6 DEF Proceed, RInv, RequestTypes, Final
  <2>3. r \in Texts
    BY DEF Texts
  <2> HIDE DEF i
  <2>4. /\ latest' \in [Sorts -> [1 .. MaxId -> Texts \cup {Nothing}]]
        /\ latest'[s][i] = r /\ OtherTexts(s, i)
        /\ \A t \in Sorts \ {s} : latest'[t] = latest[t]
    BY <2>1, <2>2, <2>3 DEF BoardShape, OtherTexts
  <2>5. BoardShape'
    BY <1>4, <1>6, <2>4 DEF BoardShape, MaxId
  <2>6. Written(s, b, k, x)
    BY <1>2, <1>4, <1>6 DEF Written, OtherBoards, SliceSet
  <2>7. \A t \in Sorts \ {s} : SameItems(t)
    BY <1>4, <1>6, <2>4 DEF SameItems, SliceSet
  <2>8. IF s = "card" THEN Rewritten(i) ELSE GhostsKept
    BY <1>1, <1>6
  <2>9. ItemMove(r, s)
    BY <1>1, <1>4, <1>6, <2>2, <2>4, <2>6, <2>8 DEF ItemMove, b, i, x
  <2> QED
    BY <1>4, <2>5, <2>7, <2>9
<1>7. k # 0 \/ k = 0
  OBVIOUS
<1>8. ASSUME k \in 1 .. count[s][b], b \in DOMAIN boards PROVE k # 0
  <2>1. count[s][b] \in Nat
    BY <1>8, ShapeFacts
  <2> QED
    BY <1>8, <2>1
<1> QED
  BY <1>4, <1>5, <1>6, <1>8

LEMMA ActivateMoves ==
    ASSUME RInv, BoardShape, boards \in Seq(Texts), Copies, NEW r \in Requests, activate(r)
    PROVE  /\ BoardShape' /\ boards' = boards
           /\ \/ (\A t \in Sorts : SameItems(t)) /\ GhostsKept
              \/ ItemMove(r, "card") /\ \A t \in Sorts \ {"card"} : SameItems(t)
<1> DEFINE b == op[r].item[1]
           x == Activated(r)
           k == IndexOf("card", b, x.id)
<1>1. at[r] = "activate" /\ Store("card", b, x) /\ latest' = latest /\ Proceed(r, "done")
  BY DEF activate, Serves
<1>2. x \in Item /\ x.id = seen[r].id
  BY <1>1 DEF Copies, Item, Activated
<1>g. IF k = 0 THEN GhostsKept ELSE Copied(r)
  BY <1>2 DEF activate, GhostsKept, Copied
<1> HIDE DEF b, x
<1>3. "card" \in Sorts
  BY DEF Sorts
<1>4. /\ UNCHANGED <<boards, count, nextN, deleted>>
      /\ \/ k = 0 /\ UNCHANGED array
         \/ /\ b \in DOMAIN boards
            /\ k \in 1 .. count["card"][b]
            /\ array["card"][b][k].id = x.id
            /\ array' \in [Sorts -> Seq(Seq(Item))]
            /\ \A t \in Sorts : Len(array'[t]) = Len(boards)
            /\ \A t \in Sorts : \A c \in DOMAIN boards : count[t][c] <= Len(array'[t][c])
            /\ \E w \in Seq(Item) :
                  /\ SliceSet("card", b, w, count["card"][b])
                  /\ \A j \in 1 .. count["card"][b] :
                        w[j] = IF j = k THEN x ELSE array["card"][b][j]
  <2>1. PICK s \in Sorts : s = "card"
    BY <1>3
  <2>2. /\ UNCHANGED <<boards, count, nextN, deleted>>
        /\ \/ IndexOf(s, b, x.id) = 0 /\ UNCHANGED array
           \/ /\ b \in DOMAIN boards
              /\ IndexOf(s, b, x.id) \in 1 .. count[s][b]
              /\ array[s][b][IndexOf(s, b, x.id)].id = x.id
              /\ array' \in [Sorts -> Seq(Seq(Item))]
              /\ \A t \in Sorts : Len(array'[t]) = Len(boards)
              /\ \A t \in Sorts : \A c \in DOMAIN boards : count[t][c] <= Len(array'[t][c])
              /\ \E w \in Seq(Item) :
                    /\ SliceSet(s, b, w, count[s][b])
                    /\ \A j \in 1 .. count[s][b] :
                          w[j] = IF j = IndexOf(s, b, x.id) THEN x ELSE array[s][b][j]
    <3> HIDE DEF k
    <3>1. Store(s, b, x)
      BY <1>1, <2>1
    <3>2. b \in DOMAIN boards /\ IndexOf(s, b, x.id) # 0 => x \in Item
      BY <1>2
    <3> QED
      BY <3>1, <3>2, StoredSlice
  <2> QED
    BY <2>1, <2>2
<1> HIDE DEF k
<1>5. CASE k = 0 /\ UNCHANGED array
  <2>1. (\A t \in Sorts : SameItems(t)) /\ BoardShape'
    BY <1>1, <1>4, <1>5 DEF SameItems, BoardShape, MaxId
  <2> QED
    BY <1>4, <1>5, <1>g, <2>1
<1>6. CASE /\ b \in DOMAIN boards
           /\ k \in 1 .. count["card"][b]
           /\ array["card"][b][k].id = x.id
           /\ array' \in [Sorts -> Seq(Seq(Item))]
           /\ \A t \in Sorts : Len(array'[t]) = Len(boards)
           /\ \A t \in Sorts : \A c \in DOMAIN boards : count[t][c] <= Len(array'[t][c])
           /\ \E w \in Seq(Item) :
                 /\ SliceSet("card", b, w, count["card"][b])
                 /\ \A j \in 1 .. count["card"][b] :
                       w[j] = IF j = k THEN x ELSE array["card"][b][j]
  <2>1. BoardShape'
    BY <1>1, <1>4, <1>6 DEF BoardShape, MaxId
  <2>2. Written("card", b, k, x)
    BY <1>4, <1>6 DEF Written, OtherBoards, SliceSet
  <2>3. \A t \in Sorts \ {"card"} : SameItems(t)
    BY <1>1, <1>4, <1>6 DEF SameItems, SliceSet
  <2>4. at'[r] \in Final
    BY <1>1 DEF Proceed, RInv, RequestTypes, Final
  <2>g. Copied(r)
    <3>1. count["card"][b] \in Nat
      BY <1>3, <1>6, ShapeFacts
    <3> QED
      BY <1>6, <1>g, <3>1
  <2>5. ItemMove(r, "card")
    BY <1>1, <1>4, <1>6, <2>2, <2>4, <2>g DEF ItemMove, b, x
  <2> QED
    BY <1>4, <2>1, <2>3, <2>5
<1> QED
  BY <1>4, <1>5, <1>6

LEMMA DeleteMoves ==
    ASSUME RInv, BoardShape, boards \in Seq(Texts), NEW r \in Requests, NEW s \in Sorts,
           NEW does \in BoardOps, delete(r, does, s)
    PROVE  /\ BoardShape' /\ boards' = boards
           /\ \/ (\A t \in Sorts : SameItems(t)) /\ GhostsKept
              \/ ItemMove(r, s) /\ \A t \in Sorts \ {s} : SameItems(t)
<1> DEFINE b == op[r].item[1]
           i == op[r].item[2]
           k == IndexOf(s, b, i)
<1>1. CASE k = 0
  <2>1. UNCHANGED boardVars
    BY <1>1 DEF delete
  <2> QED
    BY <2>1 DEF boardVars, SameItems, GhostsKept, BoardShape, MaxId
<1>2. CASE k # 0
  <2>1. at[r] \in BoardOps /\ Delete(s, b, i) /\ Proceed(r, "done")
    BY <1>2 DEF delete, Serves
  <2>g. GhostsKept
    BY <2>1 DEF Delete, GhostsKept
  <2> HIDE DEF b, i
  <2>2. /\ BoardShape' /\ b \in DOMAIN boards
        /\ k \in 1 .. count[s][b] /\ array[s][b][k].id = i
        /\ \E w \in Seq(Item) :
              /\ SliceSet(s, b, w, count[s][b] - 1)
              /\ \A j \in 1 .. count[s][b] - 1 :
                    w[j] = array[s][b][IF j < k THEN j ELSE j + 1]
        /\ deleted'[s] = deleted[s] \cup {i} /\ \A t \in Sorts \ {s} : deleted'[t] = deleted[t]
        /\ boards' = boards /\ nextN' = nextN /\ latest' = latest
    BY <1>2, <2>1, DeletedSlice, SMTT(60)
  <2> HIDE DEF k
  <2>3. Taken(s, b, k)
    BY <2>2 DEF Taken, OtherBoards, SliceSet
  <2>4. \A t \in Sorts \ {s} : SameItems(t)
    BY <2>2 DEF SameItems, SliceSet
  <2>5. at'[r] \in Final
    BY <2>1 DEF Proceed, RInv, RequestTypes, Final
  <2>6. ItemMove(r, s)
    BY <2>1, <2>2, <2>3, <2>5, <2>g DEF ItemMove, b
  <2> QED
    BY <2>2, <2>4, <2>6
<1> QED
  BY <1>1, <1>2

LEMMA BoardMoves ==
    ASSUME RInv, ProjectTypes, BoardShape, Numbering, Copies, [ProjectsNext]_projectVars
    PROVE  /\ BoardShape'
           /\ \/ SameBoard
              \/ (\A s \in Sorts : Widened(s)) /\ GhostsKept
                 /\ \E r \in Requests : createBoard(r) \/ CreateBoard(r)
              \/ \E r \in Requests, s \in Sorts :
                    /\ BoardStep(r) /\ ItemMove(r, s)
                    /\ \A t \in Sorts \ {s} : SameItems(t)
<1>0. boards \in Seq(Texts)
  BY DEF ProjectTypes
<1> DEFINE Goal == /\ BoardShape'
                   /\ \/ SameBoard
                      \/ (\A s \in Sorts : Widened(s)) /\ GhostsKept
                         /\ \E r \in Requests : createBoard(r) \/ CreateBoard(r)
                      \/ \E r \in Requests, s \in Sorts :
                            /\ BoardStep(r) /\ ItemMove(r, s)
                            /\ \A t \in Sorts \ {s} : SameItems(t)
<1>1. ASSUME UNCHANGED <<boards, array, count, nextN, latest, deleted, undone>>,
             stale' = stale \/ \E r \in Requests : stale' = stale \cup {r}
      PROVE  Goal
  <2>1. BoardShape'
    BY <1>1 DEF BoardShape, MaxId
  <2>2. SameBoard
    BY <1>1 DEF SameBoard, SameItems
  <2> QED
    BY <2>1, <2>2
<1>2. ASSUME NEW r \in Requests, NewBoard(r), createBoard(r) \/ CreateBoard(r) PROVE Goal
  <2>1. /\ BoardShape' /\ DOMAIN boards' = DOMAIN boards \cup {Len(boards) + 1}
        /\ \A s \in Sorts :
              /\ \A b \in DOMAIN boards : array'[s][b] = array[s][b] /\ count'[s][b] = count[s][b]
              /\ count'[s][Len(boards) + 1] = 0
        /\ nextN' = nextN /\ latest' = latest /\ deleted' = deleted
    BY <1>0, <1>2, NewSlices
  <2>g. GhostsKept
    BY <1>2 DEF NewBoard, GhostsKept
  <2>2. \A s \in Sorts : Widened(s)
    BY <2>1 DEF Widened
  <2> QED
    BY <1>2, <2>1, <2>2, <2>g
<1>3. ASSUME NEW r \in Requests, renameBoard(r) PROVE Goal
  <2>1. NameBoard(r, op[r].item[1]) /\ op[r].item[1] \in DOMAIN boards
    BY <1>3 DEF renameBoard, HasBoard
  <2>2. /\ boards' = [boards EXCEPT ![op[r].item[1]] = r]
        /\ UNCHANGED <<array, count, nextN, latest, deleted, stale, undone>>
    BY <2>1 DEF NameBoard
  <2>3. DOMAIN boards' = DOMAIN boards /\ Len(boards') = Len(boards)
    <3>1. r \in Texts
      BY DEF Texts
    <3>2. op[r].item[1] \in 1 .. Len(boards)
      BY <1>0, <2>1, LenProperties
    <3>3. boards' \in Seq(Texts) /\ Len(boards') = Len(boards)
      BY <1>0, <2>2, <3>1, <3>2, ExceptSeq
    <3> QED
      BY <1>0, <3>3, LenProperties
  <2>4. BoardShape'
    BY <2>2, <2>3 DEF BoardShape, MaxId
  <2>5. SameBoard
    BY <2>2, <2>3 DEF SameBoard, SameItems
  <2> QED
    BY <2>4, <2>5
<1>4. ASSUME NEW r \in Requests, BoardStep(r), NEW s \in Sorts, BoardShape', boards' = boards,
             \/ (\A t \in Sorts : SameItems(t)) /\ GhostsKept
             \/ ItemMove(r, s) /\ \A t \in Sorts \ {s} : SameItems(t)
      PROVE  Goal
  BY <1>4 DEF SameBoard, GhostsKept
<1>5. "card" \in Sorts /\ "edge" \in Sorts
  BY DEF Sorts
<1>6. ASSUME NEW r \in Requests, createCard(r) \/ createEdge(r), BoardStep(r) PROVE Goal
  <2>1. /\ "createCard" \in ToItem("card") /\ "createCard" \in BoardOps
        /\ "createEdge" \in ToItem("edge") /\ "createEdge" \in BoardOps
    BY DEF ToItem, ToCard, ToEdge, BoardOps
  <2>2. CASE createCard(r)
    BY <1>0, <1>4, <1>5, <1>6, <2>1, <2>2, CreateMoves DEF createCard
  <2>3. CASE createEdge(r)
    BY <1>0, <1>4, <1>5, <1>6, <2>1, <2>3, CreateMoves DEF createEdge
  <2> QED
    BY <1>6, <2>2, <2>3
<1>7. ASSUME NEW r \in Requests, updateCard(r) \/ updateEdge(r), BoardStep(r) PROVE Goal
  <2>1. "updateCard" \in BoardOps /\ "updateEdge" \in BoardOps
    BY DEF BoardOps
  <2>2. CASE updateCard(r)
    BY <1>0, <1>4, <1>5, <1>7, <2>1, <2>2, UpdateMoves DEF updateCard
  <2>3. CASE updateEdge(r)
    BY <1>0, <1>4, <1>5, <1>7, <2>1, <2>3, UpdateMoves DEF updateEdge
  <2> QED
    BY <1>7, <2>2, <2>3
<1>8. ASSUME NEW r \in Requests, deleteCard(r) \/ deleteEdge(r), BoardStep(r) PROVE Goal
  <2>1. "deleteCard" \in BoardOps /\ "deleteEdge" \in BoardOps
    BY DEF BoardOps
  <2>2. CASE deleteCard(r)
    BY <1>0, <1>4, <1>5, <1>8, <2>1, <2>2, DeleteMoves DEF deleteCard
  <2>3. CASE deleteEdge(r)
    BY <1>0, <1>4, <1>5, <1>8, <2>1, <2>3, DeleteMoves DEF deleteEdge
  <2> QED
    BY <1>8, <2>2, <2>3
<1>9. ASSUME NEW r \in Requests, activate(r), BoardStep(r) PROVE Goal
  BY <1>0, <1>4, <1>5, <1>9, ActivateMoves
<1>10. ASSUME NEW r \in Requests, BoardStep(r) PROVE Goal
  <2>1. CASE createBoard(r)
    BY <1>2, <2>1 DEF createBoard
  <2>2. CASE boardMissing(r) \/ sendCard(r) \/ getBoard(r) \/ encode(r)
    <3>1. /\ UNCHANGED <<boards, array, count, nextN, latest, deleted, undone>>
          /\ stale' = stale \/ stale' = stale \cup {r}
      BY <2>2 DEF boardMissing, sendCard, getBoard, encode, boardVars
    <3> HIDE DEF Goal
    <3> QED
      BY <1>1, <3>1
  <2> HIDE DEF Goal
  <2> QED
    BY <1>3, <1>6, <1>7, <1>8, <1>9, <1>10, <2>1, <2>2 DEF BoardStep
<1>11. ASSUME NEW r \in Requests, ProjectStep(r) PROVE Goal
  <2>1. CASE CreateBoard(r)
    <3>1. NewBoard(r) \/ UNCHANGED boardVars
      BY <2>1 DEF CreateBoard
    <3> HIDE DEF Goal
    <3> QED
      BY <1>1, <1>2, <2>1, <3>1 DEF boardVars
  <2>2. CASE \/ ideCreate(r) \/ ideUpdate(r) \/ ideDelete(r)
             \/ putFile(r) \/ deleteFile(r) \/ renameFile(r)
             \/ CreateIde(r) \/ LinkAll(r) \/ DropProject(r)
    <3>1. UNCHANGED boardVars
      BY <2>2 DEF ideCreate, ideUpdate, ideDelete, putFile, deleteFile, renameFile,
                  CreateIde, LinkAll, DropProject, AtIde
    <3> HIDE DEF Goal
    <3> QED
      BY <1>1, <3>1 DEF boardVars
  <2> HIDE DEF Goal
  <2> QED
    BY <1>11, <2>1, <2>2 DEF ProjectStep
<1> HIDE DEF Goal
<1>12. Goal
  BY <1>1, <1>10, <1>11, Steps DEF boardVars
<1> QED
  BY <1>12 DEF Goal

Ghosts == stale \subseteq Requests /\ undone \subseteq 1 .. MaxId

\* How a request gets to the second step of its handler, or answers a read.
LEMMA SecondSteps ==
    ASSUME RInv, ProjectTypes, [ProjectsNext]_projectVars, NEW r \in Requests
    PROVE  \/ at'[r] = at[r] /\ op'[r] = op[r] /\ seen'[r] = seen[r]
           \/ /\ at'[r] = "activate" => sendCard(r) /\ BoardStep(r) /\ op' = op
              /\ at'[r] = "encode" => (getBoard(r) \/ encode(r)) /\ op' = op
              /\ at'[r] = "done" /\ op'[r].does = "readBoard" => encode(r) /\ op' = op
<1>1. CASE Begins(r) \/ FindProject(r)
  BY <1>1, NextCalls DEF BoardOps, IdeOps
<1>2. CASE AgentStep(r)
  <2>1. at[r] \in AgentPoints /\ op' = op
    BY <1>2, StepPoints
  <2>2. op[r].does # "readBoard"
    BY <2>1 DEF RInv, Placed, AgentPoints, CreatePoints
  <2> QED
    BY <1>2, <2>1, <2>2, NextCalls DEF Final, Replies, DropPoints
<1>3. CASE BoardStep(r)
  <2>1. at[r] \in BoardPoints /\ op' = op
    BY <1>3, StepPoints
  <2>2. ASSUME at'[r] = "done", op[r].does = "readBoard" PROVE encode(r)
    <3>1. at[r] \in {"readBoard", "encode"}
      BY <2>1, <2>2 DEF RInv, Placed, BoardPoints
    <3> QED
      BY <1>3, <2>2, <3>1 DEF BoardStep, boardMissing, createBoard, renameBoard, createCard,
         updateCard, deleteCard, sendCard, activate, createEdge, updateEdge, deleteEdge, getBoard,
         create, update, delete, Serves, Proceed, RInv, RequestTypes
  <2> QED
    BY <1>3, <2>1, <2>2, NextCalls
<1>4. CASE ProjectStep(r)
  <2>1. at[r] \in IdeOps \cup {"ide", "board", "dropProject"} \cup Replies /\ op' = op
    BY <1>4, StepPoints
  <2>2. op[r].does # "readBoard"
    BY <2>1 DEF RInv, Placed, IdeOps, Compound
  <2> QED
    BY <1>4, <2>1, <2>2, NextCalls DEF Final
<1> QED
  BY <1>1, <1>2, <1>3, <1>4, OwnSteps

\* A send has a copy of a card of its board.
LEMMA SendCopies ==
    ASSUME RInv, BoardShape, boards \in Seq(Texts), NEW r \in Requests, sendCard(r),
           at'[r] = "activate"
    PROVE  /\ op[r].item[1] \in DOMAIN boards
           /\ \E k \in 1 .. count["card"][op[r].item[1]] :
                 seen'[r] = array["card"][op[r].item[1]][k]
           /\ UNCHANGED <<boards, array, count, nextN, latest, deleted, undone>>
           /\ stale' = IF op[r].item[2] \in undone THEN stale \cup {r} ELSE stale
           /\ seen'[r].id = op[r].item[2]
<1> DEFINE b == op[r].item[1]
           i == op[r].item[2]
           k == IndexOf("card", b, i)
<1>1. /\ k # 0 /\ seen'[r] = array["card"][b][k]
      /\ UNCHANGED <<boards, array, count, nextN, latest, deleted, undone>>
      /\ stale' = IF i \in undone THEN stale \cup {r} ELSE stale
  BY DEF sendCard, Remember, Proceed, RInv, RequestTypes
<1>2. "card" \in Sorts
  BY DEF Sorts
<1> HIDE DEF b, i
<1>3. b \in DOMAIN boards /\ k \in 1 .. count["card"][b] /\ array["card"][b][k].id = i
  BY <1>1, <1>2, IndexFound
<1> QED
  BY <1>1, <1>3 DEF b, i

LEMMA CopiesStep ==
    ASSUME RInv, ProjectTypes, BoardShape, Copies, [ProjectsNext]_projectVars
    PROVE  Copies'
<1>1. ASSUME NEW r \in Requests, at'[r] = "activate" PROVE seen'[r] \in Item
  <2>1. CASE at'[r] = at[r] /\ op'[r] = op[r] /\ seen'[r] = seen[r]
    BY <1>1, <2>1 DEF Copies
  <2>2. CASE sendCard(r)
    <3>1. PICK b \in DOMAIN boards : \E k \in 1 .. count["card"][b] : seen'[r] = array["card"][b][k]
      BY <1>1, <2>2, SendCopies DEF ProjectTypes
    <3>2. /\ count["card"][b] \in Nat /\ count["card"][b] <= Len(array["card"][b])
          /\ Len(array["card"][b]) \in Nat
          /\ \A j \in 1 .. Len(array["card"][b]) : array["card"][b][j] \in Item
      BY ShapeFacts DEF Sorts, ProjectTypes
    <3> QED
      BY <3>1, <3>2
  <2> QED
    BY <1>1, <2>1, <2>2, SecondSteps
<1> QED
  BY <1>1 DEF Copies, Item, MaxId, Texts

LEMMA GhostsStep ==
    ASSUME RInv, ProjectTypes, BoardShape, Numbering, Copies, Ghosts, [ProjectsNext]_projectVars
    PROVE  Ghosts'
<1>1. ASSUME NEW r \in Requests, NEW s \in Sorts, ItemMove(r, s) PROVE Ghosts'
  <2>1. GhostsKept \/ Copied(r) \/ Rewritten(op[r].item[2])
    BY <1>1 DEF ItemMove
  <2>2. at[r] = "activate" => seen[r].id \in 1 .. MaxId
    BY DEF Copies, Item
  <2>3. Copied(r) /\ at[r] # "activate" => GhostsKept \/ Rewritten(op[r].item[2])
    BY <1>1 DEF ItemMove
  <2> QED
    BY <2>1, <2>2, <2>3 DEF GhostsKept, Copied, Rewritten, Sending, Ghosts, MaxId
<1> QED
  BY <1>1, BoardMoves DEF SameBoard, GhostsKept, Ghosts, MaxId

LEMMA NumberingStep ==
    ASSUME RInv, ProjectTypes, BoardShape, Numbering, Copies, [ProjectsNext]_projectVars
    PROVE  Numbering'
<1>1. ASSUME NEW s \in Sorts
      PROVE  nextN'[s] + Cardinality(Pending(ToItem(s))') <= MaxId + 1
  <2> DEFINE P == Cardinality(Pending(ToItem(s)))
  <2>1. /\ P \in Nat /\ P' \in Nat /\ P' <= P
        /\ \A r \in Requests : at[r] \in ToItem(s) /\ at'[r] \notin ToItem(s) => P' + 1 <= P
    BY Onward, Spending DEF ToItem
  <2>2. nextN[s] + P <= MaxId + 1
    BY DEF Numbering
  <2> HIDE DEF P
  <2>3. nextN[s] \in Nat /\ MaxId \in Nat
    BY RequestAssumption, FS_CardinalityType DEF BoardShape, MaxId
  <2>4. \/ nextN'[s] = nextN[s]
        \/ nextN'[s] = nextN[s] + 1 /\ \E r \in Requests : at[r] \in ToItem(s) /\ at'[r] \notin ToItem(s)
    <3>1. ASSUME NEW r \in Requests, NEW t \in Sorts, ItemMove(r, t), \A u \in Sorts \ {t} : SameItems(u)
          PROVE  \/ nextN'[s] = nextN[s]
                 \/ nextN'[s] = nextN[s] + 1 /\ at[r] \in ToItem(s) /\ at'[r] \notin ToItem(s)
      BY <3>1 DEF ItemMove, SameItems, Added, Written, Taken, Final, ToItem, ToCard, ToEdge
    <3> QED
      BY <3>1, BoardMoves DEF SameBoard, SameItems, Widened
  <2>5. nextN'[s] + P' <= MaxId + 1
    BY <2>1, <2>2, <2>3, <2>4
  <2> QED
    BY <2>5 DEF P
<1> QED
  BY <1>1 DEF Numbering, MaxId, ToItem

BoardInv == BoardShape /\ Numbering /\ Copies /\ Ghosts

LEMMA PerSort ==
    ASSUME NEW S, NEW c \in S, NEW e \in S
    PROVE  [card |-> c, edge |-> e] \in [Sorts -> S]
BY DEF Sorts

LEMMA BoardInvInit == ProjectsInit => BoardInv
<1> SUFFICES ASSUME ProjectsInit PROVE BoardInv
  OBVIOUS
<1> USE DEF ProjectsInit, BoardInit
<1>0. Cardinality(Requests) \in Nat /\ MaxId = 2 + Cardinality(Requests)
  BY RequestAssumption, FS_CardinalityType DEF MaxId
<1>1. Copies
  BY DEF Copies, RequestsInit
<1>2. Numbering
  <2>1. /\ Cardinality(Pending(ToCard)) = Cardinality(Requests)
        /\ Cardinality(Pending(ToEdge)) = Cardinality(Requests)
    BY AllPending DEF ToCard, ToEdge
  <2> QED
    BY <1>0, <2>1 DEF Numbering, ToItem, Sorts
<1>3. Todo(1, Original) \in Item /\ Todo(2, Original) \in Item
  BY <1>0 DEF Todo, Item, Texts
<1> DEFINE one == <<Todo(1, Original)>>
           two == <<Todo(1, Original), Todo(2, Original)>>
<1>4. one \in Seq(Item) /\ two \in Seq(Item) /\ Len(one) = 1 /\ Len(two) = 2
  <2> HIDE DEF Todo
  <2> QED
    BY <1>3
<1> HIDE DEF one, two
<1>5. /\ array = [card |-> <<two>>, edge |-> <<one>>] /\ count = [card |-> <<2>>, edge |-> <<1>>]
      /\ boards = <<Original>> /\ nextN = [card |-> 3, edge |-> 2]
  BY DEF one, two
<1>6. /\ array \in [Sorts -> Seq(Seq(Item))] /\ count \in [Sorts -> Seq(Nat)]
      /\ nextN \in [Sorts -> Nat \ {0}]
  <2> HIDE DEF ProjectsInit, BoardInit
  <2>1. <<two>> \in Seq(Seq(Item)) /\ <<one>> \in Seq(Seq(Item))
    BY <1>4
  <2>2. <<2>> \in Seq(Nat) /\ <<1>> \in Seq(Nat)
    OBVIOUS
  <2>3. array \in [Sorts -> Seq(Seq(Item))]
    <3> DEFINE S == Seq(Seq(Item))
               c == <<two>>
               e == <<one>>
    <3>1. c \in S /\ e \in S /\ array = [card |-> c, edge |-> e]
      BY <1>5, <2>1
    <3> HIDE DEF S, c, e
    <3>2. array \in [Sorts -> S]
      BY <3>1, PerSort
    <3> QED
      BY <3>2 DEF S
  <2>4. count \in [Sorts -> Seq(Nat)]
    <3> DEFINE S == Seq(Nat)
               c == <<2>>
               e == <<1>>
    <3>1. c \in S /\ e \in S /\ count = [card |-> c, edge |-> e]
      BY <1>5, <2>2
    <3> HIDE DEF S, c, e
    <3>2. count \in [Sorts -> S]
      BY <3>1, PerSort
    <3> QED
      BY <3>2 DEF S
  <2> QED
    BY <1>5, <2>3, <2>4 DEF Sorts
<1>7. /\ latest \in [Sorts -> [1 .. MaxId -> Texts \cup {Nothing}]]
      /\ deleted \in [Sorts -> SUBSET (1 .. MaxId)]
  BY DEF Texts
<1>8. \A s \in Sorts :
          /\ Len(array[s]) = Len(boards) /\ Len(count[s]) = Len(boards)
          /\ \A b \in DOMAIN boards : count[s][b] <= Len(array[s][b])
  BY SMTT(20), <1>4, <1>5 DEF Sorts
<1>9. BoardShape
  BY <1>6, <1>7, <1>8 DEF BoardShape
<1> QED
  BY <1>1, <1>2, <1>9 DEF BoardInv, Ghosts

LEMMA BoardInvHolds == ProjectsSpec => []BoardInv
<1>1. RInv /\ ProjectTypes /\ BoardInv /\ [ProjectsNext]_projectVars => BoardInv'
  BY BoardMoves, CopiesStep, NumberingStep, GhostsStep DEF BoardInv
<1> QED
  BY <1>1, BoardInvInit, ProjectsTyped, PTL DEF ProjectsSpec

-----------------------------------------------------------------------------
(* The IDs in use are given once, and not deleted.                         *)

Id(s, b, k) == array[s][b][k].id

InUse(s, b) == 1 .. count[s][b]

IdsOf(s) ==
    /\ \A d \in deleted[s] : d < nextN[s]
    /\ \A b \in DOMAIN boards : \A k \in InUse(s, b) :
          /\ Id(s, b, k) < nextN[s] /\ Id(s, b, k) \notin deleted[s]
          /\ \A c \in DOMAIN boards : \A l \in InUse(s, c) :
                Id(s, b, k) = Id(s, c, l) => b = c /\ k = l

Ids == \A s \in Sorts : IdsOf(s)

LEMMA Numbers ==
    ASSUME BoardShape, boards \in Seq(Texts), NEW s \in Sorts
    PROVE  /\ nextN[s] \in Nat
           /\ deleted[s] \subseteq Nat
           /\ \A b \in DOMAIN boards :
                 /\ count[s][b] \in Nat
                 /\ \A k \in InUse(s, b) : array[s][b][k] \in Item /\ Id(s, b, k) \in 1 .. MaxId
<1>1. ASSUME NEW b \in DOMAIN boards, NEW k \in InUse(s, b)
      PROVE  array[s][b][k] \in Item /\ Id(s, b, k) \in 1 .. MaxId
  <2>1. /\ count[s][b] \in Nat /\ count[s][b] <= Len(array[s][b]) /\ Len(array[s][b]) \in Nat
        /\ \A j \in 1 .. Len(array[s][b]) : array[s][b][j] \in Item
    BY ShapeFacts
  <2>2. array[s][b][k] \in Item
    BY <2>1 DEF InUse
  <2> QED
    BY <2>2 DEF Id, Item
<1>2. MaxId \in Nat
  BY RequestAssumption, FS_CardinalityType DEF MaxId
<1> QED
  BY <1>1, <1>2, ShapeFacts DEF BoardShape

LEMMA IdsSame ==
    ASSUME NEW s \in Sorts, IdsOf(s), SameItems(s), DOMAIN boards' = DOMAIN boards
    PROVE  IdsOf(s)'
BY DEF IdsOf, SameItems, Id, InUse

LEMMA IdsWidened ==
    ASSUME NEW s \in Sorts, IdsOf(s), Widened(s), Len(boards) + 1 \notin DOMAIN boards
    PROVE  IdsOf(s)'
<1>1. ASSUME NEW b \in DOMAIN boards', NEW k \in InUse(s, b)'
      PROVE  b \in DOMAIN boards /\ k \in InUse(s, b) /\ Id(s, b, k)' = Id(s, b, k)
  <2>1. b \in DOMAIN boards
    BY <1>1 DEF Widened, InUse
  <2> QED
    BY <1>1, <2>1 DEF Widened, InUse, Id
<1> QED
  BY <1>1 DEF IdsOf, Widened

LEMMA IdsAdded ==
    ASSUME BoardShape, boards \in Seq(Texts), NEW s \in Sorts, IdsOf(s), NEW r \in Requests, NEW b0,
           Added(r, s, b0), DOMAIN boards' = DOMAIN boards
    PROVE  IdsOf(s)'
<1> DEFINE n == count[s][b0] + 1
<1>1. b0 \in DOMAIN boards /\ count[s][b0] \in Nat /\ n \in Nat /\ nextN[s] \in Nat 
      /\ nextN'[s] = nextN[s] + 1 /\ deleted'[s] = deleted[s] /\ deleted[s] \subseteq Nat
  BY Numbers DEF Added, OtherBoards
<1>2. ASSUME NEW b \in DOMAIN boards, NEW k \in InUse(s, b)'
      PROVE  \/ b = b0 /\ k = n /\ Id(s, b, k)' = nextN[s]
             \/ /\ k \in InUse(s, b) /\ Id(s, b, k)' = Id(s, b, k)
                /\ Id(s, b, k) \in Nat /\ Id(s, b, k) < nextN[s]
  <2>1. CASE b # b0
    BY SMTT(20), <1>2, <2>1, Numbers DEF Added, OtherBoards, InUse, Id, IdsOf
  <2>2. CASE b = b0 /\ k = n
    BY <2>2 DEF Added, Id, Todo
  <2>3. CASE b = b0 /\ k # n
    <3>1. k \in 1 .. count[s][b0]
      <4>1. k \in 1 .. n
        BY <1>2, <2>3 DEF Added, InUse
      <4> QED
        BY <1>1, <2>3, <4>1
    <3>2. Id(s, b, k)' = Id(s, b, k) /\ k \in InUse(s, b)
      BY <2>3, <3>1 DEF Added, InUse, Id
    <3> QED
      BY <3>2, Numbers DEF IdsOf
  <2> QED
    BY <2>1, <2>2, <2>3
<1> HIDE DEF n
<1>3. ASSUME NEW b \in DOMAIN boards, NEW k \in InUse(s, b)'
      PROVE  /\ Id(s, b, k)' < nextN'[s] /\ Id(s, b, k)' \notin deleted'[s]
             /\ \A c \in DOMAIN boards : \A l \in InUse(s, c)' :
                   Id(s, b, k)' = Id(s, c, l)' => b = c /\ k = l
  <2>1. CASE b = b0 /\ k = n /\ Id(s, b, k)' = nextN[s]
    <3>1. \A d \in deleted[s] : d # nextN[s]
      BY <1>1 DEF IdsOf
    <3>2. ASSUME NEW c \in DOMAIN boards, NEW l \in InUse(s, c)', Id(s, b, k)' = Id(s, c, l)'
          PROVE  b = c /\ k = l
      BY <1>1, <1>2, <2>1, <3>2
    <3> QED
      BY <1>1, <2>1, <3>1, <3>2
  <2>2. CASE /\ k \in InUse(s, b) /\ Id(s, b, k)' = Id(s, b, k)
             /\ Id(s, b, k) \in Nat /\ Id(s, b, k) < nextN[s]
    <3>1. ASSUME NEW c \in DOMAIN boards, NEW l \in InUse(s, c)', Id(s, b, k)' = Id(s, c, l)'
          PROVE  b = c /\ k = l
      BY <1>1, <1>2, <2>2, <3>1 DEF IdsOf
    <3> QED
      BY <1>1, <2>2, <3>1 DEF IdsOf
  <2> QED
    BY <1>2, <2>1, <2>2
<1>4. \A d \in deleted'[s] : d < nextN'[s]
  BY <1>1 DEF IdsOf
<1> QED
  BY <1>3, <1>4 DEF IdsOf

LEMMA IdsWritten ==
    ASSUME NEW s \in Sorts, IdsOf(s), NEW b0, NEW k0, NEW x, Written(s, b0, k0, x),
           DOMAIN boards' = DOMAIN boards
    PROVE  IdsOf(s)'
<1>1. ASSUME NEW b \in DOMAIN boards PROVE InUse(s, b)' = InUse(s, b)
  BY <1>1 DEF InUse, Written, OtherBoards
<1>2. ASSUME NEW b \in DOMAIN boards, NEW k \in InUse(s, b) PROVE Id(s, b, k)' = Id(s, b, k)
  BY <1>2 DEF InUse, Id, Written, OtherBoards
<1> QED
  BY <1>1, <1>2 DEF IdsOf, Written

LEMMA IdsTaken ==
    ASSUME BoardShape, boards \in Seq(Texts), NEW s \in Sorts, IdsOf(s), NEW b0, NEW k0,
           Taken(s, b0, k0), DOMAIN boards' = DOMAIN boards
    PROVE  IdsOf(s)'
<1> DEFINE From(b, k) == IF b = b0 /\ ~(k < k0) THEN k + 1 ELSE k
<1>1. /\ b0 \in DOMAIN boards /\ k0 \in InUse(s, b0) /\ count[s][b0] \in Nat /\ k0 \in Nat
      /\ count'[s][b0] = count[s][b0] - 1
      /\ nextN'[s] = nextN[s] /\ deleted'[s] = deleted[s] \cup {Id(s, b0, k0)}
  BY Numbers DEF Taken, OtherBoards, InUse, Id
<1>2. ASSUME NEW b \in DOMAIN boards, NEW k \in InUse(s, b)'
      PROVE  /\ From(b, k) \in InUse(s, b) /\ Id(s, b, k)' = Id(s, b, From(b, k))
             /\ b = b0 => From(b, k) # k0
             /\ k \in Nat
  <2>1. CASE b # b0
    <3>1. k \in InUse(s, b) /\ count[s][b] \in Nat
      BY <1>2, <2>1, Numbers DEF Taken, OtherBoards, InUse
    <3> QED
      BY <1>2, <2>1, <3>1 DEF Taken, OtherBoards, InUse, Id
  <2>2. CASE b = b0
    <3>1. k \in 1 .. count[s][b0] - 1
      BY <1>1, <1>2, <2>2 DEF InUse
    <3>2. From(b, k) = IF k < k0 THEN k ELSE k + 1
      BY <2>2
    <3>3. From(b, k) \in InUse(s, b) /\ From(b, k) # k0 /\ k \in Nat
      BY <1>1, <2>2, <3>1, <3>2 DEF InUse
    <3> HIDE DEF From
    <3>4. array'[s][b0][k] = array[s][b0][IF k < k0 THEN k ELSE k + 1]
      BY <3>1 DEF Taken
    <3> QED
      BY <2>2, <3>2, <3>3, <3>4 DEF Id
  <2> QED
    BY <2>1, <2>2
<1>3. ASSUME NEW b \in DOMAIN boards, NEW k \in InUse(s, b)', NEW l \in InUse(s, b)',
             From(b, k) = From(b, l)
      PROVE  k = l
  <2>1. k \in Nat /\ l \in Nat
    BY <1>2
  <2> QED
    BY <1>1, <1>3, <2>1
<1> HIDE DEF From
<1>4. ASSUME NEW b \in DOMAIN boards, NEW k \in InUse(s, b)'
      PROVE  /\ Id(s, b, k)' < nextN'[s] /\ Id(s, b, k)' \notin deleted'[s]
             /\ \A c \in DOMAIN boards : \A l \in InUse(s, c)' :
                   Id(s, b, k)' = Id(s, c, l)' => b = c /\ k = l
  <2>1. Id(s, b, k)' # Id(s, b0, k0)
    BY <1>1, <1>2 DEF IdsOf
  <2>2. Id(s, b, k)' < nextN'[s] /\ Id(s, b, k)' \notin deleted'[s]
    BY <1>1, <1>2, <2>1 DEF IdsOf
  <2>3. ASSUME NEW c \in DOMAIN boards, NEW l \in InUse(s, c)', Id(s, b, k)' = Id(s, c, l)'
        PROVE  b = c /\ k = l
    <3>1. b = c /\ From(b, k) = From(c, l)
      BY <1>2, <2>3 DEF IdsOf
    <3> QED
      BY <1>3, <3>1
  <2> QED
    BY <2>2, <2>3
<1>5. \A d \in deleted'[s] : d < nextN'[s]
  BY <1>1 DEF IdsOf
<1> QED
  BY <1>4, <1>5 DEF IdsOf

LEMMA IdsStep ==
    ASSUME RInv, ProjectTypes, BoardInv, Ids, [ProjectsNext]_projectVars
    PROVE  Ids'
<1>0. boards \in Seq(Texts) /\ BoardShape /\ Len(boards) + 1 \notin DOMAIN boards
  <2>1. Len(boards) \in Nat /\ DOMAIN boards = 1 .. Len(boards)
    BY LenProperties DEF ProjectTypes
  <2> QED
    BY <2>1 DEF ProjectTypes, BoardInv
<1>1. ASSUME NEW r \in Requests, NEW t \in Sorts, ItemMove(r, t),
             \A u \in Sorts \ {t} : SameItems(u)
      PROVE  Ids'
  <2>1. DOMAIN boards' = DOMAIN boards /\ IdsOf(t)
    BY <1>1 DEF ItemMove, Ids
  <2>2. IdsOf(t)'
    BY <1>0, <1>1, <2>1, IdsAdded, IdsWritten, IdsTaken DEF ItemMove
  <2>3. \A u \in Sorts \ {t} : IdsOf(u)'
    BY <1>1, <2>1, IdsSame DEF Ids
  <2> QED
    BY <2>2, <2>3 DEF Ids
<1>2. CASE SameBoard
  BY <1>2, IdsSame DEF SameBoard, Ids
<1>3. CASE \A s \in Sorts : Widened(s)
  BY <1>0, <1>3, IdsWidened DEF Ids
<1> QED
  BY <1>1, <1>2, <1>3, BoardMoves DEF BoardInv

LEMMA IdsInit == ProjectsInit => Ids
<1> SUFFICES ASSUME ProjectsInit PROVE Ids
  OBVIOUS
<1>1. /\ boards = <<Original>> /\ count = [card |-> <<2>>, edge |-> <<1>>]
      /\ nextN = [card |-> 3, edge |-> 2] /\ deleted = [s \in Sorts |-> {}]
      /\ array["card"][1][1].id = 1 /\ array["card"][1][2].id = 2 /\ array["edge"][1][1].id = 1
  BY DEF ProjectsInit, BoardInit, Todo
<1>2. DOMAIN boards = {1} /\ InUse("card", 1) = {1, 2} /\ InUse("edge", 1) = {1}
  BY <1>1 DEF InUse
<1>3. IdsOf("card")
  BY <1>1, <1>2 DEF IdsOf, Id, Sorts
<1>4. IdsOf("edge")
  BY <1>1, <1>2 DEF IdsOf, Id, Sorts
<1> QED
  BY <1>3, <1>4 DEF Ids, Sorts

LEMMA IdsHold == ProjectsSpec => []Ids
<1>1. RInv /\ ProjectTypes /\ BoardInv /\ Ids /\ [ProjectsNext]_projectVars => Ids'
  BY IdsStep
<1> QED
  BY <1>1, IdsInit, ProjectsTyped, BoardInvHolds, PTL DEF ProjectsSpec

\* The items of a board are those its slices have in use.
LEMMA ItemsInUse ==
    ASSUME BoardShape, boards \in Seq(Texts), NEW s \in Sorts, NEW b \in DOMAIN boards,
           NEW x \in Range(Items(s, b))
    PROVE  \E k \in InUse(s, b) : x = array[s][b][k]
<1>1. /\ array[s][b] \in Seq(Item) /\ Len(array[s][b]) \in Nat
      /\ count[s][b] \in Nat /\ count[s][b] <= Len(array[s][b])
      /\ \A k \in 1 .. Len(array[s][b]) : array[s][b][k] \in Item
  BY ShapeFacts
<1>2. Items(s, b) = SubSeq(array[s][b], 1, count[s][b])
  BY DEF Items
<1>3. \A k \in 1 .. count[s][b] : array[s][b][k] \in Item
  BY <1>1
<1>4. /\ SubSeq(array[s][b], 1, count[s][b]) \in Seq(Item)
      /\ Len(SubSeq(array[s][b], 1, count[s][b])) = count[s][b]
      /\ \A k \in 1 .. count[s][b] : SubSeq(array[s][b], 1, count[s][b])[k] = array[s][b][k]
  BY <1>1, <1>3, SubSeqProperties
<1>5. PICK k \in DOMAIN Items(s, b) : x = Items(s, b)[k]
  BY DEF Range
<1>6. k \in 1 .. count[s][b]
  BY <1>2, <1>4, <1>5, LenProperties
<1> QED
  BY <1>2, <1>4, <1>5, <1>6 DEF InUse

\* A deleted card or edge is not brought back, neither by a new one that takes
\* its ID nor by a send that copied it before (pb/store.go:148 and :175).
THEOREM DeletedIsGone == ProjectsSpec => []DeletedStaysDeleted
<1>1. ProjectTypes /\ BoardInv /\ Ids => DeletedStaysDeleted
  <2> SUFFICES ASSUME ProjectTypes, BoardInv, Ids, NEW s \in Sorts, NEW b \in DOMAIN boards,
                      NEW x \in Range(Items(s, b))
               PROVE  x.id \notin deleted[s]
    BY DEF DeletedStaysDeleted
  <2>1. PICK k \in InUse(s, b) : x = array[s][b][k]
    BY ItemsInUse DEF ProjectTypes, BoardInv
  <2> QED
    BY <2>1 DEF Ids, IdsOf, Id
<1> QED
  BY <1>1, ProjectsTyped, BoardInvHolds, IdsHold, PTL

-----------------------------------------------------------------------------
(* The texts of the items, and the copies that the sends have.             *)

IsLatest(s, x) == x.text = latest[s][x.id]

Undone(s, i) == s = "card" /\ i \in undone

\* A step that leaves a text alone does not call it written last.
StaysUndone(s, i) == Undone(s, i) => i \in undone'

Texted ==
    \A s \in Sorts : \A b \in DOMAIN boards : \A k \in InUse(s, b) :
        IsLatest(s, array[s][b][k]) \/ Undone(s, Id(s, b, k))

\* The copy of a send is good until its card is updated.
Sends ==
    \A r \in Requests : at[r] = "activate" =>
        seen[r].id < nextN["card"] /\ (r \notin stale => IsLatest("card", seen[r]))

\* An item is as it was, or holds what was written to it last, or what a send
\* had copied.
LEMMA MovedTexts ==
    ASSUME BoardShape, boards \in Seq(Texts), NEW r \in Requests, NEW s \in Sorts, ItemMove(r, s),
           IdsOf(s), Copies, NEW b \in DOMAIN boards, NEW k \in InUse(s, b)'
    PROVE  \/ \E j \in InUse(s, b) :
                 /\ array'[s][b][k] = array[s][b][j]
                 /\ latest'[s][Id(s, b, j)] = latest[s][Id(s, b, j)]
                 /\ StaysUndone(s, Id(s, b, j))
           \/ IsLatest(s, array[s][b][k])'
           \/ /\ s = "card" /\ at[r] = "activate" /\ Copied(r)
              /\ array'[s][b][k] = Activated(r) /\ latest'[s] = latest[s]
<1>z. PICK a, i : a = op[r].item[1] /\ i = op[r].item[2]
  OBVIOUS
<1> DEFINE Kept == \E j \in InUse(s, b) :
                      /\ array'[s][b][k] = array[s][b][j]
                      /\ latest'[s][Id(s, b, j)] = latest[s][Id(s, b, j)]
                      /\ StaysUndone(s, Id(s, b, j))
           Goal == \/ Kept
                   \/ IsLatest(s, array[s][b][k])'
                   \/ /\ s = "card" /\ at[r] = "activate" /\ Copied(r)
                      /\ array'[s][b][k] = Activated(r) /\ latest'[s] = latest[s]
<1>0. nextN[s] \in Nat /\ \A j \in InUse(s, b) : Id(s, b, j) \in 1 .. MaxId /\ Id(s, b, j) < nextN[s]
  BY Numbers DEF IdsOf
<1>c. at[r] = "activate" => Activated(r).id = seen[r].id
  BY DEF Copies, Activated, Item
<1>1. ASSUME Added(r, s, a), GhostsKept PROVE Goal
  <2>z. PICK n : n = count[s][a]
    OBVIOUS
  <2>1. a \in DOMAIN boards /\ n \in Nat
    BY <1>1, <2>z, Numbers DEF Added, OtherBoards
  <2>2. CASE b = a /\ k = n + 1
    <3>1. array'[s][b][k] = Todo(nextN[s], r) /\ latest'[s][nextN[s]] = r
      BY <1>1, <2>z, <2>2 DEF Added
    <3>2. IsLatest(s, array[s][b][k])'
      BY <3>1 DEF IsLatest, Todo
    <3> QED
      BY <3>2
  <2>3. CASE ~(b = a /\ k = n + 1)
    <3>1. k \in InUse(s, b) /\ array'[s][b][k] = array[s][b][k]
      <4>1. CASE b = a
        <5>1. k \in 1 .. n + 1
          BY <1>1, <2>z, <4>1 DEF Added, InUse
        <5>2. k \in 1 .. n
          BY <2>1, <2>3, <4>1, <5>1
        <5> QED
          BY <1>1, <2>z, <4>1, <5>2 DEF Added, InUse
      <4>2. CASE b # a
        BY <1>1, <4>2 DEF Added, OtherBoards, InUse
      <4> QED
        BY <4>1, <4>2
    <3>2. latest'[s][Id(s, b, k)] = latest[s][Id(s, b, k)]
      BY <1>0, <1>1, <3>1 DEF Added, OtherTexts
    <3> QED
      BY <1>1, <3>1, <3>2 DEF GhostsKept, Undone, StaysUndone
  <2> QED
    BY <2>2, <2>3
<1>2. ASSUME NEW k0 \in 1 .. count[s][a], NEW x, Written(s, a, k0, x)
      PROVE  /\ k \in InUse(s, b)
             /\ array'[s][b][k] = IF b = a /\ k = k0 THEN x ELSE array[s][b][k]
             /\ a \in DOMAIN boards /\ k0 \in InUse(s, a) /\ Id(s, a, k0) = x.id
  BY <1>2 DEF Written, OtherBoards, InUse, Id
<1>3. ASSUME NEW k0 \in 1 .. count[s][a], Written(s, a, k0, Todo(i, r)),
             latest'[s][i] = r, OtherTexts(s, i),
             IF s = "card" THEN Rewritten(i) ELSE GhostsKept
      PROVE  Goal
  <2>1. CASE b = a /\ k = k0
    <3>1. array'[s][b][k] = Todo(i, r)
      BY <1>2, <1>3, <2>1
    <3>2. IsLatest(s, array[s][b][k])'
      BY <1>3, <3>1 DEF IsLatest, Todo
    <3> QED
      BY <3>2
  <2>2. CASE ~(b = a /\ k = k0)
    <3>1. /\ k \in InUse(s, b) /\ array'[s][b][k] = array[s][b][k]
          /\ a \in DOMAIN boards /\ k0 \in InUse(s, a) /\ Id(s, a, k0) = Todo(i, r).id
      BY <1>2, <1>3, <2>2
    <3>2. Todo(i, r).id = i
      BY DEF Todo
    <3>3. Id(s, b, k) # i
      BY <2>2, <3>1, <3>2 DEF IdsOf
    <3>4. latest'[s][Id(s, b, k)] = latest[s][Id(s, b, k)]
      BY <1>0, <1>3, <3>1, <3>3 DEF OtherTexts
    <3>5. StaysUndone(s, Id(s, b, k))
      BY <1>3, <3>3 DEF Rewritten, GhostsKept, Undone, StaysUndone
    <3> QED
      BY <3>1, <3>4, <3>5
  <2> QED
    BY <2>1, <2>2
<1>4. ASSUME NEW k0 \in 1 .. count[s][a], s = "card", at[r] = "activate",
             Written(s, a, k0, Activated(r)), latest'[s] = latest[s], Copied(r)
      PROVE  Goal
  <2>1. CASE b = a /\ k = k0
    BY <1>2, <1>4, <2>1
  <2>2. CASE ~(b = a /\ k = k0)
    <3>1. /\ k \in InUse(s, b) /\ array'[s][b][k] = array[s][b][k]
          /\ a \in DOMAIN boards /\ k0 \in InUse(s, a) /\ Id(s, a, k0) = seen[r].id
      BY <1>2, <1>4, <1>c, <2>2
    <3>2. Id(s, b, k) # seen[r].id
      BY <2>2, <3>1 DEF IdsOf
    <3>3. StaysUndone(s, Id(s, b, k))
      BY <1>4, <3>2 DEF Copied, Undone, StaysUndone
    <3> QED
      BY <1>4, <3>1, <3>3
  <2> QED
    BY <2>1, <2>2
<1>5. ASSUME NEW k0 \in 1 .. count[s][a], Taken(s, a, k0), GhostsKept PROVE Goal
  <2>1. a \in DOMAIN boards /\ count[s][a] \in Nat
    BY <1>5, Numbers DEF Taken, OtherBoards
  <2>2. \E j \in InUse(s, b) : array'[s][b][k] = array[s][b][j]
    <3>1. CASE b # a
      BY <1>5, <3>1 DEF Taken, OtherBoards, InUse
    <3>2. CASE b = a
      <4>1. k \in 1 .. count[s][a] - 1
        BY <1>5, <3>2 DEF Taken, InUse
      <4>2. PICK j \in 1 .. count[s][a] : j = IF k < k0 THEN k ELSE k + 1
        BY <1>5, <2>1, <4>1
      <4> QED
        BY <1>5, <3>2, <4>1, <4>2 DEF Taken, InUse
    <3> QED
      BY <3>1, <3>2
  <2> QED
    BY <1>5, <2>2 DEF Taken, GhostsKept, Undone, StaysUndone
<1> HIDE DEF Goal
<1>6. \/ Added(r, s, a) /\ GhostsKept
      \/ \E k0 \in 1 .. count[s][a] :
            /\ Written(s, a, k0, Todo(i, r)) /\ latest'[s][i] = r /\ OtherTexts(s, i)
            /\ IF s = "card" THEN Rewritten(i) ELSE GhostsKept
      \/ \E k0 \in 1 .. count[s][a] :
            /\ s = "card" /\ at[r] = "activate" /\ Written(s, a, k0, Activated(r))
            /\ latest'[s] = latest[s] /\ Copied(r)
      \/ \E k0 \in 1 .. count[s][a] : Taken(s, a, k0) /\ GhostsKept
  BY <1>z DEF ItemMove
<1>7. Goal
  BY <1>1, <1>3, <1>4, <1>5, <1>6
<1> QED
  BY <1>z, <1>7 DEF Goal

\* Items of a sort that a step leaves alone, boards added or not.
LEMMA OldPlaces ==
    ASSUME BoardShape, boards \in Seq(Texts), NEW s \in Sorts,
           (SameItems(s) /\ DOMAIN boards' = DOMAIN boards) \/ Widened(s)
    PROVE  /\ nextN'[s] = nextN[s] /\ latest'[s] = latest[s]
           /\ \A b \in DOMAIN boards' : \A k \in InUse(s, b)' :
                 b \in DOMAIN boards /\ k \in InUse(s, b) /\ array'[s][b][k] = array[s][b][k]
<1>1. Len(boards) + 1 \notin DOMAIN boards
  BY LenProperties
<1>2. CASE SameItems(s) /\ DOMAIN boards' = DOMAIN boards
  BY <1>2 DEF SameItems, InUse
<1>3. CASE Widened(s)
  <2>1. ASSUME NEW b \in DOMAIN boards', NEW k \in InUse(s, b)'
        PROVE  b \in DOMAIN boards
    BY <1>3, <2>1 DEF Widened, InUse
  <2> QED
    BY <1>3, <2>1 DEF Widened, InUse
<1> QED
  BY <1>2, <1>3

LEMMA TextedStep ==
    ASSUME RInv, ProjectTypes, BoardInv, Ids, Texted, Sends, [ProjectsNext]_projectVars
    PROVE  Texted'
<1> DEFINE Good(s, b, k) == IsLatest(s, array[s][b][k]) \/ Undone(s, Id(s, b, k))
<1>0. boards \in Seq(Texts) /\ BoardShape /\ Copies
  BY DEF ProjectTypes, BoardInv
<1>1. ASSUME NEW s \in Sorts, (SameItems(s) /\ DOMAIN boards' = DOMAIN boards) \/ Widened(s),
             s = "card" => undone' = undone,
             NEW b \in DOMAIN boards', NEW k \in InUse(s, b)'
      PROVE  Good(s, b, k)'
  <2>1. /\ latest'[s] = latest[s] /\ b \in DOMAIN boards /\ k \in InUse(s, b)
        /\ array'[s][b][k] = array[s][b][k]
    BY <1>0, <1>1, OldPlaces
  <2>2. Good(s, b, k)
    BY <2>1 DEF Texted
  <2> QED
    BY <1>1, <2>1, <2>2 DEF IsLatest, Undone, Id
<1>2. ASSUME NEW r \in Requests, NEW s \in Sorts, ItemMove(r, s),
             NEW b \in DOMAIN boards', NEW k \in InUse(s, b)'
      PROVE  Good(s, b, k)'
  <2>1. b \in DOMAIN boards /\ IdsOf(s)
    BY <1>2 DEF ItemMove, Ids
  <2>2. CASE \E j \in InUse(s, b) :
                /\ array'[s][b][k] = array[s][b][j]
                /\ latest'[s][Id(s, b, j)] = latest[s][Id(s, b, j)]
                /\ StaysUndone(s, Id(s, b, j))
    <3>1. PICK j \in InUse(s, b) :
             /\ array'[s][b][k] = array[s][b][j]
             /\ latest'[s][Id(s, b, j)] = latest[s][Id(s, b, j)]
             /\ StaysUndone(s, Id(s, b, j))
      BY <2>2
    <3>2. Good(s, b, j)
      BY <2>1 DEF Texted
    <3> QED
      BY <3>1, <3>2 DEF IsLatest, Undone, StaysUndone, Id
  <2>3. CASE /\ s = "card" /\ at[r] = "activate" /\ Copied(r)
             /\ array'[s][b][k] = Activated(r) /\ latest'[s] = latest[s]
    <3>1. Activated(r).text = seen[r].text /\ Activated(r).id = seen[r].id
      <4>1. seen[r] \in Item
        BY <1>0, <2>3 DEF Copies
      <4> QED
        BY <4>1 DEF Activated, Item
    <3>2. CASE r \in stale
      BY <2>3, <3>1, <3>2 DEF Copied, Undone, Id
    <3>3. CASE r \notin stale
      <4>1. IsLatest("card", seen[r])
        BY <2>3, <3>3 DEF Sends
      <4> QED
        BY <2>3, <3>1, <4>1 DEF IsLatest
    <3> QED
      BY <3>2, <3>3
  <2> QED
    BY <1>0, <1>2, <2>1, <2>2, <2>3, MovedTexts
<1>3. ASSUME NEW r \in Requests, NEW t \in Sorts, ItemMove(r, t),
             \A u \in Sorts \ {t} : SameItems(u)
      PROVE  Texted'
  <2>1. DOMAIN boards' = DOMAIN boards /\ (t # "card" => undone' = undone)
    BY <1>3 DEF ItemMove, GhostsKept
  <2> QED
    BY <1>1, <1>2, <1>3, <2>1 DEF Texted
<1>4. CASE SameBoard
  BY <1>1, <1>4 DEF SameBoard, Texted
<1>5. CASE (\A s \in Sorts : Widened(s)) /\ GhostsKept
  BY <1>1, <1>5 DEF Texted, GhostsKept
<1> QED
  BY <1>3, <1>4, <1>5, BoardMoves DEF BoardInv

LEMMA SendsStep ==
    ASSUME RInv, ProjectTypes, BoardInv, Ids, Texted, Sends, [ProjectsNext]_projectVars
    PROVE  Sends'
<1>0. boards \in Seq(Texts) /\ BoardShape /\ "card" \in Sorts
  BY DEF ProjectTypes, BoardInv, Sorts
<1> DEFINE Sent(r) == seen[r].id < nextN["card"] /\ (r \notin stale => IsLatest("card", seen[r]))
\* the card is copied
<1>1. ASSUME NEW r \in Requests, at'[r] = "activate", sendCard(r)
      PROVE  Sent(r)'
  <2>1. PICK b : b = op[r].item[1]
    OBVIOUS
  <2>2. /\ b \in DOMAIN boards
        /\ \E k \in 1 .. count["card"][b] : seen'[r] = array["card"][b][k]
        /\ UNCHANGED <<boards, array, count, nextN, latest, deleted, undone>>
        /\ stale' = IF op[r].item[2] \in undone THEN stale \cup {r} ELSE stale
        /\ seen'[r].id = op[r].item[2]
    BY <1>0, <1>1, <2>1, SendCopies
  <2>3. PICK k \in InUse("card", b) : seen'[r] = array["card"][b][k]
    BY <2>2 DEF InUse
  <2>4. seen'[r].id < nextN'["card"]
    BY <1>0, <2>2, <2>3 DEF Ids, IdsOf, Id
  <2>5. ASSUME r \notin stale' PROVE IsLatest("card", seen[r])'
    <3>1. ~Undone("card", Id("card", b, k))
      BY <2>2, <2>3, <2>5 DEF Undone, Id
    <3>2. IsLatest("card", array["card"][b][k])
      BY <1>0, <2>2, <2>3, <3>1 DEF Texted
    <3> QED
      BY <2>2, <2>3, <3>2 DEF IsLatest
  <2> QED
    BY <2>4, <2>5
\* another step, that leaves the copy where it is
<1>2. ASSUME NEW r \in Requests, at[r] = "activate", seen'[r] = seen[r],
             nextN'["card"] = nextN["card"], latest'["card"] = latest["card"], stale \subseteq stale'
      PROVE  Sent(r)'
  <2>1. Sent(r)
    BY <1>2 DEF Sends
  <2> QED
    BY <1>2, <2>1 DEF IsLatest
<1>3. ASSUME NEW r \in Requests, at[r] = "activate", seen'[r] = seen[r],
             NEW q \in Requests, ItemMove(q, "card")
      PROVE  Sent(r)'
  <2>1. Sent(r)
    BY <1>3 DEF Sends
  <2>2. seen[r].id \in Nat /\ seen[r].id \in 1 .. MaxId /\ nextN["card"] \in Nat
    BY <1>0, <1>3, Numbers DEF BoardInv, Copies, Item
  <2>3. nextN'["card"] = nextN["card"] \/ nextN'["card"] = nextN["card"] + 1
    BY <1>3 DEF ItemMove, Added, Written, Taken
  <2>4. seen'[r].id < nextN'["card"]
    BY <1>3, <2>1, <2>2, <2>3
  <2>5. ASSUME r \notin stale' PROVE IsLatest("card", seen[r])'
    <3>1. r \notin stale /\ latest'["card"][seen[r].id] = latest["card"][seen[r].id]
      <4>1. CASE \E b : Added(q, "card", b) /\ GhostsKept
        BY <2>1, <2>2, <2>5, <4>1 DEF Added, OtherTexts, GhostsKept
      <4>2. CASE OtherTexts("card", op[q].item[2]) /\ Rewritten(op[q].item[2])
        BY <1>3, <2>2, <2>5, <4>2 DEF OtherTexts, Rewritten, Sending
      <4>3. CASE latest'["card"] = latest["card"] /\ stale' = stale
        BY <2>5, <4>3
      <4> QED
        BY <1>3, <4>1, <4>2, <4>3 DEF ItemMove, Copied, Taken, GhostsKept
    <3> QED
      BY <1>3, <2>1, <3>1 DEF IsLatest
  <2> QED
    BY <2>4, <2>5
<1> HIDE DEF Sent
<1>4. ASSUME NEW r \in Requests, at'[r] = "activate" PROVE Sent(r)'
  <2>1. CASE at'[r] = at[r] /\ op'[r] = op[r] /\ seen'[r] = seen[r]
    <3>1. \/ SameBoard
          \/ Widened("card") /\ GhostsKept
          \/ \E q \in Requests : ItemMove(q, "card")
          \/ \E q \in Requests : ItemMove(q, "edge") /\ SameItems("card")
      BY <1>0, BoardMoves DEF BoardInv, Sorts
    <3>2. CASE SameBoard
      BY <1>0, <1>2, <1>4, <2>1, <3>2 DEF SameBoard, SameItems
    <3>3. CASE Widened("card") /\ GhostsKept
      BY <1>2, <1>4, <2>1, <3>3 DEF Widened, GhostsKept
    <3>4. ASSUME NEW q \in Requests, ItemMove(q, "edge"), SameItems("card") PROVE Sent(r)'
      <4>1. stale' = stale
        BY <3>4 DEF ItemMove, GhostsKept
      <4> QED
        BY <1>2, <1>4, <2>1, <3>4, <4>1 DEF SameItems
    <3> QED
      BY <1>3, <1>4, <2>1, <3>1, <3>2, <3>3, <3>4
  <2> QED
    BY <1>1, <1>4, <2>1, SecondSteps
<1> QED
  BY <1>4 DEF Sends, Sent

LEMMA TextsInit == ProjectsInit => Texted /\ Sends
<1> SUFFICES ASSUME ProjectsInit PROVE Texted /\ Sends
  OBVIOUS
<1>0. 1 \in 1 .. MaxId /\ 2 \in 1 .. MaxId
  BY RequestAssumption, FS_CardinalityType DEF MaxId
<1>1. /\ boards = <<Original>> /\ count = [card |-> <<2>>, edge |-> <<1>>]
      /\ array["card"][1][1] = Todo(1, Original) /\ array["card"][1][2] = Todo(2, Original)
      /\ array["edge"][1][1] = Todo(1, Original)
      /\ nextN = [card |-> 3, edge |-> 2]
      /\ latest = [s \in Sorts |-> [i \in 1 .. MaxId |-> IF i < nextN[s] THEN Original ELSE Nothing]]
  BY DEF ProjectsInit, BoardInit
<1>2. DOMAIN boards = {1} /\ InUse("card", 1) = {1, 2} /\ InUse("edge", 1) = {1}
  BY <1>1 DEF InUse
<1>3. latest["card"][1] = Original /\ latest["card"][2] = Original /\ latest["edge"][1] = Original
  BY <1>0, <1>1 DEF Sorts
<1>4. Texted
  <2>1. \A k \in InUse("card", 1) : IsLatest("card", array["card"][1][k])
    BY <1>1, <1>2, <1>3 DEF IsLatest, Todo
  <2>2. \A k \in InUse("edge", 1) : IsLatest("edge", array["edge"][1][k])
    BY <1>1, <1>2, <1>3 DEF IsLatest, Todo
  <2> QED
    BY <1>2, <2>1, <2>2 DEF Texted, Sorts
<1>5. Sends
  BY DEF Sends, ProjectsInit, RequestsInit
<1> QED
  BY <1>4, <1>5

LEMMA TextsHold == ProjectsSpec => [](Texted /\ Sends)
<1>1. RInv /\ ProjectTypes /\ BoardInv /\ Ids /\ Texted /\ Sends /\ [ProjectsNext]_projectVars
      => (Texted /\ Sends)'
  BY TextedStep, SendsStep
<1> QED
  BY <1>1, TextsInit, ProjectsTyped, BoardInvHolds, IdsHold, PTL DEF ProjectsSpec

\* A card or an edge holds what was written to it last, whatever overlaps: only
\* a send whose card was updated between its two steps, or that copied a card of
\* which such a send had undone the update, can undo it (pb/handler.go:133-139).
THEOREM UpdatesSurvive == ProjectsSpec => []EditsSurvive
<1>1. ProjectTypes /\ BoardInv /\ Texted => EditsSurvive
  <2> SUFFICES ASSUME ProjectTypes, BoardInv, Texted, NEW s \in Sorts, NEW b \in DOMAIN boards,
                      NEW x \in Range(Items(s, b))
               PROVE  x.text = latest[s][x.id] \/ (s = "card" /\ x.id \in undone)
    BY DEF EditsSurvive
  <2>1. PICK k \in InUse(s, b) : x = array[s][b][k]
    BY ItemsInUse DEF ProjectTypes, BoardInv
  <2> QED
    BY <2>1 DEF Texted, IsLatest, Undone, Id
<1> QED
  BY <1>1, ProjectsTyped, BoardInvHolds, TextsHold, PTL

-----------------------------------------------------------------------------
(* Reads of a board.                                                       *)

\* What a reader has: the items it took, and those it has encoded.
IsReader(v) ==
    \E listed \in [Sorts -> Seq(Nat)] : \E read :
        /\ read = [s \in Sorts |-> read[s]]
        /\ v = [listed |-> listed, read |-> read]

\* The items that the reader took are in front of the board still.
InFront(s, b, listed) ==
    /\ Len(listed) <= count[s][b]
    /\ \A k \in 1 .. Len(listed) : Id(s, b, k) = listed[k]

Encoded(listed, read) ==
    /\ read \in Seq(Nat) /\ Len(read) <= Len(listed)
    /\ \A k \in 1 .. Len(read) : read[k] = listed[k]

AllThere(s, listed) == \A k \in 1 .. Len(listed) : listed[k] \notin deleted[s]

Reads ==
    \A r \in Requests : at[r] = "encode" =>
        /\ op[r].item[1] \in DOMAIN boards /\ IsReader(seen[r])
        /\ \A s \in Sorts :
              AllThere(s, seen[r].listed[s]) =>
                  /\ InFront(s, op[r].item[1], seen[r].listed[s])
                  /\ Encoded(seen[r].listed[s], seen[r].read[s])
                  /\ IsInjective(seen[r].listed[s])

LEMMA DeletedGrows ==
    ASSUME RInv, ProjectTypes, BoardInv, [ProjectsNext]_projectVars
    PROVE  DOMAIN boards \subseteq DOMAIN boards' /\ \A s \in Sorts : deleted[s] \subseteq deleted'[s]
<1> DEFINE Goal == /\ DOMAIN boards \subseteq DOMAIN boards'
                   /\ \A s \in Sorts : deleted[s] \subseteq deleted'[s]
<1>1. ASSUME NEW r \in Requests, NEW t \in Sorts, ItemMove(r, t),
             \A u \in Sorts \ {t} : SameItems(u)
      PROVE  Goal
  <2>1. deleted[t] \subseteq deleted'[t] /\ DOMAIN boards' = DOMAIN boards
    BY <1>1 DEF ItemMove, Added, Written, Taken
  <2> QED
    BY <1>1, <2>1 DEF SameItems
<1>2. ASSUME SameBoard PROVE Goal
  BY <1>2 DEF SameBoard, SameItems
<1>3. ASSUME \A s \in Sorts : Widened(s) PROVE Goal
  BY <1>3 DEF Widened, Sorts
<1> HIDE DEF Goal
<1>4. Goal
  BY <1>1, <1>2, <1>3, BoardMoves DEF BoardInv
<1> QED
  BY <1>4 DEF Goal

\* Only the delete of one of them moves the items in front of a board.
LEMMA FrontStays ==
    ASSUME RInv, ProjectTypes, BoardInv, [ProjectsNext]_projectVars, NEW s \in Sorts,
           NEW b \in DOMAIN boards, NEW listed \in Seq(Nat), InFront(s, b, listed)
    PROVE  /\ b \in DOMAIN boards' /\ deleted[s] \subseteq deleted'[s]
           /\ AllThere(s, listed)' => InFront(s, b, listed)'
<1> DEFINE Goal == /\ b \in DOMAIN boards' /\ deleted[s] \subseteq deleted'[s]
                   /\ AllThere(s, listed)' => InFront(s, b, listed)'
<1>0. boards \in Seq(Texts) /\ BoardShape /\ Len(listed) \in Nat
  BY DEF ProjectTypes, BoardInv
<1>1. ASSUME DOMAIN boards' = DOMAIN boards \/ Widened(s), deleted'[s] = deleted[s],
             array'[s][b] = array[s][b], count'[s][b] = count[s][b]
      PROVE  Goal
  BY <1>1 DEF Widened, InFront, Id
<1>2. ASSUME NEW r \in Requests, ItemMove(r, s) PROVE Goal
  <2>1. PICK a : a = op[r].item[1]
    OBVIOUS
  <2>2. CASE OtherBoards(s, a) /\ a # b /\ deleted[s] \subseteq deleted'[s]
    BY <1>2, <2>2 DEF ItemMove, OtherBoards, InFront, Id
  <2>3. CASE Added(r, s, b)
    <3>1. count[s][b] \in Nat
      BY <1>0, Numbers
    <3>2. \A k \in 1 .. Len(listed) : k \in 1 .. count[s][b]
      BY <1>0, <3>1 DEF InFront
    <3>3. \A k \in 1 .. Len(listed) : Id(s, b, k)' = Id(s, b, k)
      BY <2>3, <3>2 DEF Added, Id
    <3>4. Len(listed) <= count'[s][b]
      BY <1>0, <2>3, <3>1 DEF Added, InFront
    <3>5. InFront(s, b, listed)'
      BY <3>3, <3>4 DEF InFront
    <3> QED
      BY <1>2, <2>3, <3>5 DEF ItemMove, Added
  <2>4. ASSUME NEW k \in 1 .. count[s][b], NEW x, Written(s, b, k, x) PROVE Goal
    <3>1. count[s][b] \in Nat
      BY <1>0, Numbers
    <3>2. \A j \in 1 .. Len(listed) : j \in 1 .. count[s][b]
      BY <1>0, <3>1 DEF InFront
    <3> QED
      BY <1>2, <2>4, <3>2 DEF ItemMove, Written, InFront, Id
  <2>5. ASSUME NEW k \in 1 .. count[s][b], Taken(s, b, k) PROVE Goal
    <3>1. count[s][b] \in Nat
      BY <1>0, Numbers
    <3>2. DOMAIN boards' = DOMAIN boards /\ deleted'[s] = deleted[s] \cup {Id(s, b, k)}
      BY <1>2, <2>5 DEF ItemMove, Taken, Id
    <3>3. ASSUME AllThere(s, listed)' PROVE InFront(s, b, listed)'
      <4>1. ~(k <= Len(listed))
        <5>1. SUFFICES ASSUME k <= Len(listed) PROVE FALSE
          OBVIOUS
        <5>2. k \in 1 .. Len(listed) /\ Id(s, b, k) = listed[k]
          BY <1>0, <3>1, <5>1 DEF InFront
        <5> QED
          BY <3>2, <3>3, <5>2 DEF AllThere
      <4>2. Len(listed) <= count[s][b] - 1 /\ count'[s][b] = count[s][b] - 1
        BY <1>0, <2>5, <3>1, <4>1 DEF Taken, InFront
      <4>3. ASSUME NEW j \in 1 .. Len(listed) PROVE Id(s, b, j)' = listed[j]
        <5>1. j \in 1 .. count[s][b] - 1 /\ j < k
          BY <1>0, <3>1, <4>1, <4>2
        <5>2. array'[s][b][j] = array[s][b][j]
          BY <2>5, <5>1 DEF Taken
        <5> QED
          BY <5>2 DEF InFront, Id
      <4> QED
        BY <4>2, <4>3 DEF InFront
    <3> QED
      BY <3>2, <3>3
  <2> HIDE DEF Goal
  <2>6. \/ Added(r, s, a)
        \/ \E k \in 1 .. count[s][a] : \E x : Written(s, a, k, x)
        \/ \E k \in 1 .. count[s][a] : Taken(s, a, k)
    BY <1>2, <2>1 DEF ItemMove
  <2>7. OtherBoards(s, a) /\ deleted[s] \subseteq deleted'[s]
    BY <2>6 DEF Added, Written, Taken
  <2> QED
    BY <2>2, <2>3, <2>4, <2>5, <2>6, <2>7
<1> HIDE DEF Goal
<1>3. ASSUME NEW r \in Requests, NEW t \in Sorts, ItemMove(r, t),
             \A u \in Sorts \ {t} : SameItems(u)
      PROVE  Goal
  <2>1. CASE t = s
    BY <1>2, <1>3, <2>1
  <2>2. CASE t # s
    BY <1>1, <1>3, <2>2 DEF SameItems, ItemMove
  <2> QED
    BY <2>1, <2>2
<1>4. ASSUME SameBoard PROVE Goal
  BY <1>1, <1>4 DEF SameBoard, SameItems
<1>5. ASSUME \A t \in Sorts : Widened(t) PROVE Goal
  BY <1>1, <1>5 DEF Widened
<1>6. Goal
  BY <1>3, <1>4, <1>5, BoardMoves DEF BoardInv
<1> QED
  BY <1>6 DEF Goal

\* A board that is read lists each of its items once.
LEMMA ListedOnce ==
    ASSUME BoardShape, boards \in Seq(Texts), Ids, NEW s \in Sorts, NEW b \in DOMAIN boards
    PROVE  IdList(s, b) \in Seq(Nat) /\ InFront(s, b, IdList(s, b)) /\ IsInjective(IdList(s, b))
<1>1. count[s][b] \in Nat /\ \A k \in InUse(s, b) : Id(s, b, k) \in 1 .. MaxId
  BY Numbers
<1>2. MaxId \in Nat
  BY RequestAssumption, FS_CardinalityType DEF MaxId
<1>3. PICK v : v = IdList(s, b)
  OBVIOUS
<1>4. v = [k \in 1 .. count[s][b] |-> Id(s, b, k)]
  BY <1>3 DEF IdList, Id
<1>5. v \in [1 .. count[s][b] -> Nat]
  BY <1>1, <1>2, <1>4 DEF InUse
<1>6. v \in Seq(Nat) /\ Len(v) = count[s][b] /\ DOMAIN v = 1 .. count[s][b]
  BY <1>1, <1>5
<1>7. InFront(s, b, v)
  BY <1>1, <1>4, <1>6 DEF InFront
<1>8. ASSUME NEW k \in DOMAIN v, NEW l \in DOMAIN v, v[k] = v[l] PROVE k = l
  BY <1>4, <1>6, <1>8 DEF Ids, IdsOf, InUse
<1>9. IsInjective(v)
  BY <1>8 DEF IsInjective
<1> QED
  BY <1>3, <1>6, <1>7, <1>9

LEMMA ReadsStep ==
    ASSUME RInv, ProjectTypes, BoardInv, Ids, Reads, [ProjectsNext]_projectVars
    PROVE  Reads'
<1>0. boards \in Seq(Texts) /\ BoardShape
  BY DEF ProjectTypes, BoardInv
<1> DEFINE Good(r, s) == AllThere(s, seen[r].listed[s]) =>
                            /\ InFront(s, op[r].item[1], seen[r].listed[s])
                            /\ Encoded(seen[r].listed[s], seen[r].read[s])
                            /\ IsInjective(seen[r].listed[s])
           Reader(r) == /\ op[r].item[1] \in DOMAIN boards /\ IsReader(seen[r])
                        /\ \A s \in Sorts : Good(r, s)
\* others work on the boards
<1>1. ASSUME NEW r \in Requests, at[r] = "encode", op'[r] = op[r], seen'[r] = seen[r]
      PROVE  Reader(r)'
  <2>1. PICK b, v : b = op[r].item[1] /\ v = seen[r]
    OBVIOUS
  <2>2. b \in DOMAIN boards /\ IsReader(v) /\ v.listed \in [Sorts -> Seq(Nat)]
    <3>1. b \in DOMAIN boards /\ IsReader(v)
      BY <1>1, <2>1 DEF Reads
    <3>2. PICK listed \in [Sorts -> Seq(Nat)] : \E read : v = [listed |-> listed, read |-> read]
      BY <3>1 DEF IsReader
    <3> QED
      BY <3>1, <3>2
  <2>3. ASSUME NEW s \in Sorts, AllThere(s, v.listed[s])'
        PROVE  /\ InFront(s, b, v.listed[s])'
               /\ Encoded(v.listed[s], v.read[s]) /\ IsInjective(v.listed[s])
    <3>1. PICK listed : listed = v.listed[s]
      OBVIOUS
    <3>2. listed \in Seq(Nat)
      BY <2>2, <3>1
    <3>3. AllThere(s, listed)
      BY <2>3, <3>1, DeletedGrows DEF AllThere
    <3>4. InFront(s, b, listed) /\ Encoded(listed, v.read[s]) /\ IsInjective(listed)
      BY <1>1, <2>1, <3>1, <3>3 DEF Reads
    <3>5. InFront(s, b, listed)'
      BY <2>2, <2>3, <3>1, <3>2, <3>4, FrontStays DEF AllThere
    <3> QED
      BY <3>1, <3>4, <3>5 DEF InFront
  <2>4. b \in DOMAIN boards'
    BY <2>2, DeletedGrows
  <2> QED
    BY <1>1, <2>1, <2>2, <2>3, <2>4 DEF AllThere, InFront, Id
\* the slices are taken
<1>2. ASSUME NEW r \in Requests, getBoard(r), op' = op
      PROVE  Reader(r)'
  <2>1. PICK b, listed, read :
           /\ b = op[r].item[1] /\ listed = [s \in Sorts |-> IdList(s, b)]
           /\ read = [s \in Sorts |-> <<>>]
    OBVIOUS
  <2>2. /\ b \in DOMAIN boards /\ UNCHANGED boardVars
        /\ seen'[r] = [listed |-> listed, read |-> read]
    BY <1>2, <2>1 DEF getBoard, HasBoard, Remember, RInv, RequestTypes
  <2>3. \A s \in Sorts : /\ listed[s] \in Seq(Nat) /\ InFront(s, b, listed[s])
                         /\ IsInjective(listed[s])
    BY <1>0, <2>1, <2>2, ListedOnce
  <2>4. listed \in [Sorts -> Seq(Nat)] /\ read = [s \in Sorts |-> read[s]]
    BY <2>1, <2>3
  <2>5. IsReader(seen'[r])
    BY <2>2, <2>4 DEF IsReader
  <2>6. ASSUME NEW s \in Sorts PROVE Encoded(listed[s], read[s])
    <3>1. Len(listed[s]) \in Nat /\ read[s] = <<>>
      BY <2>1, <2>3
    <3> QED
      BY <3>1 DEF Encoded
  <2>7. seen'[r].listed = listed /\ seen'[r].read = read
    BY <2>2
  <2>8. \A s \in Sorts : InFront(s, b, listed[s])'
    BY <2>2, <2>3 DEF boardVars, InFront, Id
  <2> QED
    BY <1>2, <2>1, <2>2, <2>3, <2>5, <2>6, <2>7, <2>8 DEF boardVars, InFront, Id, Sorts
\* one more item is encoded
<1>3. ASSUME NEW r \in Requests, encode(r), at'[r] = "encode", op' = op
      PROVE  Reader(r)'
  <2>1. PICK b, v : b = op[r].item[1] /\ v = seen[r]
    OBVIOUS
  <2>2. at[r] = "encode" /\ UNCHANGED boardVars
    BY <1>3 DEF encode
  <2>3. b \in DOMAIN boards /\ IsReader(v)
    BY <2>1, <2>2 DEF Reads
  <2>4. PICK listed \in [Sorts -> Seq(Nat)] : \E read :
           read = [s \in Sorts |-> read[s]] /\ v = [listed |-> listed, read |-> read]
    BY <2>3 DEF IsReader
  <2>5. PICK read : read = [s \in Sorts |-> read[s]] /\ v = [listed |-> listed, read |-> read]
    BY <2>4
  <2>6. PICK s0 \in Sorts :
           /\ Len(read[s0]) < Len(listed[s0])
           /\ seen'[r] = [v EXCEPT !.read[s0] = Append(@, Id(s0, b, Len(read[s0]) + 1))]
    <3>1. v.listed = listed /\ v.read = read
      BY <2>5
    <3> QED
      BY <1>3, <2>1, <3>1 DEF encode, Remember, Proceed, RInv, RequestTypes, Sorts, Id
  <2>7. PICK next : next = [read EXCEPT ![s0] = Append(read[s0], Id(s0, b, Len(read[s0]) + 1))]
    OBVIOUS
  <2>8. seen'[r] = [listed |-> listed, read |-> next] /\ next = [s \in Sorts |-> next[s]]
    BY <2>5, <2>6, <2>7
  <2>9. IsReader(seen'[r])
    BY <2>8 DEF IsReader
  <2>10. ASSUME NEW s \in Sorts, AllThere(s, listed[s])
         PROVE  InFront(s, b, listed[s]) /\ Encoded(listed[s], next[s]) /\ IsInjective(listed[s])
    <3>1. InFront(s, b, listed[s]) /\ Encoded(listed[s], read[s]) /\ IsInjective(listed[s])
      <4>1. v.listed = listed /\ v.read = read
        BY <2>5
      <4> QED
        BY <2>1, <2>2, <2>10, <4>1 DEF Reads
    <3>2. CASE s # s0
      BY <2>5, <2>7, <3>1, <3>2
    <3>3. CASE s = s0
      <4>1. PICK n, x : n = Len(read[s]) + 1 /\ x = Id(s, b, n)
        OBVIOUS
      <4>2. /\ read[s] \in Seq(Nat) /\ listed[s] \in Seq(Nat)
            /\ Len(read[s]) \in Nat /\ Len(listed[s]) \in Nat
            /\ n \in 1 .. Len(listed[s]) /\ n \in Nat
        BY <2>6, <3>1, <3>3, <4>1 DEF Encoded
      <4>3. x = listed[s][n] /\ x \in Nat
        BY <3>1, <4>1, <4>2 DEF InFront
      <4>4. next[s] = Append(read[s], x)
        BY <2>5, <2>7, <3>3, <4>1
      <4>5. /\ next[s] \in Seq(Nat) /\ Len(next[s]) = n
            /\ \A k \in 1 .. n : next[s][k] = IF k = n THEN x ELSE read[s][k]
        BY <4>1, <4>2, <4>3, <4>4
      <4>6. ASSUME NEW k \in 1 .. n PROVE next[s][k] = listed[s][k]
        <5>1. CASE k = n
          BY <4>3, <4>5, <5>1
        <5>2. CASE k # n
          <6>1. k \in 1 .. Len(read[s])
            BY <4>1, <4>2, <5>2
          <6> QED
            BY <3>1, <4>5, <5>2, <6>1 DEF Encoded
        <5> QED
          BY <5>1, <5>2
      <4> QED
        BY <3>1, <4>2, <4>5, <4>6 DEF Encoded
    <3> QED
      BY <3>2, <3>3
  <2>11. seen'[r].listed = listed /\ seen'[r].read = next
    BY <2>8
  <2> QED
    BY <1>3, <2>1, <2>2, <2>3, <2>9, <2>10, <2>11 DEF boardVars, AllThere, InFront, Id
<1> HIDE DEF Reader
<1>4. ASSUME NEW r \in Requests, at'[r] = "encode" PROVE Reader(r)'
  BY <1>1, <1>2, <1>3, <1>4, SecondSteps
<1> QED
  BY <1>4 DEF Reads, Reader

LEMMA ReadsHold == ProjectsSpec => []Reads
<1>1. ProjectsInit => Reads
  BY DEF ProjectsInit, RequestsInit, Reads
<1>2. RInv /\ ProjectTypes /\ BoardInv /\ Ids /\ Reads /\ [ProjectsNext]_projectVars => Reads'
  BY ReadsStep
<1> QED
  BY <1>1, <1>2, ProjectsTyped, BoardInvHolds, IdsHold, PTL DEF ProjectsSpec

LEMMA EncodedOnce ==
    ASSUME RInv, Reads, NEW r \in Requests, encode(r), at'[r] = "done", NEW s \in Sorts,
           deleted'[s] \cap Range(seen'[r].listed[s]) = {}
    PROVE  seen'[r].read[s] = seen'[r].listed[s] /\ IsInjective(seen'[r].listed[s])
<1>1. at[r] = "encode" /\ UNCHANGED boardVars /\ IsReader(seen[r])
  BY DEF encode, Reads
<1>2. /\ seen'[r] = seen[r]
      /\ \A t \in Sorts : ~(Len(seen[r].read[t]) < Len(seen[r].listed[t]))
  BY DEF encode, Remember, Proceed, RInv, RequestTypes, Sorts
<1>3. PICK listed : listed = seen[r].listed[s] /\ listed \in Seq(Nat)
  BY <1>1 DEF IsReader
<1>4. Len(listed) \in Nat /\ DOMAIN listed = 1 .. Len(listed)
  BY <1>3
<1>5. AllThere(s, listed)
  <2>1. deleted[s] \cap Range(listed) = {}
    BY <1>1, <1>2, <1>3 DEF boardVars
  <2>2. \A k \in DOMAIN listed : listed[k] \in Range(listed)
    BY DEF Range
  <2> QED
    BY <1>4, <2>1, <2>2 DEF AllThere
<1>6. PICK read : read = seen[r].read[s]
  OBVIOUS
<1>7. Encoded(listed, read) /\ IsInjective(listed) /\ ~(Len(read) < Len(listed))
  BY <1>1, <1>2, <1>3, <1>5, <1>6 DEF Reads
<1>8. read \in Seq(Nat) /\ Len(read) = Len(listed) /\ \A k \in 1 .. Len(read) : read[k] = listed[k]
  BY <1>4, <1>7 DEF Encoded
<1>9. read = listed
  BY <1>3, <1>8, SeqEqual
<1> QED
  BY <1>2, <1>3, <1>6, <1>7, <1>9

LEMMA ReadsOnceStep ==
    ASSUME RInv, ProjectTypes, BoardInv, Reads, ReadsOnce, [ProjectsNext]_projectVars
    PROVE  ReadsOnce'
<1>1. ASSUME NEW r \in Requests, at'[r] = "done", op'[r].does = "readBoard", NEW s \in Sorts,
             deleted'[s] \cap Range(seen'[r].listed[s]) = {}
      PROVE  seen'[r].read[s] = seen'[r].listed[s] /\ IsInjective(seen'[r].listed[s])
  <2>1. CASE at'[r] = at[r] /\ op'[r] = op[r] /\ seen'[r] = seen[r]
    <3>1. deleted[s] \cap Range(seen[r].listed[s]) = {}
      BY <1>1, <2>1, DeletedGrows
    <3> QED
      BY <1>1, <2>1, <3>1 DEF ReadsOnce
  <2>2. CASE encode(r)
    BY <1>1, <2>2, EncodedOnce
  <2> QED
    BY <1>1, <2>1, <2>2, SecondSteps
<1> QED
  BY <1>1 DEF ReadsOnce

\* A reader gets the cards and the edges of its board as they were listed when
\* the handler took them, each of them once, unless one of them is deleted before
\* it is encoded (pb/store.go:105).
THEOREM ReadsListOnce == ProjectsSpec => []ReadsOnce
<1>1. ProjectsInit => ReadsOnce
  BY DEF ProjectsInit, RequestsInit, ReadsOnce
<1>2. RInv /\ ProjectTypes /\ BoardInv /\ Reads /\ ReadsOnce /\ [ProjectsNext]_projectVars
      => ReadsOnce'
  BY ReadsOnceStep
<1> QED
  BY <1>1, <1>2, ProjectsTyped, BoardInvHolds, ReadsHold, PTL DEF ProjectsSpec

-----------------------------------------------------------------------------
(* Types.                                                                  *)

FailuresBounded == failures \in 0 .. MaxFailures

LEMMA FailureSteps ==
    ASSUME [ProjectsNext]_projectVars
    PROVE  failures' = failures \/ (failures < MaxFailures /\ failures' = failures + 1)
<1> DEFINE Failing == failures' = failures \/ (failures < MaxFailures /\ failures' = failures + 1)
<1>1. \A r, next : Proceed(r, next) => Failing
  BY DEF Proceed
<1>3. \A r, next : Fail(r, next) => Failing
  BY DEF Fail
<1>4. \A r, o, first : Begin(r, o, first) => Failing
  BY DEF Begin
<1>5. UNCHANGED requestVars => Failing
  BY DEF requestVars
<1> HIDE DEF Failing
<1>6. ASSUME NEW r \in Requests, Begins(r) PROVE Failing
  BY <1>4, <1>6 DEF Begins, AgentRequest, BoardRequest, IdeRequest, ProjectRequest
<1>7. ASSUME NEW r \in Requests, AgentStep(r) PROVE Failing
  BY <1>1, <1>3, <1>7 DEF AgentStep, CheckStopped, CreateObject, CreatePod, RemovePod,
                                CleanUp, ReadConfig, WriteConfig, ReadPod
<1>8. ASSUME NEW r \in Requests, BoardStep(r) PROVE Failing
  BY <1>1, <1>8 DEF BoardStep, boardMissing, createBoard, renameBoard, createCard, updateCard,
                    deleteCard, sendCard, activate, createEdge, updateEdge, deleteEdge, getBoard,
                    encode, create, update, delete
<1>9. ASSUME NEW r \in Requests, ProjectStep(r) PROVE Failing
  BY <1>1, <1>3, <1>9
     DEF ProjectStep, ideCreate, ideUpdate, ideDelete, putFile, deleteFile, renameFile,
         CreateIde, CreateBoard, LinkAll, DropProject
<1>10. ASSUME NEW r \in Requests, FindProject(r) PROVE Failing
  <2>1. failures' = failures => Failing
    BY DEF Failing
  <2> QED
    BY <1>1, <1>3, <1>10, <2>1 DEF FindProject
<1>11. Failing
  BY <1>5, <1>6, <1>7, <1>8, <1>9, <1>10, Steps
<1> QED
  BY <1>11 DEF Failing

LEMMA FailuresHold == ProjectsSpec => []FailuresBounded
<1>1. ProjectsInit => FailuresBounded
  BY RequestAssumption DEF ProjectsInit, RequestsInit, FailuresBounded
<1>2. FailuresBounded /\ [ProjectsNext]_projectVars => FailuresBounded'
  BY FailureSteps, RequestAssumption DEF FailuresBounded
<1> QED
  BY <1>1, <1>2, PTL DEF ProjectsSpec

LEMMA BoardTyped ==
    ASSUME RInv, ProjectTypes, BoardInv
    PROVE  BoardTypeOK
<1>1. ASSUME NEW s \in Sorts
      PROVE  /\ array[s] \in Seq(Seq(Item)) /\ Len(array[s]) = Len(boards)
             /\ \A b \in DOMAIN boards : count[s][b] \in 0 .. Len(array[s][b])
             /\ nextN[s] \in 1 .. MaxId + 1
             /\ latest[s] \in [1 .. MaxId -> Texts \cup {Nothing}]
             /\ deleted[s] \subseteq 1 .. MaxId
  <2>1. \A b \in DOMAIN boards :
           count[s][b] \in Nat /\ count[s][b] <= Len(array[s][b]) /\ Len(array[s][b]) \in Nat
    BY ShapeFacts DEF ProjectTypes, BoardInv
  <2>2. Cardinality(Pending(ToItem(s))) \in Nat
    <3>1. Pending(ToItem(s)) \in SUBSET Requests
      BY DEF Pending
    <3> QED
      BY <3>1, RequestAssumption, FS_Subset, FS_CardinalityType
  <2>3. nextN[s] \in Nat \ {0} /\ MaxId \in Nat
    BY RequestAssumption, FS_CardinalityType DEF BoardInv, BoardShape, MaxId
  <2>4. nextN[s] \in 1 .. MaxId + 1
    BY <2>2, <2>3 DEF BoardInv, Numbering
  <2> QED
    BY <2>1, <2>4 DEF BoardInv, BoardShape
<1> QED
  BY <1>1 DEF BoardTypeOK, ProjectTypes, BoardInv, Ghosts

GhostNames == early \subseteq Names /\ spared \subseteq Names

LEMMA GhostNamesStep ==
    ASSUME RInv, GhostNames, [ProjectsNext]_projectVars
    PROVE  GhostNames'
<1>1. ASSUME NEW r \in Requests, AgentStep(r) PROVE GhostNames'
  <2>1. op[r].name \in Names
    BY <1>1, PodSteps
  <2> QED
    BY <1>1, <2>1 DEF AgentStep, CheckStopped, CreateObject, Meets, CreatePod, RemovePod, TakeDown,
       Spare, CleanUp, ReadConfig, WriteConfig, ReadPod, podVars, GhostNames
<1>2. Cluster => GhostNames'
  BY DEF Cluster, PodStarts, PodEnds, ClaimGoes, IssueTls, GhostNames
<1> QED
  BY <1>1, <1>2, Steps DEF podVars, GhostNames

LEMMA GhostNamesHold == ProjectsSpec => []GhostNames
<1>1. ProjectsInit => GhostNames
  BY DEF ProjectsInit, PodsInit, GhostNames
<1> QED
  BY <1>1, GhostNamesStep, ProjectsTyped, PTL DEF ProjectsSpec

\* Every state is of its type: the counts of IDs, of failures and of projects stay
\* within the bounds that follow from the number of requests.
THEOREM ProjectsTypeCorrect == ProjectsSpec => []ProjectsTypeOK
<1>1. RInv /\ ProjectTypes /\ FailuresBounded /\ AgentTypes /\ GhostNames /\ BoardInv
      /\ FilesTyped => ProjectsTypeOK
  <2> SUFFICES ASSUME RInv, ProjectTypes, FailuresBounded, AgentTypes, GhostNames, BoardInv,
                      FilesTyped
               PROVE  ProjectsTypeOK
    OBVIOUS
  <2>1. ASSUME NEW k \in DOMAIN projects PROVE projects[k] \in Project
    <3>1. projects[k] \in AnyProject
      BY ElementOfSeq, LenProperties DEF ProjectTypes
    <3>2. projects[k].id \in 1 .. MaxProjects
      BY DEF FilesTyped
    <3> QED
      BY <3>1, <3>2 DEF AnyProject, Project
  <2>2. projects \in Seq(Project)
    <3>1. projects \in [1 .. Len(projects) -> AnyProject] /\ Len(projects) \in Nat
      BY LenProperties DEF ProjectTypes
    <3>2. projects \in [1 .. Len(projects) -> Project]
      BY <2>1, <3>1
    <3> QED
      BY <3>1, <3>2, SeqDef
  <2>3. \A r \in Requests : op[r] = Nothing => at[r] = "idle"
    BY DEF RInv, Placed
  <2>4. PodsTypeOK
    BY DEF PodsTypeOK, AgentTypes, GhostNames
  <2> QED
    BY <2>2, <2>3, <2>4, BoardTyped
       DEF ProjectsTypeOK, RInv, RequestTypes, FailuresBounded, FilesTyped
<1> QED
  BY <1>1, ProjectsTyped, FailuresHold, PodsTyped, GhostNamesHold, BoardInvHolds, OwnHolds, PTL
=============================================================================
