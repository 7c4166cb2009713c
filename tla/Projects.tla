------------------------------ MODULE Projects ------------------------------
(***************************************************************************)
(* The life of a project, src/api/internal/projects/handler.go: a create   *)
(* makes an IDE project, a board and an agent, one internal call after the *)
(* other, and links them; a delete looks the project up and undoes some of *)
(* it.  With it the IDE's projects and files, src/api/internal/ide, which  *)
(* clients also change directly, the boards (module ProjectBoard) and the  *)
(* agents (module AgentPods).                                              *)
(***************************************************************************)
EXTENDS AgentPods, ProjectBoard

CONSTANTS
    Demo,       \* the name of the demo project
    Paths, Spec_md,
    Unset       \* what a PATCH does not mention

ASSUME PathsAssumption == Spec_md \in Paths /\ \E path \in Paths : path # Spec_md

VARIABLES
    projects,   \* Store.projects
    files,      \* Store.files: the paths of each project ID that has any
    collided    \* ghost: IDs given to a project while another had them,
                \* or was going to be linked by its creator

ideVars == <<projects, files, collided>>
projectVars == <<requestVars, podVars, boardVars, ideVars>>

MaxProjects == 1 + Cardinality(Requests)
Project == [id : 1 .. MaxProjects, name : Names \cup {Demo},
            made : Names \cup {Demo},       \* ghost: the name it was created with
            board : Nat,                    \* 0 is ""
            agent : Names \cup {Nothing}]   \* the project in the name of its agent

ProjectsTypeOK ==
    /\ workload \in Workloads
    /\ \A r \in Requests : op[r] = Nothing => at[r] = "idle"
    /\ failures \in 0 .. MaxFailures
    /\ PodsTypeOK /\ BoardTypeOK
    /\ projects \in Seq(Project)
    /\ files \in [1 .. MaxProjects -> (SUBSET Paths) \cup {Nothing}]
    /\ collided \subseteq 1 .. MaxProjects

ProjectsInit ==
    /\ RequestsInit /\ PodsInit /\ BoardInit
    /\ projects = <<[id |-> 1, name |-> Demo, made |-> Demo, board |-> 1, agent |-> Nothing]>>
    /\ files = [i \in 1 .. MaxProjects |-> IF i = 1 THEN {Spec_md} ELSE Nothing]
    /\ collided = {}

-----------------------------------------------------------------------------
(* The IDE store.                                                          *)

\* The place of the first project with an ID, 0 if there is none.
PlaceOf(id) == SelectInSeq(projects, LAMBDA p : p.id = id)

NextId == Len(projects) + 1

\* The other requests that have made the project and not linked it yet.
Creating(r, id) ==
    {s \in Others(r) : op[s].does = "createProject" /\ seen[s] # Nothing /\ seen[s].id = id}

IsTaken(r, id) == PlaceOf(id) # 0 \/ Creating(r, id) # {}

CreateProject(r, name) ==
    LET id == NextId
    IN  /\ projects' = Append(projects, [id |-> id, name |-> name, made |-> name,
                                         board |-> 0, agent |-> Nothing])
        /\ files' = [files EXCEPT ![id] = {Spec_md}]
        /\ collided' = IF IsTaken(r, id) THEN collided \cup {id} ELSE collided

DeleteProject(id) ==
    IF PlaceOf(id) = 0 THEN UNCHANGED ideVars
    ELSE /\ projects' = RemoveAt(projects, PlaceOf(id))
         /\ files' = [files EXCEPT ![id] = Nothing]
         /\ UNCHANGED collided

Given(new, old) == IF new = Unset THEN old ELSE new

\* Mutant: the place of a project is taken from its ID.
UpdateProject_ByNumber(id, name, board, agent) ==
    /\ projects' = IF PlaceOf(id) = 0 \/ id \notin DOMAIN projects THEN projects
                   ELSE [projects EXCEPT ![id].name  = Given(name, @),
                                         ![id].board = Given(board, @),
                                         ![id].agent = Given(agent, @)]
    /\ UNCHANGED <<files, collided>>

\* The repository, which nothing here reads, is left out.
UpdateProject(id, name, board, agent) ==
    /\ projects' = IF PlaceOf(id) = 0 THEN projects
                   ELSE [projects EXCEPT ![PlaceOf(id)].name  = Given(name, @),
                                         ![PlaceOf(id)].board = Given(board, @),
                                         ![PlaceOf(id)].agent = Given(agent, @)]
    /\ UNCHANGED <<files, collided>>

-----------------------------------------------------------------------------
(* The handlers of the IDE: one operation of the store each.  A request is *)
(* about project item, and puts, deletes or renames file name; the name    *)
(* that a PATCH bears is the fields it sets.                               *)

IdeOps == {"newIdeProject", "patchProject", "dropIdeProject", "putFile", "deleteFile",
           "renameFile"}

IdeRequest(r) ==
    /\ \E o \in workload : o.does \in IdeOps /\ Begin(r, o, o.does)
    /\ UNCHANGED <<podVars, boardVars, ideVars, seen>>

AtIde(r, step) == at[r] = step /\ UNCHANGED <<podVars, boardVars>>

ideCreate(r) ==
    /\ AtIde(r, "newIdeProject") /\ UNCHANGED seen
    /\ CreateProject(r, op[r].name)
    /\ Proceed(r, "done")

Found(id) == IF PlaceOf(id) = 0 THEN "refused" ELSE "done"

\* A client may link the project to any board and agent.  projects.updateProject
\* hands its body over to this one.
ideUpdate(r) ==
    LET set == op[r].name
    IN  /\ AtIde(r, "patchProject") /\ UNCHANGED seen
        /\ UpdateProject(op[r].item, set.name, set.board, set.agent)
        /\ Proceed(r, Found(op[r].item))

\* The project goes without its agent.
ideDelete(r) ==
    /\ AtIde(r, "dropIdeProject") /\ UNCHANGED seen
    /\ DeleteProject(op[r].item)
    /\ Proceed(r, Found(op[r].item))

HasFiles(id) == files[id] # Nothing

\* A file may be put for an ID that no project has.
putFile(r) ==
    LET id == op[r].item
    IN  /\ AtIde(r, "putFile")
        /\ files' = [files EXCEPT ![id] = (IF HasFiles(id) THEN @ ELSE {}) \cup {op[r].name}]
        /\ Proceed(r, "done")
        /\ UNCHANGED <<projects, collided, seen>>

deleteFile(r) ==
    LET id == op[r].item
    IN  /\ AtIde(r, "deleteFile")
        /\ files' = IF HasFiles(id) THEN [files EXCEPT ![id] = @ \ {op[r].name}] ELSE files
        /\ Proceed(r, IF files' = files THEN "refused" ELSE "done")
        /\ UNCHANGED <<projects, collided, seen>>

renameFile(r) ==
    LET id == op[r].item
        to == CHOOSE path \in Paths : path # op[r].name
        can == HasFiles(id) /\ op[r].name \in files[id] /\ to \notin files[id]
    IN  /\ AtIde(r, "renameFile")
        /\ files' = IF can THEN [files EXCEPT ![id] = (@ \ {op[r].name}) \cup {to}] ELSE files
        /\ Proceed(r, IF can THEN "done" ELSE "refused")
        /\ UNCHANGED <<projects, collided, seen>>

-----------------------------------------------------------------------------
(* createProject: IDE project, board, agent, link.                         *)

ProjectOps == [createProject |-> "ide", deleteProject |-> "find"]

ProjectRequest(r) ==
    /\ \E o \in workload :
           o.does \in DOMAIN ProjectOps /\ Begin(r, o, ProjectOps[o.does])
    /\ UNCHANGED <<podVars, boardVars, ideVars, seen>>

Made(id, board) == [id |-> id, board |-> board]

\* Only this call may fail the request.
CreateIde(r) ==
    /\ AtIde(r, "ide")
    /\ \/ /\ CreateProject(r, op[r].name)
          /\ Remember(r, Made(NextId, 0))
          /\ Proceed(r, "board")
       \/ /\ CreateProject(r, op[r].name) \/ UNCHANGED ideVars
          /\ UNCHANGED seen
          /\ Fail(r, "refused")

CreateBoard(r) ==
    /\ at[r] = "board"
    /\ \/ /\ NewBoard(r)
          /\ Remember(r, Made(seen[r].id, Len(boards) + 1))
          /\ Proceed(r, "claim")
       \/ (NewBoard(r) \/ UNCHANGED boardVars) /\ UNCHANGED seen /\ Fail(r, "claim")
    /\ UNCHANGED <<podVars, ideVars>>

AgentOf(r) == IF at[r] = "agentDone" THEN op[r].name ELSE Nothing

\* The agent's answer is in; what the PATCH answers is not looked at.
LinkAll(r) ==
    /\ op[r] # Nothing /\ op[r].does = "createProject"
    /\ at[r] \in {"agentDone", "agentRefused"}
    /\ \/ /\ UpdateProject(seen[r].id, Unset, seen[r].board, AgentOf(r))
          /\ Proceed(r, "done")
       \/ UNCHANGED ideVars /\ Fail(r, "done")
    /\ UNCHANGED <<podVars, boardVars, seen>>

-----------------------------------------------------------------------------
(* deleteProject: look-up, agent, IDE project.  Board and repository stay. *)

\* Mutant: the record is removed, and the agent stays.
AfterLook_RecordOnly(agent) == "dropProject"

AfterLook(agent) == IF agent = Nothing THEN "dropProject" ELSE "deletePod"

FindProject(r) ==
    LET id    == op[r].item
        k     == PlaceOf(id)
        agent == projects[k].agent
    IN  /\ AtIde(r, "find")
        /\ UNCHANGED <<ideVars, workload>>
        /\ \/ /\ k = 0 /\ Proceed(r, "refused") /\ UNCHANGED seen
           \/ /\ k # 0
              /\ op' = [op EXCEPT ![r].name = agent]
              /\ at' = [at EXCEPT ![r] = AfterLook(agent)]
              /\ overlapped' = overlapped \cup
                                   IF agent = Nothing THEN {} ELSE Shared(r, agent)
              /\ UNCHANGED <<seen, failures, failed>>
           \/ Fail(r, "refused") /\ UNCHANGED seen

\* The agent is dealt with.
LastCall(r) ==
    /\ op[r] # Nothing /\ op[r].does = "deleteProject"
    /\ at[r] \in {"dropProject", "agentDone", "agentRefused"}

\* Whatever the deletion of the agent answered.
DropProject(r) ==
    /\ LastCall(r)
    /\ \/ DeleteProject(op[r].item) /\ Proceed(r, "done")
       \/ UNCHANGED ideVars /\ Fail(r, "done")
    /\ UNCHANGED <<podVars, boardVars, seen>>

-----------------------------------------------------------------------------
(* What clients may ask for: an agent by the name of its project, a board, *)
(* an item of a board, a project or a file of it by their IDs, which may   *)
(* be those of nothing that exists.  A request about a board is called     *)
(* after it, and one that looks a name up has none to begin with.          *)

Patch == [name : Names \cup {Unset}, board : Nat \cup {Unset},
          agent : Names \cup {Nothing, Unset}]

WellFormed(o) ==
    \/ o.does \in DOMAIN AgentOps
       /\ o \in [does : DOMAIN AgentOps, name : Names, item : {Nothing}]
    \/ o.does \in BoardOps
       /\ o \in [does : BoardOps, name : Nat, item : Nat \X Nat] /\ o.name = o.item[1]
    \/ o.does = "createProject"
       /\ o \in [does : {"createProject"}, name : Names, item : {0}]
    \/ o.does \in {"deleteProject", "dropIdeProject"}
       /\ o \in [does : {"deleteProject", "dropIdeProject"}, name : {Nothing}, item : Nat]
    \/ o.does = "newIdeProject"
       /\ o \in [does : {"newIdeProject"}, name : Names, item : {0}]
    \/ o.does = "patchProject"
       /\ o \in [does : {"patchProject"}, name : Patch, item : Nat]
    \/ o.does \in {"putFile", "deleteFile", "renameFile"}
       /\ o \in [does : {"putFile", "deleteFile", "renameFile"}, name : Paths, item : Nat]

ASSUME OperationsAssumption == \A w \in Workloads : \A o \in w : WellFormed(o)

\* Nothing can be told from whatever may stand in its place.
ASSUME NothingAssumption ==
    /\ Nothing \notin Pod /\ Nothing \notin Names
    /\ Nothing \notin [id : Nat, board : Nat]
    /\ Nothing \notin [does : {"deleteProject"}, name : Names \cup {Nothing}, item : Nat]
    /\ \A paths \in SUBSET Paths : Nothing # paths
    /\ \A w \in Workloads : Nothing \notin w
    /\ Unset \notin Nat \cup Names \cup {Nothing}

-----------------------------------------------------------------------------
ProjectHandlers(r) ==
    \/ IdeRequest(r) \/ ideCreate(r) \/ ideUpdate(r) \/ ideDelete(r)
    \/ putFile(r) \/ deleteFile(r) \/ renameFile(r)
    \/ ProjectRequest(r) \/ CreateIde(r) \/ CreateBoard(r) \/ LinkAll(r)
    \/ FindProject(r) \/ DropProject(r)

ProjectsNext ==
    \/ Cluster /\ UNCHANGED <<boardVars, ideVars>>
    \/ \E r \in Requests :
           \/ AgentHandlers(r) /\ UNCHANGED <<boardVars, ideVars>>
           \/ BoardHandlers(r) /\ UNCHANGED <<podVars, ideVars>>
           \/ ProjectHandlers(r)

ProjectsSpec == ProjectsInit /\ [][ProjectsNext]_projectVars

-----------------------------------------------------------------------------
(* Properties.                                                             *)

Creators(id) ==
    {r \in Requests : /\ op[r] # Nothing /\ op[r].does = "createProject"
                      /\ seen[r] # Nothing /\ seen[r].id = id}

\* What clients asked to be set in the project.
Patches(id) ==
    {op[r].name : r \in {r \in Requests : /\ op[r] # Nothing /\ op[r].does = "patchProject"
                                           /\ op[r].item = id}}

\* ide/store.go:64 and projects/handler.go:165: a project is linked to the agent
\* and to the board that were made for it and keeps its files, whatever overlaps
\* or fails, unless a client's PATCH says otherwise.  An ID that is given twice
\* at once mixes up the agents of the projects that bear it, and may take the
\* files from one of them, but no other project's agent and nobody's board.
ProjectsKeepTheirOwn ==
    \A p \in Range(projects) :
        LET made  == IF p.id \in collided THEN {op[r].name : r \in Creators(p.id)} ELSE {p.made}
            asked == {set.agent : set \in Patches(p.id)}
        IN  /\ p.agent \in {Nothing} \cup made \cup asked
            /\ files[p.id] # Nothing \/ p.id \in collided
            /\ \A q \in Range(projects) :
                   p.board = q.board /\ p.board # 0 /\ p # q =>
                       \E set \in Patches(p.id) \cup Patches(q.id) : set.board = p.board

\* projects/handler.go:197: when deleteProject removes the record of a project,
\* the agent goes with it: of the agent that the record names nothing is left but
\* what is Terminating; unless the project got that agent after the look-up, by
\* a createProject or a PATCH beside it, or a call for the agent failed, or
\* another request worked on the agent at the same time.
DeleteTakesTheAgent ==
    [][\A r \in Requests :
           LastCall(r) /\ projects' # projects /\ at'[r] # at[r] =>
               LET n == projects[PlaceOf(op[r].item)].agent
               IN  n \in Names \ trouble /\ n = op[r].name =>
                       /\ \A k \in Kinds \ {"claim"} : obj[n][k] = Nothing
                       /\ obj[n]["claim"] # Nothing => n \in leaving
                       /\ pod[n] # Nothing => pod[n].going]_projectVars
=============================================================================
