----------------------------- MODULE MCProjects -----------------------------
(* Projects with three requests and one workload per part of the API.      *)
EXTENDS Projects, TLC

CONSTANTS r1, r2, r3, n1, n2, n3, main_go

On(ops, name, item) == {[does |-> d, name |-> name, item |-> item] : d \in ops}

OneAgent == On(DOMAIN AgentOps, n1, Nothing)

OneBoard ==
    On({"createBoard", "createCard", "createEdge", "renameBoard", "readBoard"}, 1, <<1, 0>>)
    \cup On({"createCard", "updateCard"}, 2, <<2, 3>>)
    \cup UNION {On({"updateCard", "deleteCard", "sendCard"}, 1, <<1, i>>) : i \in {1, 3}}
    \cup UNION {On({"updateEdge", "deleteEdge"}, 1, <<1, i>>) : i \in {1, 2}}

Set(name, board, agent) == [name |-> name, board |-> board, agent |-> agent]

TwoProjects ==
    UNION {On({"createProject"}, n, 0) : n \in {n2, n3}}
    \cup UNION {On({"deleteProject"}, Nothing, id) : id \in {1, 2}}
    \cup On({"patchProject"}, Set(Unset, 1, n3), 2)

OneProject ==
    On({"createProject"}, n2, 0) \cup On({"deleteProject", "dropIdeProject"}, Nothing, 2)
    \cup On({"deleteAgent"}, n2, Nothing)
    \cup On({"patchProject"}, Set(n3, Unset, Nothing), 2)

IdeFiles ==
    UNION {On({"newIdeProject"}, n2, 0), On({"patchProject"}, Set(n3, 2, Unset), 2),
           On({"dropIdeProject"}, Nothing, 1),
           On({"putFile"}, main_go, 2), On({"deleteFile", "renameFile"}, Spec_md, 2)}

AllWorkloads == {OneAgent, OneBoard, TwoProjects, OneProject, IdeFiles}

NoFailures == {TwoProjects}

Interchangeable == Permutations(Requests)
=============================================================================
