--------------------------- MODULE AgentLifecycle ---------------------------
(***************************************************************************)
(* What the API promises of the workspace of an agent: it is made once, an *)
(* agent that is stopped and started again finds the one it left, and only *)
(* a delete, which does not pull it from under a running agent, ends it.   *)
(***************************************************************************)
CONSTANTS Agents, Workspaces, Nothing

VARIABLES
    kept,       \* the workspace of each agent
    condemned,  \* the agents whose workspace is being deleted
    mounted     \* the workspace in which each agent runs

vars == <<kept, condemned, mounted>>

Init ==
    /\ kept \in [Agents -> Workspaces \cup {Nothing}]
    /\ condemned = {}
    /\ mounted \in [Agents -> Workspaces \cup {Nothing}]
    /\ \A a \in Agents : mounted[a] \in {kept[a], Nothing}

Provision(a) ==
    /\ kept[a] = Nothing
    /\ \E w \in Workspaces : kept' = [kept EXCEPT ![a] = w]
    /\ UNCHANGED <<condemned, mounted>>

Start(a) ==
    /\ mounted[a] = Nothing /\ kept[a] # Nothing /\ a \notin condemned
    /\ mounted' = [mounted EXCEPT ![a] = kept[a]]
    /\ UNCHANGED <<kept, condemned>>

Stop(a) ==
    /\ mounted[a] # Nothing
    /\ mounted' = [mounted EXCEPT ![a] = Nothing]
    /\ UNCHANGED <<kept, condemned>>

Condemn(a) ==
    /\ kept[a] # Nothing
    /\ condemned' = condemned \cup {a}
    /\ UNCHANGED <<kept, mounted>>

Destroy(a) ==
    /\ a \in condemned /\ mounted[a] = Nothing
    /\ kept' = [kept EXCEPT ![a] = Nothing]
    /\ condemned' = condemned \ {a}
    /\ UNCHANGED mounted

Next ==
    \E a \in Agents : Provision(a) \/ Start(a) \/ Stop(a) \/ Condemn(a) \/ Destroy(a)

Spec == Init /\ [][Next]_vars
=============================================================================
