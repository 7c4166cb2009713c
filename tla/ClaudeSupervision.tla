-------------------------- MODULE ClaudeSupervision --------------------------
(***************************************************************************)
(* What the agent wrapper promises of the Claude CLI it manages: its       *)
(* generations follow one another, each one runs, exits, and has its exit  *)
(* announced (the done channel) before the next one is spawned.            *)
(***************************************************************************)
EXTENDS Naturals

VARIABLES
    generation,     \* how many children there have been
    state           \* the current one: "running", "exited", "announced"

vars == <<generation, state>>

Init == generation = 1 /\ state = "running"

Exit ==
    /\ state = "running"
    /\ state' = "exited"
    /\ UNCHANGED generation

Announce ==
    /\ state = "exited"
    /\ state' = "announced"
    /\ UNCHANGED generation

Respawn ==
    /\ state = "announced"
    /\ state' = "running"
    /\ generation' = generation + 1

Next == Exit \/ Announce \/ Respawn

Spec == Init /\ [][Next]_vars
=============================================================================
