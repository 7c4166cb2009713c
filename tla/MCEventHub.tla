----------------------------- MODULE MCEventHub -----------------------------
(* EventHub with a filtered and an unfiltered session. *)
EXTENDS EventHub, TLC

CONSTANTS s1, s2, p1, p2, nodes, ready, error

MCTopic     == s1 :> nodes @@ s2 :> nodes
MCFilter    == s1 :> {} @@ s2 :> {ready}
MCMaxEvents == p1 :> 2 @@ p2 :> 1
=============================================================================
