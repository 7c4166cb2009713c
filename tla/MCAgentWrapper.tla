--------------------------- MODULE MCAgentWrapper ---------------------------
(* AgentWrapper on small sets of goroutines. *)
EXTENDS AgentWrapper, TLC

CONSTANTS h1, c1, c2, w1, p1

Nobody            == {}
OneCallback       == {c1}
TwoCallbacks      == {c1, c2}
HandlerOnly       == {h1}
HandlerAndCallback == {h1, c1}
Main              == {main}
OneWriter         == {w1}
OneProber         == {p1}
Writes            == {"write"}
Swaps             == {"swap"}
AllChanges        == {"write", "swap"}
=============================================================================
