--------------------------- MODULE MCAgentProcess ---------------------------
(* AgentProcess on small sets of goroutines. *)
EXTENDS AgentProcess, TLC

CONSTANTS r1, r2, s1, w1, p1

Nobody      == {}
OneRestarter == {r1}
TwoRestarters == {r1, r2}
Main        == {s1}
OneWriter   == {w1}
OneProber   == {p1}
=============================================================================
