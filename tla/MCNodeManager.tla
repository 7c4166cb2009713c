--------------------------- MODULE MCNodeManager ---------------------------
(* NodeManager on a cluster of three nodes and one machine to provision. *)
EXTENDS NodeManager, TLC

CONSTANTS r1, r2, m1, m2, m3, m4, a

\* The members are alike, and so are the requests.
Interchangeable == Permutations({m1, m2, m3}) \cup Permutations(Requests)
=============================================================================
