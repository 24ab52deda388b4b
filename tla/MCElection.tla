----------------------------- MODULE MCElection -----------------------------
(***************************************************************************)
(* Instances of Election for TLC: node ids and clock skews.                *)
(***************************************************************************)
EXTENDS Election, TLC

CONSTANTS p1, p2, n1, n2

\* Each process is its own node.
OwnIds == (p1 :> n1) @@ (p2 :> n2)

\* Two processes share a node id.
SharedId == (p1 :> n1) @@ (p2 :> n1)

NoSkew  == [p \in Procs |-> 0]
OneFast == [p \in Procs |-> IF p = p2 THEN 1 ELSE 0]
=============================================================================
