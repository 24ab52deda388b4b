------------------------------ MODULE MCLedger ------------------------------
(***************************************************************************)
(* Instances of Ledger for TLC: symmetry of requests and of nodes.          *)
(***************************************************************************)
EXTENDS Ledger, TLC

CONSTANTS n1, n2, c1, c2

Interchangeable == Permutations(Callers) \cup Permutations(Nodes)
=============================================================================
