----------------------------- MODULE MCAccounts -----------------------------
(***************************************************************************)
(* Instances of Accounts for TLC.                                           *)
(***************************************************************************)
EXTENDS Accounts, TLC

CONSTANTS n1, n2, c1, c2, c3

\* Two calls on one node, one on another.
TwoAndOne == [c \in Calls |-> IF c = c3 THEN n2 ELSE n1]
=============================================================================
