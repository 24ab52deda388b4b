------------------------------- MODULE MCBatch -------------------------------
(* The batch service for TLC: one batch of two rows, and one of a single row   *)
(* that competes with it for the dispatch slot.                                *)
EXTENDS Batch

CONSTANTS b1, b2, r1, r2

MCRowsOf == [b \in Batches |-> IF b = b1 THEN {r1, r2} ELSE {r2}]
=============================================================================
