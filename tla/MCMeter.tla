------------------------------- MODULE MCMeter -------------------------------
(* The meter for TLC: events are numbers, so nothing here is symmetric. *)
EXTENDS Meter
=============================================================================
