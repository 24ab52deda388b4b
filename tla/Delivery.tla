------------------------------ MODULE Delivery ------------------------------
(***************************************************************************)
(* What a spool promises, without segments, cursors, buffers or crashes:   *)
(* at-least-once delivery.  A trace the spool has accepted is held until   *)
(* it is in the sink, and the only thing that ends a hold is delivery.  A  *)
(* held trace may be delivered again (the sink is keyed by request id), a  *)
(* forgotten one never comes back.                                         *)
(***************************************************************************)
EXTENDS FiniteSets

CONSTANT Traces

VARIABLES
    held,   \* accepted, and found again by whoever opens the spool next
    rows    \* in the sink

vars == <<held, rows>>

TypeOK == held \subseteq Traces /\ rows \subseteq Traces

Init == held = {} /\ rows = {}

Accept(t) ==
    /\ t \notin held \cup rows
    /\ held' = held \cup {t}
    /\ UNCHANGED rows

Deliver(batch) ==
    /\ batch \subseteq held
    /\ rows' = rows \cup batch
    /\ UNCHANGED held

Forget(batch) ==
    /\ batch \subseteq held \cap rows
    /\ held' = held \ batch
    /\ UNCHANGED rows

Next ==
    \/ \E t \in Traces : Accept(t)
    \/ \E batch \in SUBSET Traces : Deliver(batch) \/ Forget(batch)

Spec == Init /\ [][Next]_vars
=============================================================================
