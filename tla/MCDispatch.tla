----------------------------- MODULE MCDispatch -----------------------------
(***************************************************************************)
(* Instances of Dispatch for TLC: every deployment has one slot, an        *)
(* attempt is quoted at one unit and a subject may spend one, so that a    *)
(* second request meets a full deployment and an empty budget.             *)
(***************************************************************************)
EXTENDS Dispatch

MCSlots == [d \in Deployments |-> 1]
MCQuote == [d \in Deployments |-> 1]
MCLimit == [s \in Subjects |-> 1]
=============================================================================
