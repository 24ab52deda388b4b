------------------------------ MODULE MCBroker ------------------------------
(***************************************************************************)
(* Instances of Broker for TLC: what each caller asks for, per run.        *)
(* Every key is an axis of its own.                                        *)
(***************************************************************************)
EXTENDS Broker, TLC

CONSTANTS a, b, c, d, e, c1, c2, c3, c4

OwnAxes == [k \in Keys |->
    CASE k = a -> 1 [] k = b -> 2 [] k = c -> 3 [] k = d -> 4 [] OTHER -> 5]

AllOne  == [k \in Keys |-> 1]
DFree   == [k \in Keys |-> IF k = d THEN 0 ELSE 2]
AllZero == [k \in Keys |-> 0]
BShort  == [k \in Keys |-> IF k = b THEN 1 ELSE 0]

Wait(N)  == [cands |-> <<N>>, pref |-> 1, spill |-> FALSE, batch |-> FALSE, timed |-> FALSE]
Timed(N) == [Wait(N) EXCEPT !.timed = TRUE]
Batch(N) == [Wait(N) EXCEPT !.batch = TRUE]
Spill(cands, pref) ==
    [cands |-> cands, pref |-> pref, spill |-> TRUE, batch |-> FALSE, timed |-> FALSE]

\* Risk W8: one caller needs two axes against single-axis traffic on each, while
\* another waits for either of two candidates whose axes the same traffic pins.
W8Requests ==
    (c1 :> {Wait({a, b})}) @@ (c2 :> {Wait({a}), Wait({d})}) @@ (c3 :> {Wait({b}), Wait({e})})
    @@ (c4 :> {Spill(<<{c, d}, {d, e}>>, 1)})

\* Batch and interactive work, one of it with an axis that has no ceiling and a
\* bounded wait; with half of every ceiling kept for interactive work, one release
\* probes the batch waiters on several keys in turn, and a node that shares the
\* ceilings with another has nothing left for batch work.
MixedRequests ==
    (c1 :> {Timed({a, b, c, d}), Wait({a})}) @@ (c2 :> {Wait({a}), Wait({c})})
    @@ (c3 :> {Batch({a, c})}) @@ (c4 :> {Batch({b, c})})
=============================================================================
