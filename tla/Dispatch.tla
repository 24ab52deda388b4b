------------------------------ MODULE Dispatch ------------------------------
(***************************************************************************)
(* One interactive request from its routing question to its answer:        *)
(* Dispatcher.Dispatch in internal/app drives internal/router (Route,      *)
(* Report), which consults internal/health's circuit breaker and takes a   *)
(* slot from internal/capacity, and internal/app's budget gate, which      *)
(* holds money on every subject that binds the caller.  Several requests   *)
(* run at once over the same deployments, circuits, slots and budgets.     *)
(*                                                                         *)
(* What a request carries is abstracted to what control depends on: the    *)
(* class of the upstream's answer (Outcomes), the price quoted for a       *)
(* deployment, and the order in which the strategy chain ranks candidates, *)
(* which may be any order.  A time is what is left of it, so no clock      *)
(* grows.  Each call of the health tracker is one step; the capacity       *)
(* broker and the durable ledger are Broker.tla and Ledger.tla, and only   *)
(* what a caller sees of them is here.                                     *)
(***************************************************************************)
EXTENDS Integers, FiniteSets, FiniteSetsExt

CONSTANTS
    Requests,           \* the goroutines that serve requests
    Deployments,        \* every deployment of the model class
    Group,              \* those behind the client's model name
    Large,              \* those with a larger context window than the others
    Slots,              \* deployment -> concurrent requests it may carry
    Subjects,           \* the budget subjects that bind every caller
    Limit,              \* subject -> ceiling
    Quote,              \* deployment -> the estimate of one attempt's price
    Outcomes,           \* the upstream answers that may happen
    MaxHops,            \* Fallback.MaxHops
    QueueWait,          \* the principal has a max_queue_wait
    Hooks,              \* an on_route hook is registered
    Sweeps,             \* deployments declare a timeout, so reservations expire
    FailureThreshold, Cooldown, HalfOpenProbes,          \* health.Options
    AuthCooldown, RetryAfter, RateLimitCooldown, RateLimitCooldownMax,
    StrikeCap           \* the clamp on rlStrikes (32 in the code)

(***************************************************************************)
(* What happened upstream, as backend.Result tells it:                     *)
(*   upstream_5xx  a 5xx, a 409, no connection, an unreadable 2xx body     *)
(*   rate_limit    a 429 that named no recovery time                       *)
(*   retry_after   a 429 that named one                                    *)
(*   quota         a 429 that says the quota is exhausted and names none   *)
(*   credential    a credential dorang holds and cannot use                *)
(*   cut           a stream that broke after its first byte                *)
(*   unsent        a request the encoder or the family check refused       *)
(*   hangup        the client went away while the upstream worked          *)
(***************************************************************************)
AllOutcomes == {"ok", "upstream_5xx", "timeout", "rate_limit", "retry_after", "quota",
                "context_window", "bad_request", "auth", "credential", "cut", "unsent",
                "hangup"}

ASSUME DispatchAssumption ==
    /\ IsFiniteSet(Requests) /\ Outcomes \subseteq AllOutcomes
    /\ Group \subseteq Deployments /\ Large \subseteq Deployments
    /\ Slots \in [Deployments -> Nat] /\ Quote \in [Deployments -> Nat]
    /\ Limit \in [Subjects -> Nat]
    /\ MaxHops \in Nat
    /\ {FailureThreshold, Cooldown, HalfOpenProbes, StrikeCap,
        RateLimitCooldown, RateLimitCooldownMax} \subseteq Nat \ {0}
    /\ {AuthCooldown, RetryAfter} \subseteq Nat

VARIABLES
    circ,       \* health.record of each deployment
    admitted,   \* history: requests let through in the current half-open period
    faults,     \* history: failures of the deployment's own since its last success
    used,       \* capacity slots taken, by deployment
    req,        \* each request's place in Dispatch and its routing session
    held,       \* budget reserved and not settled, by subject
    spent       \* budget settled, by subject

vars == <<circ, admitted, faults, used, req, held, spent>>

None == "none"

\* backendCause and upstreamCause, then Report's Classify and unclassifiedCause
\* for what they left unnamed: with no status at all, that is upstream_5xx.
Cause(o) ==
    CASE o \in {"upstream_5xx", "cut", "hangup", "unsent"} -> "upstream_5xx"
      [] o = "retry_after" -> "rate_limit"
      [] o = "quota"       -> "quota_exhausted"
      [] o = "credential"  -> "auth"
      [] o = "ok"          -> None
      [] OTHER             -> o

Causes == {None, "upstream_5xx", "timeout", "rate_limit", "quota_exhausted",
           "context_window", "bad_request", "auth"}

Chainable(c) == c \notin {None, "budget_exceeded", "auth", "bad_request"}

CountsAgainstAvailability(c) == c \in {"upstream_5xx", "timeout"}

\* Another deployment may be tried: the backend offered it, and the cause has a chain.
Retryable(o) == o \notin {"ok", "cut", "unsent"} /\ (o = "credential" \/ Chainable(Cause(o)))

FirstByteSent(o) == o = "cut"

\* DefaultChains: where a hop looks, the last entry repeating.
Universe(c, hop) ==
    CASE c = None -> Group
      [] c = "context_window" -> Large
      [] c = "timeout" -> Group
      [] OTHER -> IF hop = 1 THEN Group ELSE Deployments

(***************************************************************************)
(* internal/health, one deployment's record.                               *)
(***************************************************************************)
LongestCooldown ==
    Max({Cooldown, AuthCooldown, RetryAfter, RateLimitCooldownMax, RateLimitCooldown})

Circuits == [state : {"closed", "open", "half_open"}, fails : 0..FailureThreshold,
             left : 0..LongestCooldown, probes : -1..HalfOpenProbes, strikes : 0..StrikeCap]

Closed == [state |-> "closed", fails |-> 0, left |-> 0, probes |-> 0, strikes |-> 0]

\* Allow's answer.
Admits(c) == \/ c.state = "closed"
             \/ c.state = "half_open" /\ c.probes > 0
             \/ c.state = "open" /\ c.left = 0

\* Allow's effect: the cooldown over, the circuit half-opens; a probe is spent.
Allowed(c) ==
    CASE c.state = "half_open" -> [c EXCEPT !.probes = Max({@ - 1, -1})]
      [] c.state = "open" /\ c.left = 0 ->
            [c EXCEPT !.state = "half_open", !.probes = HalfOpenProbes - 1]
      [] OTHER -> c

\* MarkUnavailable, and open with the plain cooldown.
MarkUnavailable(c, d) == [c EXCEPT !.state = "open", !.left = Max({d, Cooldown}), !.probes = 0]

Backoff(n) == Min({RateLimitCooldown * 2^(n - 1), Max({RateLimitCooldown, RateLimitCooldownMax})})

\* A 429 while the circuit is open belongs to the same down-period.
MarkRateLimited(c) ==
    LET n == Min({c.strikes + 1, StrikeCap})
    IN IF c.state = "open" THEN c ELSE MarkUnavailable([c EXCEPT !.strikes = n], Backoff(n))

\* Tracker.Report.  Consecutive failures beyond the threshold tell nothing more.
HealthReport(c, o) ==
    LET n == Min({c.fails + 1, FailureThreshold})
        failed == [c EXCEPT !.fails = n]
    IN CASE CountsAgainstAvailability(Cause(o)) ->
                IF c.state = "half_open" \/ (c.state = "closed" /\ n >= FailureThreshold)
                THEN MarkUnavailable(failed, Cooldown) ELSE failed
         [] o = "ok" -> [c EXCEPT !.fails = 0, !.strikes = 0,
                                  !.state = IF @ = "half_open" THEN "closed" ELSE @]
         [] OTHER -> c

\* The switch at the end of Router.Report.
StandDown(c, o) ==
    CASE Cause(o) = "auth" -> MarkUnavailable(c, AuthCooldown)
      [] o = "retry_after" -> MarkUnavailable(c, RetryAfter)
      [] o = "rate_limit"  -> MarkRateLimited(c)
      [] OTHER -> c

\* Every change of a circuit, with its history.
SetCircuit(d, c) ==
    /\ circ' = [circ EXCEPT ![d] = c]
    /\ admitted' = [admitted EXCEPT ![d] = IF c.state = "half_open" THEN @ ELSE 0]

----------------------------------------------------------------------------
(***************************************************************************)
(* A request.  pc is its place; attempts, tried and cause are the router's *)
(* sessionState; cands are the candidates the walk has still to consult    *)
(* and busy those it found saturated; dep is the decision, and live says   *)
(* its reservation is not released; taken are the subjects it holds amt    *)
(* on; outcome is what the attempt came to.                                *)
(***************************************************************************)
Places == {"idle", "route", "walk", "acquire", "queued", "decided", "budget", "attempt",
           "report", "settle"}

Sessions == [pc : Places, attempts : Nat, tried : SUBSET Deployments, cause : Causes,
             cands : SUBSET Deployments, busy : SUBSET Deployments,
             dep : Deployments \cup {None}, live : BOOLEAN, taken : SUBSET Subjects,
             amt : Nat, outcome : AllOutcomes \cup {None}]

Idle == [pc |-> "idle", attempts |-> 0, tried |-> {}, cause |-> None, cands |-> {},
         busy |-> {}, dep |-> None, live |-> FALSE, taken |-> {}, amt |-> 0,
         outcome |-> None]

Init ==
    /\ circ = [d \in Deployments |-> Closed]
    /\ admitted = [d \in Deployments |-> 0]
    /\ faults = [d \in Deployments |-> 0]
    /\ used = [d \in Deployments |-> 0]
    /\ req = [r \in Requests |-> Idle]
    /\ held = [s \in Subjects |-> 0]
    /\ spent = [s \in Subjects |-> 0]

At(r, l) == req[r].pc = l

\* Route: the universe less what was tried.  Quota, capability, ceiling and
\* window may each remove any of the rest.
CandidatesAgain(r) == Universe(req[r].cause, req[r].attempts)

Candidates(r) == Universe(req[r].cause, req[r].attempts) \ req[r].tried

Route(r) ==
    /\ At(r, "route")
    /\ \E cs \in SUBSET Candidates(r) :
          req' = [req EXCEPT ![r] = IF cs = {} THEN Idle
                                    ELSE [@ EXCEPT !.pc = "walk", !.cands = cs, !.busy = {}]]
    /\ UNCHANGED <<circ, admitted, faults, used, held, spent>>

\* A client's request reaches Dispatch.
Arrive(r) ==
    /\ At(r, "idle")
    /\ req' = [req EXCEPT ![r].pc = "route"]
    /\ UNCHANGED <<circ, admitted, faults, used, held, spent>>

\* Router.dispatch's walk: health.Allow for the next candidate.
Consult(r, d) ==
    /\ At(r, "walk") /\ d \in req[r].cands
    /\ LET c == Allowed(circ[d])
       IN /\ circ' = [circ EXCEPT ![d] = c]
          /\ admitted' = [admitted EXCEPT ![d] =
                 IF Admits(circ[d]) /\ c.state = "half_open" THEN @ + 1 ELSE @]
    /\ req' = [req EXCEPT ![r].cands = @ \ {d},
                          ![r].dep = IF Admits(circ[d]) THEN d ELSE @,
                          ![r].pc = IF Admits(circ[d]) THEN "acquire" ELSE @]
    /\ UNCHANGED <<faults, used, held, spent>>

Decided(r, d) == [req[r] EXCEPT !.pc = "decided", !.dep = d, !.live = TRUE, !.cands = {},
                                !.busy = {}, !.attempts = @ + 1, !.tried = @ \cup {d}]

\* capacity.TryAcquire, then decide; a saturated candidate is passed over.
TryAcquire(r) ==
    /\ At(r, "acquire")
    /\ LET d == req[r].dep
       IN IF used[d] < Slots[d]
          THEN /\ used' = [used EXCEPT ![d] = @ + 1]
               /\ req' = [req EXCEPT ![r] = Decided(r, d)]
          ELSE /\ req' = [req EXCEPT ![r].pc = "walk", ![r].dep = None,
                                     ![r].busy = @ \cup {d}]
               /\ UNCHANGED used
    /\ UNCHANGED <<circ, admitted, faults, held, spent>>

\* The walk is over, or stops before a pool of lower priority: queue, or refuse.
EndWalk(r) ==
    /\ At(r, "walk")
    /\ \/ req[r].cands = {}
       \/ req[r].busy # {} /\ QueueWait
    /\ req' = [req EXCEPT ![r] = IF QueueWait /\ req[r].busy # {}
                                 THEN [@ EXCEPT !.pc = "queued", !.cands = {}] ELSE Idle]
    /\ UNCHANGED <<circ, admitted, faults, used, held, spent>>

\* capacity.Acquire grants a slot of one of the busy candidates ...
Granted(r, d) ==
    /\ At(r, "queued") /\ d \in req[r].busy
    /\ used[d] < Slots[d]
    /\ used' = [used EXCEPT ![d] = @ + 1]
    /\ req' = [req EXCEPT ![r] = Decided(r, d)]
    /\ UNCHANGED <<circ, admitted, faults, held, spent>>

\* ... or the wait budget runs out.
WaitedForSlot(r) ==
    /\ At(r, "queued")
    /\ \E d \in req[r].busy : used[d] < Slots[d]
    /\ req' = [req EXCEPT ![r] = Idle]
    /\ UNCHANGED <<circ, admitted, faults, used, held, spent>>

WaitedOut(r) ==
    /\ At(r, "queued")
    /\ req' = [req EXCEPT ![r] = Idle]
    /\ UNCHANGED <<circ, admitted, faults, used, held, spent>>

----------------------------------------------------------------------------
\* Mutant of ReleasedSlots: the slot is not given back.
SlotsKept(r) == used

\* Reservation.Release is idempotent: only a live one gives its slot back.
ReleasedSlots(r) ==
    IF req[r].live THEN [used EXCEPT ![req[r].dep] = @ - 1] ELSE used

\* The broker's sweeper reclaims a reservation past its TTL; the call goes on.
Sweep(r) ==
    /\ Sweeps
    /\ At(r, "attempt") /\ req[r].live
    /\ used' = ReleasedSlots(r)
    /\ req' = [req EXCEPT ![r].live = FALSE]
    /\ UNCHANGED <<circ, admitted, faults, held, spent>>

\* The on_route hook: a refusal releases the slot and reports nothing.
OnRoute(r) ==
    /\ At(r, "decided")
    /\ \/ /\ req' = [req EXCEPT ![r].pc = "budget", ![r].amt = Quote[req[r].dep]]
          /\ UNCHANGED used
       \/ /\ Hooks
          /\ used' = ReleasedSlots(r)
          /\ req' = [req EXCEPT ![r] = Idle]
    /\ UNCHANGED <<circ, admitted, faults, held, spent>>

\* budgetHold.release: every hold taken is given back.
HoldsKept(r) == held

ReleasedHolds(r) ==
    [s \in Subjects |-> IF s \in req[r].taken THEN held[s] - req[r].amt ELSE held[s]]

\* Ledger.Reserve for one more subject.
Reserve(r, s) ==
    /\ At(r, "budget") /\ s \notin req[r].taken
    /\ spent[s] + held[s] + req[r].amt <= Limit[s]
    /\ held' = [held EXCEPT ![s] = @ + req[r].amt]
    /\ req' = [req EXCEPT ![r].taken = @ \cup {s}]
    /\ UNCHANGED <<circ, admitted, faults, used, spent>>

\* A subject refuses, or the ledger cannot be reached: the holds already taken
\* are released and the decision is reported as budget_exceeded, which is
\* neither a failure nor a success of the deployment.
Refused(r) ==
    /\ At(r, "budget") /\ req[r].taken # Subjects
    /\ held' = ReleasedHolds(r)
    /\ used' = ReleasedSlots(r)
    /\ req' = [req EXCEPT ![r] = Idle]
    /\ UNCHANGED <<circ, admitted, faults, spent>>

Send(r) ==
    /\ At(r, "budget") /\ req[r].taken = Subjects
    /\ req' = [req EXCEPT ![r].pc = "attempt"]
    /\ UNCHANGED <<circ, admitted, faults, used, held, spent>>

----------------------------------------------------------------------------
\* backend.Do returns; Router.Report releases the slot and tells the tracker.
Answer(r, o) ==
    /\ At(r, "attempt")
    /\ LET d == req[r].dep
       IN /\ used' = ReleasedSlots(r)
          /\ SetCircuit(d, HealthReport(circ[d], o))
          /\ faults' = [faults EXCEPT ![d] =
                 CASE o = "ok" -> 0
                   [] o \in {"upstream_5xx", "timeout", "cut"} -> Min({@ + 1, FailureThreshold})
                   [] OTHER -> @]
          /\ req' = [req EXCEPT ![r].pc = "report", ![r].live = FALSE, ![r].outcome = o]
    /\ UNCHANGED <<held, spent>>

\* The rest of Router.Report: the stand-down and the session's cause.
Report(r) ==
    /\ At(r, "report")
    /\ SetCircuit(req[r].dep, StandDown(circ[req[r].dep], req[r].outcome))
    /\ req' = [req EXCEPT ![r].pc = "settle", ![r].cause = Cause(req[r].outcome)]
    /\ UNCHANGED <<faults, used, held, spent>>

\* settle and hold.settle: the quoted price bounds what the answer costs.
Settle(r, cost) ==
    /\ At(r, "settle") /\ req[r].outcome = "ok"
    /\ cost \in 0..req[r].amt
    /\ held' = ReleasedHolds(r)
    /\ spent' = [s \in Subjects |-> IF s \in req[r].taken THEN spent[s] + cost ELSE spent[s]]
    /\ req' = [req EXCEPT ![r] = Idle]
    /\ UNCHANGED <<circ, admitted, faults, used>>

\* canFallBack, for an attempt that was reported and failed.
CanFallBack(r) ==
    /\ ~FirstByteSent(req[r].outcome)
    /\ Chainable(req[r].cause)
    /\ req[r].attempts <= MaxHops

\* The attempt produced no answer: the holds are released, and the request hops
\* or returns its error.  The fall-back's wall clock may have run out.
GiveUp(r) ==
    /\ At(r, "settle") /\ req[r].outcome # "ok"
    /\ held' = ReleasedHolds(r)
    /\ req' = [req EXCEPT ![r] = Idle]
    /\ UNCHANGED <<circ, admitted, faults, used, spent>>

Hop(r) ==
    /\ At(r, "settle") /\ req[r].outcome # "ok"
    /\ Retryable(req[r].outcome) /\ CanFallBack(r)
    /\ held' = ReleasedHolds(r)
    /\ req' = [req EXCEPT ![r] = [@ EXCEPT !.pc = "route", !.dep = None, !.taken = {},
                                           !.amt = 0, !.outcome = None]]
    /\ UNCHANGED <<circ, admitted, faults, used, spent>>

Tick ==
    /\ \E d \in Deployments : circ[d].left > 0
    /\ circ' = [d \in Deployments |-> [circ[d] EXCEPT !.left = Max({@ - 1, 0})]]
    /\ UNCHANGED <<admitted, faults, used, req, held, spent>>

----------------------------------------------------------------------------
Step(r) ==
    \/ Route(r) \/ TryAcquire(r) \/ EndWalk(r) \/ WaitedOut(r) \/ OnRoute(r)
    \/ \E s \in Subjects : Reserve(r, s)
    \/ Refused(r) \/ Send(r) \/ Report(r) \/ GiveUp(r) \/ Hop(r)
    \/ \E d \in Deployments : Consult(r, d) \/ Granted(r, d)
    \/ \E o \in Outcomes : Answer(r, o)
    \/ \E c \in 0..Max({Quote[d] : d \in Deployments}) : Settle(r, c)

Next == \/ Tick
        \/ \E r \in Requests : Arrive(r) \/ Step(r) \/ Sweep(r)

Spec == Init /\ [][Next]_vars

\* Every call in flight comes to its end: the waits are bounded, the upstream
\* call has a deadline, and the ledger answers.  Time passes.
FairSpec == Spec /\ WF_vars(Tick) /\ \A r \in Requests : WF_vars(Step(r))

----------------------------------------------------------------------------
\* Type correctness of the circuits, the slots, the budgets and the sessions; no
\* slot and no hold is given back more often than it was taken.
TypeOK ==
    /\ circ \in [Deployments -> Circuits]
    /\ admitted \in [Deployments -> Nat]
    /\ faults \in [Deployments -> 0..FailureThreshold]
    /\ used \in [Deployments -> Nat]
    /\ req \in [Requests -> Sessions]
    /\ held \in [Subjects -> Nat] /\ spent \in [Subjects -> Nat]

\* Every slot in use belongs to exactly one request that holds it, whichever of
\* the hook, the budget gate, the report, the sweeper or a hop ended its decision:
\* none leaks and none is returned twice (Router.Report, Reservation.Release).
SlotsMatch ==
    /\ \A d \in Deployments :
          used[d] = Cardinality({r \in Requests : req[r].live /\ req[r].dep = d})
    /\ \A r \in Requests : req[r].pc \in {"idle", "route", "settle"} => ~req[r].live

\* The units of subject s's budget that requests in flight hold, each with its holder.
UnitsHeld(s) == UNION {{r} \X (1 .. req[r].amt) : r \in {x \in Requests : s \in req[x].taken}}

\* What the budget gate has reserved is exactly what the requests in flight hold,
\* subject by subject, and with what was settled it never exceeds the ceiling:
\* a second subject's refusal or a failed hop gives the first one's hold back.
BudgetExact ==
    \A s \in Subjects :
        /\ held[s] = Cardinality(UnitsHeld(s))
        /\ spent[s] + held[s] <= Limit[s]

\* A request attempts no deployment twice and makes at most MaxHops + 1 attempts,
\* whatever the upstreams answer and however wide the chain's targets are.
HopsBounded ==
    \A r \in Requests : /\ req[r].attempts <= MaxHops + 1
                        /\ Cardinality(req[r].tried) = req[r].attempts

\* While a circuit is half-open at most HalfOpenProbes requests have been let
\* through to the deployment, of all the requests that consult it at once.
OneProbe == \A d \in Deployments : admitted[d] <= HalfOpenProbes

\* The bounds that several requests, hops and circuits at work at once have to keep:
\* types, attempts of a request, requests let through a half-open circuit.
WithinBounds == TypeOK /\ HopsBounded /\ OneProbe

\* Every request that reaches Dispatch is answered or refused, also one that
\* queues for a slot nobody gives back.
Terminates == \A r \in Requests : At(r, "route") ~> At(r, "idle")

\* internal/router: an open circuit is shared by every tenant, "so the bar for
\* counting something is that the deployment itself is at fault".  Does not hold of
\* the code, see the README.
OwnFaults == \A d \in Deployments : circ[d].fails <= faults[d]

\* internal/health: "a lost probe delays recovery rather than preventing it".  As
\* long as requests keep asking for the deployment, its circuit leaves half-open.
\* Does not hold of the code, see the README.
ProbeRecovers ==
    \A d \in Deployments :
        []<><<\E r \in Requests : Consult(r, d)>>_vars
            => (circ[d].state = "half_open" ~> circ[d].state # "half_open")
=============================================================================
