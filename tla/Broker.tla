------------------------------- MODULE Broker -------------------------------
(***************************************************************************)
(* The capacity broker of internal/capacity: one in-process admission      *)
(* controller that reserves several concurrency axes at once or none.      *)
(*                                                                         *)
(* A key is one counted axis key (bucket).  A request names candidates,    *)
(* each needing a set of keys with at most one key per axis; all of them   *)
(* are taken in one critical section.  A request that does not fit waits   *)
(* in the queue of the first full key of every candidate, and a release    *)
(* probes the heads of exactly the queues it freed.  A waiter that keeps   *)
(* failing such probes sets units aside for itself (soft reservations).    *)
(*                                                                         *)
(* Every operation of the broker runs under one mutex.  The pass that a    *)
(* release runs under it (releaseLocked, drainLocked, serveLocked) is      *)
(* broken into one step per probe, and nothing else that needs the mutex   *)
(* is enabled until the pass ends; SetShare is the one lock-free write.    *)
(*                                                                         *)
(* A reservation belongs to the caller that acquired it, so held[c] and    *)
(* live name reservations by their caller.  The mode with accounts shared  *)
(* through PostgreSQL (Config.SharedAccounts) is not part of this module.  *)
(***************************************************************************)
EXTENDS Integers, FiniteSets, Sequences

CONSTANTS
    Keys,               \* counted axis keys
    Axis,               \* position of each key's axis in the fixed axis order
    Limit,              \* configured ceiling of each key, 0 for unlimited
    QueueLimit,         \* configured max_queue of each key, 0 for unbounded
    Callers,            \* goroutines that call Acquire and TryAcquire
    Requests,           \* the set of requests each caller may present
    ResNum, ResDen,     \* InteractiveReserve = ResNum / ResDen
    WakeSlack,          \* extra probes a release may make per key
    MaxProbePerRelease, \* cap on the probes per key and on the parked waiters
    MaxBlockAxes,       \* cap on the queues one waiter sits in
    SoftOn,             \* soft reservations enabled
    SoftAfter,          \* failed probes before a waiter may set units aside
    BounceCap,          \* bound: failed probes are counted up to it
    MaxShare,           \* bound: largest node count SetShare is told
    None,               \* no bucket, no claimant, no key
    NoClaimant          \* the sentinel tryLocked is given for a fresh request

ASSUME KeyAssumption ==
    /\ Axis \in [Keys -> Nat]
    /\ Limit \in [Keys -> Nat]
    /\ QueueLimit \in [Keys -> Nat]

ASSUME CallerAssumption == IsFiniteSet(Callers)

ASSUME NoneAssumption ==
    /\ None \notin Callers
    /\ NoClaimant \notin Callers
    /\ NoClaimant # None
    /\ None \notin Keys
    /\ None \notin Nat

ASSUME ParameterAssumption ==
    /\ ResNum \in Nat /\ ResDen \in Nat \ {0} /\ ResNum <= ResDen
    /\ WakeSlack \in Nat
    /\ MaxProbePerRelease \in Nat \ {0}
    /\ MaxBlockAxes \in Nat \ {0}
    /\ SoftOn \in BOOLEAN
    /\ SoftAfter \in Nat \ {0}
    /\ BounceCap \in Nat /\ BounceCap >= SoftAfter
    /\ MaxShare \in Nat \ {0}

AllRequests == UNION {Requests[c] : c \in Callers}

(* A request: its candidates in declaration order (each the set of the     *)
(* axis keys it names, the request's own included), the position of the    *)
(* preferred one, whether it spills, whether it is batch work and whether  *)
(* its principal has a wait budget.  A request without candidates is one   *)
(* implicit candidate that names the non-credential keys.                  *)
ASSUME RequestAssumption ==
    /\ None \notin AllRequests
    /\ \A r \in AllRequests :
        /\ r = [cands |-> r.cands, pref |-> r.pref, spill |-> r.spill,
                batch |-> r.batch, timed |-> r.timed]
        /\ r.cands \in Seq(SUBSET Keys)
        /\ r.pref \in 1 .. Len(r.cands)
        /\ r.spill \in BOOLEAN /\ r.batch \in BOOLEAN /\ r.timed \in BOOLEAN
        /\ \A i \in 1 .. Len(r.cands) :
               \A j, k \in r.cands[i] : Axis[j] = Axis[k] => j = k

VARIABLES
    \* bucket
    inUse,      \* committed reservations plus the soft reservation
    claimant,   \* the waiter holding the key's soft reservation
    queueMax,   \* depth ceiling stamped on the bucket, None before it exists
    \* waiter and reservation
    phase,      \* where each caller stands
    req,        \* the request it presented
    ahead,      \* the waiters with a smaller arrival sequence
    at,         \* the queues it sits in
    bounces,    \* failed probes, counted up to BounceCap
    stall,      \* armed probes in a row that grew no claim, up to BounceCap
    claimIdx,   \* attempt-order position of the candidate it claims over
    held,       \* the keys of its reservation
    live,       \* the callers whose reservation is not released
    \* broker
    share,      \* node count that divides every ceiling
    closed,
    \* the pass running under the mutex
    doomed,     \* expired reservations still to be released by this sweep
    todo,       \* sets of keys still to be served this round, axis by axis
    pending,    \* sets of keys a dropped claim freed, for the next round
    cur,        \* the key being served
    budget,     \* probes left on it; 0 once its freed unit is spent
    park,       \* waiters taken out of its queue until it is done
    probed      \* waiters this round has already probed

bucketVars == <<inUse, claimant, queueMax>>
waiterVars == <<phase, req, ahead, at, bounces, stall, claimIdx>>
resVars    == <<held, live>>
passVars   == <<doomed, todo, pending, cur, budget, park, probed>>
vars == <<bucketVars, waiterVars, resVars, share, closed, passVars>>

Phases == {"idle", "waiting", "granted", "failed", "held"}

-----------------------------------------------------------------------------
(* Requests and their candidates.                                          *)

\* candidateCount: with Wait only the preferred candidate is ever tried.
CandidateCount(r) == IF r.spill THEN Len(r.cands) ELSE 1

Attempts(r) == 1 .. CandidateCount(r)

\* The preferred candidate first, then the others in declaration order.
CandidateAt(r, i) ==
    CASE i = 1               -> r.cands[r.pref]
      [] i > 1 /\ i <= r.pref -> r.cands[i - 1]
      [] OTHER               -> r.cands[i]

\* The keys a candidate is counted on: an unlimited axis is omitted.
Needs(r, i) == {k \in CandidateAt(r, i) : Limit[k] > 0}

\* The key of a set that comes first in axis order.
FirstIn(S) == CHOOSE k \in S : \A j \in S : Axis[k] <= Axis[j]

\* Batch work under a reserve sees a lower ceiling on every axis.
Reserved(r) == r.batch /\ ResNum > 0

\* divideByShare: this node's part of a configured ceiling, never zero.
NodeLimit(k) ==
    IF share <= 1 THEN Limit[k]
    ELSE IF Limit[k] \div share > 0 THEN Limit[k] \div share ELSE 1

\* effLimit for batch work: the part of a ceiling the reserve leaves it.
EffLimit(k) == (NodeLimit(k) * (ResDen - ResNum)) \div ResDen

-----------------------------------------------------------------------------
(* The multi-axis check (checkLocked, checkReservedLocked, tryLocked).  w  *)
(* is the waiter on whose behalf it runs, or NoClaimant.                   *)

\* Mutants of Full: one unit too many; the interactive reserve forgotten.
FullOffByOne(k, r, w) ==
    IF Reserved(r) THEN inUse[k] > EffLimit(k) ELSE inUse[k] > NodeLimit(k)

FullUnreserved(k, r, w) ==
    /\ inUse[k] >= NodeLimit(k)
    /\ claimant[k] # w \/ inUse[k] - 1 >= NodeLimit(k)

Full(k, r, w) ==
    IF Reserved(r)
    THEN inUse[k] >= EffLimit(k)
    ELSE /\ inUse[k] >= NodeLimit(k)
         /\ claimant[k] # w \/ inUse[k] - 1 >= NodeLimit(k)

Blockers(r, i, w) == {k \in Needs(r, i) : Full(k, r, w)}

BlockAt(r, i, w) == FirstIn(Blockers(r, i, w))

\* The candidate is blocked by a ceiling of zero, which no release can help.
Permanent(r, i, w) ==
    /\ Blockers(r, i, w) # {}
    /\ Reserved(r)
    /\ EffLimit(BlockAt(r, i, w)) = 0

Admitting(r, w) == {i \in Attempts(r) : Blockers(r, i, w) = {}}

\* The first candidate, in attempt order, whose keys all have room.
Winner(r, w) == CHOOSE i \in Admitting(r, w) : \A j \in Admitting(r, w) : i <= j

Retryable(r, w) == {i \in Attempts(r) : ~Permanent(r, i, w)}

\* The keys to wait on: one per candidate, the first MaxBlockAxes distinct ones.
Blocking(r, w) ==
    LET before(i) == {BlockAt(r, j, w) : j \in {n \in Retryable(r, w) : n < i}}
    IN  {BlockAt(r, i, w) :
            i \in {n \in Retryable(r, w) : Cardinality(before(n)) < MaxBlockAxes}}

-----------------------------------------------------------------------------
(* Queues and soft reservations.                                           *)

Waiting == {c \in Callers : phase[c] = "waiting"}

\* The waiters in the heap of k: those parked by the pass are out of it.
Queue(k) == {c \in Callers : k \in at[c] /\ (k = cur => c \notin park)}

IsHead(c, k) == c \in Queue(k) /\ Queue(k) \cap ahead[c] = {}

\* queueFullLocked: some key the request would wait on has a full queue.
QueueFull(r) ==
    \E k \in Blocking(r, NoClaimant) :
        /\ queueMax[k] # None
        /\ queueMax[k] > 0
        /\ Cardinality(Queue(k)) >= queueMax[k]

Claims(w) == {k \in Keys : claimant[k] = w}

\* releaseClaimsLocked looks for claims only on the axes of claimIdx.
ClaimNeeds(w) == Needs(req[w], claimIdx[w])

Droppable(w) == Claims(w) \cap ClaimNeeds(w)

\* candidateNeeding: the first candidate, in attempt order, that needs k.
CandidateNeeding(r, k) ==
    CHOOSE i \in Attempts(r) :
        /\ k \in Needs(r, i)
        /\ \A j \in Attempts(r) : k \in Needs(r, j) => i <= j

\* claimableLocked, in the state where w has just given the claims D back: a
\* unit is free, unclaimed, and no waiter older than w heads the queue.
Claimable(k, w, D) ==
    /\ claimant[k] = None \/ k \in D
    /\ inUse[k] - (IF k \in D THEN 1 ELSE 0) < NodeLimit(k)
    /\ (Queue(k) \ {w}) \cap ahead[w] = {}

\* Mutant of NewClaims: the walk skips an axis it cannot claim.
NewClaimsScattered(w, i, D) ==
    {k \in Needs(req[w], i) : Claimable(k, w, D)} \ (Claims(w) \ D)

\* The keys extendClaimsLocked adds to the claims w keeps after dropping D: it
\* walks the axes of candidate i and stops at the first it cannot have.
NewClaims(w, i, D) ==
    LET kept    == Claims(w) \ D
        N       == Needs(req[w], i)
        have(j) == j \in kept \/ Claimable(j, w, D)
    IN  {k \in N : \A j \in N : Axis[j] <= Axis[k] => have(j)} \ kept

\* A waiter's claims stop making progress after SoftAfter armed probes; it then
\* moves them to the candidate that needs the key being served.
Rotates(w) ==
    /\ stall[w] >= SoftAfter
    /\ CandidateCount(req[w]) > 1
    /\ CandidateNeeding(req[w], cur) # claimIdx[w]

\* Mutant of Armed: the guard never arms.
ArmedNever(w) == FALSE

\* extendClaimsLocked runs on a probe that failed often enough.
Armed(w) ==
    /\ SoftOn
    /\ bounces[w] + 1 >= SoftAfter
    /\ ~Reserved(req[w])

\* The claims a rotation gives back before it moves to another candidate.
RotationDrops(w) == IF Armed(w) /\ Rotates(w) THEN Droppable(w) ELSE {}

\* Mutant of ProbeBudget: only as many probes as units were freed.
ProbeBudgetExact == 1

\* One unit was freed: that many probes plus the slack, under the hard cap.
ProbeBudget ==
    IF 1 + WakeSlack > MaxProbePerRelease THEN MaxProbePerRelease ELSE 1 + WakeSlack

Saturate(n) == IF n < BounceCap THEN n ELSE BounceCap

AppendSet(s, S) == IF S = {} THEN s ELSE Append(s, S)

-----------------------------------------------------------------------------
Init ==
    /\ inUse = [k \in Keys |-> 0]
    /\ claimant = [k \in Keys |-> None]
    /\ queueMax = [k \in Keys |-> None]
    /\ phase = [c \in Callers |-> "idle"]
    /\ req = [c \in Callers |-> None]
    /\ ahead = [c \in Callers |-> {}]
    /\ at = [c \in Callers |-> {}]
    /\ bounces = [c \in Callers |-> 0]
    /\ stall = [c \in Callers |-> 0]
    /\ claimIdx = [c \in Callers |-> 1]
    /\ held = [c \in Callers |-> {}]
    /\ live = {}
    /\ share = 1
    /\ closed = FALSE
    /\ doomed = {}
    /\ todo = <<>>
    /\ pending = <<>>
    /\ cur = None
    /\ budget = 0
    /\ park = {}
    /\ probed = {}

\* No pass is running: the mutex can be taken.
LockFree == cur = None /\ todo = <<>> /\ pending = <<>> /\ doomed = {}

-----------------------------------------------------------------------------
(* Building blocks of the actions.                                         *)

\* commitLocked: w takes every key of N; a unit it had claimed is already
\* counted.  The buckets it creates carry the configured queue ceiling.
Commit(c, N, w) ==
    /\ inUse' = [k \in Keys |-> IF k \in N /\ claimant[k] # w
                                THEN inUse[k] + 1 ELSE inUse[k]]
    /\ queueMax' = [k \in Keys |-> IF k \in N /\ queueMax[k] = None
                                   THEN QueueLimit[k] ELSE queueMax[k]]
    /\ held' = [held EXCEPT ![c] = N]
    /\ live' = live \cup {c}

\* The waiter's record once it has left the wait state: out of every queue and
\* out of everyone's arrival order.
Forget(c) ==
    /\ at' = [at EXCEPT ![c] = {}]
    /\ ahead' = [d \in Callers |-> IF d = c THEN {} ELSE ahead[d] \ {c}]
    /\ bounces' = [bounces EXCEPT ![c] = 0]
    /\ stall' = [stall EXCEPT ![c] = 0]
    /\ claimIdx' = [claimIdx EXCEPT ![c] = 1]

\* Mutant of DropClaims: the freed keys are not offered to their queues.
DropClaimsSilent(c) ==
    /\ claimant' = [k \in Keys |-> IF k \in Droppable(c) THEN None ELSE claimant[k]]
    /\ inUse' = [k \in Keys |-> IF k \in Droppable(c) THEN inUse[k] - 1 ELSE inUse[k]]
    /\ pending' = pending

\* releaseClaimsLocked followed by drainPendingLocked: give the claims back and
\* queue the freed keys for the pass that starts.
DropClaims(c) ==
    /\ claimant' = [k \in Keys |-> IF k \in Droppable(c) THEN None ELSE claimant[k]]
    /\ inUse' = [k \in Keys |-> IF k \in Droppable(c) THEN inUse[k] - 1 ELSE inUse[k]]
    /\ pending' = AppendSet(pending, Droppable(c))

\* Mutant of StartRelease: only the first key of the reservation is served.
StartReleaseFirst(c) ==
    /\ inUse' = [k \in Keys |-> IF k \in held[c] /\ inUse[k] > 0
                                THEN inUse[k] - 1 ELSE inUse[k]]
    /\ live' = live \ {c}
    /\ todo' = IF held[c] = {} THEN <<>> ELSE <<{FirstIn(held[c])}>>
    /\ probed' = {}

\* releaseLocked of c's reservation: return every unit, then start the pass that
\* serves its keys.
StartRelease(c) ==
    /\ inUse' = [k \in Keys |-> IF k \in held[c] /\ inUse[k] > 0
                                THEN inUse[k] - 1 ELSE inUse[k]]
    /\ live' = live \ {c}
    /\ todo' = AppendSet(<<>>, held[c])
    /\ probed' = {}

-----------------------------------------------------------------------------
(* What callers do.                                                        *)

\* A request that fits is granted at once, by Acquire and by TryAcquire.
GrantFresh(c, r) ==
    /\ LockFree /\ ~closed
    /\ phase[c] = "idle"
    /\ Admitting(r, NoClaimant) # {}
    /\ Commit(c, Needs(r, Winner(r, NoClaimant)), NoClaimant)
    /\ phase' = [phase EXCEPT ![c] = "held"]
    /\ req' = [req EXCEPT ![c] = r]
    /\ UNCHANGED <<claimant, ahead, at, bounces, stall, claimIdx,
                   share, closed, passVars>>

\* Acquire refused without waiting: ErrClosed, ErrUnsatisfiable, ErrQueueFull.
Refuse(c, r) ==
    /\ LockFree
    /\ phase[c] = "idle"
    /\ \/ closed
       \/ /\ Admitting(r, NoClaimant) = {}
          /\ Blocking(r, NoClaimant) = {} \/ QueueFull(r)
    /\ UNCHANGED vars

\* Acquire that has to wait: the caller joins the queue of one full key of every
\* candidate, behind everyone already waiting.
Enqueue(c, r) ==
    /\ LockFree /\ ~closed
    /\ phase[c] = "idle"
    /\ Admitting(r, NoClaimant) = {}
    /\ Blocking(r, NoClaimant) # {}
    /\ ~QueueFull(r)
    /\ phase' = [phase EXCEPT ![c] = "waiting"]
    /\ req' = [req EXCEPT ![c] = r]
    /\ ahead' = [ahead EXCEPT ![c] = Waiting]
    /\ at' = [at EXCEPT ![c] = Blocking(r, NoClaimant)]
    /\ UNCHANGED <<bucketVars, bounces, stall, claimIdx, resVars,
                   share, closed, passVars>>

\* The select of Acquire takes the delivered result: a reservation or an error.
\* A max_queue_wait timer that lost to a grant does the same.
Receive(c) ==
    /\ phase[c] \in {"granted", "failed"}
    /\ phase' = [phase EXCEPT ![c] = IF @ = "granted" THEN "held" ELSE "idle"]
    /\ req' = [req EXCEPT ![c] = IF phase[c] = "granted" THEN @ ELSE None]
    /\ UNCHANGED <<bucketVars, ahead, at, bounces, stall, claimIdx, resVars,
                   share, closed, passVars>>

\* A waiter that gives up leaves every queue and returns its claims, which are
\* offered to the queues before the mutex is dropped.
Abandon(c) ==
    /\ LockFree
    /\ phase[c] = "waiting"
    /\ phase' = [phase EXCEPT ![c] = "idle"]
    /\ req' = [req EXCEPT ![c] = None]
    /\ Forget(c)
    /\ DropClaims(c)
    /\ probed' = {}
    /\ UNCHANGED <<queueMax, resVars, share, closed,
                   doomed, todo, cur, budget, park>>

\* max_queue_wait elapsed; batch work has no such budget.
Timeout(c) ==
    /\ phase[c] = "waiting"
    /\ req[c].timed /\ ~req[c].batch
    /\ Abandon(c)

\* The context is done while the caller still waits.
Cancel(c) == Abandon(c)

\* Mutant of ReleaseReservation: the released flag is not tested.
ReleaseReservationTwice(c) ==
    /\ phase' = [phase EXCEPT ![c] = "idle"]
    /\ req' = [req EXCEPT ![c] = None]
    /\ held' = [held EXCEPT ![c] = {}]
    /\ StartRelease(c)
    /\ UNCHANGED <<claimant, queueMax, ahead, at, bounces, stall, claimIdx,
                   share, closed, doomed, pending, cur, budget, park>>

\* Release of the caller's reservation.  One the sweeper has reclaimed is already
\* released and stays so.
ReleaseReservation(c) ==
    /\ phase' = [phase EXCEPT ![c] = "idle"]
    /\ req' = [req EXCEPT ![c] = None]
    /\ held' = [held EXCEPT ![c] = {}]
    /\ IF c \in live THEN StartRelease(c)
                     ELSE UNCHANGED <<inUse, live, todo, probed>>
    /\ UNCHANGED <<claimant, queueMax, ahead, at, bounces, stall, claimIdx,
                   share, closed, doomed, pending, cur, budget, park>>

\* The caller is done with its reservation.
Release(c) == LockFree /\ phase[c] = "held" /\ ReleaseReservation(c)

\* The context is done but a result was delivered first: a reservation is given
\* straight back.
CancelRaced(c) ==
    LockFree /\ phase[c] \in {"granted", "failed"} /\ ReleaseReservation(c)

-----------------------------------------------------------------------------
(* What the broker's owner and its background goroutines do.               *)

\* Sweep: the reservations in D are past their deadline.
Sweep(D) ==
    /\ LockFree
    /\ D # {} /\ D \subseteq live
    /\ doomed' = D
    /\ UNCHANGED <<bucketVars, waiterVars, resVars, share, closed,
                   todo, pending, cur, budget, park, probed>>

\* Close: every waiter fails, every claim is returned, nobody is served again.
Close ==
    /\ LockFree /\ ~closed
    /\ closed' = TRUE
    /\ phase' = [c \in Callers |-> IF c \in Waiting THEN "failed" ELSE phase[c]]
    /\ at' = [c \in Callers |-> {}]
    /\ ahead' = [c \in Callers |-> {}]
    /\ bounces' = [c \in Callers |-> 0]
    /\ stall' = [c \in Callers |-> 0]
    /\ claimIdx' = [c \in Callers |-> 1]
    /\ LET freed == UNION {Droppable(c) : c \in Waiting}
       IN  /\ claimant' = [k \in Keys |-> IF k \in freed THEN None ELSE claimant[k]]
           /\ inUse' = [k \in Keys |-> IF k \in freed THEN inUse[k] - 1 ELSE inUse[k]]
    /\ UNCHANGED <<queueMax, req, resVars, share, passVars>>

\* SetShare, from the cluster heartbeat: atomic and outside the mutex.
SetShare(n) ==
    /\ n # share
    /\ share' = n
    /\ UNCHANGED <<bucketVars, waiterVars, resVars, closed, passVars>>

-----------------------------------------------------------------------------
(* The pass that runs under the mutex.                                     *)

\* The next expired reservation of a sweep, once the previous one is served.
SweepNext(c) ==
    /\ cur = None /\ todo = <<>> /\ pending = <<>>
    /\ c \in doomed
    /\ doomed' = doomed \ {c}
    /\ StartRelease(c)
    /\ UNCHANGED <<claimant, queueMax, waiterVars, held, share, closed,
                   pending, cur, budget, park>>

\* Mutant of NextRound: the round being served is not dropped from the list.
NextRoundKept ==
    /\ cur = None /\ todo = <<>> /\ pending # <<>>
    /\ todo' = pending
    /\ pending' = pending
    /\ probed' = {}
    /\ UNCHANGED <<bucketVars, waiterVars, resVars, share, closed,
                   doomed, cur, budget, park>>

\* drainLocked: a round over the keys that dropped claims freed.
NextRound ==
    /\ cur = None /\ todo = <<>> /\ pending # <<>>
    /\ todo' = pending
    /\ pending' = <<>>
    /\ probed' = {}
    /\ UNCHANGED <<bucketVars, waiterVars, resVars, share, closed,
                   doomed, cur, budget, park>>

\* serveLocked is entered for the next key of the round.
StartServe ==
    /\ cur = None /\ todo # <<>>
    /\ LET k    == FirstIn(Head(todo))
           rest == Head(todo) \ {k}
           idle == Queue(k) = {} \/ closed
       IN  /\ todo' = IF rest = {} THEN Tail(todo) ELSE [todo EXCEPT ![1] = rest]
           /\ cur' = IF idle THEN None ELSE k
           /\ budget' = IF idle THEN 0 ELSE ProbeBudget
    /\ UNCHANGED <<bucketVars, waiterVars, resVars, share, closed,
                   doomed, pending, park, probed>>

\* The head of the queue was already probed this round: it is parked.
SkipProbed(w) ==
    /\ cur # None /\ budget > 0
    /\ IsHead(w, cur) /\ w \in probed
    /\ Cardinality(park) < MaxProbePerRelease
    /\ park' = park \cup {w}
    /\ UNCHANGED <<bucketVars, waiterVars, resVars, share, closed,
                   doomed, todo, pending, cur, budget, probed>>

\* A probe of the head of the queue of cur.
Probing(w) ==
    /\ cur # None /\ budget > 0
    /\ IsHead(w, cur) /\ w \notin probed
    /\ probed' = probed \cup {w}

\* The probe finds a candidate with room: the waiter is granted it, the claims
\* it used become its units and the ones it did not use are dropped.
ProbeGrant(w) ==
    /\ Probing(w)
    /\ Admitting(req[w], w) # {}
    /\ LET N     == Needs(req[w], Winner(req[w], w))
           freed == Droppable(w) \ N
       IN  /\ inUse' = [k \in Keys |->
                 CASE k \in N /\ claimant[k] # w -> inUse[k] + 1
                   [] k \in freed                -> inUse[k] - 1
                   [] OTHER                      -> inUse[k]]
           /\ claimant' = [k \in Keys |->
                 IF claimant[k] = w /\ k \in N \cup freed THEN None ELSE claimant[k]]
           /\ queueMax' = [k \in Keys |-> IF k \in N /\ queueMax[k] = None
                                          THEN QueueLimit[k] ELSE queueMax[k]]
           /\ held' = [held EXCEPT ![w] = N]
           /\ pending' = AppendSet(pending, freed)
    /\ live' = live \cup {w}
    /\ phase' = [phase EXCEPT ![w] = "granted"]
    /\ Forget(w)
    /\ budget' = 0
    /\ UNCHANGED <<req, share, closed, doomed, todo, cur, park>>

\* The probe finds every candidate blocked for ever: ErrUnsatisfiable.
ProbeFail(w) ==
    /\ Probing(w)
    /\ Admitting(req[w], w) = {} /\ Retryable(req[w], w) = {}
    /\ phase' = [phase EXCEPT ![w] = "failed"]
    /\ Forget(w)
    /\ DropClaims(w)
    /\ budget' = budget - 1
    /\ UNCHANGED <<queueMax, req, resVars, share, closed, doomed, todo, cur, park>>

\* The probe finds the waiter still blocked.  It moves to the queues of the keys
\* that block it now, after setting aside what it can once it is armed; a unit
\* of cur set aside for it is spent.
ProbeBlocked(w) ==
    /\ Probing(w)
    /\ Admitting(req[w], w) = {} /\ Retryable(req[w], w) # {}
    /\ LET r   == req[w]
           blk == Blocking(r, w)
           rot == Armed(w) /\ Rotates(w)
           idx == IF rot THEN CandidateNeeding(r, cur) ELSE claimIdx[w]
           D   == RotationDrops(w)
           new == IF Armed(w) THEN NewClaims(w, idx, D) ELSE {}
       IN  /\ claimIdx' = [claimIdx EXCEPT ![w] = idx]
           /\ claimant' = [k \in Keys |->
                 IF k \in new THEN w ELSE IF k \in D THEN None ELSE claimant[k]]
           /\ inUse' = [k \in Keys |->
                 inUse[k] - (IF k \in D THEN 1 ELSE 0) + (IF k \in new THEN 1 ELSE 0)]
           /\ queueMax' = [k \in Keys |-> IF k \in new /\ queueMax[k] = None
                                          THEN 0 ELSE queueMax[k]]
           /\ pending' = AppendSet(pending, D)
           /\ stall' = [stall EXCEPT ![w] =
                 CASE ~Armed(w) -> @
                   [] new # {}  -> 0
                   [] OTHER     -> Saturate((IF rot THEN 0 ELSE @) + 1)]
           /\ bounces' = [bounces EXCEPT ![w] = Saturate(@ + 1)]
           /\ at' = [at EXCEPT ![w] = blk]
           /\ park' = IF cur \in blk /\ Cardinality(park) < MaxProbePerRelease
                      THEN park \cup {w} ELSE park
           /\ budget' = IF cur \in new THEN 0 ELSE budget - 1
    /\ UNCHANGED <<phase, req, ahead, resVars, share, closed, doomed, todo, cur>>

\* The loop of serveLocked is over; the parked waiters return to the queue.
EndServe ==
    /\ cur # None
    /\ \/ budget = 0
       \/ Queue(cur) = {}
       \/ /\ Cardinality(park) >= MaxProbePerRelease
          /\ \E w \in probed : IsHead(w, cur)
    /\ cur' = None
    /\ budget' = 0
    /\ park' = {}
    /\ probed' = IF todo = <<>> THEN {} ELSE probed
    /\ UNCHANGED <<bucketVars, waiterVars, resVars, share, closed,
                   doomed, todo, pending>>

-----------------------------------------------------------------------------
PassStep ==
    \/ NextRound
    \/ StartServe
    \/ EndServe
    \/ \E c \in Callers :
           \/ SweepNext(c)
           \/ SkipProbed(c)
           \/ ProbeGrant(c)
           \/ ProbeFail(c)
           \/ ProbeBlocked(c)

CallerStep(c) ==
    \/ \E r \in Requests[c] : GrantFresh(c, r) \/ Refuse(c, r) \/ Enqueue(c, r)
    \/ Receive(c)
    \/ Timeout(c)
    \/ Cancel(c)
    \/ Release(c)
    \/ CancelRaced(c)

OwnerStep ==
    \/ \E D \in SUBSET live : Sweep(D)
    \/ Close
    \/ \E n \in 1 .. MaxShare : SetShare(n)

Next == PassStep \/ (\E c \in Callers : CallerStep(c)) \/ OwnerStep

Spec == Init /\ [][Next]_vars

\* A goroutine that holds the mutex runs on; a delivered result is received; a
\* caller eventually releases, and sync.Mutex, which hands itself to a waiter
\* that has starved for a millisecond, eventually lets it in.
Fairness ==
    /\ WF_vars(PassStep)
    /\ \A c \in Callers : WF_vars(Receive(c)) /\ SF_vars(Release(c))

FairSpec == Spec /\ Fairness

-----------------------------------------------------------------------------
(* Properties.                                                             *)

BucketType ==
    /\ inUse \in [Keys -> Nat]
    /\ claimant \in [Keys -> Callers \cup {None}]
    /\ queueMax \in [Keys -> Nat \cup {None}]

WaiterType ==
    /\ phase \in [Callers -> Phases]
    /\ req \in [Callers -> AllRequests \cup {None}]
    /\ ahead \in [Callers -> SUBSET Callers]
    /\ at \in [Callers -> SUBSET Keys]
    /\ bounces \in [Callers -> 0 .. BounceCap]
    /\ stall \in [Callers -> 0 .. BounceCap]
    /\ claimIdx \in [Callers -> Nat \ {0}]

ReservationType ==
    /\ held \in [Callers -> SUBSET Keys]
    /\ live \in SUBSET Callers

PassType ==
    /\ doomed \in SUBSET Callers
    /\ todo \in Seq((SUBSET Keys) \ {{}})
    /\ pending \in Seq((SUBSET Keys) \ {{}})
    /\ cur \in Keys \cup {None}
    /\ budget \in 0 .. MaxProbePerRelease
    /\ park \in SUBSET Callers
    /\ probed \in SUBSET Callers

\* The state of the broker is well formed: counts are natural numbers (a unit is
\* never returned twice), queues and work lists name keys of the model.
TypeOK ==
    /\ BucketType
    /\ WaiterType
    /\ ReservationType
    /\ PassType
    /\ share \in 1 .. MaxShare
    /\ closed \in BOOLEAN

Holders(k) == {c \in live : k \in held[c]}

\* A key's count is exactly its live reservations plus the one soft reservation:
\* no path (grant, release, sweep, cancellation, timeout, claim, rotation,
\* close) leaks a unit or returns one twice.
Accounting ==
    \A k \in Keys :
        inUse[k] = Cardinality(Holders(k)) + (IF claimant[k] = None THEN 0 ELSE 1)

\* No interleaving puts more reservations and claims on a key than its
\* configured ceiling ("a credential ceiling of 2 admitted four").
CapacityRespected == \A k \in Keys : inUse[k] <= Limit[k]

\* The claims a waiter holds are a prefix, in axis order, of ONE candidate's
\* axes, and only a blocked waiter holds any: the statement the deadlock
\* argument of doc.go rests on, and what lets releaseClaimsLocked recompute them.
ClaimsArePrefix ==
    \A k \in Keys : claimant[k] # None =>
        LET w == claimant[k]
        IN  /\ phase[w] = "waiting"
            /\ k \in ClaimNeeds(w)
            /\ \A j \in ClaimNeeds(w) : Axis[j] < Axis[k] => claimant[j] = w

\* A caller that is not blocked in Acquire has left nothing behind, no queue
\* entry, no claim and no place in another waiter's past, and a reservation that
\* is not released belongs to a caller that was granted it.
NoTrace ==
    /\ \A c \in Callers : phase[c] # "waiting" =>
           /\ at[c] = {} /\ Claims(c) = {}
           /\ \A d \in Callers : c \notin ahead[d]
    /\ \A c \in live : phase[c] \in {"granted", "held"}

\* What the broker remembers of its waiters is well formed at every probe of every
\* pass: types, claims in axis order on one candidate, nothing of those who left.
WellFormed == TypeOK /\ ClaimsArePrefix /\ NoTrace

\* Batch work never occupies the part of a configured ceiling the interactive
\* reserve keeps free, on any axis, whether it was admitted at once or by a probe
\* and whatever the node's share was at that moment.
BatchWithinReserve ==
    \A k \in Keys :
        Cardinality({c \in Holders(k) : Reserved(req[c])}) * ResDen
            <= Limit[k] * (ResDen - ResNum)

\* With the mutex free and no reservation outstanding nobody is still queued:
\* the last release of any schedule reaches every waiter, so neither a lost
\* wakeup nor waiters blocked on one another's claims strands a caller.
NoStrandedWaiter == LockFree /\ live = {} => Waiting = {}

\* With the mutex free, no queued waiter could be served by what is free: Release
\* "wakes whatever the freed capacity can serve".  A wider share is not a release
\* and wakes nobody, so this is said of the narrowest share; no change of the
\* share in the middle of a pass makes the pass miss such a waiter.
WorkConserving ==
    LockFree /\ share = MaxShare => \A c \in Waiting : Admitting(req[c], c) = {}

\* With the mutex free, a waiter sits only in queues of keys that are full for
\* it, so the next release it is probed by is one that can matter to it; of the
\* narrowest share, as above.
WellQueued ==
    LockFree /\ share = MaxShare => \A c \in Waiting :
        at[c] # {} /\ \A k \in at[c] : Full(k, req[c], c)

\* Whoever waits is right to wait, on the keys that hold it up and not for ever.
JustlyWaiting == NoStrandedWaiter /\ WellQueued

\* Of two waiters with the same request in the same queues, the one that arrived
\* first is served first: neither parking, re-enqueueing nor a claim lets the
\* younger one overtake.  With ceilings above one and many such waiters this needs
\* a share that stays as it is: see ArrivalOrderHolds.
FirstComeFirstServed ==
    [][\A c, d \in Callers :
          /\ phase[c] = "waiting" /\ phase[d] = "waiting"
          /\ req[c] = req[d] /\ at[c] = at[d] /\ c \in ahead[d]
          /\ phase'[d] = "granted"
          => phase'[c] # "waiting"]_vars

\* A fresh request is granted past a waiter only when the waiter could not have
\* been served by what the newcomer took; of the narrowest share, as above: while
\* it is wider, newcomers take what a waiter queued under a narrower one could use.
NoBarging ==
    [][share = MaxShare => \A c, d \in Callers :
          /\ phase[c] = "idle" /\ phase'[c] = "held"
          /\ phase[d] = "waiting" /\ ~req[d].batch
          => \A i \in Attempts(req[d]) : ~(Needs(req[d], i) \subseteq held'[c])]_vars

\* Arrival order counts, among the waiters and between waiters and newcomers.
ArrivalOrder == FirstComeFirstServed /\ NoBarging

\* A blocked Wait request fails at most SoftAfter + (axes it needs) probes: the
\* bound doc.go gives for the soft reservation guard.
ServedWithinBound ==
    \A c \in Waiting :
        ~req[c].spill => bounces[c] <= SoftAfter + Cardinality(Needs(req[c], 1))

\* Every pass ends: the goroutine that holds the mutex gives it back, whatever
\* claims the pass drops and re-offers.
PassTerminates == []<>LockFree

\* A blocked multi-axis request is eventually served although single-axis
\* traffic keeps every one of its axes busy (risk W8).
WaiterServed == \A c \in Callers : (phase[c] = "waiting") ~> (phase[c] # "waiting")

=============================================================================
