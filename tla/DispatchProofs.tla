--------------------------- MODULE DispatchProofs ---------------------------
(***************************************************************************)
(* Proofs about Dispatch, for any number of requests, deployments and      *)
(* budget subjects, any chain of outcomes and any breaker settings: the    *)
(* capacity slots and the budget holds are exactly those of the requests   *)
(* in flight (SlotsMatch, BudgetExact), and hops and half-open probes      *)
(* stay within their bounds (WithinBounds).                                *)
(*                                                                         *)
(* A request's step replaces its own session only, so the inductive        *)
(* invariant speaks of one session at a time (SessionOK), and the two      *)
(* books change by the difference between what the old and the new         *)
(* session hold (KeepsBooks).  A circuit and its history change together   *)
(* (Metered).                                                              *)
(***************************************************************************)
EXTENDS Dispatch, FiniteSetTheorems, TLAPS

\* What one session holds of a deployment's slots and of a subject's budget.
Hold(q, d) == IF q.live /\ q.dep = d THEN 1 ELSE 0

Share(q, s) == IF s \in q.taken THEN q.amt ELSE 0

Holders(d) == {r \in Requests : req[r].live /\ req[r].dep = d}

\* A decision is live only until its report; a deployment is chosen from acquire on;
\* budget is held only around the attempt.
Placed(q) ==
    /\ q.live => q.pc \in {"decided", "budget", "attempt"}
    /\ q.pc \in {"acquire", "decided", "budget", "attempt", "report", "settle"}
          => q.dep \in Deployments
    /\ q.pc \notin {"budget", "attempt", "report", "settle"} => q.taken = {}

\* What is still to be tried was not tried, and every attempt tried another one.
Fresh(q) ==
    /\ q.cands \cap q.tried = {} /\ q.busy \cap q.tried = {}
    /\ q.pc = "acquire" => q.dep \notin q.tried
    /\ IsFiniteSet(q.tried) /\ Cardinality(q.tried) = q.attempts
    /\ q.attempts <= MaxHops + 1
    /\ q.pc \in {"idle", "route", "walk", "acquire", "queued"} => q.attempts <= MaxHops

SessionOK(q) == q \in Sessions /\ Placed(q) /\ Fresh(q)

Sessioned == req \in [Requests -> Sessions] /\ \A r \in Requests : SessionOK(req[r])

Booked ==
    /\ used \in [Deployments -> Nat] /\ held \in [Subjects -> Nat] /\ spent \in [Subjects -> Nat]
    /\ \A d \in Deployments : used[d] = Cardinality(Holders(d))
    /\ \A s \in Subjects : /\ held[s] = Cardinality(UnitsHeld(s))
                           /\ spent[s] + held[s] <= Limit[s]

Kept == Sessioned /\ Booked

\* The probes left in a half-open circuit and those let through are what it had.
ProbesOK(c, a) ==
    IF c.state = "half_open" THEN a <= HalfOpenProbes /\ a + c.probes <= HalfOpenProbes
    ELSE a = 0

Metered ==
    /\ circ \in [Deployments -> Circuits] /\ admitted \in [Deployments -> Nat]
    /\ \A d \in Deployments : ProbesOK(circ[d], admitted[d])

\* The inductive invariant.
Sound == Kept /\ Metered /\ faults \in [Deployments -> 0..FailureThreshold]

----------------------------------------------------------------------------
\* The greater and the smaller of two numbers are one of them and bound both.
LEMMA MaxOfTwo ==
    ASSUME NEW a \in Int, NEW b \in Int
    PROVE  Max({a, b}) \in {a, b} /\ Max({a, b}) >= a /\ Max({a, b}) >= b
<1> DEFINE P(x) == x \in {a, b} /\ \A y \in {a, b} : x >= y
<1>1. \E x : P(x)
  OBVIOUS
<1>2. P(Max({a, b}))
  BY <1>1 DEF Max
<1> QED BY <1>2

\* The smaller of two numbers is one of them.
LEMMA MinOfTwo ==
    ASSUME NEW a \in Int, NEW b \in Int
    PROVE  Min({a, b}) \in {a, b} /\ Min({a, b}) <= a /\ Min({a, b}) <= b
<1> DEFINE P(x) == x \in {a, b} /\ \A y \in {a, b} : x <= y
<1>1. \E x : P(x)
  OBVIOUS
<1>2. P(Min({a, b}))
  BY <1>1 DEF Min
<1> QED BY <1>2

\* No stand-down is longer than LongestCooldown.
LEMMA CooldownBound ==
    /\ LongestCooldown \in Nat
    /\ \A x \in {Cooldown, AuthCooldown, RetryAfter, RateLimitCooldownMax, RateLimitCooldown} :
          x \in Nat /\ x <= LongestCooldown
<1> DEFINE S == {Cooldown, AuthCooldown, RetryAfter, RateLimitCooldownMax, RateLimitCooldown}
           P(x) == x \in S /\ \A y \in S : x >= y
<1>1. S \subseteq Nat
  BY DispatchAssumption
<1>2. \E x : P(x)
  <2>1. Cooldown \in Nat /\ AuthCooldown \in Nat /\ RetryAfter \in Nat
        /\ RateLimitCooldownMax \in Nat /\ RateLimitCooldown \in Nat
    BY DispatchAssumption
  <2> QED BY <2>1
<1>3. P(LongestCooldown)
  BY <1>2 DEF LongestCooldown, Max
<1> QED BY <1>1, <1>3

----------------------------------------------------------------------------
\* Requests hold finitely many units of a subject's budget.
LEMMA UnitsFinite ==
    ASSUME Sessioned, NEW s
    PROVE  IsFiniteSet(UnitsHeld(s))
<1> DEFINE P == {{r} \X (1 .. req[r].amt) : r \in {x \in Requests : s \in req[x].taken}}
           H == {x \in Requests : s \in req[x].taken}
           f == [r \in H |-> {r} \X (1 .. req[r].amt)]
<1>1. IsFiniteSet(H)
  BY DispatchAssumption, FS_Subset
<1>2. f \in Surjection(H, P)
  BY DEF Surjection
<1>3. IsFiniteSet(P)
  <2> HIDE DEF H, P, f
  <2> QED BY <1>1, <1>2, FS_Surjection
<1>4. ASSUME NEW r \in H PROVE IsFiniteSet({r} \X (1 .. req[r].amt))
  <2>1. req[r].amt \in Int
    BY DEF Sessioned, Sessions
  <2>2. IsFiniteSet({r})
    BY FS_Singleton
  <2>3. IsFiniteSet(1 .. req[r].amt)
    BY <2>1, FS_Interval
  <2> QED BY <2>2, <2>3, FS_Product
<1>5. \A T \in P : IsFiniteSet(T)
  BY <1>4
<1>6. IsFiniteSet(UNION P)
  <2> HIDE DEF P
  <2> QED BY <1>3, <1>5, FS_UNION
<1> QED BY <1>6 DEF UnitsHeld

\* One holder's n units beside those of the others.
LEMMA BesidesOthers ==
    ASSUME NEW others, IsFiniteSet(others), NEW r, NEW n \in Nat,
           others \cap ({r} \X (1 .. n)) = {}
    PROVE  Cardinality(others \cup ({r} \X (1 .. n))) = Cardinality(others) + n
<1> DEFINE own == {r} \X (1 .. n)
           some == 1 .. n
<1>1. IsFiniteSet({r}) /\ Cardinality({r}) = 1
  BY FS_Singleton
<1>2. IsFiniteSet(some) /\ Cardinality(some) = n
  <2>1. IsFiniteSet(1 .. n) /\ Cardinality(1 .. n) = IF 1 > n THEN 0 ELSE n - 1 + 1
    BY FS_Interval
  <2> QED BY <2>1
<1> HIDE DEF some
<1>3. IsFiniteSet({r} \X some) /\ Cardinality({r} \X some) = 1 * n
  BY <1>1, <1>2, FS_Product
<1>4. IsFiniteSet(own) /\ Cardinality(own) = n
  BY <1>3 DEF some
<1> HIDE DEF own
<1>5. Cardinality(others \cup own) = Cardinality(others) + Cardinality(own) - Cardinality({})
  <2>1. others \cap own = {}
    BY DEF own
  <2> QED BY <1>4, <2>1, FS_Union
<1>6. Cardinality(others) \in Nat
  BY FS_CardinalityType
<1>7. Cardinality(others \cup own) = Cardinality(others) + n
  BY <1>4, <1>5, <1>6, FS_EmptySet
<1> QED BY <1>7 DEF own

\* One session replaced: the books follow when they change by what it holds more.
LEMMA KeepsBooks ==
    ASSUME Kept, NEW r \in Requests, NEW q, SessionOK(q), req' = [req EXCEPT ![r] = q],
           used' \in [Deployments -> Int], held' \in [Subjects -> Int],
           spent' \in [Subjects -> Nat],
           \A d \in Deployments : used'[d] = used[d] + Hold(q, d) - Hold(req[r], d),
           \A s \in Subjects : held'[s] = held[s] + Share(q, s) - Share(req[r], s),
           \A s \in Subjects : spent'[s] + held'[s] <= Limit[s]
    PROVE  Kept'
<1>1. req' \in [Requests -> Sessions] /\ req'[r] = q
      /\ \A x \in Requests : x # r => req'[x] = req[x]
  BY DEF Kept, Sessioned, SessionOK
<1>2. Sessioned'
  BY <1>1 DEF Kept, Sessioned
<1>3. ASSUME NEW d \in Deployments PROVE used'[d] = Cardinality(Holders(d)')
  <2>1. IsFiniteSet(Holders(d))
    BY DispatchAssumption, FS_Subset DEF Holders
  <2>2. used[d] = Cardinality(Holders(d)) /\ used[d] \in Nat
    BY DEF Kept, Booked
  <2>3. \A x \in Requests : x # r => (x \in Holders(d)' <=> x \in Holders(d))
    BY <1>1 DEF Holders
  <2>4. r \in Holders(d)' <=> q.live /\ q.dep = d
    BY <1>1 DEF Holders
  <2>5. r \in Holders(d) <=> req[r].live /\ req[r].dep = d
    BY DEF Holders
  <2>6. Holders(d)' \subseteq Requests /\ Holders(d) \subseteq Requests
    BY DEF Holders
  <2>7. used'[d] = used[d] + Hold(q, d) - Hold(req[r], d)
    OBVIOUS
  <2>8. CASE r \in Holders(d)' /\ r \notin Holders(d)
    <3>1. Holders(d)' = Holders(d) \cup {r}
      BY <2>3, <2>6, <2>8
    <3>2. Cardinality(Holders(d) \cup {r}) = Cardinality(Holders(d)) + 1
      BY <2>1, <2>8, FS_AddElement
    <3>3. Hold(q, d) = 1 /\ Hold(req[r], d) = 0
      BY <2>4, <2>5, <2>8 DEF Hold
    <3> QED BY <2>2, <2>7, <3>1, <3>2, <3>3
  <2>9. CASE r \notin Holders(d)' /\ r \in Holders(d)
    <3>1. Holders(d)' = Holders(d) \ {r}
      BY <2>3, <2>6, <2>9
    <3>2. Cardinality(Holders(d) \ {r}) = Cardinality(Holders(d)) - 1
      BY <2>1, <2>9, FS_RemoveElement
    <3>3. Hold(q, d) = 0 /\ Hold(req[r], d) = 1
      BY <2>4, <2>5, <2>9 DEF Hold
    <3> QED BY <2>2, <2>7, <3>1, <3>2, <3>3
  <2>10. CASE r \in Holders(d)' <=> r \in Holders(d)
    <3>1. Holders(d)' = Holders(d)
      <4>1. \A x \in Requests : x \in Holders(d)' <=> x \in Holders(d)
        BY <2>3, <2>10
      <4> QED BY <2>6, <4>1
    <3>2. Hold(q, d) = Hold(req[r], d) /\ Hold(q, d) \in Int
      BY <2>4, <2>5, <2>10 DEF Hold
    <3> QED BY <2>2, <2>7, <3>1, <3>2
  <2> QED BY <2>8, <2>9, <2>10
<1>4. used' \in [Deployments -> Nat]
  <2>1. ASSUME NEW d \in Deployments PROVE used'[d] \in Nat
    <3>1. IsFiniteSet(Holders(d)')
      BY DispatchAssumption, FS_Subset DEF Holders
    <3> QED BY <1>3, <3>1, FS_CardinalityType
  <2> QED BY <2>1
<1>5. ASSUME NEW s \in Subjects
      PROVE  held'[s] = Cardinality(UnitsHeld(s)') /\ held'[s] \in Nat
  <2> DEFINE old == Share(req[r], s)
             new == Share(q, s)
             others == {u \in UnitsHeld(s) : u[1] # r}
  <2>1. old \in Nat /\ new \in Nat
    BY <1>1 DEF Kept, Sessioned, Sessions, Share
  <2>2. UnitsHeld(s) = others \cup ({r} \X (1 .. old))
    BY DEF UnitsHeld, Share
  <2>3. UnitsHeld(s)' = others \cup ({r} \X (1 .. new))
    BY <1>1 DEF UnitsHeld, Share
  <2>4. IsFiniteSet(others)
    <3>1. IsFiniteSet(UnitsHeld(s))
      BY UnitsFinite DEF Kept
    <3> QED BY <3>1, FS_Subset
  <2>5. others \cap ({r} \X (1 .. old)) = {}
    OBVIOUS
  <2>5a. others \cap ({r} \X (1 .. new)) = {}
    OBVIOUS
  <2>6. held[s] = Cardinality(UnitsHeld(s)) /\ held'[s] = held[s] + new - old
    BY DEF Kept, Booked
  <2> HIDE DEF old, new, others
  <2>7. Cardinality(others \cup ({r} \X (1 .. old))) = Cardinality(others) + old
    <3>1. old \in Nat
      BY <2>1
    <3> QED BY <2>4, <2>5, <3>1, BesidesOthers, Zenon
  <2>8. Cardinality(others \cup ({r} \X (1 .. new))) = Cardinality(others) + new
    <3>1. new \in Nat
      BY <2>1
    <3> QED BY <2>4, <2>5a, <3>1, BesidesOthers, Zenon
  <2>9. Cardinality(others) \in Nat
    BY <2>4, FS_CardinalityType
  <2>10. Cardinality(UnitsHeld(s)) = Cardinality(others) + old
    BY <2>2, <2>7
  <2>11. Cardinality(UnitsHeld(s)') = Cardinality(others) + new
    BY <2>3, <2>8
  <2> QED BY <2>1, <2>6, <2>9, <2>10, <2>11
<1>6. held' \in [Subjects -> Nat]
  BY <1>5
<1> QED BY <1>2, <1>3, <1>4, <1>5, <1>6 DEF Kept, Booked

\* One session replaced by one that holds the same: the books stay as they are.
LEMMA KeepsQuietly ==
    ASSUME Kept, NEW r \in Requests, NEW q, SessionOK(q), req' = [req EXCEPT ![r] = q],
           used' = used, held' = held, spent' = spent,
           \A d \in Deployments : Hold(q, d) = Hold(req[r], d),
           \A s \in Subjects : Share(q, s) = Share(req[r], s)
    PROVE  Kept'
<1>1. used \in [Deployments -> Int] /\ held \in [Subjects -> Int] /\ spent \in [Subjects -> Nat]
  BY DEF Kept, Booked
<1>2. \A d \in Deployments : used[d] \in Int /\ Hold(req[r], d) \in Int
  BY <1>1 DEF Hold
<1>3. \A s \in Subjects : held[s] \in Int /\ Share(req[r], s) \in Int
  BY <1>1 DEF Share, Kept, Sessioned, Sessions
<1>4. \A d \in Deployments : used'[d] = used[d] + Hold(q, d) - Hold(req[r], d)
  BY <1>2
<1>5. \A s \in Subjects : held'[s] = held[s] + Share(q, s) - Share(req[r], s)
  BY <1>3
<1>6. \A s \in Subjects : spent'[s] + held'[s] <= Limit[s]
  BY DEF Kept, Booked
<1> QED BY <1>1, <1>4, <1>5, <1>6, KeepsBooks

\* Reservation.Release gives back what the session holds, once.
LEMMA Releases ==
    ASSUME Kept, NEW r \in Requests
    PROVE  /\ ReleasedSlots(r) \in [Deployments -> Int]
           /\ \A d \in Deployments : ReleasedSlots(r)[d] = used[d] - Hold(req[r], d)
           /\ ReleasedHolds(r) \in [Subjects -> Int]
           /\ \A s \in Subjects : ReleasedHolds(r)[s] = held[s] - Share(req[r], s)
           /\ \A s \in Subjects : Share(req[r], s) \in Nat
<1>1. used \in [Deployments -> Nat] /\ held \in [Subjects -> Nat]
  BY DEF Kept, Booked
<1>2. SessionOK(req[r])
  BY DEF Kept, Sessioned
<1>3. req[r].amt \in Nat
  BY <1>2 DEF SessionOK, Sessions
<1>4. req[r].live => req[r].dep \in Deployments
  BY <1>2 DEF SessionOK, Placed
<1>5. /\ ReleasedSlots(r) \in [Deployments -> Int]
      /\ \A d \in Deployments : ReleasedSlots(r)[d] = used[d] - Hold(req[r], d)
  BY <1>1, <1>4 DEF ReleasedSlots, Hold
<1>6. /\ ReleasedHolds(r) \in [Subjects -> Int]
      /\ \A s \in Subjects : ReleasedHolds(r)[s] = held[s] - Share(req[r], s)
  BY <1>1, <1>3 DEF ReleasedHolds, Share
<1> QED BY <1>3, <1>5, <1>6 DEF Share

----------------------------------------------------------------------------
(***************************************************************************)
(* The steps of a request, one by one.                                     *)
(***************************************************************************)
\* A request that has ended holds nothing and may start again.
LEMMA IdleOK ==
    /\ SessionOK(Idle)
    /\ \A d : Hold(Idle, d) = 0
    /\ \A s : Share(Idle, s) = 0
<1>1. Idle \in Sessions
  BY DEF Idle, Sessions, Places, Causes
<1>2. Placed(Idle)
  BY DEF Idle, Placed
<1>3. IsFiniteSet({}) /\ Cardinality({}) = 0
  BY FS_EmptySet
<1>4. Fresh(Idle)
  BY <1>3, DispatchAssumption DEF Idle, Fresh
<1> QED BY <1>1, <1>2, <1>4 DEF SessionOK, Hold, Share, Idle

\* A request that ends gives back the slot and the budget it holds.
LEMMA KeepsEnding ==
    ASSUME Kept, NEW r \in Requests, req' = [req EXCEPT ![r] = Idle],
           used' = ReleasedSlots(r), held' = ReleasedHolds(r), spent' = spent
    PROVE  Kept'
<1>1. spent \in [Subjects -> Nat] /\ held \in [Subjects -> Nat] /\ Limit \in [Subjects -> Nat]
  BY DispatchAssumption DEF Kept, Booked
<1>2. \A s \in Subjects : spent[s] + held[s] <= Limit[s]
  BY DEF Kept, Booked
<1>3. \A s \in Subjects : held'[s] = held[s] - Share(req[r], s) /\ Share(req[r], s) \in Nat
  BY Releases
<1>4. \A s \in Subjects : spent'[s] + held'[s] <= Limit[s]
  BY <1>1, <1>2, <1>3
<1>5. \A s \in Subjects : held'[s] = held[s] + Share(Idle, s) - Share(req[r], s)
  BY <1>1, <1>3, IdleOK
<1>6. \A d \in Deployments : /\ used'[d] = used[d] - Hold(req[r], d)
                            /\ used[d] \in Nat /\ Hold(req[r], d) \in Nat
  BY Releases DEF Kept, Booked, Hold
<1>7. \A d \in Deployments : used'[d] = used[d] + Hold(Idle, d) - Hold(req[r], d)
  BY <1>6, IdleOK
<1>8. used' \in [Deployments -> Int] /\ held' \in [Subjects -> Int]
  BY Releases
<1>9. SessionOK(Idle)
  BY IdleOK
<1> QED BY <1>1, <1>4, <1>5, <1>7, <1>8, <1>9, KeepsBooks

\* The same for a request that holds neither.
LEMMA KeepsLeaving ==
    ASSUME Kept, NEW r \in Requests, req' = [req EXCEPT ![r] = Idle],
           ~req[r].live, req[r].taken = {},
           used' = used, held' = held, spent' = spent
    PROVE  Kept'
<1>1. \A d \in Deployments : Hold(Idle, d) = Hold(req[r], d)
  BY IdleOK DEF Hold
<1>2. \A s \in Subjects : Share(Idle, s) = Share(req[r], s)
  BY IdleOK DEF Share
<1> QED BY <1>1, <1>2, IdleOK, KeepsQuietly

\* Dispatch is entered, and the first candidates are asked for.
LEMMA ArriveKeeps ==
    ASSUME Kept, NEW r \in Requests, Arrive(r)
    PROVE  Kept'
<1> DEFINE q == [req[r] EXCEPT !.pc = "route"]
<1>1. SessionOK(req[r])
  BY DEF Kept, Sessioned
<1>2. SessionOK(q)
  BY <1>1 DEF SessionOK, Sessions, Placed, Fresh, Places, Arrive, At
<1>3. req' = [req EXCEPT ![r] = q]
  BY DEF Arrive
<1>4. used' = used /\ held' = held /\ spent' = spent
  BY DEF Arrive
<1>5. \A d \in Deployments : Hold(q, d) = Hold(req[r], d)
  BY <1>1 DEF Hold, SessionOK, Sessions
<1>6. \A s \in Subjects : Share(q, s) = Share(req[r], s)
  BY <1>1 DEF Share, SessionOK, Sessions
<1> QED BY <1>2, <1>3, <1>4, <1>5, <1>6, KeepsQuietly

\* The candidates of a route are deployments.
LEMMA UniverseType ==
    ASSUME NEW c, NEW h
    PROVE  Universe(c, h) \subseteq Deployments
  BY DispatchAssumption DEF Universe

\* Route: what was tried is never a candidate again.
LEMMA RouteKeeps ==
    ASSUME Kept, NEW r \in Requests, Route(r)
    PROVE  Kept'
<1>1. SessionOK(req[r])
  BY DEF Kept, Sessioned
<1>2. ~req[r].live /\ req[r].taken = {}
  BY <1>1 DEF SessionOK, Placed, Route, At
<1>3. used' = used /\ held' = held /\ spent' = spent
  BY DEF Route
<1>4. PICK cs \in SUBSET Candidates(r) :
          req' = [req EXCEPT ![r] = IF cs = {} THEN Idle
                                    ELSE [@ EXCEPT !.pc = "walk", !.cands = cs, !.busy = {}]]
  BY DEF Route
<1>5. CASE cs = {}
  <2>1. req' = [req EXCEPT ![r] = Idle]
    BY <1>4, <1>5
  <2> QED BY <1>2, <1>3, <2>1, KeepsLeaving
<1>6. CASE cs # {}
  <2> DEFINE q == [req[r] EXCEPT !.pc = "walk", !.cands = cs, !.busy = {}]
  <2>1. req' = [req EXCEPT ![r] = q]
    BY <1>4, <1>6
  <2>2. cs \subseteq Deployments /\ cs \cap req[r].tried = {}
    BY UniverseType DEF Candidates
  <2>3. q \in Sessions
    BY <1>1, <2>2 DEF SessionOK, Sessions, Places
  <2>4. Placed(q) /\ Fresh(q)
    BY <1>1, <1>2, <2>2 DEF SessionOK, Sessions, Placed, Fresh, Route, At
  <2>5. \A d \in Deployments : Hold(q, d) = Hold(req[r], d)
    BY <1>1 DEF Hold, SessionOK, Sessions
  <2>6. \A s \in Subjects : Share(q, s) = Share(req[r], s)
    BY <1>1 DEF Share, SessionOK, Sessions
  <2>7. SessionOK(q)
    BY <2>3, <2>4 DEF SessionOK
  <2> QED BY <1>3, <2>1, <2>5, <2>6, <2>7, KeepsQuietly
<1> QED BY <1>5, <1>6

\* The walk consults the next candidate's circuit.
LEMMA ConsultKeeps ==
    ASSUME Kept, NEW r \in Requests, NEW d \in Deployments, Consult(r, d)
    PROVE  Kept'
<1>1. SessionOK(req[r])
  BY DEF Kept, Sessioned
<1>2. ~req[r].live /\ req[r].taken = {} /\ req[r].pc = "walk" /\ d \in req[r].cands
  BY <1>1 DEF SessionOK, Placed, Consult, At
<1>3. used' = used /\ held' = held /\ spent' = spent
  BY DEF Consult
<1>4. ASSUME NEW p \in {"walk", "acquire"}, NEW e \in Deployments \cup {None},
             p = "acquire" => e = d,
             req' = [req EXCEPT ![r] = [req[r] EXCEPT !.cands = req[r].cands \ {d},
                                                     !.dep = e, !.pc = p]]
      PROVE  Kept'
  <2> DEFINE q == [req[r] EXCEPT !.cands = req[r].cands \ {d}, !.dep = e, !.pc = p]
  <2>1. req' = [req EXCEPT ![r] = q]
    BY <1>4
  <2>3. q \in Sessions
    BY <1>1 DEF SessionOK, Sessions, Places
  <2>4. Placed(q) /\ Fresh(q)
    BY <1>1, <1>2, <1>4 DEF SessionOK, Sessions, Placed, Fresh
  <2>5. \A x \in Deployments : Hold(q, x) = Hold(req[r], x)
    BY <1>1, <1>2 DEF Hold, SessionOK, Sessions
  <2>6. \A s \in Subjects : Share(q, s) = Share(req[r], s)
    BY <1>1 DEF Share, SessionOK, Sessions
  <2>7. SessionOK(q)
    BY <2>3, <2>4 DEF SessionOK
  <2> QED BY <1>3, <2>1, <2>5, <2>6, <2>7, KeepsQuietly
<1>5. req[r].dep \in Deployments \cup {None}
  BY <1>1 DEF SessionOK, Sessions
<1>6. req' = [req EXCEPT ![r].cands = req[r].cands \ {d},
                         ![r].dep = IF Admits(circ[d]) THEN d ELSE req[r].dep,
                         ![r].pc = IF Admits(circ[d]) THEN "acquire" ELSE req[r].pc]
  BY DEF Consult
<1>7. CASE Admits(circ[d])
  BY <1>4, <1>6, <1>7
<1>8. CASE ~Admits(circ[d])
  BY <1>2, <1>4, <1>5, <1>6, <1>8
<1> QED BY <1>7, <1>8

\* The end of the walk: a place in the queue, or a refusal.
LEMMA EndWalkKeeps ==
    ASSUME Kept, NEW r \in Requests, EndWalk(r)
    PROVE  Kept'
<1>1. SessionOK(req[r])
  BY DEF Kept, Sessioned
<1>2. ~req[r].live /\ req[r].taken = {} /\ req[r].pc = "walk"
  BY <1>1 DEF SessionOK, Placed, EndWalk, At
<1>3. used' = used /\ held' = held /\ spent' = spent
  BY DEF EndWalk
<1> DEFINE q == [req[r] EXCEPT !.pc = "queued", !.cands = {}]
<1>4. req' = [req EXCEPT ![r] = Idle] \/ req' = [req EXCEPT ![r] = q]
  BY DEF EndWalk
<1>5. CASE req' = [req EXCEPT ![r] = Idle]
  BY <1>2, <1>3, <1>5, KeepsLeaving
<1>6. CASE req' = [req EXCEPT ![r] = q]
  <2>1. q \in Sessions
    BY <1>1 DEF SessionOK, Sessions, Places
  <2>2. Placed(q) /\ Fresh(q)
    BY <1>1, <1>2 DEF SessionOK, Sessions, Placed, Fresh
  <2>3. SessionOK(q)
    BY <2>1, <2>2 DEF SessionOK
  <2>4. \A d \in Deployments : Hold(q, d) = Hold(req[r], d)
    BY <1>1 DEF Hold, SessionOK, Sessions
  <2>5. \A s \in Subjects : Share(q, s) = Share(req[r], s)
    BY <1>1 DEF Share, SessionOK, Sessions
  <2> QED BY <1>3, <1>6, <2>3, <2>4, <2>5, KeepsQuietly
<1> QED BY <1>4, <1>5, <1>6

\* The wait budget runs out.
LEMMA WaitedOutKeeps ==
    ASSUME Kept, NEW r \in Requests, WaitedOut(r)
    PROVE  Kept'
<1>1. ~req[r].live /\ req[r].taken = {}
  BY DEF Kept, Sessioned, SessionOK, Placed, WaitedOut, At
<1>2. req' = [req EXCEPT ![r] = Idle] /\ used' = used /\ held' = held /\ spent' = spent
  BY DEF WaitedOut
<1> QED BY <1>1, <1>2, KeepsLeaving

\* A slot is taken for a deployment not tried before: the decision, its slot, and
\* one attempt more.
LEMMA DecidedKeeps ==
    ASSUME Kept, NEW r \in Requests, NEW d \in Deployments, d \notin req[r].tried,
           req[r].pc \in {"acquire", "queued"},
           used' = [used EXCEPT ![d] = @ + 1], req' = [req EXCEPT ![r] = Decided(r, d)],
           held' = held, spent' = spent
    PROVE  Kept'
<1> DEFINE q == Decided(r, d)
<1>1. SessionOK(req[r])
  BY DEF Kept, Sessioned
<1>2. ~req[r].live /\ req[r].taken = {}
  BY <1>1 DEF SessionOK, Placed
<1>3. /\ req[r] \in Sessions /\ req[r].attempts \in Nat /\ req[r].attempts <= MaxHops
      /\ IsFiniteSet(req[r].tried) /\ Cardinality(req[r].tried) = req[r].attempts
  BY <1>1 DEF SessionOK, Fresh, Sessions
<1>4. /\ IsFiniteSet(req[r].tried \cup {d})
      /\ Cardinality(req[r].tried \cup {d}) = req[r].attempts + 1
  BY <1>3, FS_AddElement
<1>5. q \in Sessions
  <2>1. ASSUME NEW o \in Sessions, NEW p \in Places, NEW l \in BOOLEAN,
               NEW c \in SUBSET Deployments, NEW b \in SUBSET Deployments,
               NEW a \in Nat, NEW t \in SUBSET Deployments
        PROVE  [o EXCEPT !.pc = p, !.dep = d, !.live = l, !.cands = c, !.busy = b,
                         !.attempts = a, !.tried = t] \in Sessions
    BY DEF Sessions
  <2>2. /\ "decided" \in Places /\ TRUE \in BOOLEAN /\ {} \in SUBSET Deployments
        /\ req[r].attempts + 1 \in Nat /\ req[r].tried \cup {d} \in SUBSET Deployments
    BY <1>3 DEF Places, Sessions
  <2> QED BY <1>3, <2>1, <2>2 DEF Decided
<1>6. /\ q.pc = "decided" /\ q.dep = d /\ q.live = TRUE /\ q.cands = {} /\ q.busy = {}
      /\ q.attempts = req[r].attempts + 1 /\ q.tried = req[r].tried \cup {d}
      /\ q.taken = req[r].taken /\ q.amt = req[r].amt
  BY <1>3 DEF Decided, Sessions
<1> HIDE DEF q
<1>7. Placed(q)
  BY <1>2, <1>6 DEF Placed
<1>8. Fresh(q)
  BY <1>3, <1>4, <1>6, DispatchAssumption DEF Fresh
<1>9. SessionOK(q)
  BY <1>5, <1>7, <1>8 DEF SessionOK
<1>10. used \in [Deployments -> Nat] /\ held \in [Subjects -> Nat] /\ spent \in [Subjects -> Nat]
       /\ \A s \in Subjects : spent[s] + held[s] <= Limit[s]
  BY DEF Kept, Booked
<1>11. \A e \in Deployments : used'[e] = used[e] + Hold(q, e) - Hold(req[r], e)
  <2>1. \A e \in Deployments : used'[e] = IF e = d THEN used[e] + 1 ELSE used[e]
    BY <1>10
  <2>2. \A e \in Deployments : Hold(req[r], e) = 0 /\ Hold(q, e) = IF e = d THEN 1 ELSE 0
    BY <1>2, <1>6 DEF Hold
  <2> QED BY <1>10, <2>1, <2>2
<1>12. \A s \in Subjects : held'[s] = held[s] + Share(q, s) - Share(req[r], s)
  <2>1. \A s \in Subjects : Share(q, s) = 0 /\ Share(req[r], s) = 0
    BY <1>2, <1>6 DEF Share
  <2> QED BY <1>10, <2>1
<1>13. used' \in [Deployments -> Int] /\ held' \in [Subjects -> Int]
       /\ spent' \in [Subjects -> Nat] /\ \A s \in Subjects : spent'[s] + held'[s] <= Limit[s]
  BY <1>10
<1>14. req' = [req EXCEPT ![r] = q]
  BY DEF q
<1> QED BY <1>9, <1>11, <1>12, <1>13, <1>14, KeepsBooks

\* capacity.TryAcquire: the slot, or the candidate is noted as saturated.
LEMMA TryAcquireKeeps ==
    ASSUME Kept, NEW r \in Requests, TryAcquire(r)
    PROVE  Kept'
<1>1. SessionOK(req[r])
  BY DEF Kept, Sessioned
<1> DEFINE d == req[r].dep
<1>2. /\ ~req[r].live /\ req[r].taken = {} /\ req[r].pc = "acquire"
      /\ d \in Deployments /\ d \notin req[r].tried
  BY <1>1 DEF SessionOK, Placed, Fresh, TryAcquire, At
<1>3. held' = held /\ spent' = spent
  BY DEF TryAcquire
<1>4. CASE used[d] < Slots[d]
  <2>1. used' = [used EXCEPT ![d] = @ + 1] /\ req' = [req EXCEPT ![r] = Decided(r, d)]
    BY <1>4 DEF TryAcquire
  <2>2. req[r].pc \in {"acquire", "queued"}
    BY <1>2
  <2> HIDE DEF d
  <2> QED BY <1>2, <1>3, <2>1, <2>2, DecidedKeeps
<1>5. CASE ~(used[d] < Slots[d])
  <2> DEFINE q == [req[r] EXCEPT !.pc = "walk", !.dep = None, !.busy = req[r].busy \cup {d}]
  <2>1. req' = [req EXCEPT ![r] = q] /\ used' = used
    BY <1>5 DEF TryAcquire
  <2>2. q \in Sessions
    BY <1>1, <1>2 DEF SessionOK, Sessions, Places
  <2>3. Placed(q) /\ Fresh(q)
    BY <1>1, <1>2 DEF SessionOK, Sessions, Placed, Fresh
  <2>4. SessionOK(q)
    BY <2>2, <2>3 DEF SessionOK
  <2>5. \A e \in Deployments : Hold(q, e) = Hold(req[r], e)
    BY <1>1, <1>2 DEF Hold, SessionOK, Sessions
  <2>6. \A s \in Subjects : Share(q, s) = Share(req[r], s)
    BY <1>1 DEF Share, SessionOK, Sessions
  <2> QED BY <1>3, <2>1, <2>4, <2>5, <2>6, KeepsQuietly
<1> QED BY <1>4, <1>5

\* The broker grants a queued request a slot.
LEMMA GrantedKeeps ==
    ASSUME Kept, NEW r \in Requests, NEW d \in Deployments, Granted(r, d)
    PROVE  Kept'
<1>1. d \notin req[r].tried /\ req[r].pc \in {"acquire", "queued"}
  BY DEF Kept, Sessioned, SessionOK, Fresh, Granted, At
<1>2. /\ used' = [used EXCEPT ![d] = @ + 1] /\ req' = [req EXCEPT ![r] = Decided(r, d)]
      /\ held' = held /\ spent' = spent
  BY DEF Granted
<1> QED BY <1>1, <1>2, DecidedKeeps

\* A session that keeps what it holds of the budget and gives its slot back.
LEMMA KeepsReleasing ==
    ASSUME Kept, NEW r \in Requests, NEW q, SessionOK(q), req' = [req EXCEPT ![r] = q],
           ~q.live, q.taken = req[r].taken, q.amt = req[r].amt,
           used' = ReleasedSlots(r), held' = held, spent' = spent
    PROVE  Kept'
<1>1. used' \in [Deployments -> Int]
      /\ \A d \in Deployments : used'[d] = used[d] - Hold(req[r], d)
  BY Releases
<1>2. used \in [Deployments -> Nat] /\ held \in [Subjects -> Nat] /\ spent \in [Subjects -> Nat]
      /\ \A s \in Subjects : spent[s] + held[s] <= Limit[s]
  BY DEF Kept, Booked
<1>3. \A d \in Deployments : Hold(q, d) = 0 /\ Hold(req[r], d) \in Nat
  BY DEF Hold
<1>4. \A d \in Deployments : used'[d] = used[d] + Hold(q, d) - Hold(req[r], d)
  BY <1>1, <1>2, <1>3
<1>5. \A s \in Subjects : Share(q, s) = Share(req[r], s) /\ Share(req[r], s) \in Nat
  BY Releases DEF Share
<1>6. \A s \in Subjects : held'[s] = held[s] + Share(q, s) - Share(req[r], s)
  BY <1>2, <1>5
<1>7. held' \in [Subjects -> Int] /\ spent' \in [Subjects -> Nat]
      /\ \A s \in Subjects : spent'[s] + held'[s] <= Limit[s]
  BY <1>2
<1> QED BY <1>1, <1>4, <1>6, <1>7, KeepsBooks

\* The sweeper reclaims the slot of a call that goes on.
LEMMA SweepKeeps ==
    ASSUME Kept, NEW r \in Requests, Sweep(r)
    PROVE  Kept'
<1> DEFINE q == [req[r] EXCEPT !.live = FALSE]
<1>1. SessionOK(req[r])
  BY DEF Kept, Sessioned
<1>2. q \in Sessions
  BY <1>1 DEF SessionOK, Sessions
<1>3. Placed(q) /\ Fresh(q)
  BY <1>1 DEF SessionOK, Sessions, Placed, Fresh
<1>4. SessionOK(q)
  BY <1>2, <1>3 DEF SessionOK
<1>5. ~q.live /\ q.taken = req[r].taken /\ q.amt = req[r].amt
  BY <1>1 DEF SessionOK, Sessions
<1>6. req' = [req EXCEPT ![r] = q] /\ used' = ReleasedSlots(r) /\ held' = held /\ spent' = spent
  BY DEF Sweep
<1> HIDE DEF q
<1> QED BY <1>4, <1>5, <1>6, KeepsReleasing

\* The on_route hook: on to the budget gate, or refused with its slot given back.
LEMMA OnRouteKeeps ==
    ASSUME Kept, NEW r \in Requests, OnRoute(r)
    PROVE  Kept'
<1>1. SessionOK(req[r])
  BY DEF Kept, Sessioned
<1>2. req[r].taken = {} /\ req[r].pc = "decided" /\ req[r].dep \in Deployments
  BY <1>1 DEF SessionOK, Placed, OnRoute, At
<1>3. held' = held /\ spent' = spent
  BY DEF OnRoute
<1> DEFINE q == [req[r] EXCEPT !.pc = "budget", !.amt = Quote[req[r].dep]]
<1>4. \/ req' = [req EXCEPT ![r] = q] /\ used' = used
      \/ req' = [req EXCEPT ![r] = Idle] /\ used' = ReleasedSlots(r)
  BY DEF OnRoute
<1>5. CASE req' = [req EXCEPT ![r] = q] /\ used' = used
  <2>1. Quote[req[r].dep] \in Nat
    BY <1>2, DispatchAssumption
  <2>2. q \in Sessions
    BY <1>1, <2>1 DEF SessionOK, Sessions, Places
  <2>3. Placed(q) /\ Fresh(q)
    BY <1>1, <1>2 DEF SessionOK, Sessions, Placed, Fresh
  <2>4. SessionOK(q)
    BY <2>2, <2>3 DEF SessionOK
  <2>5. \A e \in Deployments : Hold(q, e) = Hold(req[r], e)
    BY <1>1 DEF Hold, SessionOK, Sessions
  <2>6. \A s \in Subjects : Share(q, s) = Share(req[r], s)
    BY <1>1, <1>2 DEF Share, SessionOK, Sessions
  <2> QED BY <1>3, <1>5, <2>4, <2>5, <2>6, KeepsQuietly
<1>6. CASE req' = [req EXCEPT ![r] = Idle] /\ used' = ReleasedSlots(r)
  <2>1. held \in [Subjects -> Nat]
    BY DEF Kept, Booked
  <2>2. ReleasedHolds(r) = held
    BY <1>2, <2>1 DEF ReleasedHolds
  <2> QED BY <1>3, <1>6, <2>2, KeepsEnding
<1> QED BY <1>4, <1>5, <1>6

\* The budget gate takes one more subject's hold, within its ceiling.
LEMMA ReserveKeeps ==
    ASSUME Kept, NEW r \in Requests, NEW s \in Subjects, Reserve(r, s)
    PROVE  Kept'
<1> DEFINE q == [req[r] EXCEPT !.taken = req[r].taken \cup {s}]
<1>1. SessionOK(req[r])
  BY DEF Kept, Sessioned
<1>2. /\ req[r].pc = "budget" /\ s \notin req[r].taken
      /\ spent[s] + held[s] + req[r].amt <= Limit[s]
  BY DEF Reserve, At
<1>3. /\ used' = used /\ spent' = spent /\ held' = [held EXCEPT ![s] = @ + req[r].amt]
      /\ req' = [req EXCEPT ![r] = q]
  BY DEF Reserve
<1>4. q \in Sessions
  BY <1>1 DEF SessionOK, Sessions
<1>5. Placed(q) /\ Fresh(q)
  BY <1>1, <1>2 DEF SessionOK, Sessions, Placed, Fresh
<1>6. SessionOK(q)
  BY <1>4, <1>5 DEF SessionOK
<1>7. /\ q.live = req[r].live /\ q.dep = req[r].dep /\ q.amt = req[r].amt /\ req[r].amt \in Nat
      /\ q.taken = req[r].taken \cup {s}
  BY <1>1 DEF SessionOK, Sessions
<1> HIDE DEF q
<1>8. used \in [Deployments -> Nat] /\ held \in [Subjects -> Nat] /\ spent \in [Subjects -> Nat]
      /\ \A t \in Subjects : spent[t] + held[t] <= Limit[t]
  BY DEF Kept, Booked
<1>9. \A d \in Deployments : used'[d] = used[d] + Hold(q, d) - Hold(req[r], d)
  <2>1. \A d \in Deployments : Hold(q, d) = Hold(req[r], d) /\ Hold(req[r], d) \in Nat
    BY <1>7 DEF Hold
  <2> QED BY <1>3, <1>8, <2>1
<1>10. \A t \in Subjects : held'[t] = IF t = s THEN held[t] + req[r].amt ELSE held[t]
  BY <1>3, <1>8
<1>11. \A t \in Subjects : held'[t] = held[t] + Share(q, t) - Share(req[r], t)
  <2>1. \A t \in Subjects : t # s => Share(q, t) = Share(req[r], t) /\ Share(req[r], t) \in Nat
    BY <1>7 DEF Share
  <2>2. Share(q, s) = req[r].amt /\ Share(req[r], s) = 0
    BY <1>2, <1>7 DEF Share
  <2> QED BY <1>7, <1>8, <1>10, <2>1, <2>2
<1>12. \A t \in Subjects : spent'[t] + held'[t] <= Limit[t]
  <2>1. spent[s] + (held[s] + req[r].amt) <= Limit[s]
    BY <1>2, <1>7, <1>8
  <2> QED BY <1>3, <1>8, <1>10, <2>1
<1>13. used' \in [Deployments -> Int] /\ held' \in [Subjects -> Int] /\ spent' \in [Subjects -> Nat]
  BY <1>3, <1>7, <1>8
<1> QED BY <1>3, <1>6, <1>9, <1>11, <1>12, <1>13, KeepsBooks

\* A refusal gives back the holds already taken and the slot.
LEMMA RefusedKeeps ==
    ASSUME Kept, NEW r \in Requests, Refused(r)
    PROVE  Kept'
<1>1. /\ req' = [req EXCEPT ![r] = Idle] /\ used' = ReleasedSlots(r)
      /\ held' = ReleasedHolds(r) /\ spent' = spent
  BY DEF Refused
<1> QED BY <1>1, KeepsEnding

\* Every hold taken: the request is sent.
LEMMA SendKeeps ==
    ASSUME Kept, NEW r \in Requests, Send(r)
    PROVE  Kept'
<1> DEFINE q == [req[r] EXCEPT !.pc = "attempt"]
<1>1. SessionOK(req[r])
  BY DEF Kept, Sessioned
<1>2. q \in Sessions
  BY <1>1 DEF SessionOK, Sessions, Places
<1>3. Placed(q) /\ Fresh(q)
  BY <1>1 DEF SessionOK, Sessions, Placed, Fresh, Send, At
<1>4. SessionOK(q)
  BY <1>2, <1>3 DEF SessionOK
<1>5. req' = [req EXCEPT ![r] = q] /\ used' = used /\ held' = held /\ spent' = spent
  BY DEF Send
<1>6. \A d \in Deployments : Hold(q, d) = Hold(req[r], d)
  BY <1>1 DEF Hold, SessionOK, Sessions
<1>7. \A s \in Subjects : Share(q, s) = Share(req[r], s)
  BY <1>1 DEF Share, SessionOK, Sessions
<1> QED BY <1>4, <1>5, <1>6, <1>7, KeepsQuietly

\* The upstream answered: the slot is given back, also when the sweeper already was there.
LEMMA AnswerKeeps ==
    ASSUME Kept, NEW r \in Requests, NEW o \in Outcomes, Answer(r, o)
    PROVE  Kept'
<1> DEFINE q == [req[r] EXCEPT !.pc = "report", !.live = FALSE, !.outcome = o]
<1>1. SessionOK(req[r])
  BY DEF Kept, Sessioned
<1>2. q \in Sessions
  <2>1. ASSUME NEW p \in Places, NEW l \in BOOLEAN, NEW y \in AllOutcomes
        PROVE  [req[r] EXCEPT !.pc = p, !.live = l, !.outcome = y] \in Sessions
    BY <1>1 DEF SessionOK, Sessions
  <2>2. "report" \in Places /\ FALSE \in BOOLEAN /\ o \in AllOutcomes
    BY DispatchAssumption DEF Places
  <2> QED BY <2>1, <2>2
<1>3. Placed(q) /\ Fresh(q)
  BY <1>1 DEF SessionOK, Sessions, Placed, Fresh, Answer, At
<1>4. SessionOK(q)
  BY <1>2, <1>3 DEF SessionOK
<1>5. ~q.live /\ q.taken = req[r].taken /\ q.amt = req[r].amt
  BY <1>1 DEF SessionOK, Sessions
<1>6. req' = [req EXCEPT ![r] = q] /\ used' = ReleasedSlots(r) /\ held' = held /\ spent' = spent
  BY DEF Answer
<1> HIDE DEF q
<1> QED BY <1>4, <1>5, <1>6, KeepsReleasing

\* The cause the router keeps for the next hop.
LEMMA ReportKeeps ==
    ASSUME Kept, NEW r \in Requests, Report(r)
    PROVE  Kept'
<1> DEFINE q == [req[r] EXCEPT !.pc = "settle", !.cause = Cause(req[r].outcome)]
<1>1. SessionOK(req[r])
  BY DEF Kept, Sessioned
<1>2. Cause(req[r].outcome) \in Causes
  <2>1. req[r].outcome \in AllOutcomes \cup {None}
    BY <1>1 DEF SessionOK, Sessions
  <2> QED BY <2>1 DEF AllOutcomes, Cause, Causes, None
<1>3. q \in Sessions
  BY <1>1, <1>2 DEF SessionOK, Sessions, Places
<1>4. Placed(q) /\ Fresh(q)
  BY <1>1 DEF SessionOK, Sessions, Placed, Fresh, Report, At
<1>5. SessionOK(q)
  BY <1>3, <1>4 DEF SessionOK
<1>6. req' = [req EXCEPT ![r] = q] /\ used' = used /\ held' = held /\ spent' = spent
  BY DEF Report
<1>7. \A d \in Deployments : Hold(q, d) = Hold(req[r], d)
  BY <1>1 DEF Hold, SessionOK, Sessions
<1>8. \A s \in Subjects : Share(q, s) = Share(req[r], s)
  BY <1>1 DEF Share, SessionOK, Sessions
<1> QED BY <1>5, <1>6, <1>7, <1>8, KeepsQuietly

\* An answer is settled: every hold becomes what the answer cost, which is no more.
LEMMA SettleKeeps ==
    ASSUME Kept, NEW r \in Requests, NEW cost \in Nat, Settle(r, cost)
    PROVE  Kept'
<1>1. SessionOK(req[r])
  BY DEF Kept, Sessioned
<1>2. ~req[r].live /\ req[r].amt \in Nat
  BY <1>1 DEF SessionOK, Sessions, Placed, Settle, At
<1>3. /\ req' = [req EXCEPT ![r] = Idle] /\ used' = used /\ held' = ReleasedHolds(r)
      /\ spent' = [s \in Subjects |-> IF s \in req[r].taken THEN spent[s] + cost ELSE spent[s]]
      /\ cost <= req[r].amt
  BY <1>2 DEF Settle
<1>4. /\ used \in [Deployments -> Nat] /\ held \in [Subjects -> Nat] /\ spent \in [Subjects -> Nat]
      /\ Limit \in [Subjects -> Nat]
      /\ \A s \in Subjects : spent[s] + held[s] <= Limit[s]
  BY DispatchAssumption DEF Kept, Booked
<1>5. \A d \in Deployments : used'[d] = used[d] + Hold(Idle, d) - Hold(req[r], d)
  <2>1. \A d \in Deployments : Hold(req[r], d) = 0 /\ Hold(Idle, d) = 0
    BY <1>2, IdleOK DEF Hold
  <2> QED BY <1>3, <1>4, <2>1
<1>6. \A s \in Subjects : held'[s] = held[s] - Share(req[r], s) /\ Share(req[r], s) \in Nat
  BY <1>3, Releases
<1>7. \A s \in Subjects : held'[s] = held[s] + Share(Idle, s) - Share(req[r], s)
  BY <1>4, <1>6, IdleOK
<1>8. \A s \in Subjects : spent'[s] + held'[s] <= Limit[s]
  <2> SUFFICES ASSUME NEW s \in Subjects PROVE spent'[s] + held'[s] <= Limit[s]
    OBVIOUS
  <2>1. CASE s \in req[r].taken
    <3>1. Share(req[r], s) = req[r].amt /\ spent'[s] = spent[s] + cost
      BY <1>3, <2>1 DEF Share
    <3> QED BY <1>2, <1>3, <1>4, <1>6, <3>1
  <2>2. CASE s \notin req[r].taken
    <3>1. Share(req[r], s) = 0 /\ spent'[s] = spent[s]
      BY <1>3, <2>2 DEF Share
    <3> QED BY <1>4, <1>6, <3>1
  <2> QED BY <2>1, <2>2
<1>9. used' \in [Deployments -> Int] /\ held' \in [Subjects -> Int]
  BY <1>3, <1>4, Releases
<1>10. spent' \in [Subjects -> Nat]
  BY <1>3, <1>4
<1> QED BY <1>3, <1>5, <1>7, <1>8, <1>9, <1>10, IdleOK, KeepsBooks

\* An attempt without an answer gives its holds back; its slot is already back.
LEMMA GiveUpKeeps ==
    ASSUME Kept, NEW r \in Requests, GiveUp(r)
    PROVE  Kept'
<1>1. ~req[r].live
  BY DEF Kept, Sessioned, SessionOK, Placed, GiveUp, At
<1>2. used' = ReleasedSlots(r)
  BY <1>1 DEF GiveUp, ReleasedSlots
<1>3. /\ req' = [req EXCEPT ![r] = Idle] /\ held' = ReleasedHolds(r) /\ spent' = spent
  BY DEF GiveUp
<1> QED BY <1>2, <1>3, KeepsEnding

\* A hop does too, and starts over with one attempt less to make.
LEMMA HopKeeps ==
    ASSUME Kept, NEW r \in Requests, Hop(r)
    PROVE  Kept'
<1> DEFINE q == [req[r] EXCEPT !.pc = "route", !.dep = None, !.taken = {}, !.amt = 0,
                               !.outcome = None]
<1>1. SessionOK(req[r])
  BY DEF Kept, Sessioned
<1>2. ~req[r].live /\ req[r].attempts <= MaxHops
  BY <1>1 DEF SessionOK, Placed, Hop, At, CanFallBack
<1>3. /\ req' = [req EXCEPT ![r] = q] /\ used' = used /\ held' = ReleasedHolds(r)
      /\ spent' = spent
  BY DEF Hop
<1>4. q \in Sessions
  <2>1. ASSUME NEW p \in Places, NEW d \in Deployments \cup {None}, NEW t \in SUBSET Subjects,
               NEW n \in Nat, NEW y \in AllOutcomes \cup {None}
        PROVE  [req[r] EXCEPT !.pc = p, !.dep = d, !.taken = t, !.amt = n, !.outcome = y]
                   \in Sessions
    BY <1>1 DEF SessionOK, Sessions
  <2>2. /\ "route" \in Places /\ None \in Deployments \cup {None} /\ {} \in SUBSET Subjects
        /\ 0 \in Nat /\ None \in AllOutcomes \cup {None}
    BY DEF Places
  <2> QED BY <2>1, <2>2
<1>5. /\ q.pc = "route" /\ q.taken = {} /\ q.live = req[r].live /\ q.cands = req[r].cands
      /\ q.busy = req[r].busy /\ q.tried = req[r].tried /\ q.attempts = req[r].attempts
  BY <1>1 DEF SessionOK, Sessions
<1> HIDE DEF q
<1>6. Placed(q)
  BY <1>2, <1>5 DEF Placed
<1>7. Fresh(q)
  BY <1>1, <1>2, <1>5 DEF SessionOK, Fresh
<1>8. SessionOK(q)
  BY <1>4, <1>6, <1>7 DEF SessionOK
<1>9. /\ used \in [Deployments -> Nat] /\ held \in [Subjects -> Nat] /\ spent \in [Subjects -> Nat]
      /\ Limit \in [Subjects -> Nat]
      /\ \A s \in Subjects : spent[s] + held[s] <= Limit[s]
  BY DispatchAssumption DEF Kept, Booked
<1>10. \A d \in Deployments : used'[d] = used[d] + Hold(q, d) - Hold(req[r], d)
  <2>1. \A d \in Deployments : Hold(req[r], d) = 0 /\ Hold(q, d) = 0
    BY <1>2, <1>5 DEF Hold
  <2> QED BY <1>3, <1>9, <2>1
<1>11. \A s \in Subjects : held'[s] = held[s] - Share(req[r], s) /\ Share(req[r], s) \in Nat
  BY <1>3, Releases
<1>12. \A s \in Subjects : held'[s] = held[s] + Share(q, s) - Share(req[r], s)
  <2>1. \A s \in Subjects : Share(q, s) = 0
    BY <1>5 DEF Share
  <2> QED BY <1>9, <1>11, <2>1
<1>13. \A s \in Subjects : spent'[s] + held'[s] <= Limit[s]
  BY <1>3, <1>9, <1>11
<1>14. used' \in [Deployments -> Int] /\ held' \in [Subjects -> Int]
       /\ spent' \in [Subjects -> Nat]
  BY <1>3, <1>9, Releases
<1> QED BY <1>3, <1>8, <1>10, <1>12, <1>13, <1>14, KeepsBooks

----------------------------------------------------------------------------
(***************************************************************************)
(* The circuits.                                                           *)
(***************************************************************************)
\* A stand-down opens the circuit for as long as asked, and at least the cooldown.
LEMMA MarkUnavailableType ==
    ASSUME NEW c \in Circuits, NEW d \in Int, d <= LongestCooldown
    PROVE  MarkUnavailable(c, d) \in Circuits /\ MarkUnavailable(c, d).state = "open"
<1>1. Cooldown \in Nat /\ LongestCooldown \in Nat /\ Cooldown <= LongestCooldown
  BY CooldownBound
<1>2. Max({d, Cooldown}) \in 0..LongestCooldown
  <2>1. Cooldown \in Int
    BY <1>1
  <2>2. Max({d, Cooldown}) \in {d, Cooldown} /\ Max({d, Cooldown}) >= Cooldown
    BY <2>1, MaxOfTwo
  <2> QED BY <1>1, <2>2
<1>3. HalfOpenProbes \in Nat
  BY DispatchAssumption
<1>4. ASSUME NEW s \in {"closed", "open", "half_open"}, NEW l \in 0..LongestCooldown,
             NEW p \in -1..HalfOpenProbes
      PROVE  /\ [c EXCEPT !.state = s, !.left = l, !.probes = p] \in Circuits
             /\ [c EXCEPT !.state = s, !.left = l, !.probes = p].state = s
  BY DEF Circuits
<1>5. "open" \in {"closed", "open", "half_open"} /\ 0 \in -1..HalfOpenProbes
  BY <1>3
<1> QED BY <1>2, <1>4, <1>5 DEF MarkUnavailable

\* A doubled back-off stays under the longest stand-down.
LEMMA BackoffBound ==
    ASSUME NEW n \in Nat \ {0}
    PROVE  Backoff(n) \in Int /\ Backoff(n) <= LongestCooldown
<1>1. /\ RateLimitCooldown \in Nat /\ RateLimitCooldownMax \in Nat /\ LongestCooldown \in Nat
      /\ RateLimitCooldown <= LongestCooldown /\ RateLimitCooldownMax <= LongestCooldown
  BY CooldownBound
<1>2. 2^(n - 1) \in Int
  <2>1. ASSUME NEW k \in Int, k >= 0 PROVE 2^k \in Int
    BY <2>1
  <2>2. n - 1 \in Int /\ n - 1 >= 0
    OBVIOUS
  <2> QED BY <2>1, <2>2
<1> DEFINE a == RateLimitCooldown * 2^(n - 1)
           b == Max({RateLimitCooldown, RateLimitCooldownMax})
<1>3. a \in Int
  <2>1. ASSUME NEW x \in Int, NEW y \in Int PROVE x * y \in Int
    OBVIOUS
  <2>2. RateLimitCooldown \in Int
    BY <1>1
  <2> QED BY <1>2, <2>1, <2>2
<1>4. b \in Int /\ b <= LongestCooldown
  <2>1. RateLimitCooldown \in Int /\ RateLimitCooldownMax \in Int
    BY <1>1
  <2>2. b \in {RateLimitCooldown, RateLimitCooldownMax}
    BY <2>1, MaxOfTwo
  <2> HIDE DEF b
  <2> QED BY <1>1, <2>2
<1>5. Backoff(n) = Min({a, b})
  BY DEF Backoff
<1> HIDE DEF a, b
<1>6. Min({a, b}) \in {a, b} /\ Min({a, b}) <= a /\ Min({a, b}) <= b
  BY <1>3, <1>4, MinOfTwo
<1> QED BY <1>1, <1>3, <1>4, <1>5, <1>6

\* MarkRateLimited leaves a circuit well formed.
LEMMA MarkRateLimitedType ==
    ASSUME NEW c \in Circuits
    PROVE  MarkRateLimited(c) \in Circuits /\ MarkRateLimited(c).state = "open"
<1> DEFINE n == Min({c.strikes + 1, StrikeCap})
<1>1. StrikeCap \in Nat \ {0} /\ c.strikes \in 0..StrikeCap
  BY DispatchAssumption DEF Circuits
<1>2. n \in 1..StrikeCap
  <2>1. c.strikes + 1 \in Int /\ StrikeCap \in Int
    BY <1>1
  <2>2. n \in {c.strikes + 1, StrikeCap} /\ n <= StrikeCap
    BY <2>1, MinOfTwo
  <2> HIDE DEF n
  <2> QED BY <1>1, <2>2
<1> HIDE DEF n
<1>3. [c EXCEPT !.strikes = n] \in Circuits
  BY <1>1, <1>2 DEF Circuits
<1>4. Backoff(n) \in Int /\ Backoff(n) <= LongestCooldown
  BY <1>1, <1>2, BackoffBound
<1>5. MarkRateLimited(c) = IF c.state = "open" THEN c
                           ELSE MarkUnavailable([c EXCEPT !.strikes = n], Backoff(n))
  BY DEF MarkRateLimited, n
<1> QED BY <1>3, <1>4, <1>5, MarkUnavailableType

\* Tracker.Report leaves a circuit half-open only by leaving it as it was.
LEMMA HealthReportType ==
    ASSUME NEW c \in Circuits, NEW o
    PROVE  /\ HealthReport(c, o) \in Circuits
           /\ HealthReport(c, o).state = "half_open" =>
                c.state = "half_open" /\ HealthReport(c, o).probes = c.probes
<1> DEFINE n == Min({c.fails + 1, FailureThreshold})
           f == [c EXCEPT !.fails = n]
<1>1. FailureThreshold \in Nat \ {0} /\ c.fails \in 0..FailureThreshold
  BY DispatchAssumption DEF Circuits
<1>2. n \in 0..FailureThreshold
  <2>1. c.fails + 1 \in Int /\ FailureThreshold \in Int
    BY <1>1
  <2>2. n \in {c.fails + 1, FailureThreshold} /\ n <= FailureThreshold
    BY <2>1, MinOfTwo
  <2> HIDE DEF n
  <2> QED BY <1>1, <2>2
<1> HIDE DEF n
<1>3. f \in Circuits /\ f.state = c.state /\ f.probes = c.probes
  BY <1>2 DEF Circuits
<1>4. MarkUnavailable(f, Cooldown) \in Circuits /\ MarkUnavailable(f, Cooldown).state = "open"
  <2>1. Cooldown \in Int /\ Cooldown <= LongestCooldown
    BY CooldownBound
  <2> HIDE DEF f
  <2> QED BY <1>3, <2>1, MarkUnavailableType
<1> DEFINE k == [c EXCEPT !.fails = 0, !.strikes = 0,
                          !.state = IF c.state = "half_open" THEN "closed" ELSE c.state]
<1>5. k \in Circuits /\ k.state # "half_open"
  <2>1. ASSUME NEW s \in {"closed", "open"}, NEW x \in 0..FailureThreshold,
               NEW y \in 0..StrikeCap
        PROVE  /\ [c EXCEPT !.fails = x, !.strikes = y, !.state = s] \in Circuits
               /\ [c EXCEPT !.fails = x, !.strikes = y, !.state = s].state = s
    BY DEF Circuits
  <2>2. 0 \in 0..FailureThreshold /\ 0 \in 0..StrikeCap
    BY DispatchAssumption
  <2>3. (IF c.state = "half_open" THEN "closed" ELSE c.state) \in {"closed", "open"}
    BY DEF Circuits
  <2> QED BY <2>1, <2>2, <2>3
<1>6. HealthReport(c, o) \in {MarkUnavailable(f, Cooldown), f, k, c}
  BY DEF HealthReport, n
<1> HIDE DEF f, k
<1> QED BY <1>3, <1>4, <1>5, <1>6

\* A stand-down leaves a circuit well formed.
LEMMA StandDownType ==
    ASSUME NEW c \in Circuits, NEW o
    PROVE  /\ StandDown(c, o) \in Circuits
           /\ StandDown(c, o).state = "half_open" =>
                c.state = "half_open" /\ StandDown(c, o).probes = c.probes
<1>1. /\ AuthCooldown \in Int /\ AuthCooldown <= LongestCooldown
      /\ RetryAfter \in Int /\ RetryAfter <= LongestCooldown
  BY CooldownBound
<1>2. StandDown(c, o) \in {MarkUnavailable(c, AuthCooldown), MarkUnavailable(c, RetryAfter),
                           MarkRateLimited(c), c}
  BY DEF StandDown
<1>3. \A x \in {MarkUnavailable(c, AuthCooldown), MarkUnavailable(c, RetryAfter),
               MarkRateLimited(c)} : x \in Circuits /\ x.state = "open"
  BY <1>1, MarkUnavailableType, MarkRateLimitedType
<1> QED BY <1>2, <1>3

\* Allow: the circuit, and the count of what it let through.
LEMMA AllowedType ==
    ASSUME NEW c \in Circuits, NEW a \in Nat, ProbesOK(c, a)
    PROVE  /\ Allowed(c) \in Circuits
           /\ ProbesOK(Allowed(c),
                  IF Admits(c) /\ Allowed(c).state = "half_open" THEN a + 1 ELSE a)
<1>1. /\ HalfOpenProbes \in Nat \ {0} /\ c.probes \in -1..HalfOpenProbes
      /\ c.state \in {"closed", "open", "half_open"} /\ c.left \in Int
  BY DispatchAssumption, CooldownBound DEF Circuits
<1>2. CASE c.state = "half_open"
  <2> DEFINE m == Max({c.probes - 1, -1})
  <2>1. m \in {c.probes - 1, -1} /\ m >= c.probes - 1 /\ m >= -1
    BY <1>1, MaxOfTwo
  <2>2. m \in -1..HalfOpenProbes
    BY <1>1, <2>1
  <2>3. Allowed(c) = [c EXCEPT !.probes = m]
    BY <1>2 DEF Allowed
  <2> HIDE DEF m
  <2>4. Allowed(c) \in Circuits /\ Allowed(c).probes = m /\ Allowed(c).state = "half_open"
    BY <1>2, <2>2, <2>3 DEF Circuits
  <2>5. Admits(c) <=> c.probes > 0
    BY <1>2 DEF Admits
  <2>6. a <= HalfOpenProbes /\ a + c.probes <= HalfOpenProbes
    BY <1>2 DEF ProbesOK
  <2>7. CASE c.probes > 0
    <3>1. m = c.probes - 1
      BY <1>1, <2>1, <2>7
    <3>2. a + 1 <= HalfOpenProbes /\ (a + 1) + m <= HalfOpenProbes
      BY <1>1, <2>6, <2>7, <3>1
    <3> QED BY <2>4, <2>5, <2>7, <3>2 DEF ProbesOK
  <2>8. CASE ~(c.probes > 0)
    <3>1. a + m <= HalfOpenProbes
      BY <1>1, <2>1, <2>6, <2>8
    <3> QED BY <2>4, <2>5, <2>6, <2>8, <3>1 DEF ProbesOK
  <2> QED BY <2>7, <2>8
<1>3. CASE c.state = "open" /\ c.left = 0
  <2>1. Allowed(c) = [c EXCEPT !.state = "half_open", !.probes = HalfOpenProbes - 1]
    BY <1>3 DEF Allowed
  <2>2. ASSUME NEW s \in {"closed", "open", "half_open"}, NEW p \in -1..HalfOpenProbes
        PROVE  /\ [c EXCEPT !.state = s, !.probes = p] \in Circuits
               /\ [c EXCEPT !.state = s, !.probes = p].state = s
               /\ [c EXCEPT !.state = s, !.probes = p].probes = p
    BY DEF Circuits
  <2>3. "half_open" \in {"closed", "open", "half_open"}
        /\ HalfOpenProbes - 1 \in -1..HalfOpenProbes
    BY <1>1
  <2>4. /\ Allowed(c) \in Circuits /\ Allowed(c).state = "half_open"
        /\ Allowed(c).probes = HalfOpenProbes - 1
    <3> DEFINE w == [c EXCEPT !.state = "half_open", !.probes = HalfOpenProbes - 1]
    <3>1. w \in Circuits /\ w.state = "half_open" /\ w.probes = HalfOpenProbes - 1
      BY <2>2, <2>3, Zenon
    <3> QED BY <2>1, <3>1
  <2>5. a = 0 /\ Admits(c)
    BY <1>3 DEF ProbesOK, Admits
  <2>6. 1 <= HalfOpenProbes /\ 1 + (HalfOpenProbes - 1) <= HalfOpenProbes
    BY <1>1
  <2> QED BY <2>4, <2>5, <2>6 DEF ProbesOK
<1>4. CASE c.state # "half_open" /\ ~(c.state = "open" /\ c.left = 0)
  <2>1. Allowed(c) = c
    BY <1>4 DEF Allowed
  <2> QED BY <1>4, <2>1
<1> QED BY <1>2, <1>3, <1>4

\* A circuit replaced by one that is half-open only if it was, with the same probes.
LEMMA SetCircuitMeters ==
    ASSUME Metered, NEW d \in Deployments, NEW c \in Circuits, SetCircuit(d, c),
           c.state = "half_open" => circ[d].state = "half_open" /\ c.probes = circ[d].probes
    PROVE  Metered'
<1>1. circ \in [Deployments -> Circuits] /\ admitted \in [Deployments -> Nat]
  BY DEF Metered
<1>2. circ' \in [Deployments -> Circuits]
      /\ \A e \in Deployments : circ'[e] = IF e = d THEN c ELSE circ[e]
  BY <1>1 DEF SetCircuit
<1>3. admitted' \in [Deployments -> Nat]
      /\ \A e \in Deployments : admitted'[e] = IF e = d /\ c.state # "half_open" THEN 0
                                               ELSE admitted[e]
  BY <1>1 DEF SetCircuit
<1>4. \A e \in Deployments : ProbesOK(circ[e], admitted[e])
  BY DEF Metered
<1>5. \A e \in Deployments : ProbesOK(circ'[e], admitted'[e])
  BY <1>2, <1>3, <1>4 DEF ProbesOK
<1> QED BY <1>2, <1>3, <1>5 DEF Metered

\* Allow changes one circuit, and neither slots nor holds.
LEMMA ConsultMeters ==
    ASSUME Metered, NEW r \in Requests, NEW d \in Deployments, Consult(r, d)
    PROVE  Metered'
<1> DEFINE a == IF Admits(circ[d]) /\ Allowed(circ[d]).state = "half_open"
                THEN admitted[d] + 1 ELSE admitted[d]
<1>1. circ \in [Deployments -> Circuits] /\ admitted \in [Deployments -> Nat]
      /\ \A e \in Deployments : ProbesOK(circ[e], admitted[e])
  BY DEF Metered
<1>2. Allowed(circ[d]) \in Circuits /\ ProbesOK(Allowed(circ[d]), a)
  BY <1>1, AllowedType
<1>3. circ' = [circ EXCEPT ![d] = Allowed(circ[d])] /\ admitted' = [admitted EXCEPT ![d] = a]
  BY DEF Consult
<1>4. a \in Nat
  BY <1>1
<1> HIDE DEF a
<1>5. circ' \in [Deployments -> Circuits] /\ admitted' \in [Deployments -> Nat]
  BY <1>1, <1>2, <1>3, <1>4
<1>6. \A e \in Deployments : ProbesOK(circ'[e], admitted'[e])
  <2>1. circ'[d] = Allowed(circ[d]) /\ admitted'[d] = a
    BY <1>1, <1>3
  <2>2. \A e \in Deployments : e # d => circ'[e] = circ[e] /\ admitted'[e] = admitted[e]
    BY <1>1, <1>3
  <2> QED BY <1>1, <1>2, <2>1, <2>2
<1> QED BY <1>5, <1>6 DEF Metered

\* An answer changes neither slots nor holds.
LEMMA AnswerMeters ==
    ASSUME Metered, Kept, NEW r \in Requests, NEW o \in Outcomes, Answer(r, o)
    PROVE  Metered'
<1> DEFINE d == req[r].dep
           c == HealthReport(circ[d], o)
<1>1. d \in Deployments
  BY DEF Kept, Sessioned, SessionOK, Placed, Answer, At
<1>2. circ[d] \in Circuits
  BY <1>1 DEF Metered
<1>3. SetCircuit(d, c)
  BY DEF Answer
<1> HIDE DEF d
<1>4. c \in Circuits
      /\ (c.state = "half_open" => circ[d].state = "half_open" /\ c.probes = circ[d].probes)
  BY <1>2, HealthReportType
<1> HIDE DEF c
<1> QED BY <1>1, <1>3, <1>4, SetCircuitMeters

\* Report changes one circuit, and neither slots nor holds.
LEMMA ReportMeters ==
    ASSUME Metered, Kept, NEW r \in Requests, Report(r)
    PROVE  Metered'
<1> DEFINE d == req[r].dep
           c == StandDown(circ[d], req[r].outcome)
<1>1. d \in Deployments
  BY DEF Kept, Sessioned, SessionOK, Placed, Report, At
<1>2. circ[d] \in Circuits
  BY <1>1 DEF Metered
<1>3. SetCircuit(d, c)
  BY DEF Report
<1> HIDE DEF d
<1>4. c \in Circuits
      /\ (c.state = "half_open" => circ[d].state = "half_open" /\ c.probes = circ[d].probes)
  BY <1>2, StandDownType
<1> HIDE DEF c
<1> QED BY <1>1, <1>3, <1>4, SetCircuitMeters

\* Time passes for every circuit.
LEMMA TickMeters ==
    ASSUME Metered, Tick
    PROVE  Metered'
<1>1. circ \in [Deployments -> Circuits] /\ admitted \in [Deployments -> Nat]
      /\ \A e \in Deployments : ProbesOK(circ[e], admitted[e])
  BY DEF Metered
<1>2. ASSUME NEW e \in Deployments
      PROVE  /\ circ'[e] \in Circuits /\ circ'[e].state = circ[e].state
             /\ circ'[e].probes = circ[e].probes
  <2> DEFINE m == Max({circ[e].left - 1, 0})
  <2>1. circ[e].left \in 0..LongestCooldown /\ LongestCooldown \in Nat
    BY <1>1, CooldownBound DEF Circuits
  <2>2. circ[e].left - 1 \in Int /\ 0 \in Int
    BY <2>1
  <2>3. m \in {circ[e].left - 1, 0} /\ m >= 0
    BY <2>2, MaxOfTwo
  <2>4. circ'[e] = [circ[e] EXCEPT !.left = m]
    BY DEF Tick
  <2> HIDE DEF m
  <2>5. m \in 0..LongestCooldown
    BY <2>1, <2>3
  <2> QED BY <1>1, <2>4, <2>5 DEF Circuits
<1>3. circ' = [e \in Deployments |-> circ'[e]] /\ admitted' = admitted
  BY DEF Tick
<1>4. circ' \in [Deployments -> Circuits]
  BY <1>2, <1>3
<1>5. \A e \in Deployments : ProbesOK(circ'[e], admitted'[e])
  BY <1>1, <1>2, <1>3 DEF ProbesOK
<1> QED BY <1>1, <1>3, <1>4, <1>5 DEF Metered

----------------------------------------------------------------------------
(***************************************************************************)
(* The invariant and what follows from it.                                 *)
(***************************************************************************)
\* A step of any request, or of time, keeps the sessions and their books.
LEMMA NextKeeps ==
    ASSUME Kept, Next
    PROVE  Kept'
<1>1. CASE Tick
  <2>1. req' = req /\ used' = used /\ held' = held /\ spent' = spent
    BY <1>1 DEF Tick
  <2> QED BY <2>1 DEF Kept, Sessioned, Booked, Holders, UnitsHeld
<1>2. ASSUME NEW r \in Requests, Arrive(r) \/ Step(r) \/ Sweep(r)
      PROVE  Kept'
  <2>1. CASE Arrive(r) BY <2>1, ArriveKeeps
  <2>2. CASE Sweep(r) BY <2>2, SweepKeeps
  <2>3. CASE Route(r) BY <2>3, RouteKeeps
  <2>4. CASE TryAcquire(r) BY <2>4, TryAcquireKeeps
  <2>5. CASE EndWalk(r) BY <2>5, EndWalkKeeps
  <2>6. CASE WaitedOut(r) BY <2>6, WaitedOutKeeps
  <2>7. CASE OnRoute(r) BY <2>7, OnRouteKeeps
  <2>8. CASE \E s \in Subjects : Reserve(r, s) BY <2>8, ReserveKeeps
  <2>9. CASE Refused(r) BY <2>9, RefusedKeeps
  <2>10. CASE Send(r) BY <2>10, SendKeeps
  <2>11. CASE Report(r) BY <2>11, ReportKeeps
  <2>12. CASE GiveUp(r) BY <2>12, GiveUpKeeps
  <2>13. CASE Hop(r) BY <2>13, HopKeeps
  <2>14. CASE \E d \in Deployments : Consult(r, d) BY <2>14, ConsultKeeps
  <2>15. CASE \E d \in Deployments : Granted(r, d) BY <2>15, GrantedKeeps
  <2>16. CASE \E o \in Outcomes : Answer(r, o) BY <2>16, AnswerKeeps
  <2>17. CASE \E c \in 0..Max({Quote[d] : d \in Deployments}) : Settle(r, c)
    <3>1. PICK c : Settle(r, c)
      BY <2>17
    <3>2. req[r].amt \in Nat
      BY DEF Kept, Sessioned, Sessions
    <3>3. c \in Nat
      BY <3>1, <3>2 DEF Settle
    <3> QED BY <3>1, <3>3, SettleKeeps
  <2> QED BY <1>2, <2>1, <2>2, <2>3, <2>4, <2>5, <2>6, <2>7, <2>8, <2>9, <2>10, <2>11, <2>12,
             <2>13, <2>14, <2>15, <2>16, <2>17 DEF Step
<1> QED BY <1>1, <1>2 DEF Next

\* Only a consultation, an answer, a report and time touch the circuits.
LEMMA NextMeters ==
    ASSUME Sound, Next
    PROVE  Metered' /\ faults' \in [Deployments -> 0..FailureThreshold]
<1> USE DEF Sound
<1>1. CASE circ' = circ /\ admitted' = admitted /\ faults' = faults
  BY <1>1 DEF Metered
<1>2. CASE Tick
  BY <1>2, TickMeters DEF Tick
<1>3. ASSUME NEW r \in Requests, Report(r) PROVE Metered' /\ faults' = faults
  BY <1>3, ReportMeters DEF Report
<1>4. ASSUME NEW r \in Requests, NEW d \in Deployments, Consult(r, d)
      PROVE  Metered' /\ faults' = faults
  BY <1>4, ConsultMeters DEF Consult
<1>5. ASSUME NEW r \in Requests, NEW o \in Outcomes, Answer(r, o)
      PROVE  Metered' /\ faults' \in [Deployments -> 0..FailureThreshold]
  <2>1. Metered'
    BY <1>5, AnswerMeters
  <2> DEFINE d == req[r].dep
             n == CASE o = "ok" -> 0
                    [] o \in {"upstream_5xx", "timeout", "cut"} ->
                           Min({faults[d] + 1, FailureThreshold})
                    [] OTHER -> faults[d]
  <2>2. d \in Deployments
    BY <1>5 DEF Kept, Sessioned, SessionOK, Placed, Answer, At
  <2>3. faults' = [faults EXCEPT ![d] = n]
    BY <1>5 DEF Answer
  <2> HIDE DEF d
  <2>4. faults[d] \in 0..FailureThreshold /\ FailureThreshold \in Nat
    BY <2>2, DispatchAssumption
  <2>5. faults[d] + 1 \in Int /\ FailureThreshold \in Int
    BY <2>4
  <2>6. Min({faults[d] + 1, FailureThreshold}) \in {faults[d] + 1, FailureThreshold}
        /\ Min({faults[d] + 1, FailureThreshold}) <= FailureThreshold
    BY <2>5, MinOfTwo
  <2>7. n \in 0..FailureThreshold
    BY <2>4, <2>6
  <2> HIDE DEF n
  <2> QED BY <2>1, <2>3, <2>7
<1>6. ASSUME NEW r \in Requests,
             \/ Arrive(r) \/ Sweep(r) \/ Route(r) \/ TryAcquire(r) \/ EndWalk(r) \/ WaitedOut(r)
             \/ OnRoute(r) \/ Refused(r) \/ Send(r) \/ GiveUp(r) \/ Hop(r)
             \/ (\E s \in Subjects : Reserve(r, s)) \/ (\E d \in Deployments : Granted(r, d))
             \/ (\E c \in 0..Max({Quote[d] : d \in Deployments}) : Settle(r, c))
      PROVE  circ' = circ /\ admitted' = admitted /\ faults' = faults
  BY <1>6 DEF Arrive, Sweep, Route, TryAcquire, EndWalk, WaitedOut, OnRoute, Refused, Send,
              GiveUp, Hop, Reserve, Granted, Settle
<1> QED BY <1>1, <1>2, <1>3, <1>4, <1>5, <1>6 DEF Next, Step

\* The inductive invariant holds when nothing is in flight.
LEMMA SoundInit ==
    ASSUME Init
    PROVE  Sound
<1>1. Sessioned
  BY IdleOK DEF Init, Sessioned, SessionOK
<1>2. \A d \in Deployments : Holders(d) = {}
  BY DEF Init, Holders, Idle
<1>3. ASSUME NEW s \in Subjects PROVE Cardinality(UnitsHeld(s)) = 0
  <2>1. UnitsHeld(s) = {}
    BY DEF Init, UnitsHeld, Idle
  <2> QED BY <2>1, FS_EmptySet
<1>4. Booked
  <2>1. Cardinality({}) = 0
    BY FS_EmptySet
  <2>2. /\ used \in [Deployments -> Nat] /\ held \in [Subjects -> Nat]
        /\ spent \in [Subjects -> Nat]
    BY DEF Init
  <2>3. \A d \in Deployments : used[d] = Cardinality(Holders(d))
    BY <1>2, <2>1 DEF Init
  <2>4. \A s \in Subjects : held[s] = Cardinality(UnitsHeld(s))
    BY <1>3 DEF Init
  <2>5. \A s \in Subjects : spent[s] + held[s] <= Limit[s]
    BY DispatchAssumption DEF Init
  <2> QED BY <2>2, <2>3, <2>4, <2>5 DEF Booked
<1>5. Metered
  <2>1. Closed \in Circuits
    BY CooldownBound, DispatchAssumption DEF Closed, Circuits
  <2> QED BY <2>1 DEF Init, Metered, ProbesOK, Closed
<1>6. faults \in [Deployments -> 0..FailureThreshold]
  BY DispatchAssumption DEF Init
<1> QED BY <1>1, <1>4, <1>5, <1>6 DEF Sound, Kept

\* The inductive invariant holds in every reachable state.
THEOREM Soundness == Spec => []Sound
<1>1. Init => Sound
  BY SoundInit
<1>2. Sound /\ [Next]_vars => Sound'
  <2> SUFFICES ASSUME Sound, [Next]_vars PROVE Sound'
    OBVIOUS
  <2>1. CASE Next
    BY <2>1, NextKeeps, NextMeters DEF Sound
  <2>2. CASE UNCHANGED vars
    BY <2>2 DEF vars, Sound, Kept, Sessioned, Booked, Metered, Holders, UnitsHeld
  <2> QED BY <2>1, <2>2
<1> QED BY <1>1, <1>2, PTL DEF Spec

\* Every slot in use belongs to exactly one request that holds it, and a request that
\* is not at work holds none: Release is called once for every acquisition on every
\* path out of Dispatch, for any number of requests and slots.
THEOREM SlotsMatchHolds == Spec => []SlotsMatch
<1>1. Sound => SlotsMatch
  BY DEF Sound, Kept, Sessioned, SessionOK, Placed, Booked, Holders, SlotsMatch
<1> QED BY <1>1, Soundness, PTL

\* What the budget gate holds on a subject is the sum of what the requests in flight
\* hold on it, and with what was settled it never exceeds the ceiling.
THEOREM BudgetExactHolds == Spec => []BudgetExact
<1>1. Sound => BudgetExact
  BY DEF Sound, Kept, Booked, BudgetExact
<1> QED BY <1>1, Soundness, PTL

\* Types; no deployment is attempted twice by a request, which makes at most
\* MaxHops + 1 attempts; and a half-open circuit lets at most HalfOpenProbes through.
THEOREM WithinBoundsHolds == Spec => []WithinBounds
<1>1. Sound => TypeOK
  BY DEF Sound, Kept, Sessioned, Booked, Metered, TypeOK
<1>2. Sound => HopsBounded
  BY DEF Sound, Kept, Sessioned, SessionOK, Fresh, HopsBounded
<1>3. Sound => OneProbe
  BY DispatchAssumption DEF Sound, Metered, ProbesOK, OneProbe
<1>4. Sound => WithinBounds
  BY <1>1, <1>2, <1>3 DEF WithinBounds
<1> QED BY <1>4, Soundness, PTL
=============================================================================
