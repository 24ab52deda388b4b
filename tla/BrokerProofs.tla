---------------------------- MODULE BrokerProofs ----------------------------
(***************************************************************************)
(* Proofs about Broker: type correctness, the accounting of every key, its *)
(* ceiling, the shape of the claims, the absence of leftovers and the      *)
(* interactive reserve hold for every set of keys, ceilings, callers and   *)
(* requests.  Where no request spills and the probes of a release reach    *)
(* every waiter, nobody waits for what is free and no newcomer takes it    *)
(* from a waiter; with a steady share identical waiters are served in the  *)
(* order they came.                                                        *)
(***************************************************************************)
EXTENDS Broker, FiniteSetTheorems, WellFoundedInduction, TLAPS

-----------------------------------------------------------------------------
(* Facts about the operators the model is built from.                      *)

\* A non-empty set of naturals has a least element.
LEMMA LeastNat ==
    ASSUME NEW T, T \subseteq Nat, T # {}
    PROVE  \E x \in T : \A y \in T : x <= y
<1>1. PICK x \in T : \A y \in T : <<y, x>> \notin OpToRel(<, Nat)
  BY NatLessThanWellFounded, WFMin, Zenon
<1>2. \A y \in T : ~(y < x)
  BY <1>1 DEF OpToRel
<1> QED
  BY <1>2

\* FirstIn picks a member of every non-empty set of keys.
LEMMA FirstInMember ==
    ASSUME NEW S, S \subseteq Keys, S # {}
    PROVE  FirstIn(S) \in S
<1> DEFINE T == {Axis[k] : k \in S}
<1>1. T \subseteq Nat /\ T # {}
  BY KeyAssumption
<1>2. PICK n \in T : \A m \in T : n <= m
  BY <1>1, LeastNat
<1>3. \E k \in S : \A j \in S : Axis[k] <= Axis[j]
  BY <1>2
<1> QED
  BY <1>3 DEF FirstIn

\* Integer division by a positive number does not enlarge.
LEMMA DivAtMost ==
    ASSUME NEW x \in Nat, NEW n \in Nat, n > 0
    PROVE  x \div n \in Nat /\ x \div n <= x
  OBVIOUS

\* A share of a ceiling is at most the ceiling.
LEMMA ScaleAtMost ==
    ASSUME NEW x \in Nat, NEW m \in Nat, NEW n \in Nat, n > 0, m <= n
    PROVE  (x * m) \div n \in Nat /\ (x * m) \div n <= x
  OBVIOUS

\* This node's part of a ceiling is positive and never above the ceiling.
LEMMA NodeLimitBounds ==
    ASSUME TypeOK, NEW k \in Keys, Limit[k] > 0
    PROVE  NodeLimit(k) \in Nat /\ 0 < NodeLimit(k) /\ NodeLimit(k) <= Limit[k]
<1>1. Limit[k] \in Nat /\ share \in Nat /\ share > 0
  BY KeyAssumption, ParameterAssumption DEF TypeOK
<1>2. Limit[k] \div share \in Nat /\ Limit[k] \div share <= Limit[k]
  BY <1>1, DivAtMost
<1> QED
  BY <1>1, <1>2 DEF NodeLimit

\* What batch work may use of a ceiling is at most the node's part of it.
LEMMA EffLimitBounds ==
    ASSUME TypeOK, NEW k \in Keys, Limit[k] > 0
    PROVE  EffLimit(k) \in Nat /\ EffLimit(k) <= NodeLimit(k)
<1>1. NodeLimit(k) \in Nat
  BY NodeLimitBounds
<1>2. ResDen - ResNum \in Nat /\ ResDen - ResNum <= ResDen /\ ResDen \in Nat /\ ResDen > 0
  BY ParameterAssumption
<1> QED
  BY <1>1, <1>2, ScaleAtMost DEF EffLimit

\* The keys a candidate is counted on are limited keys of the model.
LEMMA NeedsType ==
    ASSUME NEW r \in AllRequests, NEW i \in Attempts(r)
    PROVE  Needs(r, i) \subseteq {k \in Keys : Limit[k] > 0}
<1>1. /\ r.cands \in Seq(SUBSET Keys)
      /\ r.pref \in 1 .. Len(r.cands)
      /\ r.spill \in BOOLEAN
  BY RequestAssumption
<1>2. i \in 1 .. Len(r.cands)
  BY <1>1 DEF Attempts, CandidateCount
<1>3. CandidateAt(r, i) \in SUBSET Keys
  BY <1>1, <1>2 DEF CandidateAt
<1> QED
  BY <1>3 DEF Needs

\* Every request has a first attempt.
LEMMA FirstAttempt ==
    ASSUME NEW r \in AllRequests
    PROVE  1 \in Attempts(r) /\ Attempts(r) \subseteq Nat \ {0}
<1>1. /\ Len(r.cands) \in Nat /\ r.pref \in 1 .. Len(r.cands) /\ r.spill \in BOOLEAN
  BY RequestAssumption
<1> QED
  BY <1>1 DEF Attempts, CandidateCount

\* A candidate that passes the check has a free unit on every key it needs that
\* its waiter has not set aside.
LEMMA RoomOnNeeds ==
    ASSUME TypeOK, NEW r \in AllRequests, NEW w, NEW i \in Admitting(r, w),
           NEW k \in Needs(r, i), claimant[k] # w
    PROVE  k \in Keys /\ inUse[k] < Limit[k]
<1>1. i \in Attempts(r) /\ Blockers(r, i, w) = {}
  BY DEF Admitting
<1>2. k \in Keys /\ Limit[k] > 0
  BY <1>1, NeedsType
<1>3. ~Full(k, r, w)
  BY <1>1 DEF Blockers
<1>4. /\ NodeLimit(k) \in Nat /\ NodeLimit(k) <= Limit[k]
      /\ EffLimit(k) \in Nat /\ EffLimit(k) <= NodeLimit(k)
      /\ inUse[k] \in Nat /\ Limit[k] \in Nat
  BY <1>2, NodeLimitBounds, EffLimitBounds, KeyAssumption DEF TypeOK, BucketType
<1> QED
  BY <1>2, <1>3, <1>4 DEF Full

\* The candidate tryLocked commits is one that passed the check.
LEMMA WinnerAdmitted ==
    ASSUME NEW r \in AllRequests, NEW w, Admitting(r, w) # {}
    PROVE  Winner(r, w) \in Admitting(r, w)
<1>1. r.cands \in Seq(SUBSET Keys) /\ r.spill \in BOOLEAN
  BY RequestAssumption
<1>2. Admitting(r, w) \subseteq Nat
  BY <1>1 DEF Admitting, Attempts, CandidateCount
<1> QED
  BY <1>2, LeastNat DEF Winner

\* A request that cannot be served waits only on keys its candidates need.
LEMMA BlockingOnNeeds ==
    ASSUME NEW r \in AllRequests, NEW w, Admitting(r, w) = {}
    PROVE  \A k \in Blocking(r, w) : \E i \in Attempts(r) : k \in Needs(r, i)
<1>1. ASSUME NEW i \in Attempts(r)
      PROVE  BlockAt(r, i, w) \in Needs(r, i)
  <2>1. Blockers(r, i, w) # {}
    BY DEF Admitting
  <2>2. Blockers(r, i, w) \subseteq Needs(r, i) /\ Needs(r, i) \subseteq Keys
    BY NeedsType DEF Blockers
  <2>3. BlockAt(r, i, w) \in Blockers(r, i, w)
    BY <2>1, <2>2, FirstInMember DEF BlockAt
  <2> QED
    BY <2>2, <2>3
<1> QED
  BY <1>1 DEF Blocking, Retryable

-----------------------------------------------------------------------------
(* The inductive invariant.                                                *)

\* A sweep releases only reservations that are live.
DoomedLive == doomed \subseteq live

\* A caller that is not idle has a request on record.
RequestKnown == \A c \in Callers : phase[c] # "idle" => req[c] \in AllRequests

\* A waiter sits only in queues of keys one of its candidates needs.
QueuedOnNeeds ==
    \A c \in Callers : \A k \in at[c] :
        \E i \in Attempts(req[c]) : k \in Needs(req[c], i)

\* A waiter's claims are over one of its candidates, from the first one on.
ClaimCandidate ==
    \A c \in Callers : IF phase[c] = "waiting" THEN claimIdx[c] \in Attempts(req[c])
                                              ELSE claimIdx[c] = 1

IInv ==
    /\ TypeOK
    /\ Accounting
    /\ CapacityRespected
    /\ ClaimsArePrefix
    /\ NoTrace
    /\ DoomedLive
    /\ RequestKnown
    /\ QueuedOnNeeds
    /\ ClaimCandidate

\* The axes a waiter claims over are limited keys of the model.
LEMMA ClaimNeedsKeys ==
    ASSUME IInv, NEW w \in Callers, phase[w] = "waiting"
    PROVE  ClaimNeeds(w) \subseteq {k \in Keys : Limit[k] > 0}
<1>1. req[w] \in AllRequests /\ claimIdx[w] \in Attempts(req[w])
  BY DEF IInv, RequestKnown, ClaimCandidate
<1> QED
  BY <1>1, NeedsType DEF ClaimNeeds

-----------------------------------------------------------------------------
(* Counting the holders of a key.                                          *)

\* Finitely many reservations hold a key.
LEMMA HoldersFinite ==
    ASSUME TypeOK, NEW k
    PROVE  IsFiniteSet(Holders(k)) /\ Cardinality(Holders(k)) \in Nat
<1>1. Holders(k) \in SUBSET Callers
  BY DEF Holders, TypeOK, ReservationType
<1> QED
  BY <1>1, CallerAssumption, FS_Subset, FS_CardinalityType

\* A new reservation adds its caller to the holders of exactly its keys.
LEMMA HoldersGrow ==
    ASSUME TypeOK, NEW c \in Callers, c \notin live, NEW N, NEW k,
           live' = live \cup {c}, held' = [held EXCEPT ![c] = N]
    PROVE  Cardinality(Holders(k)')
             = Cardinality(Holders(k)) + (IF k \in N THEN 1 ELSE 0)
<1>1. c \notin Holders(k)
  BY DEF Holders
<1>2. Holders(k)' = IF k \in N THEN Holders(k) \cup {c} ELSE Holders(k)
  BY DEF Holders, TypeOK, ReservationType
<1>3. Cardinality(Holders(k) \cup {c}) = Cardinality(Holders(k)) + 1
  BY <1>1, HoldersFinite, FS_AddElement
<1>4. Cardinality(Holders(k)) \in Nat
  BY HoldersFinite
<1> QED
  BY <1>2, <1>3, <1>4

\* A released reservation takes its caller off the holders of exactly its keys.
LEMMA HoldersShrink ==
    ASSUME TypeOK, NEW c \in live, NEW k,
           live' = live \ {c}, \A d \in live' : held'[d] = held[d]
    PROVE  /\ Cardinality(Holders(k)')
                = Cardinality(Holders(k)) - (IF k \in held[c] THEN 1 ELSE 0)
           /\ k \in held[c] => Cardinality(Holders(k)) > 0
<1>1. Holders(k)' = IF k \in held[c] THEN Holders(k) \ {c} ELSE Holders(k)
  BY DEF Holders, TypeOK, ReservationType
<1>2. k \in held[c] => c \in Holders(k)
  BY DEF Holders
<1>3. k \in held[c] => Cardinality(Holders(k)) # 0
  BY <1>2, HoldersFinite, FS_EmptySet
<1>4. k \in held[c] => Cardinality(Holders(k) \ {c}) = Cardinality(Holders(k)) - 1
  BY <1>2, HoldersFinite, FS_RemoveElement
<1>5. Cardinality(Holders(k)) \in Nat
  BY HoldersFinite
<1> QED
  BY <1>1, <1>3, <1>4, <1>5

\* Reservations that do not change keep the holders of every key.
LEMMA HoldersSame ==
    ASSUME UNCHANGED resVars, NEW k
    PROVE  Holders(k)' = Holders(k)
  BY DEF Holders, resVars

-----------------------------------------------------------------------------
(* The invariant holds initially and every action preserves it.            *)

\* The inductive invariant holds of a broker with nobody in it.
LEMMA InitIInv == Init => IInv
<1> SUFFICES ASSUME Init PROVE IInv
  OBVIOUS
<1>1. TypeOK
  <2>1. /\ inUse \in [Keys -> Nat]
        /\ claimant \in [Keys -> Callers \cup {None}]
        /\ queueMax \in [Keys -> Nat \cup {None}]
    BY DEF Init
  <2>2. /\ phase \in [Callers -> Phases]
        /\ req \in [Callers -> AllRequests \cup {None}]
        /\ ahead \in [Callers -> SUBSET Callers]
        /\ at \in [Callers -> SUBSET Keys]
        /\ held \in [Callers -> SUBSET Keys]
    BY DEF Init, Phases
  <2>3. /\ bounces \in [Callers -> 0 .. BounceCap]
        /\ stall \in [Callers -> 0 .. BounceCap]
        /\ claimIdx \in [Callers -> Nat \ {0}]
    BY ParameterAssumption DEF Init
  <2>4. /\ share \in 1 .. MaxShare
        /\ budget \in 0 .. MaxProbePerRelease
    BY ParameterAssumption DEF Init
  <2>5. /\ todo \in Seq((SUBSET Keys) \ {{}})
        /\ pending \in Seq((SUBSET Keys) \ {{}})
    BY DEF Init
  <2>6. /\ live \in SUBSET Callers /\ closed \in BOOLEAN /\ doomed \in SUBSET Callers
        /\ cur \in Keys \cup {None} /\ park \in SUBSET Callers /\ probed \in SUBSET Callers
    BY DEF Init
  <2> QED
    BY <2>1, <2>2, <2>3, <2>4, <2>5, <2>6 DEF TypeOK, BucketType, WaiterType,
      ReservationType, PassType
<1>2. Accounting
  <2>1. \A k \in Keys : Holders(k) = {}
    BY DEF Init, Holders
  <2>2. \A k \in Keys : Cardinality(Holders(k)) = 0
    BY <2>1, FS_EmptySet
  <2>3. \A k \in Keys : inUse[k] = 0 /\ claimant[k] = None
    BY DEF Init
  <2> QED
    BY <2>2, <2>3 DEF Accounting
<1>3. CapacityRespected
  BY KeyAssumption DEF Init, CapacityRespected
<1>4. ClaimsArePrefix
  BY DEF Init, ClaimsArePrefix
<1>5. NoTrace
  BY NoneAssumption DEF Init, NoTrace, Claims
<1>6. DoomedLive /\ RequestKnown /\ QueuedOnNeeds /\ ClaimCandidate
  BY DEF Init, DoomedLive, RequestKnown, QueuedOnNeeds, ClaimCandidate
<1> QED
  BY <1>1, <1>2, <1>3, <1>4, <1>5, <1>6 DEF IInv

\* A request granted at once.
LEMMA GrantFreshStep ==
    ASSUME IInv, NEW c \in Callers, NEW r \in Requests[c], GrantFresh(c, r)
    PROVE  IInv'
<1> DEFINE N == Needs(r, Winner(r, NoClaimant))
<1> USE DEF IInv
<1>1. r \in AllRequests
  BY DEF AllRequests
<1>2. Winner(r, NoClaimant) \in Admitting(r, NoClaimant)
  BY <1>1, WinnerAdmitted DEF GrantFresh
<1>3. N \subseteq Keys
  BY <1>1, <1>2, NeedsType DEF Admitting
<1>4. phase[c] = "idle" /\ c \notin live
  BY DEF GrantFresh, NoTrace
<1>5. \A k \in Keys : claimant[k] # NoClaimant
  BY NoneAssumption DEF TypeOK, BucketType
<1>6. \A k \in N : inUse[k] < Limit[k]
  BY <1>1, <1>2, <1>3, <1>5, RoomOnNeeds
<1> HIDE DEF N
<1>7. /\ inUse' = [k \in Keys |-> IF k \in N THEN inUse[k] + 1 ELSE inUse[k]]
      /\ held' = [held EXCEPT ![c] = N] /\ live' = live \cup {c}
      /\ queueMax' = [k \in Keys |-> IF k \in N /\ queueMax[k] = None
                                     THEN QueueLimit[k] ELSE queueMax[k]]
      /\ phase' = [phase EXCEPT ![c] = "held"] /\ req' = [req EXCEPT ![c] = r]
      /\ UNCHANGED <<claimant, ahead, at, bounces, stall, claimIdx, share, closed, passVars>>
  BY <1>5 DEF GrantFresh, Commit, N
<1>8. TypeOK'
  <2>1. BucketType'
    BY <1>3, <1>7, KeyAssumption DEF TypeOK, BucketType
  <2>2. WaiterType'
    BY <1>1, <1>7 DEF TypeOK, WaiterType, Phases
  <2>3. ReservationType'
    BY <1>3, <1>7 DEF TypeOK, ReservationType
  <2> QED
    BY <1>7, <2>1, <2>2, <2>3 DEF TypeOK, PassType, passVars
<1>9. Accounting'
  <2> SUFFICES ASSUME NEW k \in Keys
               PROVE  inUse'[k] = Cardinality(Holders(k)')
                                    + (IF claimant'[k] = None THEN 0 ELSE 1)
    BY DEF Accounting
  <2>1. Cardinality(Holders(k)') = Cardinality(Holders(k)) + (IF k \in N THEN 1 ELSE 0)
    BY <1>4, <1>7, HoldersGrow
  <2>2. Cardinality(Holders(k)) \in Nat
    BY HoldersFinite
  <2> QED
    BY <1>7, <2>1, <2>2 DEF Accounting
<1>10. CapacityRespected'
  BY <1>6, <1>7, KeyAssumption DEF CapacityRespected, TypeOK, BucketType
<1>11. ClaimsArePrefix'
  BY <1>4, <1>7, NoneAssumption DEF ClaimsArePrefix, ClaimNeeds, TypeOK, BucketType, WaiterType
<1>12. NoTrace'
  BY <1>4, <1>7 DEF NoTrace, Claims, TypeOK, WaiterType
<1>13. DoomedLive' /\ RequestKnown' /\ QueuedOnNeeds'
  BY <1>1, <1>4, <1>7 DEF DoomedLive, RequestKnown, QueuedOnNeeds, TypeOK, WaiterType, passVars, NoTrace
<1>14. ClaimCandidate'
  BY <1>4, <1>7 DEF ClaimCandidate, TypeOK, WaiterType
<1> QED
  BY <1>8, <1>9, <1>10, <1>11, <1>12, <1>13, <1>14

\* Everything but the types and the sweep list speaks of buckets, waiters and
\* reservations only, so a step that leaves those alone preserves it.
LEMMA CoreUnchanged ==
    ASSUME IInv, UNCHANGED <<bucketVars, waiterVars, resVars>>
    PROVE  /\ BucketType' /\ WaiterType' /\ ReservationType'
           /\ Accounting' /\ CapacityRespected' /\ ClaimsArePrefix'
           /\ NoTrace' /\ RequestKnown' /\ QueuedOnNeeds' /\ ClaimCandidate'
<1> USE DEF bucketVars, waiterVars, resVars
<1>1. BucketType' /\ WaiterType' /\ ReservationType'
  BY DEF IInv, TypeOK, BucketType, WaiterType, ReservationType
<1>2. Accounting' /\ CapacityRespected'
  BY DEF IInv, Accounting, CapacityRespected, Holders
<1>3. ClaimsArePrefix' /\ NoTrace'
  BY DEF IInv, ClaimsArePrefix, ClaimNeeds, NoTrace, Claims
<1>4. RequestKnown' /\ QueuedOnNeeds' /\ ClaimCandidate'
  BY DEF IInv, RequestKnown, QueuedOnNeeds, ClaimCandidate
<1> QED
  BY <1>1, <1>2, <1>3, <1>4

\* A request that starts waiting.
LEMMA EnqueueStep ==
    ASSUME IInv, NEW c \in Callers, NEW r \in Requests[c], Enqueue(c, r)
    PROVE  IInv'
<1> DEFINE Q == Blocking(r, NoClaimant)
<1> USE DEF IInv
<1>1. r \in AllRequests
  BY DEF AllRequests
<1>2. \A k \in Q : \E i \in Attempts(r) : k \in Needs(r, i)
  BY <1>1, BlockingOnNeeds DEF Enqueue
<1>3. Q \subseteq Keys
  BY <1>1, <1>2, NeedsType
<1> HIDE DEF Q
<1>4. /\ phase[c] = "idle"
      /\ phase' = [phase EXCEPT ![c] = "waiting"] /\ req' = [req EXCEPT ![c] = r]
      /\ ahead' = [ahead EXCEPT ![c] = Waiting] /\ at' = [at EXCEPT ![c] = Q]
      /\ UNCHANGED <<bucketVars, bounces, stall, claimIdx, resVars, share, closed, passVars>>
  BY DEF Enqueue, Q
<1>5. TypeOK'
  <2>1. WaiterType'
    BY <1>1, <1>3, <1>4 DEF TypeOK, WaiterType, Phases, Waiting
  <2> QED
    BY <1>4, <2>1 DEF TypeOK, BucketType, ReservationType, PassType,
                      bucketVars, resVars, passVars
<1>6. Accounting' /\ CapacityRespected'
  BY <1>4 DEF Accounting, CapacityRespected, Holders, bucketVars, resVars
<1>7. ClaimsArePrefix'
  BY <1>4, NoneAssumption DEF ClaimsArePrefix, ClaimNeeds, TypeOK, BucketType,
                              WaiterType, bucketVars
<1>8. NoTrace'
  BY <1>4 DEF NoTrace, Claims, Waiting, TypeOK, WaiterType, bucketVars, resVars
<1>9. DoomedLive' /\ RequestKnown'
  BY <1>1, <1>4 DEF DoomedLive, RequestKnown, TypeOK, WaiterType, resVars, passVars
<1>10. QueuedOnNeeds'
  BY <1>2, <1>4 DEF QueuedOnNeeds, TypeOK, WaiterType
<1>11. ClaimCandidate'
  BY <1>1, <1>4, FirstAttempt DEF ClaimCandidate, TypeOK, WaiterType
<1> QED
  BY <1>5, <1>6, <1>7, <1>8, <1>9, <1>10, <1>11

\* A result taken from the channel.
LEMMA ReceiveStep ==
    ASSUME IInv, NEW c \in Callers, Receive(c)
    PROVE  IInv'
<1> USE DEF IInv
<1>1. /\ phase[c] \in {"granted", "failed"}
      /\ phase' = [phase EXCEPT ![c] = IF @ = "granted" THEN "held" ELSE "idle"]
      /\ req' = [req EXCEPT ![c] = IF phase[c] = "granted" THEN @ ELSE None]
      /\ UNCHANGED <<bucketVars, ahead, at, bounces, stall, claimIdx, resVars,
                     share, closed, passVars>>
  BY DEF Receive
<1>2. TypeOK'
  <2>1. WaiterType'
    BY <1>1 DEF TypeOK, WaiterType, Phases
  <2> QED
    BY <1>1, <2>1 DEF TypeOK, BucketType, ReservationType, PassType,
                      bucketVars, resVars, passVars
<1>3. Accounting' /\ CapacityRespected'
  BY <1>1 DEF Accounting, CapacityRespected, Holders, bucketVars, resVars
<1>4. ClaimsArePrefix'
  BY <1>1, NoneAssumption DEF ClaimsArePrefix, ClaimNeeds, TypeOK, BucketType,
                              WaiterType, bucketVars
<1>5. NoTrace'
  BY <1>1 DEF NoTrace, Claims, TypeOK, WaiterType, bucketVars, resVars
<1>6. DoomedLive' /\ RequestKnown'
  BY <1>1 DEF DoomedLive, RequestKnown, TypeOK, WaiterType, resVars, passVars
<1>7. QueuedOnNeeds' /\ ClaimCandidate'
  BY <1>1 DEF QueuedOnNeeds, ClaimCandidate, NoTrace, TypeOK, WaiterType
<1> QED
  BY <1>2, <1>3, <1>4, <1>5, <1>6, <1>7

\* Every claim of a waiter is on an axis of its claim candidate, so giving back
\* the claims found there gives back all of them.
LEMMA DroppableAll ==
    ASSUME IInv, NEW w \in Callers
    PROVE  Droppable(w) = Claims(w) /\ Droppable(w) \subseteq Keys
  BY NoneAssumption DEF IInv, ClaimsArePrefix, Droppable, Claims

\* A claimed key counts at least its claim.
LEMMA ClaimCounted ==
    ASSUME IInv, NEW k \in Keys, claimant[k] # None
    PROVE  inUse[k] \in Nat /\ inUse[k] > 0
<1>1. Cardinality(Holders(k)) \in Nat
  BY HoldersFinite DEF IInv
<1> QED
  BY <1>1 DEF IInv, Accounting

\* A waiter that leaves the wait state without a reservation.
LEMMA LeaveWait ==
    ASSUME IInv, NEW c \in Callers, phase[c] = "waiting",
           NEW ph \in {"idle", "failed"}, NEW q \in AllRequests \cup {None},
           ph = "failed" => q \in AllRequests,
           phase' = [phase EXCEPT ![c] = ph], req' = [req EXCEPT ![c] = q],
           Forget(c), DropClaims(c), UNCHANGED <<queueMax, resVars>>
    PROVE  /\ BucketType' /\ WaiterType' /\ ReservationType'
           /\ pending' \in Seq((SUBSET Keys) \ {{}})
           /\ Accounting' /\ CapacityRespected' /\ ClaimsArePrefix'
           /\ NoTrace' /\ RequestKnown' /\ QueuedOnNeeds' /\ ClaimCandidate'
<1> DEFINE D == Droppable(c)
<1> USE DEF IInv
<1>1. \A k \in Keys : k \in D <=> claimant[k] = c
  BY DroppableAll DEF Claims
<1>2. D \subseteq Keys
  BY DroppableAll
<1>3. \A k \in D : inUse[k] \in Nat /\ inUse[k] > 0
  BY <1>1, <1>2, ClaimCounted, NoneAssumption
<1> HIDE DEF D
<1>4. /\ claimant' = [k \in Keys |-> IF k \in D THEN None ELSE claimant[k]]
      /\ inUse' = [k \in Keys |-> IF k \in D THEN inUse[k] - 1 ELSE inUse[k]]
      /\ pending' = AppendSet(pending, D)
  BY DEF DropClaims, D
<1>5. /\ at' = [at EXCEPT ![c] = {}]
      /\ ahead' = [d \in Callers |-> IF d = c THEN {} ELSE ahead[d] \ {c}]
      /\ bounces' = [bounces EXCEPT ![c] = 0]
      /\ stall' = [stall EXCEPT ![c] = 0]
      /\ claimIdx' = [claimIdx EXCEPT ![c] = 1]
  BY DEF Forget
<1>6. BucketType'
  BY <1>3, <1>4 DEF TypeOK, BucketType
<1>7. WaiterType'
  BY <1>5, ParameterAssumption DEF TypeOK, WaiterType, Phases
<1>8. ReservationType'
  BY DEF TypeOK, ReservationType, resVars
<1>9. pending' \in Seq((SUBSET Keys) \ {{}})
  BY <1>2, <1>4 DEF AppendSet, TypeOK, PassType
<1>10. Accounting'
  <2> SUFFICES ASSUME NEW k \in Keys
               PROVE  inUse'[k] = Cardinality(Holders(k)')
                                    + (IF claimant'[k] = None THEN 0 ELSE 1)
    BY DEF Accounting
  <2>1. Holders(k)' = Holders(k)
    BY HoldersSame
  <2>2. Cardinality(Holders(k)) \in Nat
    BY HoldersFinite
  <2>3. inUse[k] = Cardinality(Holders(k)) + (IF claimant[k] = None THEN 0 ELSE 1)
    BY DEF Accounting
  <2> QED
    BY <1>1, <1>4, <2>1, <2>2, <2>3, NoneAssumption
<1>11. CapacityRespected'
  BY <1>3, <1>4, KeyAssumption DEF CapacityRespected, TypeOK, BucketType
<1>12. ClaimsArePrefix'
  <2>1. ASSUME NEW k \in Keys, claimant'[k] # None
        PROVE  /\ claimant'[k] = claimant[k] /\ claimant[k] # None
               /\ claimant[k] # c /\ claimant[k] \in Callers
    BY <1>1, <1>4, <2>1 DEF TypeOK, BucketType
  <2>2. ASSUME NEW w \in Callers, w # c
        PROVE  ClaimNeeds(w)' = ClaimNeeds(w) /\ phase'[w] = phase[w]
    BY <1>5, <2>2 DEF ClaimNeeds, TypeOK, WaiterType
  <2>3. ASSUME NEW j \in Keys, claimant[j] # c
        PROVE  claimant'[j] = claimant[j]
    BY <1>1, <1>4, <2>3
  <2> QED
    BY <2>1, <2>2, <2>3, ClaimNeedsKeys DEF ClaimsArePrefix
<1>13. NoTrace'
  <2>1. c \notin live
    BY DEF NoTrace
  <2>2. Claims(c)' = {}
    BY <1>1, <1>4, NoneAssumption DEF Claims
  <2>3. \A d \in Callers : Claims(d)' \subseteq Claims(d)
    BY <1>4, NoneAssumption DEF Claims
  <2> QED
    BY <1>5, <2>1, <2>2, <2>3 DEF NoTrace, TypeOK, WaiterType, resVars
<1>14. RequestKnown'
  BY <1>5 DEF RequestKnown, TypeOK, WaiterType
<1>15. QueuedOnNeeds'
  BY <1>5 DEF QueuedOnNeeds, TypeOK, WaiterType
<1>16. ClaimCandidate'
  BY <1>5 DEF ClaimCandidate, TypeOK, WaiterType
<1> QED
  BY <1>6, <1>7, <1>8, <1>9, <1>10, <1>11, <1>12, <1>13, <1>14, <1>15, <1>16

\* A waiter that gives up, timed out or cancelled.
LEMMA AbandonStep ==
    ASSUME IInv, NEW c \in Callers, Abandon(c)
    PROVE  IInv'
<1>1. /\ phase[c] = "waiting"
      /\ phase' = [phase EXCEPT ![c] = "idle"] /\ req' = [req EXCEPT ![c] = None]
      /\ Forget(c) /\ DropClaims(c) /\ probed' = {}
      /\ UNCHANGED <<queueMax, resVars>>
      /\ UNCHANGED <<share, closed, doomed, todo, cur, budget, park>>
  BY DEF Abandon, resVars
<1>2. /\ BucketType' /\ WaiterType' /\ ReservationType'
      /\ pending' \in Seq((SUBSET Keys) \ {{}})
      /\ Accounting' /\ CapacityRespected' /\ ClaimsArePrefix'
      /\ NoTrace' /\ RequestKnown' /\ QueuedOnNeeds' /\ ClaimCandidate'
  BY <1>1, LeaveWait
<1>3. TypeOK' /\ DoomedLive'
  BY <1>1, <1>2 DEF IInv, TypeOK, PassType, DoomedLive, resVars
<1> QED
  BY <1>2, <1>3 DEF IInv

\* releaseLocked returns exactly the units of one live reservation.
LEMMA ReleaseCore ==
    ASSUME IInv, NEW c \in live, StartRelease(c), claimant' = claimant,
           \A d \in live \ {c} : held'[d] = held[d]
    PROVE  /\ inUse' \in [Keys -> Nat]
           /\ todo' \in Seq((SUBSET Keys) \ {{}})
           /\ Accounting' /\ CapacityRespected'
<1> USE DEF IInv
<1>1. /\ inUse' = [k \in Keys |-> IF k \in held[c] /\ inUse[k] > 0
                                  THEN inUse[k] - 1 ELSE inUse[k]]
      /\ live' = live \ {c}
      /\ todo' = AppendSet(<<>>, held[c])
  BY DEF StartRelease
<1>2. inUse' \in [Keys -> Nat]
  BY <1>1 DEF TypeOK, BucketType
<1>3. todo' \in Seq((SUBSET Keys) \ {{}})
  <2>1. held[c] \in SUBSET Keys
    BY DEF TypeOK, ReservationType
  <2>2. CASE held[c] = {}
    BY <1>1, <2>2 DEF AppendSet
  <2>3. CASE held[c] # {}
    <3>1. todo' = Append(<<>>, held[c]) /\ held[c] \in (SUBSET Keys) \ {{}}
      BY <1>1, <2>1, <2>3 DEF AppendSet
    <3>2. <<>> \in Seq((SUBSET Keys) \ {{}})
      OBVIOUS
    <3> QED
      BY <3>1, <3>2
  <2> QED
    BY <2>2, <2>3
<1>4. Accounting'
  <2> SUFFICES ASSUME NEW k \in Keys
               PROVE  inUse'[k] = Cardinality(Holders(k)')
                                    + (IF claimant'[k] = None THEN 0 ELSE 1)
    BY DEF Accounting
  <2>1. /\ Cardinality(Holders(k)')
             = Cardinality(Holders(k)) - (IF k \in held[c] THEN 1 ELSE 0)
        /\ k \in held[c] => Cardinality(Holders(k)) > 0
    BY <1>1, HoldersShrink
  <2>2. Cardinality(Holders(k)) \in Nat
    BY HoldersFinite
  <2>3. inUse[k] = Cardinality(Holders(k)) + (IF claimant[k] = None THEN 0 ELSE 1)
    BY DEF Accounting
  <2> QED
    BY <1>1, <2>1, <2>2, <2>3
<1>5. CapacityRespected'
  BY <1>1, KeyAssumption DEF CapacityRespected, TypeOK, BucketType
<1> QED
  BY <1>2, <1>3, <1>4, <1>5

\* A caller gives its reservation back, unless a sweep has done so already.
LEMMA ReleaseStep ==
    ASSUME IInv, NEW c \in Callers, LockFree,
           phase[c] \in {"held", "granted", "failed"}, ReleaseReservation(c)
    PROVE  IInv'
<1> USE DEF IInv
<1>1. /\ phase' = [phase EXCEPT ![c] = "idle"] /\ req' = [req EXCEPT ![c] = None]
      /\ held' = [held EXCEPT ![c] = {}]
      /\ UNCHANGED <<claimant, queueMax, ahead, at, bounces, stall, claimIdx,
                     share, closed, doomed, pending, cur, budget, park>>
  BY DEF ReleaseReservation
<1>2. doomed = {}
  BY DEF LockFree
<1>3. /\ inUse' \in [Keys -> Nat]
      /\ todo' \in Seq((SUBSET Keys) \ {{}})
      /\ probed' \in SUBSET Callers
      /\ live' = live \ {c}
      /\ Accounting' /\ CapacityRespected'
  <2>1. CASE c \in live
    <3>1. StartRelease(c)
      BY <2>1 DEF ReleaseReservation
    <3>2. \A d \in live \ {c} : held'[d] = held[d]
      BY <1>1 DEF TypeOK, ReservationType
    <3>3. probed' = {} /\ live' = live \ {c}
      BY <3>1 DEF StartRelease
    <3> QED
      BY <1>1, <2>1, <3>1, <3>2, <3>3, ReleaseCore
  <2>2. CASE c \notin live
    <3>1. UNCHANGED <<inUse, live, todo, probed>>
      BY <2>2 DEF ReleaseReservation
    <3>2. \A k \in Keys : Holders(k)' = Holders(k)
      BY <1>1, <2>2, <3>1 DEF Holders, TypeOK, ReservationType
    <3>3. Accounting'
      BY <1>1, <3>1, <3>2 DEF Accounting
    <3> QED
      BY <1>1, <2>2, <3>1, <3>3 DEF CapacityRespected, TypeOK, BucketType, PassType
  <2> QED
    BY <2>1, <2>2
<1>4. TypeOK'
  <2>1. BucketType'
    BY <1>1, <1>3 DEF TypeOK, BucketType
  <2>2. WaiterType'
    BY <1>1 DEF TypeOK, WaiterType, Phases
  <2>3. ReservationType'
    BY <1>1, <1>3 DEF TypeOK, ReservationType
  <2>4. PassType'
    BY <1>1, <1>3 DEF TypeOK, PassType
  <2> QED
    BY <1>1, <2>1, <2>2, <2>3, <2>4 DEF TypeOK
<1>5. ClaimsArePrefix'
  BY <1>1, NoneAssumption DEF ClaimsArePrefix, ClaimNeeds, TypeOK, BucketType, WaiterType
<1>6. NoTrace'
  BY <1>1, <1>3 DEF NoTrace, Claims, TypeOK, WaiterType
<1>7. DoomedLive' /\ RequestKnown'
  BY <1>1, <1>2 DEF DoomedLive, RequestKnown, TypeOK, WaiterType
<1>8. QueuedOnNeeds' /\ ClaimCandidate'
  BY <1>1 DEF QueuedOnNeeds, ClaimCandidate, NoTrace, TypeOK, WaiterType
<1> QED
  BY <1>3, <1>4, <1>5, <1>6, <1>7, <1>8

\* Expired reservations chosen by a sweep.
LEMMA SweepStep ==
    ASSUME IInv, NEW D \in SUBSET live, Sweep(D)
    PROVE  IInv'
<1>1. /\ doomed' = D
      /\ UNCHANGED <<bucketVars, waiterVars, resVars>>
      /\ UNCHANGED <<share, closed, todo, pending, cur, budget, park, probed>>
  BY DEF Sweep
<1>2. TypeOK' /\ DoomedLive'
  BY <1>1, CoreUnchanged DEF IInv, TypeOK, ReservationType, PassType, DoomedLive, resVars
<1> QED
  BY <1>1, <1>2, CoreUnchanged DEF IInv

\* The next expired reservation of a sweep.
LEMMA SweepNextStep ==
    ASSUME IInv, NEW c \in Callers, SweepNext(c)
    PROVE  IInv'
<1> USE DEF IInv
<1>1. /\ c \in doomed /\ doomed' = doomed \ {c} /\ StartRelease(c)
      /\ UNCHANGED <<claimant, queueMax, waiterVars, held, share, closed,
                     pending, cur, budget, park>>
  BY DEF SweepNext
<1>2. c \in live /\ live' = live \ {c} /\ probed' = {}
  BY <1>1 DEF DoomedLive, StartRelease
<1>3. /\ inUse' \in [Keys -> Nat] /\ todo' \in Seq((SUBSET Keys) \ {{}})
      /\ Accounting' /\ CapacityRespected'
  BY <1>1, <1>2, ReleaseCore
<1>4. TypeOK'
  BY <1>1, <1>2, <1>3 DEF TypeOK, BucketType, WaiterType, ReservationType, PassType, waiterVars
<1>5. ClaimsArePrefix' /\ NoTrace'
  BY <1>1, <1>2 DEF ClaimsArePrefix, ClaimNeeds, NoTrace, Claims, waiterVars
<1>6. DoomedLive' /\ RequestKnown' /\ QueuedOnNeeds' /\ ClaimCandidate'
  BY <1>1, <1>2 DEF DoomedLive, RequestKnown, QueuedOnNeeds, ClaimCandidate, waiterVars
<1> QED
  BY <1>3, <1>4, <1>5, <1>6

\* Close fails every waiter and returns every claim.
LEMMA CloseStep ==
    ASSUME IInv, Close
    PROVE  IInv'
<1> DEFINE F == UNION {Droppable(c) : c \in Waiting}
<1> USE DEF IInv
<1>1. \A k \in Keys : k \in F <=> claimant[k] # None
  <2>1. ASSUME NEW k \in Keys, claimant[k] # None
        PROVE  k \in F
    <3>1. claimant[k] \in Waiting
      BY <2>1 DEF ClaimsArePrefix, Waiting, TypeOK, BucketType
    <3>2. k \in Droppable(claimant[k])
      BY <2>1 DEF ClaimsArePrefix, Droppable, Claims
    <3> QED
      BY <3>1, <3>2
  <2>2. ASSUME NEW k \in F
        PROVE  claimant[k] # None
    BY NoneAssumption DEF Droppable, Claims, Waiting
  <2> QED
    BY <2>1, <2>2
<1>2. \A k \in Keys : claimant[k] # None => inUse[k] \in Nat /\ inUse[k] > 0
  BY ClaimCounted
<1> HIDE DEF F
<1>3. /\ closed' = TRUE
      /\ phase' = [c \in Callers |-> IF c \in Waiting THEN "failed" ELSE phase[c]]
      /\ at' = [c \in Callers |-> {}] /\ ahead' = [c \in Callers |-> {}]
      /\ bounces' = [c \in Callers |-> 0] /\ stall' = [c \in Callers |-> 0]
      /\ claimIdx' = [c \in Callers |-> 1]
      /\ claimant' = [k \in Keys |-> IF k \in F THEN None ELSE claimant[k]]
      /\ inUse' = [k \in Keys |-> IF k \in F THEN inUse[k] - 1 ELSE inUse[k]]
      /\ UNCHANGED <<queueMax, req, resVars, share, passVars>>
  BY DEF Close, F
<1>4. \A k \in Keys : claimant'[k] = None
  BY <1>1, <1>3
<1>5. TypeOK'
  <2>1. BucketType'
    BY <1>1, <1>2, <1>3 DEF TypeOK, BucketType
  <2>2. WaiterType'
    BY <1>3, ParameterAssumption DEF TypeOK, WaiterType, Phases
  <2> QED
    BY <1>3, <2>1, <2>2 DEF TypeOK, ReservationType, PassType, resVars, passVars
<1>6. Accounting'
  <2> SUFFICES ASSUME NEW k \in Keys
               PROVE  inUse'[k] = Cardinality(Holders(k)')
                                    + (IF claimant'[k] = None THEN 0 ELSE 1)
    BY DEF Accounting
  <2>1. Holders(k)' = Holders(k)
    BY <1>3, HoldersSame
  <2>2. Cardinality(Holders(k)) \in Nat
    BY HoldersFinite
  <2>3. inUse[k] = Cardinality(Holders(k)) + (IF claimant[k] = None THEN 0 ELSE 1)
    BY DEF Accounting
  <2> QED
    BY <1>1, <1>3, <2>1, <2>2, <2>3
<1>7. CapacityRespected'
  BY <1>1, <1>2, <1>3, KeyAssumption DEF CapacityRespected, TypeOK, BucketType
<1>8. ClaimsArePrefix'
  BY <1>4 DEF ClaimsArePrefix
<1>9. NoTrace'
  <2>1. \A c \in Callers : Claims(c)' = {}
    BY <1>4, NoneAssumption DEF Claims
  <2>2. \A c \in live : phase'[c] \in {"granted", "held"}
    BY <1>3 DEF NoTrace, Waiting, TypeOK, ReservationType
  <2> QED
    BY <1>3, <2>1, <2>2 DEF NoTrace, resVars
<1>10. DoomedLive' /\ RequestKnown' /\ QueuedOnNeeds' /\ ClaimCandidate'
  BY <1>3 DEF DoomedLive, RequestKnown, QueuedOnNeeds, ClaimCandidate, Waiting, resVars, passVars
<1> QED
  BY <1>5, <1>6, <1>7, <1>8, <1>9, <1>10

\* The node count changes, even in the middle of a pass.
LEMMA SetShareStep ==
    ASSUME IInv, NEW n \in 1 .. MaxShare, SetShare(n)
    PROVE  IInv'
<1>1. /\ share' = n
      /\ UNCHANGED <<bucketVars, waiterVars, resVars>>
      /\ UNCHANGED <<closed, passVars>>
  BY DEF SetShare
<1>2. TypeOK' /\ DoomedLive'
  BY <1>1, CoreUnchanged DEF IInv, TypeOK, PassType, DoomedLive, resVars, passVars
<1> QED
  BY <1>1, <1>2, CoreUnchanged DEF IInv

\* The steps of the pass that only move its own cursor.
LEMMA NextRoundStep ==
    ASSUME IInv, NextRound
    PROVE  IInv'
<1>1. /\ todo' = pending /\ pending' = <<>> /\ probed' = {}
      /\ UNCHANGED <<bucketVars, waiterVars, resVars>>
      /\ UNCHANGED <<share, closed, doomed, cur, budget, park>>
  BY DEF NextRound
<1>2. TypeOK' /\ DoomedLive'
  BY <1>1, CoreUnchanged DEF IInv, TypeOK, PassType, DoomedLive, resVars
<1> QED
  BY <1>1, <1>2, CoreUnchanged DEF IInv

\* serveLocked takes up the next bucket.
LEMMA StartServeStep ==
    ASSUME IInv, StartServe
    PROVE  IInv'
<1> DEFINE h == Head(todo)
           k == FirstIn(h)
<1>1. todo \in Seq((SUBSET Keys) \ {{}}) /\ todo # <<>>
  BY DEF StartServe, IInv, TypeOK, PassType
<1>2. h \in (SUBSET Keys) \ {{}} /\ Tail(todo) \in Seq((SUBSET Keys) \ {{}})
  BY <1>1
<1>3. k \in Keys
  BY <1>2, FirstInMember
<1>4. \A S \in (SUBSET Keys) \ {{}} : [todo EXCEPT ![1] = S] \in Seq((SUBSET Keys) \ {{}})
  BY <1>1
<1>5. ProbeBudget \in 0 .. MaxProbePerRelease
  BY ParameterAssumption DEF ProbeBudget
<1> HIDE DEF k, h
<1>6. /\ todo' = (IF h \ {k} = {} THEN Tail(todo) ELSE [todo EXCEPT ![1] = h \ {k}])
      /\ cur' \in {None, k} /\ budget' \in {0, ProbeBudget}
      /\ UNCHANGED <<bucketVars, waiterVars, resVars>>
      /\ UNCHANGED <<share, closed, doomed, pending, park, probed>>
  BY DEF StartServe, k, h
<1>7. todo' \in Seq((SUBSET Keys) \ {{}})
  BY <1>2, <1>4, <1>6
<1>8. budget' \in 0 .. MaxProbePerRelease /\ cur' \in Keys \cup {None}
  BY <1>3, <1>5, <1>6, ParameterAssumption
<1>9. TypeOK' /\ DoomedLive'
  BY <1>6, <1>7, <1>8, CoreUnchanged DEF IInv, TypeOK, PassType, DoomedLive, resVars
<1> QED
  BY <1>6, <1>9, CoreUnchanged DEF IInv

\* serveLocked passes over a waiter it has probed.
LEMMA SkipProbedStep ==
    ASSUME IInv, NEW w \in Callers, SkipProbed(w)
    PROVE  IInv'
<1>1. /\ park' = park \cup {w}
      /\ UNCHANGED <<bucketVars, waiterVars, resVars>>
      /\ UNCHANGED <<share, closed, doomed, todo, pending, cur, budget, probed>>
  BY DEF SkipProbed
<1>2. TypeOK' /\ DoomedLive'
  BY <1>1, CoreUnchanged DEF IInv, TypeOK, PassType, DoomedLive, resVars
<1> QED
  BY <1>1, <1>2, CoreUnchanged DEF IInv

\* serveLocked is through with a bucket.
LEMMA EndServeStep ==
    ASSUME IInv, EndServe
    PROVE  IInv'
<1>1. /\ cur' = None /\ budget' = 0 /\ park' = {} /\ probed' \in {{}, probed}
      /\ UNCHANGED <<bucketVars, waiterVars, resVars>>
      /\ UNCHANGED <<share, closed, doomed, todo, pending>>
  BY DEF EndServe
<1>2. TypeOK' /\ DoomedLive'
  BY <1>1, CoreUnchanged, ParameterAssumption
  DEF IInv, TypeOK, PassType, DoomedLive, resVars
<1> QED
  BY <1>1, <1>2, CoreUnchanged DEF IInv

\* A waiter that is probed is blocked in Acquire on a key one of its candidates
\* needs.
LEMMA ProbedWaits ==
    ASSUME IInv, NEW w \in Callers, Probing(w)
    PROVE  /\ phase[w] = "waiting" /\ w \notin live /\ req[w] \in AllRequests
           /\ budget \in 1 .. MaxProbePerRelease
           /\ \E i \in Attempts(req[w]) : cur \in Needs(req[w], i)
           /\ claimIdx[w] \in Attempts(req[w])
<1> USE DEF IInv
<1>1. cur \in at[w] /\ budget > 0
  BY DEF Probing, IsHead, Queue
<1>2. phase[w] = "waiting"
  BY <1>1 DEF NoTrace
<1> QED
  BY <1>1, <1>2 DEF NoTrace, RequestKnown, QueuedOnNeeds, ClaimCandidate, TypeOK, PassType

\* A probe that fails for good.
LEMMA ProbeFailStep ==
    ASSUME IInv, NEW w \in Callers, ProbeFail(w)
    PROVE  IInv'
<1>1. /\ phase[w] = "waiting" /\ req[w] \in AllRequests
      /\ budget \in 1 .. MaxProbePerRelease
  BY ProbedWaits DEF ProbeFail
<1>2. /\ phase' = [phase EXCEPT ![w] = "failed"] /\ req' = req
      /\ Forget(w) /\ DropClaims(w)
      /\ probed' = probed \cup {w} /\ budget' = budget - 1
      /\ UNCHANGED <<queueMax, resVars>>
      /\ UNCHANGED <<share, closed, doomed, todo, cur, park>>
  BY DEF ProbeFail, Probing, resVars
<1>3. req' = [req EXCEPT ![w] = req[w]]
  BY <1>2 DEF IInv, TypeOK, WaiterType
<1>4. /\ BucketType' /\ WaiterType' /\ ReservationType'
      /\ pending' \in Seq((SUBSET Keys) \ {{}})
      /\ Accounting' /\ CapacityRespected' /\ ClaimsArePrefix'
      /\ NoTrace' /\ RequestKnown' /\ QueuedOnNeeds' /\ ClaimCandidate'
  BY <1>1, <1>2, <1>3, LeaveWait
<1>5. budget' \in 0 .. MaxProbePerRelease
  BY <1>1, <1>2, ParameterAssumption
<1>6. TypeOK' /\ DoomedLive'
  BY <1>2, <1>4, <1>5 DEF IInv, TypeOK, PassType, DoomedLive, resVars
<1> QED
  BY <1>4, <1>6 DEF IInv

\* A probe that grants: claims turn into units of the reservation, the ones it
\* does not use are returned.
LEMMA ProbeGrantStep ==
    ASSUME IInv, NEW w \in Callers, ProbeGrant(w)
    PROVE  IInv'
<1> DEFINE N == Needs(req[w], Winner(req[w], w))
           F == Droppable(w) \ N
<1> USE DEF IInv
<1>1. /\ phase[w] = "waiting" /\ w \notin live /\ req[w] \in AllRequests
  BY ProbedWaits DEF ProbeGrant
<1>2. Winner(req[w], w) \in Admitting(req[w], w)
  BY <1>1, WinnerAdmitted DEF ProbeGrant
<1>3. N \subseteq Keys
  BY <1>1, <1>2, NeedsType DEF Admitting
<1>4. \A k \in N : claimant[k] # w => inUse[k] < Limit[k]
  BY <1>1, <1>2, RoomOnNeeds
<1>5. F \subseteq Keys /\ \A k \in Keys : k \in F <=> claimant[k] = w /\ k \notin N
  BY DroppableAll DEF Claims
<1>6. \A k \in Keys : claimant[k] = w => inUse[k] \in Nat /\ inUse[k] > 0
  BY ClaimCounted, NoneAssumption
<1>7. /\ Forget(w)
      /\ inUse' = [k \in Keys |->
            CASE k \in N /\ claimant[k] # w -> inUse[k] + 1
              [] k \in F                    -> inUse[k] - 1
              [] OTHER                      -> inUse[k]]
      /\ claimant' = [k \in Keys |->
            IF claimant[k] = w /\ k \in N \cup F THEN None ELSE claimant[k]]
      /\ queueMax' = [k \in Keys |-> IF k \in N /\ queueMax[k] = None
                                     THEN QueueLimit[k] ELSE queueMax[k]]
      /\ held' = [held EXCEPT ![w] = N] /\ live' = live \cup {w}
      /\ pending' = AppendSet(pending, F)
      /\ phase' = [phase EXCEPT ![w] = "granted"]
      /\ probed' = probed \cup {w} /\ budget' = 0
      /\ UNCHANGED <<req, share, closed, doomed, todo, cur, park>>
  BY DEF ProbeGrant, Probing
<1> HIDE DEF N, F
<1>8. /\ at' = [at EXCEPT ![w] = {}]
      /\ ahead' = [d \in Callers |-> IF d = w THEN {} ELSE ahead[d] \ {w}]
      /\ bounces' = [bounces EXCEPT ![w] = 0]
      /\ stall' = [stall EXCEPT ![w] = 0]
      /\ claimIdx' = [claimIdx EXCEPT ![w] = 1]
  BY <1>7 DEF Forget
<1>9. \A k \in Keys : claimant'[k] = IF claimant[k] = w THEN None ELSE claimant[k]
  BY <1>5, <1>7
<1>10. \A k \in Keys : inUse'[k] =
          IF k \in N THEN (IF claimant[k] = w THEN inUse[k] ELSE inUse[k] + 1)
          ELSE (IF claimant[k] = w THEN inUse[k] - 1 ELSE inUse[k])
  BY <1>5, <1>7
<1>11. TypeOK'
  <2>1. BucketType'
    <3>1. inUse' \in [Keys -> Nat]
      BY <1>6, <1>7, <1>10 DEF TypeOK, BucketType
    <3>2. claimant' \in [Keys -> Callers \cup {None}]
      BY <1>7 DEF TypeOK, BucketType
    <3>3. queueMax' \in [Keys -> Nat \cup {None}]
      BY <1>7, KeyAssumption DEF TypeOK, BucketType
    <3> QED
      BY <3>1, <3>2, <3>3 DEF BucketType
  <2>2. WaiterType'
    BY <1>7, <1>8, ParameterAssumption DEF TypeOK, WaiterType, Phases
  <2>3. ReservationType'
    BY <1>3, <1>7 DEF TypeOK, ReservationType
  <2>4. pending' \in Seq((SUBSET Keys) \ {{}})
    BY <1>5, <1>7 DEF AppendSet, TypeOK, PassType
  <2>5. PassType'
    BY <1>7, <2>4, ParameterAssumption DEF TypeOK, PassType
  <2> QED
    BY <1>7, <2>1, <2>2, <2>3, <2>5 DEF TypeOK
<1>12. Accounting'
  <2> SUFFICES ASSUME NEW k \in Keys
               PROVE  inUse'[k] = Cardinality(Holders(k)')
                                    + (IF claimant'[k] = None THEN 0 ELSE 1)
    BY DEF Accounting
  <2>1. Cardinality(Holders(k)') = Cardinality(Holders(k)) + (IF k \in N THEN 1 ELSE 0)
    BY <1>1, <1>7, HoldersGrow
  <2>2. Cardinality(Holders(k)) \in Nat
    BY HoldersFinite
  <2>3. inUse[k] = Cardinality(Holders(k)) + (IF claimant[k] = None THEN 0 ELSE 1)
    BY DEF Accounting
  <2> QED
    BY <1>9, <1>10, <2>1, <2>2, <2>3, NoneAssumption
<1>13. CapacityRespected'
  BY <1>4, <1>10, KeyAssumption DEF CapacityRespected, TypeOK, BucketType
<1>14. ClaimsArePrefix'
  <2>1. ASSUME NEW k \in Keys, claimant'[k] # None
        PROVE  /\ claimant'[k] = claimant[k] /\ claimant[k] # None
               /\ claimant[k] # w /\ claimant[k] \in Callers
    BY <1>9, <2>1 DEF TypeOK, BucketType
  <2>2. ASSUME NEW v \in Callers, v # w
        PROVE  ClaimNeeds(v)' = ClaimNeeds(v) /\ phase'[v] = phase[v]
    BY <1>7, <1>8, <2>2 DEF ClaimNeeds, TypeOK, WaiterType
  <2>3. ASSUME NEW j \in Keys, claimant[j] # w
        PROVE  claimant'[j] = claimant[j]
    BY <1>9, <2>3
  <2> QED
    BY <2>1, <2>2, <2>3, ClaimNeedsKeys DEF ClaimsArePrefix
<1>15. NoTrace'
  <2>1. Claims(w)' = {}
    BY <1>9, NoneAssumption DEF Claims
  <2>2. \A d \in Callers : Claims(d)' \subseteq Claims(d)
    BY <1>9, NoneAssumption DEF Claims
  <2> QED
    BY <1>7, <1>8, <2>1, <2>2 DEF NoTrace, TypeOK, WaiterType, ReservationType
<1>16. DoomedLive' /\ RequestKnown'
  BY <1>1, <1>7 DEF DoomedLive, RequestKnown, TypeOK, WaiterType
<1>17. QueuedOnNeeds' /\ ClaimCandidate'
  BY <1>7, <1>8 DEF QueuedOnNeeds, ClaimCandidate, TypeOK, WaiterType
<1> QED
  BY <1>11, <1>12, <1>13, <1>14, <1>15, <1>16, <1>17

\* The candidate a rotation moves to is one that needs the key being served.
LEMMA CandidateNeedingMember ==
    ASSUME NEW r \in AllRequests, NEW k, \E i \in Attempts(r) : k \in Needs(r, i)
    PROVE  CandidateNeeding(r, k) \in Attempts(r)
<1> DEFINE T == {i \in Attempts(r) : k \in Needs(r, i)}
<1>1. T \subseteq Nat /\ T # {}
  BY FirstAttempt
<1>2. PICK i \in T : \A j \in T : i <= j
  BY <1>1, LeastNat
<1> QED
  BY <1>2 DEF CandidateNeeding

\* What an armed probe sets aside: free units only, continuing the prefix.
LEMMA NewClaimsFree ==
    ASSUME IInv, NEW w \in Callers, req[w] \in AllRequests,
           NEW i \in Attempts(req[w]), NEW D, D \subseteq Claims(w)
    PROVE  /\ NewClaims(w, i, D) \subseteq Needs(req[w], i)
           /\ NewClaims(w, i, D) \subseteq Keys
           /\ \A k \in NewClaims(w, i, D) :
                 /\ claimant[k] = None \/ k \in D
                 /\ inUse[k] - (IF k \in D THEN 1 ELSE 0) < Limit[k]
           /\ \A k \in NewClaims(w, i, D) : \A j \in Needs(req[w], i) :
                 Axis[j] < Axis[k] => j \in NewClaims(w, i, D) \cup (Claims(w) \ D)
<1> DEFINE N == Needs(req[w], i)
           have(j) == j \in Claims(w) \ D \/ Claimable(j, w, D)
           P == {k \in N : \A j \in N : Axis[j] <= Axis[k] => have(j)}
<1>1. NewClaims(w, i, D) = P \ (Claims(w) \ D)
  BY DEF NewClaims
<1>2. N \subseteq {k \in Keys : Limit[k] > 0}
  BY NeedsType
<1> HIDE DEF have
<1>3. \A k \in N : Axis[k] \in Nat
  BY <1>2, KeyAssumption
<1>4. ASSUME NEW k \in P \ (Claims(w) \ D)
      PROVE  /\ claimant[k] = None \/ k \in D
             /\ inUse[k] - (IF k \in D THEN 1 ELSE 0) < Limit[k]
  <2>1. have(k)
    BY <1>3
  <2>2. Claimable(k, w, D)
    BY <2>1 DEF have
  <2>3. NodeLimit(k) \in Nat /\ NodeLimit(k) <= Limit[k] /\ Limit[k] \in Nat
    BY <1>2, NodeLimitBounds, KeyAssumption DEF IInv
  <2>4. inUse[k] \in Nat
    BY <1>2 DEF IInv, TypeOK, BucketType
  <2> QED
    BY <2>2, <2>3, <2>4 DEF Claimable
<1>5. ASSUME NEW k \in P, NEW j \in N, Axis[j] < Axis[k]
      PROVE  j \in P
  BY <1>3, <1>5
<1> QED
  BY <1>1, <1>2, <1>4, <1>5

\* A probe that leaves the waiter blocked: it may set units aside, move its
\* claims to another candidate and change queues.
LEMMA ProbeBlockedStep ==
    ASSUME IInv, NEW w \in Callers, ProbeBlocked(w)
    PROVE  IInv'
<1> DEFINE Q == Blocking(req[w], w)
           rot == Armed(w) /\ Rotates(w)
           idx == IF rot THEN CandidateNeeding(req[w], cur) ELSE claimIdx[w]
           D == RotationDrops(w)
           M == IF Armed(w) THEN NewClaims(w, idx, D) ELSE {}
<1> USE DEF IInv
<1>1. /\ phase[w] = "waiting" /\ w \notin live /\ req[w] \in AllRequests
      /\ budget \in 1 .. MaxProbePerRelease
      /\ \E i \in Attempts(req[w]) : cur \in Needs(req[w], i)
      /\ claimIdx[w] \in Attempts(req[w])
  BY ProbedWaits DEF ProbeBlocked
<1>2. \A k \in Q : \E i \in Attempts(req[w]) : k \in Needs(req[w], i)
  BY <1>1, BlockingOnNeeds DEF ProbeBlocked
<1>3. Q \subseteq Keys
  BY <1>1, <1>2, NeedsType
<1>4. idx \in Attempts(req[w]) /\ idx \in Nat \ {0}
  BY <1>1, CandidateNeedingMember, FirstAttempt
<1>5. /\ D = {} \/ D = Claims(w)
      /\ D = {} => idx = claimIdx[w] \/ Claims(w) = {}
  BY DroppableAll DEF RotationDrops
<1>6. D \subseteq Keys /\ \A k \in D : claimant[k] = w /\ inUse[k] \in Nat /\ inUse[k] > 0
  <2>1. D \subseteq Keys /\ \A k \in D : claimant[k] = w
    BY <1>5 DEF Claims
  <2> QED
    BY <2>1, ClaimCounted, NoneAssumption
<1>7. /\ M \subseteq Needs(req[w], idx) /\ M \subseteq Keys
      /\ \A k \in M : /\ claimant[k] = None \/ k \in D
                      /\ inUse[k] - (IF k \in D THEN 1 ELSE 0) < Limit[k]
      /\ \A k \in M : \A j \in Needs(req[w], idx) :
            Axis[j] < Axis[k] => j \in M \cup (Claims(w) \ D)
  <2>1. D \subseteq Claims(w)
    BY <1>5
  <2> HIDE DEF idx, D
  <2> QED
    BY <1>1, <1>4, <2>1, NewClaimsFree
<1>8. /\ claimIdx' = [claimIdx EXCEPT ![w] = idx]
      /\ claimant' = [k \in Keys |->
            IF k \in M THEN w ELSE IF k \in D THEN None ELSE claimant[k]]
      /\ inUse' = [k \in Keys |->
            inUse[k] - (IF k \in D THEN 1 ELSE 0) + (IF k \in M THEN 1 ELSE 0)]
      /\ queueMax' = [k \in Keys |-> IF k \in M /\ queueMax[k] = None
                                     THEN 0 ELSE queueMax[k]]
      /\ pending' = AppendSet(pending, D)
      /\ \E n \in {stall[w], 0, Saturate(stall[w] + 1), Saturate(0 + 1)} :
            stall' = [stall EXCEPT ![w] = n]
      /\ bounces' = [bounces EXCEPT ![w] = Saturate(@ + 1)]
      /\ at' = [at EXCEPT ![w] = Q]
      /\ park' \in {park, park \cup {w}}
      /\ budget' \in {0, budget - 1}
      /\ probed' = probed \cup {w}
      /\ UNCHANGED <<phase, req, ahead, resVars, share, closed, doomed, todo, cur>>
  <2>1. \E n \in {stall[w], 0, Saturate(stall[w] + 1), Saturate(0 + 1)} :
            stall' = [stall EXCEPT ![w] = n]
    <3>1. stall' = [stall EXCEPT ![w] =
                 CASE ~Armed(w) -> stall[w]
                   [] M # {}  -> 0
                   [] OTHER     -> Saturate((IF rot THEN 0 ELSE stall[w]) + 1)]
      BY DEF ProbeBlocked
    <3> HIDE DEF M, rot
    <3>2. CASE ~Armed(w)
      BY <3>1, <3>2 DEF M
    <3>3. CASE Armed(w) /\ M # {}
      BY <3>1, <3>3
    <3>4. CASE Armed(w) /\ M = {} /\ rot
      BY <3>1, <3>4
    <3>5. CASE Armed(w) /\ M = {} /\ ~rot
      BY <3>1, <3>5
    <3> QED
      BY <3>2, <3>3, <3>4, <3>5
  <2> QED
    BY <2>1 DEF ProbeBlocked, Probing
<1> HIDE DEF Q, rot, idx, D, M
<1>9. TypeOK'
  <2>1. BucketType'
    <3>1. inUse' \in [Keys -> Nat]
      BY <1>6, <1>8 DEF TypeOK, BucketType
    <3>2. claimant' \in [Keys -> Callers \cup {None}]
      BY <1>8 DEF TypeOK, BucketType
    <3>3. queueMax' \in [Keys -> Nat \cup {None}]
      BY <1>8 DEF TypeOK, BucketType
    <3> QED
      BY <3>1, <3>2, <3>3 DEF BucketType
  <2>2. \A n \in 0 .. BounceCap : Saturate(n + 1) \in 0 .. BounceCap /\ Saturate(0 + 1) \in 0 .. BounceCap
    BY ParameterAssumption DEF Saturate
  <2>3. WaiterType'
    <3>1. bounces' \in [Callers -> 0 .. BounceCap]
      BY <1>8, <2>2 DEF TypeOK, WaiterType
    <3>2. stall' \in [Callers -> 0 .. BounceCap]
      <4>1. stall[w] \in 0 .. BounceCap /\ 0 \in 0 .. BounceCap
        BY ParameterAssumption DEF TypeOK, WaiterType
      <4> QED
        BY <1>8, <2>2, <4>1 DEF TypeOK, WaiterType
    <3>3. claimIdx' \in [Callers -> Nat \ {0}] /\ at' \in [Callers -> SUBSET Keys]
      BY <1>3, <1>4, <1>8 DEF TypeOK, WaiterType
    <3> QED
      BY <1>8, <3>1, <3>2, <3>3 DEF TypeOK, WaiterType
  <2>4. pending' \in Seq((SUBSET Keys) \ {{}})
    BY <1>6, <1>8 DEF AppendSet, TypeOK, PassType
  <2>5. budget' \in 0 .. MaxProbePerRelease
    BY <1>1, <1>8, ParameterAssumption
  <2>6. PassType'
    BY <1>8, <2>4, <2>5 DEF TypeOK, PassType
  <2> QED
    BY <1>8, <2>1, <2>3, <2>6 DEF TypeOK, ReservationType, resVars
<1>10. Accounting'
  <2> SUFFICES ASSUME NEW k \in Keys
               PROVE  inUse'[k] = Cardinality(Holders(k)')
                                    + (IF claimant'[k] = None THEN 0 ELSE 1)
    BY DEF Accounting
  <2>1. Holders(k)' = Holders(k)
    BY <1>8, HoldersSame
  <2>2. Cardinality(Holders(k)) \in Nat
    BY HoldersFinite
  <2>3. inUse[k] = Cardinality(Holders(k)) + (IF claimant[k] = None THEN 0 ELSE 1)
    BY DEF Accounting
  <2> QED
    BY <1>6, <1>7, <1>8, <2>1, <2>2, <2>3, NoneAssumption
<1>11. CapacityRespected'
  BY <1>6, <1>7, <1>8, KeyAssumption DEF CapacityRespected, TypeOK, BucketType
<1>12. ClaimsArePrefix'
  <2>1. ClaimNeeds(w)' = Needs(req[w], idx) /\ Needs(req[w], idx) \subseteq Keys
    BY <1>1, <1>4, <1>8, NeedsType DEF ClaimNeeds, TypeOK, WaiterType
  <2>2. \A k \in Keys : claimant'[k] = w <=> k \in M \/ (claimant[k] = w /\ k \notin D)
    BY <1>8, NoneAssumption
  <2>3. ASSUME NEW k \in Keys, claimant'[k] = w
        PROVE  /\ k \in ClaimNeeds(w)'
               /\ \A j \in ClaimNeeds(w)' : Axis[j] < Axis[k] => claimant'[j] = w
    <3>1. CASE k \in M
      BY <1>7, <2>1, <2>2, <3>1 DEF Claims
    <3>2. CASE claimant[k] = w /\ k \notin D
      <4>1. D = {} /\ idx = claimIdx[w]
        BY <1>5, <3>2 DEF Claims
      <4>2. /\ k \in ClaimNeeds(w) /\ ClaimNeeds(w)' = ClaimNeeds(w)
            /\ \A j \in ClaimNeeds(w) : Axis[j] < Axis[k] => claimant[j] = w
        BY <2>1, <3>2, <4>1, NoneAssumption DEF ClaimsArePrefix, ClaimNeeds
      <4> QED
        BY <2>1, <2>2, <4>1, <4>2
    <3> QED
      BY <2>2, <2>3, <3>1, <3>2
  <2>4. ASSUME NEW k \in Keys, claimant'[k] # None, claimant'[k] # w
        PROVE  claimant'[k] = claimant[k] /\ claimant[k] \in Callers
    BY <1>8, <2>4 DEF TypeOK, BucketType
  <2>5. ASSUME NEW v \in Callers, v # w
        PROVE  ClaimNeeds(v)' = ClaimNeeds(v)
    BY <1>8, <2>5 DEF ClaimNeeds, TypeOK, WaiterType
  <2>6. ASSUME NEW j \in Keys, claimant[j] # w, claimant[j] # None
        PROVE  claimant'[j] = claimant[j]
    BY <1>6, <1>7, <1>8, <2>6
  <2>7. ASSUME NEW k \in Keys, claimant'[k] # None, claimant'[k] # w
        PROVE  /\ phase[claimant[k]] = "waiting" /\ k \in ClaimNeeds(claimant[k])
               /\ \A j \in ClaimNeeds(claimant[k]) :
                     Axis[j] < Axis[k] => claimant'[j] = claimant[k]
    BY <2>4, <2>6, <2>7, ClaimNeedsKeys DEF ClaimsArePrefix
  <2>8. ASSUME NEW k \in Keys, claimant'[k] # None, NEW v, v = claimant'[k]
        PROVE  /\ phase'[v] = "waiting" /\ k \in ClaimNeeds(v)'
               /\ \A j \in ClaimNeeds(v)' : Axis[j] < Axis[k] => claimant'[j] = v
    <3>1. CASE v = w
      BY <1>1, <1>8, <2>3, <2>8, <3>1
    <3>2. CASE v # w
      BY <1>8, <2>4, <2>5, <2>7, <2>8, <3>2
    <3> QED
      BY <3>1, <3>2
  <2> QED
    BY <2>8 DEF ClaimsArePrefix
<1>13. NoTrace'
  <2>1. \A d \in Callers : d # w => Claims(d)' \subseteq Claims(d)
    BY <1>8, NoneAssumption DEF Claims
  <2> QED
    BY <1>1, <1>8, <2>1 DEF NoTrace, TypeOK, WaiterType, resVars
<1>14. DoomedLive' /\ RequestKnown'
  BY <1>8 DEF DoomedLive, RequestKnown, resVars
<1>15. QueuedOnNeeds' /\ ClaimCandidate'
  BY <1>1, <1>2, <1>4, <1>8 DEF QueuedOnNeeds, ClaimCandidate, TypeOK, WaiterType
<1> QED
  BY <1>9, <1>10, <1>11, <1>12, <1>13, <1>14, <1>15

\* Every step of the broker preserves the invariant.
LEMMA NextIInv ==
    ASSUME IInv, [Next]_vars
    PROVE  IInv'
<1>1. CASE UNCHANGED vars
  <2>1. UNCHANGED <<bucketVars, waiterVars, resVars>> /\ UNCHANGED <<share, closed, passVars>>
    BY <1>1 DEF vars
  <2>2. TypeOK' /\ DoomedLive'
    BY <2>1, CoreUnchanged DEF IInv, TypeOK, PassType, DoomedLive, resVars, passVars
  <2> QED
    BY <2>1, <2>2, CoreUnchanged DEF IInv
<1>2. CASE PassStep
  BY <1>2, NextRoundStep, StartServeStep, EndServeStep, SweepNextStep, SkipProbedStep,
     ProbeGrantStep, ProbeFailStep, ProbeBlockedStep DEF PassStep
<1>3. ASSUME NEW c \in Callers, CallerStep(c)
      PROVE  IInv'
  <2>1. ASSUME NEW r \in Requests[c], Refuse(c, r)
        PROVE  IInv'
    BY <1>1, <2>1 DEF Refuse
  <2>2. CASE Timeout(c) \/ Cancel(c)
    BY <2>2, AbandonStep DEF Timeout, Cancel
  <2>3. CASE Release(c) \/ CancelRaced(c)
    BY <2>3, ReleaseStep DEF Release, CancelRaced
  <2> QED
    BY <1>3, <2>1, <2>2, <2>3, GrantFreshStep, EnqueueStep, ReceiveStep DEF CallerStep
<1>4. CASE OwnerStep
  BY <1>4, SweepStep, CloseStep, SetShareStep DEF OwnerStep
<1> QED
  BY <1>1, <1>2, <1>3, <1>4 DEF Next

-----------------------------------------------------------------------------
(* What the broker guarantees, for every value of the constants.           *)

\* The invariant holds in every reachable state.
THEOREM Invariance == Spec => []IInv
<1>1. Init => IInv
  BY InitIInv
<1>2. IInv /\ [Next]_vars => IInv'
  BY NextIInv
<1> QED
  BY <1>1, <1>2, PTL DEF Spec

\* The state of the broker stays well formed; in particular the count of a key
\* is never driven below zero by any release, sweep, rotation or close.
THEOREM TypeCorrect == Spec => []TypeOK
<1>1. IInv => TypeOK
  BY DEF IInv
<1> QED
  BY <1>1, Invariance, PTL

\* In every reachable state the count of a key (bucket.inUse) is exactly its
\* live reservations plus the soft reservation held on it.
THEOREM AccountingHolds == Spec => []Accounting
<1>1. IInv => Accounting
  BY DEF IInv
<1> QED
  BY <1>1, Invariance, PTL

\* No schedule of acquires, probes, claims and share changes takes a key above
\* its configured ceiling.
THEOREM CapacityHolds == Spec => []CapacityRespected
<1>1. IInv => CapacityRespected
  BY DEF IInv
<1> QED
  BY <1>1, Invariance, PTL

\* The claims of every waiter are a prefix, in axis order, of one candidate's
\* axes: the premise of the deadlock argument of internal/capacity/doc.go.
THEOREM ClaimsHold == Spec => []ClaimsArePrefix
<1>1. IInv => ClaimsArePrefix
  BY DEF IInv
<1> QED
  BY <1>1, Invariance, PTL

\* A caller that is not waiting has left no queue entry and no claim, however
\* its wait ended.
THEOREM NoTraceHolds == Spec => []NoTrace
<1>1. IInv => NoTrace
  BY DEF IInv
<1> QED
  BY <1>1, Invariance, PTL

\* The bookkeeping of the waiters is well formed at every probe: types, claims
\* and nothing left of a caller that has stopped waiting.
THEOREM WellFormedHolds == Spec => []WellFormed
<1>1. IInv => WellFormed
  BY DEF IInv, WellFormed
<1> QED
  BY <1>1, Invariance, PTL

-----------------------------------------------------------------------------
(* The interactive reserve.                                                *)

\* The batch reservations on a key that the reserve applies to.
BatchHolders(k) == {c \in Holders(k) : Reserved(req[c])}

\* A product grows with its factors.
LEMMA ScaleUp ==
    ASSUME NEW x \in Nat, NEW y \in Nat, NEW z \in Nat, x <= y
    PROVE  x * z \in Nat /\ y * z \in Nat /\ x * z <= y * z
  OBVIOUS

\* What a division leaves, times the divisor, is no more than was divided.
LEMMA DivBack ==
    ASSUME NEW x \in Nat, NEW n \in Nat, n > 0
    PROVE  x \div n \in Nat /\ (x \div n) * n \in Nat /\ (x \div n) * n <= x
  OBVIOUS

\* One more than a count below the ceiling batch work sees on this node is within
\* what the reserve leaves of the configured ceiling, whatever the share.
LEMMA ReserveRoom ==
    ASSUME TypeOK, NEW k \in Keys, Limit[k] > 0, NEW a \in Nat, a < EffLimit(k)
    PROVE  (a + 1) * ResDen <= Limit[k] * (ResDen - ResNum)
<1>1. /\ NodeLimit(k) \in Nat /\ NodeLimit(k) <= Limit[k] /\ Limit[k] \in Nat
      /\ EffLimit(k) \in Nat
  BY NodeLimitBounds, EffLimitBounds, KeyAssumption
<1>2. ResDen - ResNum \in Nat /\ ResDen \in Nat /\ ResDen > 0
  BY ParameterAssumption
<1> DEFINE m == ResDen - ResNum
<1> HIDE DEF m
<1>3. m \in Nat /\ EffLimit(k) = (NodeLimit(k) * m) \div ResDen
  BY <1>2 DEF m, EffLimit
<1>4. /\ NodeLimit(k) * m \in Nat /\ Limit[k] * m \in Nat
      /\ NodeLimit(k) * m <= Limit[k] * m
  BY <1>1, <1>3, ScaleUp
<1>5. EffLimit(k) * ResDen \in Nat /\ EffLimit(k) * ResDen <= NodeLimit(k) * m
  BY <1>2, <1>3, <1>4, DivBack
<1>6. a + 1 \in Nat /\ a + 1 <= EffLimit(k)
  BY <1>1
<1>7. (a + 1) * ResDen \in Nat /\ (a + 1) * ResDen <= EffLimit(k) * ResDen
  BY <1>1, <1>2, <1>6, ScaleUp
<1>8. (a + 1) * ResDen <= Limit[k] * m
  BY <1>4, <1>5, <1>7
<1> QED
  BY <1>8 DEF m

\* Counting the batch reservations on a key.
LEMMA BatchHoldersFinite ==
    ASSUME TypeOK, NEW k
    PROVE  /\ IsFiniteSet(BatchHolders(k)) /\ Cardinality(BatchHolders(k)) \in Nat
           /\ Cardinality(BatchHolders(k)) <= Cardinality(Holders(k))
<1>1. BatchHolders(k) \subseteq Holders(k)
  BY DEF BatchHolders
<1> QED
  BY <1>1, HoldersFinite, FS_Subset, FS_CardinalityType

\* A step that adds no reservation and changes no live one keeps the reserve.
LEMMA ReserveKept ==
    ASSUME TypeOK, BatchWithinReserve, live' \subseteq live,
           \A d \in live' : held'[d] = held[d] /\ req'[d] = req[d]
    PROVE  BatchWithinReserve'
<1> SUFFICES ASSUME NEW k \in Keys
             PROVE  Cardinality(BatchHolders(k)') * ResDen <= Limit[k] * (ResDen - ResNum)
  BY DEF BatchWithinReserve, BatchHolders
<1>1. BatchHolders(k)' \subseteq BatchHolders(k)
  BY DEF BatchHolders, Holders, Reserved
<1>2. /\ Cardinality(BatchHolders(k)') \in Nat /\ Cardinality(BatchHolders(k)) \in Nat
      /\ Cardinality(BatchHolders(k)') <= Cardinality(BatchHolders(k))
  BY <1>1, BatchHoldersFinite, FS_Subset, FS_CardinalityType
<1>3. ResDen \in Nat /\ ResDen - ResNum \in Nat /\ Limit[k] \in Nat
  BY ParameterAssumption, KeyAssumption
<1>4. /\ Cardinality(BatchHolders(k)') * ResDen \in Nat /\ Cardinality(BatchHolders(k)) * ResDen \in Nat
      /\ Cardinality(BatchHolders(k)') * ResDen <= Cardinality(BatchHolders(k)) * ResDen
  BY <1>2, <1>3, ScaleUp
<1>5. Cardinality(BatchHolders(k)) * ResDen <= Limit[k] * (ResDen - ResNum)
  BY DEF BatchWithinReserve, BatchHolders
<1>6. Limit[k] * (ResDen - ResNum) \in Nat
  BY <1>3, ScaleUp
<1> QED
  BY <1>4, <1>5, <1>6

\* A new reservation keeps the reserve if, being batch work, it found room below the
\* ceiling batch work sees on every key it takes.
LEMMA ReserveGrant ==
    ASSUME IInv, BatchWithinReserve, NEW c \in Callers, c \notin live, NEW N,
           live' = live \cup {c}, held' = [held EXCEPT ![c] = N],
           \A d \in live : req'[d] = req[d],
           Reserved(req'[c]) => \A k \in N : k \in Keys /\ Limit[k] > 0 /\ inUse[k] < EffLimit(k)
    PROVE  BatchWithinReserve'
<1> SUFFICES ASSUME NEW k \in Keys
             PROVE  Cardinality(BatchHolders(k)') * ResDen <= Limit[k] * (ResDen - ResNum)
  BY DEF BatchWithinReserve, BatchHolders
<1>0. TypeOK /\ Accounting
  BY DEF IInv
<1>1. c \notin BatchHolders(k)
  BY DEF BatchHolders, Holders
<1>2. CASE k \in N /\ Reserved(req'[c])
  <2>1. BatchHolders(k)' = BatchHolders(k) \cup {c}
    BY <1>0, <1>2 DEF BatchHolders, Holders, Reserved, TypeOK, ReservationType
  <2>2. Cardinality(BatchHolders(k) \cup {c}) = Cardinality(BatchHolders(k)) + 1
    BY <1>0, <1>1, BatchHoldersFinite, FS_AddElement
  <2>3. Limit[k] > 0 /\ inUse[k] < EffLimit(k)
    BY <1>2
  <2>4. /\ Cardinality(BatchHolders(k)) \in Nat /\ Cardinality(Holders(k)) \in Nat
        /\ Cardinality(BatchHolders(k)) <= Cardinality(Holders(k))
    BY <1>0, HoldersFinite, BatchHoldersFinite
  <2>5. Cardinality(Holders(k)) <= inUse[k] /\ inUse[k] \in Nat
    BY <1>0, <2>4 DEF Accounting, TypeOK, BucketType
  <2>6. EffLimit(k) \in Nat
    BY <1>0, <2>3, EffLimitBounds
  <2>7. Cardinality(BatchHolders(k)) < EffLimit(k)
    BY <2>3, <2>4, <2>5, <2>6
  <2>8. (Cardinality(BatchHolders(k)) + 1) * ResDen <= Limit[k] * (ResDen - ResNum)
    BY <1>0, <2>3, <2>4, <2>7, ReserveRoom
  <2> QED
    BY <2>1, <2>2, <2>8
<1>3. CASE ~(k \in N /\ Reserved(req'[c]))
  <2>1. BatchHolders(k)' = BatchHolders(k)
    BY <1>0, <1>3 DEF BatchHolders, Holders, Reserved, TypeOK, ReservationType
  <2> QED
    BY <2>1 DEF BatchWithinReserve, BatchHolders
<1> QED
  BY <1>2, <1>3

\* Batch work that passes the check finds every key it takes below its ceiling.
LEMMA ReserveChecked ==
    ASSUME NEW r \in AllRequests, NEW w, NEW i \in Admitting(r, w), Reserved(r), TypeOK
    PROVE  \A k \in Needs(r, i) : k \in Keys /\ Limit[k] > 0 /\ inUse[k] < EffLimit(k)
<1> SUFFICES ASSUME NEW k \in Needs(r, i)
             PROVE  k \in Keys /\ Limit[k] > 0 /\ inUse[k] < EffLimit(k)
  OBVIOUS
<1>1. i \in Attempts(r) /\ ~Full(k, r, w)
  BY DEF Admitting, Blockers
<1>2. k \in Keys /\ Limit[k] > 0
  BY <1>1, NeedsType
<1>3. EffLimit(k) \in Nat /\ inUse[k] \in Nat
  BY <1>2, EffLimitBounds DEF TypeOK, BucketType
<1> QED
  BY <1>1, <1>2, <1>3 DEF Full

\* Every step of the broker keeps the reserve.
LEMMA NextReserve ==
    ASSUME IInv, BatchWithinReserve, [Next]_vars
    PROVE  BatchWithinReserve'
<1>0. /\ TypeOK /\ req \in [Callers -> AllRequests \cup {None}]
      /\ held \in [Callers -> SUBSET Keys] /\ live \subseteq Callers
      /\ \A d \in live : phase[d] \in {"granted", "held"}
  BY DEF IInv, TypeOK, WaiterType, ReservationType, NoTrace
<1>1. ASSUME UNCHANGED <<req, resVars>> PROVE BatchWithinReserve'
  BY <1>0, <1>1, ReserveKept DEF resVars
<1>2. CASE UNCHANGED vars
  BY <1>1, <1>2 DEF vars, waiterVars
<1>3. CASE NextRound \/ StartServe \/ EndServe
  BY <1>1, <1>3 DEF NextRound, StartServe, EndServe, waiterVars
<1>4. ASSUME NEW c \in Callers, SkipProbed(c) \/ ProbeFail(c) \/ ProbeBlocked(c)
      PROVE  BatchWithinReserve'
  BY <1>1, <1>4 DEF SkipProbed, ProbeFail, ProbeBlocked, waiterVars
<1>5. ASSUME NEW c \in Callers, SweepNext(c) PROVE BatchWithinReserve'
  <2>1. live' = live \ {c} /\ req' = req /\ held' = held
    BY <1>5 DEF SweepNext, StartRelease, waiterVars
  <2> QED
    BY <1>0, <2>1, ReserveKept
<1>6. ASSUME NEW w \in Callers, ProbeGrant(w) PROVE BatchWithinReserve'
  <2>1. w \notin live /\ req[w] \in AllRequests
    BY <1>6, ProbedWaits DEF ProbeGrant
  <2>2. Winner(req[w], w) \in Admitting(req[w], w)
    BY <1>6, <2>1, WinnerAdmitted DEF ProbeGrant
  <2>3. PICK N : N = Needs(req[w], Winner(req[w], w))
    OBVIOUS
  <2>4. live' = live \cup {w} /\ held' = [held EXCEPT ![w] = N] /\ req' = req
    BY <1>6, <2>3 DEF ProbeGrant
  <2>5. Reserved(req'[w]) => \A k \in N : k \in Keys /\ Limit[k] > 0 /\ inUse[k] < EffLimit(k)
    BY <1>0, <2>1, <2>2, <2>3, <2>4, ReserveChecked
  <2> QED
    BY <2>1, <2>4, <2>5, ReserveGrant
<1>7. ASSUME NEW c \in Callers, NEW r \in Requests[c], GrantFresh(c, r)
      PROVE  BatchWithinReserve'
  <2>1. r \in AllRequests /\ c \notin live
    BY <1>0, <1>7 DEF AllRequests, GrantFresh
  <2>2. Winner(r, NoClaimant) \in Admitting(r, NoClaimant)
    BY <1>7, <2>1, WinnerAdmitted DEF GrantFresh
  <2>3. PICK N : N = Needs(r, Winner(r, NoClaimant))
    OBVIOUS
  <2>4. live' = live \cup {c} /\ held' = [held EXCEPT ![c] = N] /\ req' = [req EXCEPT ![c] = r]
    BY <1>7, <2>3 DEF GrantFresh, Commit
  <2>5. req'[c] = r /\ \A d \in live : req'[d] = req[d]
    BY <1>0, <2>1, <2>4
  <2>6. Reserved(req'[c]) => \A k \in N : k \in Keys /\ Limit[k] > 0 /\ inUse[k] < EffLimit(k)
    BY <1>0, <2>1, <2>2, <2>3, <2>5, ReserveChecked
  <2> QED
    BY <2>1, <2>4, <2>5, <2>6, ReserveGrant
<1>8. ASSUME NEW c \in Callers, NEW x, req' = [req EXCEPT ![c] = x], c \notin live,
             held' = held, live' = live
      PROVE  BatchWithinReserve'
  <2>1. \A d \in live : req'[d] = req[d]
    BY <1>0, <1>8
  <2> QED
    BY <1>0, <1>8, <2>1, ReserveKept
<1>9. ASSUME NEW c \in Callers, NEW r \in Requests[c], Enqueue(c, r)
      PROVE  BatchWithinReserve'
  <2>1. req' = [req EXCEPT ![c] = r] /\ c \notin live /\ held' = held /\ live' = live
    BY <1>0, <1>9 DEF Enqueue, resVars
  <2> QED
    BY <1>8, <2>1
<1>10. ASSUME NEW c \in Callers, Receive(c) PROVE BatchWithinReserve'
  <2>1. CASE phase[c] = "granted"
    <3>1. req' = req /\ UNCHANGED resVars
      BY <1>0, <1>10, <2>1 DEF Receive
    <3> QED
      BY <1>1, <3>1
  <2>2. CASE phase[c] # "granted"
    <3>1. req' = [req EXCEPT ![c] = None] /\ c \notin live /\ held' = held /\ live' = live
      BY <1>0, <1>10, <2>2 DEF Receive, resVars
    <3> QED
      BY <1>8, <3>1
  <2> QED
    BY <2>1, <2>2
<1>11. ASSUME NEW c \in Callers, Timeout(c) \/ Cancel(c) PROVE BatchWithinReserve'
  <2>1. req' = [req EXCEPT ![c] = None] /\ c \notin live /\ held' = held /\ live' = live
    BY <1>0, <1>11 DEF Timeout, Cancel, Abandon, resVars
  <2> QED
    BY <1>8, <2>1
<1>12. ASSUME NEW c \in Callers, Release(c) \/ CancelRaced(c) PROVE BatchWithinReserve'
  <2>1. /\ req' = [req EXCEPT ![c] = None] /\ held' = [held EXCEPT ![c] = {}]
        /\ live' \subseteq live /\ c \notin live'
    BY <1>12 DEF Release, CancelRaced, ReleaseReservation, StartRelease
  <2>2. \A d \in live' : held'[d] = held[d] /\ req'[d] = req[d]
    BY <1>0, <2>1
  <2> QED
    BY <1>0, <2>1, <2>2, ReserveKept
<1>13. CASE OwnerStep
  BY <1>1, <1>13 DEF OwnerStep, Sweep, Close, SetShare, waiterVars
<1>14. ASSUME NEW c \in Callers, NEW r \in Requests[c], Refuse(c, r)
       PROVE  BatchWithinReserve'
  BY <1>2, <1>14 DEF Refuse
<1>15. CASE PassStep
  BY <1>3, <1>4, <1>5, <1>6, <1>15 DEF PassStep
<1>16. ASSUME NEW c \in Callers, CallerStep(c) PROVE BatchWithinReserve'
  BY <1>7, <1>9, <1>10, <1>11, <1>12, <1>14, <1>16 DEF CallerStep
<1> QED
  BY <1>2, <1>13, <1>15, <1>16 DEF Next

\* Batch work never occupies the part of a configured ceiling the interactive reserve
\* keeps free (effLimit), on any axis and for any reserve, whether it was admitted at
\* once or by a probe and whatever the node's share was at that moment.
THEOREM BatchWithinReserveHolds == Spec => []BatchWithinReserve
<1>1. Init => BatchWithinReserve
  <2> SUFFICES ASSUME Init, NEW k \in Keys
               PROVE  Cardinality(BatchHolders(k)) * ResDen <= Limit[k] * (ResDen - ResNum)
    BY DEF BatchWithinReserve, BatchHolders
  <2>1. BatchHolders(k) = {}
    BY DEF Init, BatchHolders, Holders
  <2>2. Cardinality(BatchHolders(k)) = 0
    BY <2>1, FS_EmptySet
  <2>3. Limit[k] \in Nat /\ ResDen - ResNum \in Nat /\ ResDen \in Nat
    BY KeyAssumption, ParameterAssumption
  <2>4. Limit[k] * (ResDen - ResNum) \in Nat /\ 0 * ResDen = 0
    BY <2>3, ScaleUp
  <2> QED
    BY <2>2, <2>4
<1>2. IInv /\ BatchWithinReserve /\ [Next]_vars => BatchWithinReserve'
  BY NextReserve
<1> QED
  BY <1>1, <1>2, Invariance, PTL DEF Spec

-----------------------------------------------------------------------------
(* Whoever waits is right to wait.                                         *)

\* Every request has one candidate to try: none spills.
OneCandidate == \A r \in AllRequests : CandidateCount(r) = 1

\* A release may probe as many waiters as there can be.
Reaching == Cardinality(Callers) <= ProbeBudget

\* The ceilings at the narrowest share: of the node, and the part of it a request sees.
Narrow(k) ==
    IF MaxShare <= 1 THEN Limit[k]
    ELSE IF Limit[k] \div MaxShare > 0 THEN Limit[k] \div MaxShare ELSE 1

NarrowFor(k, r) ==
    IF Reserved(r) THEN (Narrow(k) * (ResDen - ResNum)) \div ResDen ELSE Narrow(k)

\* The units of k that are in use by others than w.
Others(k, w) == inUse[k] - (IF claimant[k] = w THEN 1 ELSE 0)

\* Others keep w from k, or did before one unit was freed.
Busy(k, w) == Others(k, w) >= 1 /\ Others(k, w) >= NarrowFor(k, req[w])

Short(k, w) == Others(k, w) + 1 >= NarrowFor(k, req[w])

\* The keys of which the pass has freed a unit and which it has still to serve.
Freed == {k \in Keys : \/ \E i \in DOMAIN todo : k \in todo[i]
                       \/ \E i \in DOMAIN pending : k \in pending[i]}

\* The pass will come to w on k, or is about to.
Awaited(k, w) == w \notin probed /\ (k \in Freed \/ (k = cur /\ budget > 0))

\* Whoever waits sits in the queue of a key that others keep it from, or of which one
\* unit is free and the pass has not come to the waiter yet.
HeldUp ==
    \A w \in Waiting :
        at[w] # {} /\ \A k \in at[w] : Busy(k, w) \/ (Short(k, w) /\ Awaited(k, w))

\* Claims are for interactive work only.
Unreserved == \A k \in Keys : claimant[k] # None => ~Reserved(req[claimant[k]])

Shut == closed => Waiting = {}

\* Only waiters that were probed are parked, and outside serveLocked there are none,
\* nor probes left.
Parked == park \subseteq probed /\ (cur = None => park = {} /\ budget = 0)

\* What the probes have used of their budget is at most one each.
Counted == budget > 0 => ProbeBudget <= budget + Cardinality(probed)

Attended == Unreserved /\ Shut /\ Parked /\ Counted /\ HeldUp

\* Dividing by more leaves less.
LEMMA DivByMore ==
    ASSUME NEW x \in Nat, NEW m \in Nat, NEW n \in Nat, 0 < m, m <= n
    PROVE  x \div m \in Nat /\ x \div n \in Nat /\ x \div n <= x \div m
<1> DEFINE p == x \div n
           q == x \div m
<1>1. p \in Nat /\ q \in Nat /\ p * n <= x /\ x < (q + 1) * m
  OBVIOUS
<1> HIDE DEF p, q
<1>2. p * m <= p * n /\ p * m \in Nat /\ p * n \in Nat
  BY <1>1
<1>3. p * m < (q + 1) * m /\ (q + 1) * m \in Nat
  BY <1>1, <1>2
<1>4. ~(q + 1 <= p)
  <2> SUFFICES ASSUME q + 1 <= p PROVE FALSE
    OBVIOUS
  <2>1. (q + 1) * m <= p * m
    BY <1>1, ScaleUp
  <2> QED
    BY <1>2, <1>3, <2>1
<1>5. p <= q
  BY <1>1, <1>4
<1> QED
  BY <1>1, <1>5 DEF p, q

\* Of more, a division leaves no less.
LEMMA DivOfMore ==
    ASSUME NEW x \in Nat, NEW y \in Nat, NEW n \in Nat, 0 < n, x <= y
    PROVE  x \div n \in Nat /\ y \div n \in Nat /\ x \div n <= y \div n
<1> DEFINE p == x \div n
           q == y \div n
<1>1. p \in Nat /\ q \in Nat /\ p * n <= x /\ y < (q + 1) * n
  OBVIOUS
<1> HIDE DEF p, q
<1>2. p * n \in Nat /\ (q + 1) * n \in Nat /\ p * n < (q + 1) * n
  BY <1>1
<1>3. ~(q + 1 <= p)
  <2> SUFFICES ASSUME q + 1 <= p PROVE FALSE
    OBVIOUS
  <2>1. (q + 1) * n <= p * n
    BY <1>1, ScaleUp
  <2> QED
    BY <1>2, <2>1
<1>4. p <= q
  BY <1>1, <1>3
<1> QED
  BY <1>1, <1>4 DEF p, q

\* A ceiling is lowest at the narrowest share.
LEMMA NarrowBounds ==
    ASSUME TypeOK, NEW k \in Keys, Limit[k] > 0
    PROVE  /\ Narrow(k) \in Nat /\ Narrow(k) <= NodeLimit(k)
           /\ share = MaxShare => Narrow(k) = NodeLimit(k)
<1>1. /\ Limit[k] \in Nat /\ share \in Nat /\ 0 < share /\ MaxShare \in Nat /\ 0 < MaxShare
      /\ share <= MaxShare
  BY KeyAssumption, ParameterAssumption DEF TypeOK
<1>2. /\ Limit[k] \div share \in Nat /\ Limit[k] \div MaxShare \in Nat
      /\ Limit[k] \div MaxShare <= Limit[k] \div share
      /\ Limit[k] \div MaxShare <= Limit[k]
  BY <1>1, DivByMore, DivAtMost
<1> QED
  BY <1>1, <1>2 DEF Narrow, NodeLimit

\* So is what a request sees of it.
LEMMA NarrowForBounds ==
    ASSUME TypeOK, NEW k \in Keys, Limit[k] > 0, NEW r
    PROVE  /\ NarrowFor(k, r) \in Nat /\ NarrowFor(k, r) <= Narrow(k)
           /\ ~Reserved(r) => NarrowFor(k, r) = Narrow(k)
           /\ Reserved(r) => NarrowFor(k, r) <= EffLimit(k)
           /\ Reserved(r) /\ share = MaxShare => NarrowFor(k, r) = EffLimit(k)
<1>1. /\ Narrow(k) \in Nat /\ Narrow(k) <= NodeLimit(k) /\ NodeLimit(k) \in Nat
      /\ share = MaxShare => Narrow(k) = NodeLimit(k)
  BY NarrowBounds, NodeLimitBounds
<1>2. /\ ResDen - ResNum \in Nat /\ ResDen - ResNum <= ResDen /\ ResDen \in Nat /\ 0 < ResDen
  BY ParameterAssumption
<1> DEFINE m == ResDen - ResNum
<1>3. m \in Nat /\ m <= ResDen
  BY <1>2
<1> HIDE DEF m
<1>4. /\ Narrow(k) * m \in Nat /\ NodeLimit(k) * m \in Nat
      /\ Narrow(k) * m <= NodeLimit(k) * m
  BY <1>1, <1>3, ScaleUp
<1>5. /\ (Narrow(k) * m) \div ResDen \in Nat
      /\ (Narrow(k) * m) \div ResDen <= (NodeLimit(k) * m) \div ResDen
  BY <1>2, <1>4, DivOfMore
<1>6. (Narrow(k) * m) \div ResDen <= Narrow(k)
  BY <1>1, <1>2, <1>3, ScaleAtMost
<1>7. /\ EffLimit(k) = (NodeLimit(k) * m) \div ResDen
      /\ NarrowFor(k, r) = IF Reserved(r) THEN (Narrow(k) * m) \div ResDen ELSE Narrow(k)
  BY DEF EffLimit, NarrowFor, m
<1> QED
  BY <1>1, <1>5, <1>6, <1>7

\* With one candidate, that one is the only attempt.
LEMMA SoleAttempt ==
    ASSUME OneCandidate, NEW r \in AllRequests
    PROVE  Attempts(r) = {1}
<1>1. CandidateCount(r) = 1
  BY DEF OneCandidate
<1> QED
  BY <1>1 DEF Attempts

\* What a waiter waits for.
LEMMA WaiterFacts ==
    ASSUME IInv, OneCandidate, NEW w \in Waiting
    PROVE  /\ w \in Callers /\ phase[w] = "waiting" /\ req[w] \in AllRequests
           /\ claimIdx[w] = 1 /\ Claims(w) \subseteq Needs(req[w], 1)
           /\ at[w] \subseteq Needs(req[w], 1)
           /\ Needs(req[w], 1) \subseteq {k \in Keys : Limit[k] > 0}
<1>1. w \in Callers /\ phase[w] = "waiting"
  BY DEF Waiting
<1>2. req[w] \in AllRequests /\ claimIdx[w] \in Attempts(req[w])
  BY <1>1 DEF IInv, RequestKnown, ClaimCandidate
<1>3. Attempts(req[w]) = {1}
  BY <1>2, SoleAttempt
<1>4. at[w] \subseteq Needs(req[w], 1)
  BY <1>1, <1>3 DEF IInv, QueuedOnNeeds
<1>5. Claims(w) \subseteq ClaimNeeds(w)
  BY <1>1, DroppableAll DEF Droppable
<1>6. Needs(req[w], 1) \subseteq {k \in Keys : Limit[k] > 0}
  BY <1>2, <1>3, NeedsType
<1> QED
  BY <1>1, <1>2, <1>3, <1>4, <1>5, <1>6 DEF ClaimNeeds

\* Others use a natural number of units.
LEMMA OthersNat ==
    ASSUME IInv, NEW k \in Keys, NEW w \in Callers
    PROVE  inUse[k] \in Nat /\ Others(k, w) \in Nat
<1>1. inUse[k] \in Nat /\ (claimant[k] = w => inUse[k] > 0)
  BY ClaimCounted, NoneAssumption DEF IInv, TypeOK, BucketType
<1> QED
  BY <1>1 DEF Others

\* The check that finds k full for w finds it in use by others, at any share.
LEMMA FullBusy ==
    ASSUME IInv, NEW k \in Keys, Limit[k] > 0, NEW r, NEW w, Full(k, r, w),
           Reserved(r) => EffLimit(k) # 0,
           NEW c \in Callers, claimant[k] = c => w = c /\ ~Reserved(r)
    PROVE  Others(k, c) >= 1 /\ Others(k, c) >= NarrowFor(k, r)
<1>1. /\ NodeLimit(k) \in Nat /\ 0 < NodeLimit(k) /\ EffLimit(k) \in Nat
      /\ Narrow(k) \in Nat /\ Narrow(k) <= NodeLimit(k)
  BY NodeLimitBounds, EffLimitBounds, NarrowBounds DEF IInv
<1>2. /\ NarrowFor(k, r) \in Nat
      /\ ~Reserved(r) => NarrowFor(k, r) = Narrow(k)
      /\ Reserved(r) => NarrowFor(k, r) <= EffLimit(k)
  BY NarrowForBounds DEF IInv
<1>3. inUse[k] \in Nat
  BY OthersNat
<1> QED
  BY <1>1, <1>2, <1>3 DEF Full, Others

\* A request that has to wait waits on a key that is full and has a ceiling for it.
LEMMA BlockingFull ==
    ASSUME OneCandidate, NEW r \in AllRequests, NEW w, Admitting(r, w) = {}
    PROVE  /\ Retryable(r, w) # {} => Blocking(r, w) # {}
           /\ \A k \in Blocking(r, w) :
                 /\ k \in Needs(r, 1) /\ k \in Keys /\ Limit[k] > 0 /\ Full(k, r, w)
                 /\ Reserved(r) => EffLimit(k) # 0
<1>1. Attempts(r) = {1}
  BY SoleAttempt
<1>2. Blockers(r, 1, w) # {} /\ Blockers(r, 1, w) \subseteq Needs(r, 1)
  BY <1>1 DEF Admitting, Blockers
<1>3. Needs(r, 1) \subseteq {k \in Keys : Limit[k] > 0}
  BY <1>1, NeedsType
<1>4. BlockAt(r, 1, w) \in Blockers(r, 1, w)
  BY <1>2, <1>3, FirstInMember DEF BlockAt
<1>5. Blocking(r, w) \subseteq {BlockAt(r, i, w) : i \in Retryable(r, w)}
  BY DEF Blocking
<1>6. Retryable(r, w) \subseteq {1}
  BY <1>1 DEF Retryable
<1>7. ASSUME Retryable(r, w) # {} PROVE Blocking(r, w) # {}
  <2>1. 1 \in Retryable(r, w) /\ {n \in Retryable(r, w) : n < 1} = {}
    BY <1>6, <1>7
  <2>2. {BlockAt(r, j, w) : j \in {n \in Retryable(r, w) : n < 1}} = {}
    BY <2>1
  <2>3. Cardinality({BlockAt(r, j, w) : j \in {n \in Retryable(r, w) : n < 1}}) < MaxBlockAxes
    BY <2>2, FS_EmptySet, ParameterAssumption
  <2>4. BlockAt(r, 1, w) \in Blocking(r, w)
    BY <2>1, <2>3 DEF Blocking
  <2> QED
    BY <2>4
<1>8. ASSUME NEW k \in Blocking(r, w)
      PROVE  /\ k \in Needs(r, 1) /\ k \in Keys /\ Limit[k] > 0 /\ Full(k, r, w)
             /\ Reserved(r) => EffLimit(k) # 0
  <2>1. k = BlockAt(r, 1, w) /\ 1 \in Retryable(r, w)
    BY <1>5, <1>6
  <2>2. ~Permanent(r, 1, w)
    BY <2>1 DEF Retryable
  <2> QED
    BY <1>2, <1>3, <1>4, <2>1, <2>2 DEF Permanent, Blockers
<1> QED
  BY <1>7, <1>8

\* A step that takes nothing from the others and leaves the pass alone.
LEMMA StaysHeldUp ==
    ASSUME IInv, IInv', OneCandidate, HeldUp,
           \A w \in Waiting' :
               /\ w \in Waiting /\ at'[w] = at[w] /\ req'[w] = req[w]
               /\ \A k \in at[w] : Others(k, w)' >= Others(k, w),
           UNCHANGED <<todo, pending, cur, budget, probed>>
    PROVE  HeldUp'
<1> SUFFICES ASSUME NEW w \in Waiting'
             PROVE  /\ at'[w] # {}
                    /\ \A k \in at'[w] : Busy(k, w)' \/ (Short(k, w)' /\ Awaited(k, w)')
  BY DEF HeldUp
<1>1. w \in Waiting /\ at'[w] = at[w] /\ req'[w] = req[w] /\ at[w] # {}
  BY DEF HeldUp
<1> SUFFICES ASSUME NEW k \in at[w]
             PROVE  Busy(k, w)' \/ (Short(k, w)' /\ Awaited(k, w)')
  BY <1>1
<1>2. k \in Keys /\ w \in Callers /\ Limit[k] > 0
  BY <1>1, WaiterFacts
<1>3. Others(k, w) \in Nat /\ Others(k, w)' \in Int /\ Others(k, w)' >= Others(k, w)
  BY <1>2, OthersNat DEF IInv, TypeOK, BucketType, Others
<1>4. NarrowFor(k, req[w]) \in Nat
  BY <1>2, NarrowForBounds DEF IInv
<1>5. Busy(k, w) \/ (Short(k, w) /\ Awaited(k, w))
  BY <1>1 DEF HeldUp
<1>6. Awaited(k, w) => Awaited(k, w)'
  BY DEF Awaited, Freed
<1> QED
  BY <1>1, <1>3, <1>4, <1>5, <1>6 DEF Busy, Short

\* A step that frees a unit of some keys, with nothing left to serve, and has them served.
LEMMA FreesHeldUp ==
    ASSUME IInv, IInv', OneCandidate, HeldUp, todo = <<>>, pending = <<>>, cur = None,
           probed' = {}, NEW F, F \subseteq Freed',
           \A w \in Waiting' :
               /\ w \in Waiting /\ at'[w] = at[w] /\ req'[w] = req[w]
               /\ \A k \in at[w] : Others(k, w)' >= Others(k, w) - (IF k \in F THEN 1 ELSE 0)
    PROVE  HeldUp'
<1> SUFFICES ASSUME NEW w \in Waiting'
             PROVE  /\ at'[w] # {}
                    /\ \A k \in at'[w] : Busy(k, w)' \/ (Short(k, w)' /\ Awaited(k, w)')
  BY DEF HeldUp
<1>1. w \in Waiting /\ at'[w] = at[w] /\ req'[w] = req[w] /\ at[w] # {}
  BY DEF HeldUp
<1> SUFFICES ASSUME NEW k \in at[w]
             PROVE  Busy(k, w)' \/ (Short(k, w)' /\ Awaited(k, w)')
  BY <1>1
<1>2. k \in Keys /\ w \in Callers /\ Limit[k] > 0
  BY <1>1, WaiterFacts
<1>3. /\ Others(k, w) \in Nat /\ Others(k, w)' \in Int
      /\ Others(k, w)' >= Others(k, w) - (IF k \in F THEN 1 ELSE 0)
  BY <1>2, OthersNat DEF IInv, TypeOK, BucketType, Others
<1>4. NarrowFor(k, req[w]) \in Nat
  BY <1>2, NarrowForBounds DEF IInv
<1>5. Freed = {} /\ k # cur
  BY <1>2, NoneAssumption DEF Freed
<1>6. Busy(k, w)
  BY <1>1, <1>5 DEF HeldUp, Awaited
<1>7. k \in F => Awaited(k, w)'
  BY DEF Awaited
<1> QED
  BY <1>1, <1>3, <1>4, <1>6, <1>7 DEF Busy, Short

\* Claims that go away, or stay with a waiter that keeps its request.
LEMMA StaysUnreserved ==
    ASSUME IInv, Unreserved,
           \A k \in Keys : claimant'[k] # None =>
               claimant'[k] = claimant[k] /\ req'[claimant[k]] = req[claimant[k]]
    PROVE  Unreserved'
  BY DEF Unreserved, Reserved

\* A request granted at once uses units that nobody who waits could have.
LEMMA GrantFreshAttended ==
    ASSUME IInv, IInv', OneCandidate, Attended,
           NEW c \in Callers, NEW r \in Requests[c], GrantFresh(c, r)
    PROVE  Attended'
<1> USE DEF Attended
<1>1. /\ phase[c] = "idle" /\ phase' = [phase EXCEPT ![c] = "held"]
      /\ req' = [req EXCEPT ![c] = r] /\ at' = at /\ claimant' = claimant
      /\ UNCHANGED <<closed, todo, pending, cur, budget, park, probed>>
      /\ \A k \in Keys : inUse'[k] = inUse[k] + 1 \/ inUse'[k] = inUse[k]
  BY DEF GrantFresh, Commit, passVars
<1>2. Waiting' = Waiting /\ c \notin Waiting
  BY <1>1 DEF Waiting, IInv, TypeOK, WaiterType
<1>3. \A w \in Waiting : req'[w] = req[w]
  BY <1>1, <1>2 DEF Waiting, IInv, TypeOK, WaiterType
<1>4. \A w \in Waiting : \A k \in at[w] : Others(k, w)' >= Others(k, w)
  <2> SUFFICES ASSUME NEW w \in Waiting, NEW k \in at[w]
               PROVE  Others(k, w)' >= Others(k, w)
    OBVIOUS
  <2>1. k \in Keys /\ w \in Callers
    BY WaiterFacts
  <2> QED
    BY <1>1, <2>1, OthersNat DEF Others
<1>5. HeldUp'
  BY <1>1, <1>2, <1>3, <1>4, StaysHeldUp
<1>6. Unreserved'
  <2>1. \A k \in Keys : claimant[k] # None => claimant[k] \in Waiting
    BY DEF IInv, ClaimsArePrefix, TypeOK, BucketType, Waiting
  <2> QED
    BY <1>1, <1>3, <2>1, StaysUnreserved
<1> QED
  BY <1>1, <1>2, <1>5, <1>6 DEF Shut, Parked, Counted

\* A request that has to wait waits on a key that others keep it from.
LEMMA EnqueueAttended ==
    ASSUME IInv, IInv', OneCandidate, Attended,
           NEW c \in Callers, NEW r \in Requests[c], Enqueue(c, r)
    PROVE  Attended'
<1> USE DEF Attended
<1>1. /\ phase[c] = "idle" /\ phase' = [phase EXCEPT ![c] = "waiting"] /\ ~closed
      /\ Admitting(r, NoClaimant) = {} /\ Blocking(r, NoClaimant) # {}
      /\ req' = [req EXCEPT ![c] = r] /\ at' = [at EXCEPT ![c] = Blocking(r, NoClaimant)]
      /\ UNCHANGED <<inUse, claimant, closed, todo, pending, cur, budget, park, probed>>
  BY DEF Enqueue, bucketVars, passVars
<1>2. Waiting' = Waiting \cup {c} /\ c \notin Waiting
  BY <1>1 DEF Waiting, IInv, TypeOK, WaiterType
<1>3. \A w \in Waiting : req'[w] = req[w] /\ at'[w] = at[w]
  BY <1>1, <1>2 DEF Waiting, IInv, TypeOK, WaiterType
<1>4. req'[c] = r /\ at'[c] = Blocking(r, NoClaimant) /\ r \in AllRequests
  BY <1>1 DEF IInv, TypeOK, WaiterType, AllRequests
<1>5. ASSUME NEW k \in at'[c] PROVE Busy(k, c)'
  <2>1. /\ k \in Keys /\ Limit[k] > 0 /\ Full(k, r, NoClaimant)
        /\ Reserved(r) => EffLimit(k) # 0
    BY <1>1, <1>4, BlockingFull
  <2>2. claimant[k] # c
    BY <1>1, <2>1 DEF IInv, NoTrace, Claims
  <2>3. Others(k, c) >= 1 /\ Others(k, c) >= NarrowFor(k, r)
    BY <2>1, <2>2, FullBusy
  <2> QED
    BY <1>1, <1>4, <2>3 DEF Busy, Others
<1>6. ASSUME NEW w \in Waiting, NEW k \in at'[w]
      PROVE  Busy(k, w)' \/ (Short(k, w)' /\ Awaited(k, w)')
  <2>1. Busy(k, w) \/ (Short(k, w) /\ Awaited(k, w))
    BY <1>3, <1>6 DEF HeldUp
  <2> QED
    BY <1>1, <1>3, <2>1 DEF Busy, Short, Awaited, Others, Freed
<1>7. HeldUp'
  <2>1. at'[c] # {}
    BY <1>1, <1>4
  <2>2. \A w \in Waiting : at'[w] # {}
    BY <1>3 DEF HeldUp
  <2> QED
    BY <1>2, <1>5, <1>6, <2>1, <2>2 DEF HeldUp
<1>8. Unreserved'
  <2>1. \A k \in Keys : claimant[k] # None => claimant[k] \in Waiting
    BY DEF IInv, ClaimsArePrefix, TypeOK, BucketType, Waiting
  <2> QED
    BY <1>1, <1>3, <2>1, StaysUnreserved
<1> QED
  BY <1>1, <1>7, <1>8 DEF Shut, Parked, Counted

\* A result that is received, and what leaves the waiters and the pass alone.
LEMMA IdleAttended ==
    ASSUME IInv, IInv', OneCandidate, Attended,
           UNCHANGED <<inUse, claimant, at, closed, todo, pending, cur, budget, park, probed>>,
           Waiting' = Waiting, \A w \in Waiting : req'[w] = req[w]
    PROVE  Attended'
<1> USE DEF Attended
<1>1. \A w \in Waiting : \A k \in at[w] : Others(k, w)' >= Others(k, w)
  <2> SUFFICES ASSUME NEW w \in Waiting, NEW k \in at[w]
               PROVE  Others(k, w)' >= Others(k, w)
    OBVIOUS
  <2>1. k \in Keys /\ w \in Callers
    BY WaiterFacts
  <2> QED
    BY <2>1, OthersNat DEF Others
<1>2. HeldUp'
  BY <1>1, StaysHeldUp
<1>3. Unreserved'
  <2>1. \A k \in Keys : claimant[k] # None => claimant[k] \in Waiting
    BY DEF IInv, ClaimsArePrefix, TypeOK, BucketType, Waiting
  <2> QED
    BY <2>1, StaysUnreserved
<1> QED
  BY <1>2, <1>3 DEF Shut, Parked, Counted

\* A waiter that gives up returns one unit of each key it had set aside.
LEMMA AbandonAttended ==
    ASSUME IInv, IInv', OneCandidate, Attended, NEW c \in Callers, Abandon(c)
    PROVE  Attended'
<1> DEFINE D == Droppable(c)
<1> USE DEF Attended
<1>1. D = Claims(c) /\ D \subseteq Keys
  BY DroppableAll
<1>2. \A k \in D : claimant[k] = c
  BY <1>1 DEF Claims
<1> HIDE DEF D
<1>3. /\ phase[c] = "waiting" /\ phase' = [phase EXCEPT ![c] = "idle"]
      /\ req' = [req EXCEPT ![c] = None] /\ at' = [at EXCEPT ![c] = {}]
      /\ claimant' = [k \in Keys |-> IF k \in D THEN None ELSE claimant[k]]
      /\ inUse' = [k \in Keys |-> IF k \in D THEN inUse[k] - 1 ELSE inUse[k]]
      /\ pending' = AppendSet(pending, D)
      /\ todo = <<>> /\ pending = <<>> /\ cur = None /\ probed' = {}
      /\ UNCHANGED <<closed, todo, cur, budget, park>>
  BY DEF Abandon, LockFree, Forget, DropClaims, D
<1>4. Waiting' = Waiting \ {c} /\ c \in Waiting
  BY <1>3 DEF Waiting, IInv, TypeOK, WaiterType
<1>5. \A w \in Waiting' : w \in Waiting /\ w # c /\ req'[w] = req[w] /\ at'[w] = at[w]
  BY <1>3, <1>4 DEF Waiting, IInv, TypeOK, WaiterType
<1>6. D \subseteq Freed'
  <2> SUFFICES ASSUME NEW k \in D PROVE k \in Freed'
    OBVIOUS
  <2>1. pending' = <<D>>
    BY <1>3 DEF AppendSet
  <2>2. 1 \in DOMAIN pending' /\ k \in pending'[1]
    BY <2>1
  <2> QED
    BY <1>1, <2>2 DEF Freed
<1>7. \A w \in Waiting' : \A k \in at[w] :
         Others(k, w)' >= Others(k, w) - (IF k \in D THEN 1 ELSE 0)
  <2> SUFFICES ASSUME NEW w \in Waiting', NEW k \in at[w]
               PROVE  Others(k, w)' >= Others(k, w) - (IF k \in D THEN 1 ELSE 0)
    OBVIOUS
  <2>1. k \in Keys /\ w \in Callers /\ w # c /\ w # None
    BY <1>5, WaiterFacts, NoneAssumption
  <2> QED
    BY <1>2, <1>3, <2>1, OthersNat DEF Others
<1>8. HeldUp'
  BY <1>3, <1>5, <1>6, <1>7, FreesHeldUp
<1>9. Unreserved'
  <2>1. \A k \in Keys : claimant'[k] # None => claimant'[k] = claimant[k] /\ claimant[k] # c
    BY <1>1, <1>3 DEF Claims
  <2> QED
    BY <1>3, <2>1, StaysUnreserved DEF IInv, TypeOK, WaiterType, BucketType
<1> QED
  BY <1>3, <1>4, <1>8, <1>9, ParameterAssumption DEF Shut, Parked, Counted, IInv, TypeOK, PassType

\* A released reservation returns one unit of each of its keys.
LEMMA ReleaseAttended ==
    ASSUME IInv, IInv', OneCandidate, Attended, NEW c \in live, StartRelease(c),
           todo = <<>>, pending = <<>>, cur = None,
           UNCHANGED <<claimant, at, closed, pending, cur, budget, park>>,
           Waiting' = Waiting, \A w \in Waiting : req'[w] = req[w]
    PROVE  Attended'
<1> USE DEF Attended
<1>1. held[c] \subseteq Keys
  BY DEF IInv, TypeOK, ReservationType
<1>2. /\ inUse' = [k \in Keys |-> IF k \in held[c] /\ inUse[k] > 0
                                  THEN inUse[k] - 1 ELSE inUse[k]]
      /\ todo' = AppendSet(<<>>, held[c]) /\ probed' = {}
  BY DEF StartRelease
<1>3. held[c] \subseteq Freed'
  <2> SUFFICES ASSUME NEW k \in held[c] PROVE k \in Freed'
    OBVIOUS
  <2>1. todo' = <<held[c]>>
    BY <1>2 DEF AppendSet
  <2>2. 1 \in DOMAIN todo' /\ k \in todo'[1]
    BY <2>1
  <2> QED
    BY <1>1, <2>2 DEF Freed
<1>4. \A w \in Waiting' : \A k \in at[w] :
         Others(k, w)' >= Others(k, w) - (IF k \in held[c] THEN 1 ELSE 0)
  <2> SUFFICES ASSUME NEW w \in Waiting, NEW k \in at[w]
               PROVE  Others(k, w)' >= Others(k, w) - (IF k \in held[c] THEN 1 ELSE 0)
    OBVIOUS
  <2>1. k \in Keys /\ w \in Callers
    BY WaiterFacts
  <2> QED
    BY <1>2, <2>1, OthersNat DEF Others
<1>5. HeldUp'
  BY <1>2, <1>3, <1>4, FreesHeldUp
<1>6. Unreserved'
  <2>1. \A k \in Keys : claimant[k] # None => claimant[k] \in Waiting
    BY DEF IInv, ClaimsArePrefix, TypeOK, BucketType, Waiting
  <2> QED
    BY <2>1, StaysUnreserved
<1> QED
  BY <1>2, <1>5, <1>6 DEF Shut, Parked, Counted

\* A probe that serves nobody yet: the waiters the pass was to come to are still ahead.
LEMMA PassAttended ==
    ASSUME IInv, Attended,
           UNCHANGED <<bucketVars, waiterVars, closed>>,
           \A w \in Waiting : \A k \in at[w] : Awaited(k, w) => Awaited(k, w)'
    PROVE  Unreserved' /\ Shut' /\ HeldUp'
<1> USE DEF Attended
<1>1. UNCHANGED <<inUse, claimant, phase, req, at, closed>>
  BY DEF bucketVars, waiterVars
<1>2. Waiting' = Waiting
  BY <1>1 DEF Waiting
<1>3. Unreserved' /\ Shut'
  BY <1>1, <1>2 DEF Unreserved, Reserved, Shut
<1>4. ASSUME NEW w \in Waiting, NEW k \in at[w]
      PROVE  Busy(k, w)' \/ (Short(k, w)' /\ Awaited(k, w)')
  <2>1. Busy(k, w) \/ (Short(k, w) /\ Awaited(k, w))
    BY DEF HeldUp
  <2>2. Busy(k, w)' = Busy(k, w) /\ Short(k, w)' = Short(k, w)
    BY <1>1 DEF Busy, Short, Others
  <2> QED
    BY <2>1, <2>2
<1>5. HeldUp'
  BY <1>1, <1>2, <1>4 DEF HeldUp
<1> QED
  BY <1>3, <1>5

\* A round over the keys that were freed.
LEMMA NextRoundAttended ==
    ASSUME IInv, OneCandidate, Attended, NextRound
    PROVE  Attended'
<1> USE DEF Attended
<1>1. /\ cur = None /\ todo = <<>> /\ todo' = pending /\ pending' = <<>> /\ probed' = {}
      /\ UNCHANGED <<bucketVars, waiterVars, closed>> /\ UNCHANGED <<cur, budget, park>>
  BY DEF NextRound
<1>2. Freed \subseteq Freed'
  BY <1>1 DEF Freed
<1>3. \A w \in Waiting : \A k \in at[w] : Awaited(k, w) => Awaited(k, w)'
  <2> SUFFICES ASSUME NEW w \in Waiting, NEW k \in at[w], Awaited(k, w)
               PROVE  Awaited(k, w)'
    OBVIOUS
  <2>1. k # cur
    BY <1>1, WaiterFacts, NoneAssumption
  <2> QED
    BY <1>1, <1>2, <2>1 DEF Awaited
<1>4. Unreserved' /\ Shut' /\ HeldUp'
  BY <1>1, <1>3, PassAttended
<1> QED
  BY <1>1, <1>4 DEF Parked, Counted

\* A key is looked at at least once, and not more often than the cap says.
LEMMA ProbeBudgetType ==
    ProbeBudget \in Nat /\ 0 < ProbeBudget /\ ProbeBudget <= MaxProbePerRelease
  BY ParameterAssumption DEF ProbeBudget

\* Finitely many waiters were probed.
LEMMA ProbedFinite ==
    ASSUME TypeOK
    PROVE  /\ IsFiniteSet(probed) /\ Cardinality(probed) \in Nat
           /\ IsFiniteSet(park) /\ Cardinality(park) \in Nat
           /\ Cardinality(Callers) \in Nat
<1>1. probed \subseteq Callers /\ park \subseteq Callers
  BY DEF TypeOK, PassType
<1> QED
  BY <1>1, CallerAssumption, FS_Subset, FS_CardinalityType

\* The next key of the round: nobody waits on a key that is passed over.
LEMMA StartServeAttended ==
    ASSUME IInv, OneCandidate, Attended, StartServe
    PROVE  Attended'
<1> DEFINE h == Head(todo)
           k0 == FirstIn(h)
           rest == h \ {k0}
<1> USE DEF Attended
<1>0. todo # <<>> /\ todo \in Seq((SUBSET Keys) \ {{}})
  BY DEF StartServe, IInv, TypeOK, PassType
<1>1. h \in (SUBSET Keys) \ {{}} /\ h = todo[1]
  BY <1>0
<1>2. k0 \in h /\ k0 \in Keys
  BY <1>1, FirstInMember
<1> HIDE DEF k0, h
<1>3. /\ cur = None
      /\ todo' = IF rest = {} THEN Tail(todo) ELSE [todo EXCEPT ![1] = rest]
      /\ \/ (Queue(k0) = {} \/ closed) /\ cur' = None /\ budget' = 0
         \/ cur' = k0 /\ budget' = ProbeBudget
      /\ UNCHANGED <<bucketVars, waiterVars, closed>> /\ UNCHANGED <<pending, park, probed>>
  BY DEF StartServe, k0, h
<1>4. Freed \ {k0} \subseteq Freed'
  <2> SUFFICES ASSUME NEW j \in Freed, j # k0 PROVE j \in Freed'
    OBVIOUS
  <2>1. CASE \E i \in DOMAIN pending : j \in pending[i]
    BY <1>3, <2>1 DEF Freed
  <2>2. CASE \E i \in DOMAIN todo : j \in todo[i]
    <3>1. PICK i \in DOMAIN todo : j \in todo[i]
      BY <2>2
    <3>2. Len(todo) \in Nat /\ i \in 1 .. Len(todo)
      BY <1>0, <3>1
    <3>3. CASE rest # {}
      <4>1. i \in DOMAIN todo' /\ j \in todo'[i]
        BY <1>0, <1>1, <1>3, <3>1, <3>3
      <4> QED
        BY <4>1 DEF Freed
    <3>4. CASE rest = {}
      <4>1. i # 1
        BY <1>1, <3>1, <3>4
      <4>2. i - 1 \in 1 .. Len(todo) - 1 /\ todo' = Tail(todo)
        BY <1>3, <3>2, <3>4, <4>1
      <4>3. i - 1 \in DOMAIN todo' /\ todo'[i - 1] = todo[i]
        BY <1>0, <3>2, <4>2
      <4> QED
        BY <3>1, <4>3 DEF Freed
    <3> QED
      BY <3>3, <3>4
  <2> QED
    BY <2>1, <2>2 DEF Freed
<1>5. \A w \in Waiting : \A k \in at[w] : Awaited(k, w) => Awaited(k, w)'
  <2> SUFFICES ASSUME NEW w \in Waiting, NEW k \in at[w], Awaited(k, w)
               PROVE  Awaited(k, w)'
    OBVIOUS
  <2>1. k # cur /\ k \in Freed /\ w \notin probed
    BY <1>3, WaiterFacts, NoneAssumption DEF Awaited
  <2>2. CASE k # k0
    BY <1>3, <1>4, <2>1, <2>2 DEF Awaited
  <2>3. CASE k = k0
    <3>1. w \in Queue(k0)
      BY <2>1, <2>3 DEF Queue, Waiting
    <3>2. ~closed
      BY DEF Shut
    <3>3. cur' = k0 /\ budget' > 0
      BY <1>3, <3>1, <3>2, ProbeBudgetType
    <3> QED
      BY <1>3, <2>1, <2>3, <3>3 DEF Awaited
  <2> QED
    BY <2>2, <2>3
<1>6. Unreserved' /\ Shut' /\ HeldUp'
  BY <1>3, <1>5, PassAttended
<1>7. Counted'
  BY <1>3, ProbeBudgetType, ProbedFinite DEF Counted, IInv
<1> QED
  BY <1>2, <1>3, <1>6, <1>7, NoneAssumption DEF Parked

\* A waiter that was probed before is put aside.
LEMMA SkipProbedAttended ==
    ASSUME IInv, OneCandidate, Attended, NEW w \in Callers, SkipProbed(w)
    PROVE  Attended'
<1> USE DEF Attended
<1>1. /\ cur # None /\ w \in probed /\ park' = park \cup {w}
      /\ UNCHANGED <<bucketVars, waiterVars, closed>>
      /\ UNCHANGED <<todo, pending, cur, budget, probed>>
  BY DEF SkipProbed
<1>2. Unreserved' /\ Shut' /\ HeldUp'
  BY <1>1, PassAttended DEF Awaited, Freed
<1> QED
  BY <1>1, <1>2 DEF Parked, Counted

\* The key is done: everyone who waits on it was probed.
LEMMA EndServeAttended ==
    ASSUME IInv, OneCandidate, Reaching, Attended, EndServe
    PROVE  Attended'
<1> USE DEF Attended
<1>1. /\ cur # None /\ cur' = None /\ budget' = 0 /\ park' = {} /\ probed' \in {{}, probed}
      /\ UNCHANGED <<bucketVars, waiterVars, closed>> /\ UNCHANGED <<todo, pending>>
      /\ \/ budget = 0
         \/ Queue(cur) = {}
         \/ Cardinality(park) >= MaxProbePerRelease /\ \E v \in probed : IsHead(v, cur)
  BY DEF EndServe
<1>2. ASSUME NEW v, v \in Queue(cur) PROVE Cardinality(park) < MaxProbePerRelease
  <2>1. v \in Callers /\ v \notin park /\ park \subseteq Callers
    BY <1>2 DEF Queue, IInv, TypeOK, PassType
  <2>2. park \subseteq Callers \ {v} /\ IsFiniteSet(Callers \ {v})
    BY <2>1, CallerAssumption, FS_Subset
  <2>3. Cardinality(park) <= Cardinality(Callers \ {v})
    BY <2>2, FS_Subset
  <2>4. Cardinality(Callers \ {v}) = Cardinality(Callers) - 1
    BY <2>1, CallerAssumption, FS_RemoveElement
  <2>5. Cardinality(park) \in Nat /\ Cardinality(Callers) \in Nat
    BY ProbedFinite DEF IInv
  <2> QED
    BY <2>3, <2>4, <2>5, ProbeBudgetType, ParameterAssumption DEF Reaching
<1>3. \A w \in Waiting : \A k \in at[w] : Awaited(k, w) => Awaited(k, w)'
  <2> SUFFICES ASSUME NEW w \in Waiting, NEW k \in at[w], Awaited(k, w)
               PROVE  Awaited(k, w)'
    OBVIOUS
  <2>1. CASE k \in Freed
    BY <1>1, <2>1 DEF Awaited, Freed
  <2>2. CASE k = cur /\ budget > 0
    <3>1. w \in Queue(cur)
      BY <2>2 DEF Awaited, Parked, Queue, Waiting
    <3>2. \A v \in probed : ~(IsHead(v, cur) /\ Cardinality(park) >= MaxProbePerRelease)
      BY <1>2, ProbedFinite, ParameterAssumption DEF IsHead, IInv
    <3> QED
      BY <1>1, <2>2, <3>1, <3>2
  <2> QED
    BY <2>1, <2>2 DEF Awaited
<1>4. Unreserved' /\ Shut' /\ HeldUp'
  BY <1>1, <1>3, PassAttended
<1> QED
  BY <1>1, <1>4 DEF Parked, Counted

\* The last probe of the budget is that of the last waiter there can be.
LEMMA LastProbe ==
    ASSUME IInv, Reaching, Counted, NEW w \in Callers, w \notin probed, budget = 1
    PROVE  probed \cup {w} = Callers
<1>1. probed \subseteq Callers /\ IsFiniteSet(probed) /\ Cardinality(probed) \in Nat
  BY ProbedFinite DEF IInv, TypeOK, PassType
<1>2. Cardinality(probed \cup {w}) = Cardinality(probed) + 1
  BY <1>1, FS_AddElement
<1>3. Cardinality(probed \cup {w}) >= Cardinality(Callers)
  BY <1>1, <1>2, ProbeBudgetType, ProbedFinite DEF Counted, Reaching, IInv
<1>4. /\ Cardinality(probed \cup {w}) <= Cardinality(Callers)
      /\ Cardinality(probed \cup {w}) = Cardinality(Callers) => probed \cup {w} = Callers
  BY <1>1, CallerAssumption, FS_Subset
<1>5. Cardinality(Callers) \in Nat
  BY CallerAssumption, FS_CardinalityType
<1> QED
  BY <1>1, <1>2, <1>3, <1>4, <1>5

\* A probe of w that takes nothing from the others, and either costs a probe or uses the
\* unit that was free.
LEMMA ProbeHeldUp ==
    ASSUME IInv, IInv', OneCandidate, Reaching, Attended, NEW w \in Callers, Probing(w),
           UNCHANGED <<todo, pending, cur>>,
           \A d \in Waiting' : d # w =>
               /\ d \in Waiting /\ at'[d] = at[d] /\ req'[d] = req[d]
               /\ \A k \in at[d] : Others(k, d)' >= Others(k, d),
           \/ budget' = budget - 1
           \/ \A d \in Waiting' : d # w /\ cur \in at[d] => Busy(cur, d)',
           w \in Waiting' => at'[w] # {} /\ \A k \in at'[w] : Busy(k, w)'
    PROVE  HeldUp'
<1> USE DEF Attended
<1>1. budget \in Nat /\ budget > 0 /\ w \notin probed /\ probed' = probed \cup {w}
  BY ParameterAssumption DEF Probing, IInv, TypeOK, PassType
<1> SUFFICES ASSUME NEW d \in Waiting'
             PROVE  /\ at'[d] # {}
                    /\ \A k \in at'[d] : Busy(k, d)' \/ (Short(k, d)' /\ Awaited(k, d)')
  BY DEF HeldUp
<1>2. CASE d = w
  BY <1>2
<1>3. CASE d # w
  <2>1. d \in Waiting /\ at'[d] = at[d] /\ req'[d] = req[d] /\ at[d] # {}
    BY <1>3 DEF HeldUp
  <2> SUFFICES ASSUME NEW k \in at[d]
               PROVE  Busy(k, d)' \/ (Short(k, d)' /\ Awaited(k, d)')
    BY <2>1
  <2>2. k \in Keys /\ d \in Callers /\ Limit[k] > 0
    BY <2>1, WaiterFacts
  <2>3. Others(k, d) \in Nat /\ Others(k, d)' \in Int /\ Others(k, d)' >= Others(k, d)
    BY <1>3, <2>2, OthersNat DEF IInv, TypeOK, BucketType, Others
  <2>4. NarrowFor(k, req[d]) \in Nat
    BY <2>2, NarrowForBounds DEF IInv
  <2>5. CASE Busy(k, d)
    BY <2>1, <2>3, <2>4, <2>5 DEF Busy
  <2>6. CASE Short(k, d) /\ Awaited(k, d)
    <3>1. Short(k, d)' /\ d \notin probed'
      BY <1>1, <1>3, <2>1, <2>3, <2>4, <2>6 DEF Short, Awaited
    <3>2. CASE k \in Freed
      BY <3>1, <3>2 DEF Awaited, Freed
    <3>3. CASE k = cur /\ budget' = budget - 1
      <4>1. budget # 1
        BY <1>1, <2>2, <3>1, LastProbe
      <4> QED
        BY <1>1, <3>1, <3>3, <4>1 DEF Awaited
    <3>4. CASE k = cur /\ budget' # budget - 1
      BY <1>3, <3>4
    <3> QED
      BY <2>6, <3>2, <3>3, <3>4 DEF Awaited
  <2> QED
    BY <2>1, <2>5, <2>6 DEF HeldUp
<1> QED
  BY <1>2, <1>3

\* The probe uses up one of the budget, or the pass is done with the key.
LEMMA ProbeCounted ==
    ASSUME IInv, Parked, Counted, NEW w \in Callers, Probing(w), cur' = cur,
           budget' \in {0, budget - 1}, park' \subseteq park \cup {w}
    PROVE  Parked' /\ Counted'
<1>1. /\ w \notin probed /\ probed' = probed \cup {w} /\ cur # None
      /\ budget \in Nat /\ budget > 0
  BY ParameterAssumption DEF Probing, IInv, TypeOK, PassType
<1>2. IsFiniteSet(probed) /\ Cardinality(probed) \in Nat
  BY ProbedFinite DEF IInv
<1>3. Cardinality(probed') = Cardinality(probed) + 1
  BY <1>1, <1>2, FS_AddElement
<1>4. Counted'
  BY <1>1, <1>2, <1>3, ProbeBudgetType DEF Counted
<1> QED
  BY <1>1, <1>4 DEF Parked

\* A probe that fails for good is of batch work, which has set nothing aside.
LEMMA ProbeFailAttended ==
    ASSUME IInv, IInv', OneCandidate, Reaching, Attended, NEW w \in Callers, ProbeFail(w)
    PROVE  Attended'
<1> USE DEF Attended
<1>1. phase[w] = "waiting" /\ req[w] \in AllRequests /\ Probing(w)
  BY ProbedWaits DEF ProbeFail
<1>2. Reserved(req[w])
  <2>1. 1 \in Attempts(req[w])
    BY <1>1, FirstAttempt
  <2>2. Permanent(req[w], 1, w)
    BY <2>1 DEF ProbeFail, Retryable
  <2> QED
    BY <2>2 DEF Permanent
<1>3. Droppable(w) = {}
  BY <1>2, DroppableAll, NoneAssumption DEF Unreserved, Claims
<1>4. /\ phase' = [phase EXCEPT ![w] = "failed"] /\ req' = req /\ at' = [at EXCEPT ![w] = {}]
      /\ pending' = pending /\ budget' = budget - 1
      /\ UNCHANGED <<closed, todo, cur, park>>
      /\ \A k \in Keys : inUse'[k] = inUse[k] /\ claimant'[k] = claimant[k]
  BY <1>3 DEF ProbeFail, Forget, DropClaims, AppendSet
<1>5. Waiting' = Waiting \ {w}
  BY <1>4 DEF Waiting, IInv, TypeOK, WaiterType
<1>6. \A d \in Waiting' : d # w => /\ d \in Waiting /\ at'[d] = at[d] /\ req'[d] = req[d]
                                  /\ \A k \in at[d] : Others(k, d)' >= Others(k, d)
  <2> SUFFICES ASSUME NEW d \in Waiting', NEW k \in at[d]
               PROVE  Others(k, d)' >= Others(k, d)
    BY <1>4, <1>5 DEF Waiting, IInv, TypeOK, WaiterType
  <2>1. k \in Keys /\ d \in Callers
    BY <1>5, WaiterFacts
  <2> QED
    BY <1>4, <2>1, OthersNat DEF Others
<1>7. HeldUp'
  BY <1>1, <1>4, <1>5, <1>6, ProbeHeldUp
<1>8. Unreserved'
  BY <1>4, StaysUnreserved
<1>9. Parked' /\ Counted'
  BY <1>1, <1>4, ProbeCounted
<1> QED
  BY <1>4, <1>5, <1>7, <1>8, <1>9 DEF Shut

\* A probe that grants takes the unit that was free, or had set it aside before.
LEMMA ProbeGrantAttended ==
    ASSUME IInv, IInv', OneCandidate, Reaching, Attended, NEW w \in Callers, ProbeGrant(w)
    PROVE  Attended'
<1> DEFINE N == Needs(req[w], Winner(req[w], w))
<1> USE DEF Attended
<1>1. /\ phase[w] = "waiting" /\ req[w] \in AllRequests /\ Probing(w) /\ w \in Waiting
      /\ budget \in Nat /\ budget > 0 /\ cur \in at[w] /\ w \notin probed
  BY ProbedWaits, ParameterAssumption
  DEF ProbeGrant, Probing, Waiting, IsHead, Queue
<1>2. /\ Claims(w) \subseteq Needs(req[w], 1) /\ cur \in Needs(req[w], 1)
      /\ Needs(req[w], 1) \subseteq {k \in Keys : Limit[k] > 0}
  BY <1>1, WaiterFacts
<1>3. Winner(req[w], w) = 1
  <2>1. Winner(req[w], w) \in Attempts(req[w])
    BY <1>1, WinnerAdmitted DEF ProbeGrant, Admitting
  <2> QED
    BY <1>1, <2>1, SoleAttempt
<1>4. N = Needs(req[w], 1) /\ Droppable(w) \ N = {}
  BY <1>2, <1>3, DroppableAll
<1> HIDE DEF N
<1>5. /\ phase' = [phase EXCEPT ![w] = "granted"] /\ req' = req /\ at' = [at EXCEPT ![w] = {}]
      /\ pending' = pending /\ budget' = 0
      /\ UNCHANGED <<closed, todo, cur, park>>
      /\ \A k \in Keys : inUse'[k] = IF k \in N /\ claimant[k] # w
                                     THEN inUse[k] + 1 ELSE inUse[k]
      /\ \A k \in Keys : claimant'[k] = IF claimant[k] = w /\ k \in N
                                        THEN None ELSE claimant[k]
  BY <1>4 DEF ProbeGrant, Forget, AppendSet, N
<1>6. Waiting' = Waiting \ {w}
  BY <1>5 DEF Waiting, IInv, TypeOK, WaiterType
<1>7. \A d \in Waiting' : d # w => /\ d \in Waiting /\ at'[d] = at[d] /\ req'[d] = req[d]
                                  /\ \A k \in at[d] : Others(k, d)' >= Others(k, d)
  <2> SUFFICES ASSUME NEW d \in Waiting', NEW k \in at[d]
               PROVE  Others(k, d)' >= Others(k, d)
    BY <1>5, <1>6 DEF Waiting, IInv, TypeOK, WaiterType
  <2>1. k \in Keys /\ d \in Callers /\ d # w /\ d # None
    BY <1>6, WaiterFacts, NoneAssumption
  <2> QED
    BY <1>5, <2>1, OthersNat DEF Others
<1>8. ASSUME NEW d \in Waiting', cur \in at[d] PROVE Busy(cur, d)'
  <2>1. d # w /\ d \in Waiting /\ d \in Callers /\ req'[d] = req[d] /\ d # None
    BY <1>6, <1>7, WaiterFacts, NoneAssumption
  <2>2. cur \in Keys /\ Limit[cur] > 0
    BY <1>2
  <2>3. /\ NarrowFor(cur, req[d]) \in Nat /\ NarrowFor(cur, req[d]) <= Narrow(cur)
        /\ NarrowFor(cur, req[w]) \in Nat /\ Narrow(cur) \in Nat
        /\ ~Reserved(req[w]) => NarrowFor(cur, req[w]) = Narrow(cur)
    BY <2>2, NarrowForBounds, NarrowBounds DEF IInv
  <2>4. inUse[cur] \in Nat /\ Others(cur, d) \in Nat /\ Others(cur, w) \in Nat
    BY <2>1, <2>2, OthersNat
  <2>5. CASE claimant[cur] # w
    <3>1. Others(cur, d)' = Others(cur, d) + 1
      BY <1>2, <1>4, <1>5, <2>1, <2>2, <2>4, <2>5 DEF Others
    <3>2. Others(cur, d) + 1 >= NarrowFor(cur, req[d])
      BY <1>8, <2>1, <2>3, <2>4 DEF HeldUp, Busy, Short
    <3> QED
      BY <1>5, <2>1, <2>4, <3>1, <3>2 DEF Busy
  <2>6. CASE claimant[cur] = w
    <3>1. Others(cur, d)' = inUse[cur] /\ Others(cur, w) = inUse[cur] - 1
      BY <1>5, <2>1, <2>2, <2>4, <2>6 DEF Others
    <3>2. ~Reserved(req[w])
      BY <2>2, <2>6, NoneAssumption DEF Unreserved
    <3>3. Others(cur, w) + 1 >= Narrow(cur)
      BY <1>1, <2>3, <2>4, <3>2 DEF HeldUp, Busy, Short
    <3> QED
      BY <1>5, <2>1, <2>3, <2>4, <3>1, <3>3 DEF Busy
  <2> QED
    BY <2>5, <2>6
<1>9. HeldUp'
  BY <1>1, <1>5, <1>6, <1>7, <1>8, ProbeHeldUp
<1>10. Unreserved'
  BY <1>5, StaysUnreserved
<1>11. Parked' /\ Counted'
  BY <1>1, <1>5, ProbeCounted
<1> QED
  BY <1>5, <1>6, <1>9, <1>10, <1>11 DEF Shut

\* A key newly set aside was free, and not full for anybody it has no reserve against.
LEMMA NewClaimsRoom ==
    ASSUME IInv, NEW w \in Callers, req[w] \in AllRequests, NEW i \in Attempts(req[w]),
           NEW k \in NewClaims(w, i, {})
    PROVE  k \in Keys /\ claimant[k] = None /\ inUse[k] < NodeLimit(k)
<1>1. k \in Needs(req[w], i) /\ k \in Keys /\ Axis[k] \in Nat
  BY NeedsType, KeyAssumption DEF NewClaims
<1>2. k \notin Claims(w) /\ (k \in Claims(w) \/ Claimable(k, w, {}))
  BY <1>1 DEF NewClaims
<1> QED
  BY <1>1, <1>2, OthersNat DEF Claimable

\* A waiter that stays blocked moves to a key that others keep it from; what it sets
\* aside makes nobody else's key less busy.
LEMMA ProbeBlockedAttended ==
    ASSUME IInv, IInv', OneCandidate, Reaching, Attended, NEW w \in Callers, ProbeBlocked(w)
    PROVE  Attended'
<1> DEFINE r == req[w]
           M == IF Armed(w) THEN NewClaims(w, 1, {}) ELSE {}
           Q == Blocking(r, w)
<1> USE DEF Attended
<1>1. /\ phase[w] = "waiting" /\ r \in AllRequests /\ Probing(w) /\ w \in Waiting
      /\ cur \in at[w] /\ w \notin probed /\ Admitting(r, w) = {} /\ Retryable(r, w) # {}
  BY ProbedWaits DEF ProbeBlocked, Probing, Waiting, IsHead, Queue
<1>2. claimIdx[w] = 1 /\ Attempts(r) = {1} /\ CandidateCount(r) = 1
  BY <1>1, WaiterFacts, SoleAttempt DEF OneCandidate
<1>3. ~Rotates(w) /\ RotationDrops(w) = {}
  BY <1>2 DEF Rotates, RotationDrops
<1>4. M \subseteq Keys /\ \A k \in M : claimant[k] = None /\ inUse[k] < NodeLimit(k) /\ ~Reserved(r)
  BY <1>1, <1>2, NewClaimsRoom DEF Armed
<1>5. /\ Q # {}
      /\ \A k \in Q : /\ k \in Keys /\ Limit[k] > 0 /\ Full(k, r, w)
                      /\ Reserved(r) => EffLimit(k) # 0
  BY <1>1, BlockingFull
<1>6. M \cap Q = {}
  <2> SUFFICES ASSUME NEW k \in M, k \in Q PROVE FALSE
    OBVIOUS
  <2>1. k \in Keys /\ inUse[k] < NodeLimit(k) /\ ~Reserved(r) /\ Full(k, r, w) /\ Limit[k] > 0
    BY <1>4, <1>5
  <2>2. NodeLimit(k) \in Nat /\ inUse[k] \in Nat
    BY <2>1, NodeLimitBounds, OthersNat DEF IInv
  <2> QED
    BY <2>1, <2>2 DEF Full
<1> HIDE DEF M, Q, r
<1>7. /\ UNCHANGED <<phase, req, closed, todo, cur>> /\ pending' = pending
      /\ at' = [at EXCEPT ![w] = Q]
      /\ park' \subseteq park \cup {w}
      /\ budget' = IF cur \in M THEN 0 ELSE budget - 1
      /\ \A k \in Keys : claimant'[k] = IF k \in M THEN w ELSE claimant[k]
      /\ \A k \in Keys : inUse'[k] = inUse[k] - 0 + (IF k \in M THEN 1 ELSE 0)
  <2>1. M = IF Armed(w) THEN NewClaims(w, claimIdx[w], RotationDrops(w)) ELSE {}
    BY <1>2, <1>3 DEF M
  <2> QED
    BY <1>3, <2>1 DEF ProbeBlocked, AppendSet, Q, r
<1>8. Waiting' = Waiting /\ at'[w] = Q /\ \A d \in Waiting : d # w => at'[d] = at[d]
  BY <1>7 DEF Waiting, IInv, TypeOK, WaiterType
<1>9. ASSUME NEW d \in Waiting, d # w, NEW k \in at[d]
      PROVE  /\ k \in Keys /\ Others(k, d)' = Others(k, d) + (IF k \in M THEN 1 ELSE 0)
             /\ Others(k, d) \in Nat /\ NarrowFor(k, req[d]) \in Nat
  <2>1. k \in Keys /\ d \in Callers /\ Limit[k] > 0 /\ d # None
    BY WaiterFacts, NoneAssumption
  <2>2. inUse[k] \in Nat /\ Others(k, d) \in Nat /\ NarrowFor(k, req[d]) \in Nat
    BY <2>1, OthersNat, NarrowForBounds DEF IInv
  <2> QED
    BY <1>4, <1>7, <1>9, <2>1, <2>2 DEF Others
<1>10. \A d \in Waiting' : d # w => /\ d \in Waiting /\ at'[d] = at[d] /\ req'[d] = req[d]
                                   /\ \A k \in at[d] : Others(k, d)' >= Others(k, d)
  BY <1>7, <1>8, <1>9
<1>11. \/ budget' = budget - 1
       \/ \A d \in Waiting' : d # w /\ cur \in at[d] => Busy(cur, d)'
  <2>1. CASE cur \notin M
    BY <1>7, <2>1
  <2>2. CASE cur \in M
    <3> SUFFICES ASSUME NEW d \in Waiting, d # w, cur \in at[d] PROVE Busy(cur, d)'
      BY <1>8
    <3>1. /\ Others(cur, d) \in Nat /\ NarrowFor(cur, req[d]) \in Nat
          /\ Others(cur, d)' = Others(cur, d) + 1
      BY <1>7, <1>9, <2>2
    <3>2. Others(cur, d) + 1 >= NarrowFor(cur, req[d])
      BY <3>1 DEF HeldUp, Busy, Short
    <3> QED
      BY <1>7, <3>1, <3>2 DEF Busy
  <2> QED
    BY <2>1, <2>2
<1>12. \A k \in at'[w] : Busy(k, w)'
  <2> SUFFICES ASSUME NEW k \in Q PROVE Busy(k, w)'
    BY <1>8
  <2>1. k \in Keys /\ Limit[k] > 0 /\ Full(k, r, w) /\ (Reserved(r) => EffLimit(k) # 0)
    BY <1>5
  <2>2. claimant[k] = w => ~Reserved(r)
    BY <2>1, NoneAssumption DEF Unreserved, r
  <2>3. Others(k, w) >= 1 /\ Others(k, w) >= NarrowFor(k, r)
    BY <2>1, <2>2, FullBusy
  <2>4. inUse[k] \in Nat /\ k \notin M
    BY <1>6, <2>1, OthersNat
  <2>5. Others(k, w)' = Others(k, w)
    BY <1>7, <2>1, <2>4 DEF Others
  <2> QED
    BY <1>7, <2>3, <2>5 DEF Busy, r
<1>13. HeldUp'
  BY <1>1, <1>5, <1>7, <1>8, <1>10, <1>11, <1>12, ProbeHeldUp
<1>14. Unreserved'
  BY <1>4, <1>7 DEF Unreserved, Reserved, r
<1>15. Parked' /\ Counted'
  BY <1>1, <1>7, ProbeCounted
<1> QED
  BY <1>7, <1>8, <1>13, <1>14, <1>15 DEF Shut

\* Every step of the broker leaves whoever waits held up.
LEMMA NextAttended ==
    ASSUME IInv, IInv', OneCandidate, Reaching, Attended, [Next]_vars
    PROVE  Attended'
<1>0. \A c \in live : phase[c] \in {"granted", "held"}
  BY DEF IInv, NoTrace
<1>1. CASE UNCHANGED vars
  BY <1>1, IdleAttended DEF vars, bucketVars, waiterVars, passVars, Waiting
<1>2. ASSUME NEW c \in Callers, SweepNext(c) PROVE Attended'
  <2>1. /\ c \in live /\ StartRelease(c) /\ cur = None /\ todo = <<>> /\ pending = <<>>
        /\ UNCHANGED <<claimant, phase, req, at, closed, pending, cur, budget, park>>
    BY <1>2 DEF SweepNext, waiterVars, IInv, DoomedLive
  <2> QED
    BY <2>1, ReleaseAttended DEF Waiting
<1>3. CASE PassStep
  BY <1>2, <1>3, NextRoundAttended, StartServeAttended, EndServeAttended, SkipProbedAttended,
     ProbeGrantAttended, ProbeFailAttended, ProbeBlockedAttended DEF PassStep
<1>4. ASSUME NEW c \in Callers, Receive(c) PROVE Attended'
  <2>1. /\ phase[c] \in {"granted", "failed"}
        /\ phase' = [phase EXCEPT ![c] = IF @ = "granted" THEN "held" ELSE "idle"]
        /\ req' = [req EXCEPT ![c] = IF phase[c] = "granted" THEN @ ELSE None]
        /\ UNCHANGED <<inUse, claimant, at, closed, todo, pending, cur, budget, park, probed>>
    BY <1>4 DEF Receive, bucketVars, passVars
  <2>2. Waiting' = Waiting /\ \A w \in Waiting : req'[w] = req[w]
    BY <2>1 DEF Waiting, IInv, TypeOK, WaiterType
  <2> QED
    BY <2>1, <2>2, IdleAttended
<1>5. ASSUME NEW c \in Callers, LockFree, phase[c] \in {"held", "granted", "failed"},
             ReleaseReservation(c)
      PROVE  Attended'
  <2>1. /\ phase' = [phase EXCEPT ![c] = "idle"] /\ req' = [req EXCEPT ![c] = None]
        /\ UNCHANGED <<claimant, at, closed, pending, cur, budget, park>>
        /\ todo = <<>> /\ pending = <<>> /\ cur = None
    BY <1>5 DEF ReleaseReservation, LockFree
  <2>2. Waiting' = Waiting /\ \A w \in Waiting : req'[w] = req[w]
    BY <1>5, <2>1 DEF Waiting, IInv, TypeOK, WaiterType
  <2>3. CASE c \in live
    <3>1. StartRelease(c)
      BY <1>5, <2>3 DEF ReleaseReservation
    <3> QED
      BY <2>1, <2>2, <2>3, <3>1, ReleaseAttended
  <2>4. CASE c \notin live
    <3>1. UNCHANGED <<inUse, todo, probed>>
      BY <1>5, <2>4 DEF ReleaseReservation
    <3> QED
      BY <2>1, <2>2, <3>1, IdleAttended
  <2> QED
    BY <2>3, <2>4
<1>6. ASSUME NEW c \in Callers, CallerStep(c) PROVE Attended'
  <2>1. ASSUME NEW r \in Requests[c], Refuse(c, r) PROVE Attended'
    BY <1>1, <2>1 DEF Refuse
  <2>2. CASE Timeout(c) \/ Cancel(c)
    BY <2>2, AbandonAttended DEF Timeout, Cancel
  <2>3. CASE Release(c) \/ CancelRaced(c)
    BY <1>5, <2>3 DEF Release, CancelRaced
  <2> QED
    BY <1>4, <1>6, <2>1, <2>2, <2>3, GrantFreshAttended, EnqueueAttended DEF CallerStep
<1>7. CASE Close
  <2>1. /\ Waiting' = {} /\ UNCHANGED <<cur, budget, park, probed>>
        /\ \A k \in Keys : claimant'[k] = None
    <3>1. /\ phase' = [c \in Callers |-> IF c \in Waiting THEN "failed" ELSE phase[c]]
          /\ UNCHANGED passVars
          /\ \A k \in Keys : claimant'[k] =
                IF k \in UNION {Droppable(c) : c \in Waiting} THEN None ELSE claimant[k]
      BY <1>7 DEF Close
    <3>2. \A k \in Keys : claimant[k] # None => claimant[k] \in Waiting /\ k \in Droppable(claimant[k])
      BY DroppableAll DEF IInv, ClaimsArePrefix, TypeOK, BucketType, Waiting, Claims
    <3> QED
      BY <3>1, <3>2 DEF Waiting, passVars
  <2> QED
    BY <2>1 DEF Attended, Unreserved, Shut, Parked, Counted, HeldUp
<1>8. CASE OwnerStep
  <2>1. ASSUME NEW D \in SUBSET live, Sweep(D) PROVE Attended'
    BY <2>1, IdleAttended DEF Sweep, bucketVars, waiterVars, Waiting
  <2>2. ASSUME NEW n \in 1 .. MaxShare, SetShare(n) PROVE Attended'
    BY <2>2, IdleAttended DEF SetShare, bucketVars, waiterVars, passVars, Waiting
  <2> QED
    BY <1>7, <1>8, <2>1, <2>2 DEF OwnerStep
<1> QED
  BY <1>1, <1>3, <1>6, <1>8 DEF Next

\* A function from a finite non-empty set to the naturals has a greatest value.
LEMMA Topmost ==
    ASSUME NEW S, IsFiniteSet(S), S # {}, NEW f \in [S -> Nat]
    PROVE  \E x \in S : \A y \in S : f[y] <= f[x]
<1> DEFINE Above(x) == {y \in S : f[y] > f[x]}
           All == {Above(x) : x \in S}
<1>1. All \subseteq FiniteSubsetsOf(S) /\ All # {}
  <2>1. PICK s \in S : TRUE
    OBVIOUS
  <2>2. Above(s) \in All
    BY <2>1
  <2>3. \A x \in S : Above(x) \in SUBSET S
    OBVIOUS
  <2>4. All \subseteq SUBSET S
    BY <2>3, Zenon
  <2>5. All \subseteq SUBSET S /\ All # {}
    BY <2>2, <2>4
  <2> HIDE DEF All
  <2> QED
    BY <2>5, FS_FiniteSubsetsOfFinite
<1>2. PICK U \in All : \A V \in All : <<V, U>> \notin StrictSubsetOrdering(S)
  <2> HIDE DEF All
  <2> QED
    BY <1>1, FS_StrictSubsetOrderingWellFounded, WFMin
<1>3. PICK x \in S : U = Above(x)
  BY <1>2
<1>4. ASSUME NEW y \in S, f[y] > f[x]
      PROVE  FALSE
  <2>1. Above(y) \subseteq Above(x) /\ y \in Above(x) /\ y \notin Above(y)
    BY <1>4
  <2>2. <<Above(y), U>> \in StrictSubsetOrdering(S)
    BY <1>3, <2>1 DEF StrictSubsetOrdering
  <2> QED
    BY <1>2, <2>2
<1>5. \A y \in S : f[y] <= f[x]
  BY <1>4
<1> QED
  BY <1>5

\* With the mutex free, others keep whoever waits from the key it waits on.
LEMMA FreeIsBusy ==
    ASSUME IInv, OneCandidate, Attended, LockFree, NEW w \in Waiting
    PROVE  at[w] # {} /\ \A k \in at[w] : Busy(k, w) /\ k \in Keys /\ Limit[k] > 0
<1>1. cur = None /\ Freed = {}
  BY DEF LockFree, Freed
<1>2. \A k \in at[w] : k \in Keys /\ Limit[k] > 0 /\ k # cur
  BY <1>1, WaiterFacts, NoneAssumption
<1> QED
  BY <1>1, <1>2 DEF Attended, HeldUp, Awaited

\* At the narrowest share the check finds that key full.
LEMMA FreeIsFull ==
    ASSUME IInv, OneCandidate, Attended, LockFree, share = MaxShare, NEW w \in Waiting
    PROVE  at[w] # {} /\ \A k \in at[w] : Full(k, req[w], w)
<1> SUFFICES ASSUME NEW k \in at[w] PROVE Full(k, req[w], w)
  BY FreeIsBusy
<1>1. Busy(k, w) /\ k \in Keys /\ Limit[k] > 0 /\ w \in Callers
  BY FreeIsBusy, WaiterFacts
<1>2. /\ Reserved(req[w]) => NarrowFor(k, req[w]) = EffLimit(k)
      /\ ~Reserved(req[w]) => NarrowFor(k, req[w]) = NodeLimit(k)
      /\ NodeLimit(k) \in Nat /\ EffLimit(k) \in Nat /\ inUse[k] \in Nat
  BY <1>1, NarrowForBounds, NarrowBounds, NodeLimitBounds, EffLimitBounds, OthersNat DEF IInv
<1>3. Reserved(req[w]) => claimant[k] # w
  BY <1>1, NoneAssumption DEF Attended, Unreserved
<1> QED
  BY <1>1, <1>2, <1>3 DEF Busy, Others, Full

\* The argument of doc.go against deadlock.  If nobody holds a reservation, the key a
\* waiter waits on is claimed by another one, and since claims are taken in axis order
\* the key that one waits on is higher up; the topmost waiter waits for nobody.
LEMMA NobodyStranded ==
    ASSUME IInv, OneCandidate, Attended
    PROVE  NoStrandedWaiter
<1> SUFFICES ASSUME LockFree, live = {}, Waiting # {} PROVE FALSE
  BY DEF NoStrandedWaiter
<1> DEFINE K(w) == CHOOSE k \in at[w] : TRUE
           f == [w \in Waiting |-> Axis[K(w)]]
<1>1. \A w \in Waiting : K(w) \in at[w]
  BY FreeIsBusy
<1>2. \A w \in Waiting : K(w) \in Keys /\ Busy(K(w), w) /\ K(w) \in Needs(req[w], 1) /\ w \in Callers
  BY <1>1, FreeIsBusy, WaiterFacts
<1> HIDE DEF K
<1>3. f \in [Waiting -> Nat]
  BY <1>2, KeyAssumption
<1>4. IsFiniteSet(Waiting)
  BY CallerAssumption, FS_Subset DEF Waiting
<1>5. PICK w \in Waiting : \A v \in Waiting : f[v] <= f[w]
  BY <1>3, <1>4, Topmost
<1>6. \A k \in Keys : inUse[k] = IF claimant[k] = None THEN 0 ELSE 1
  <2>1. \A k \in Keys : Holders(k) = {}
    BY DEF Holders
  <2> QED
    BY <2>1, FS_EmptySet DEF IInv, Accounting
<1>7. claimant[K(w)] # None /\ claimant[K(w)] # w
  BY <1>2, <1>6 DEF Busy, Others
<1>8. PICK v \in Waiting : v = claimant[K(w)]
  BY <1>2, <1>7 DEF IInv, ClaimsArePrefix, TypeOK, BucketType, Waiting
<1>9. claimant[K(v)] # v
  BY <1>2, <1>6, <1>8, NoneAssumption DEF Busy, Others
<1>10. Axis[K(v)] > Axis[K(w)]
  <2>1. ClaimNeeds(v) = Needs(req[v], 1)
    BY WaiterFacts DEF ClaimNeeds
  <2>2. K(w) \in Needs(req[v], 1) /\ ~(Axis[K(v)] < Axis[K(w)])
    BY <1>2, <1>7, <1>8, <1>9, <2>1 DEF IInv, ClaimsArePrefix
  <2>3. Axis[K(v)] # Axis[K(w)]
    <3>1. req[v] \in AllRequests /\ req[v].pref \in 1 .. Len(req[v].cands)
      BY WaiterFacts, RequestAssumption
    <3>2. Needs(req[v], 1) \subseteq req[v].cands[req[v].pref]
      BY DEF Needs, CandidateAt
    <3>3. K(v) \in req[v].cands[req[v].pref] /\ K(w) \in req[v].cands[req[v].pref]
      BY <1>2, <2>2, <3>2
    <3>4. Axis[K(v)] = Axis[K(w)] => K(v) = K(w)
      BY <3>1, <3>3, RequestAssumption
    <3> QED
      BY <1>8, <1>9, <3>4
  <2> QED
    BY <1>2, <2>2, <2>3, KeyAssumption
<1>11. f[v] > f[w]
  BY <1>10
<1>12. f[v] \in Nat /\ f[w] \in Nat /\ f[v] <= f[w]
  BY <1>3, <1>5
<1> QED
  BY <1>11, <1>12

\* Whoever waits is held up, for every request policy without spilling.
THEOREM AttendedHolds == OneCandidate /\ Reaching => (Spec => []Attended)
<1> SUFFICES ASSUME OneCandidate, Reaching PROVE Spec => []Attended
  OBVIOUS
<1>1. Init => Attended
  BY FS_EmptySet DEF Init, Attended, Unreserved, Shut, Parked, Counted, HeldUp, Waiting
<1>2. IInv /\ IInv' /\ Attended /\ [Next]_vars => Attended'
  BY NextAttended
<1> QED
  BY <1>1, <1>2, Invariance, PTL DEF Spec

\* When the broker's mutex is free, no waiter is stranded with nothing reserved, and at
\* the narrowest share whoever waits sits in the queue of a key its own check finds full
\* (acquire, enqueueLocked, grantLocked, serveLocked), if no request spills and the
\* probes of a release reach every waiter.
THEOREM JustlyWaitingHolds == OneCandidate /\ Reaching => (Spec => []JustlyWaiting)
<1> SUFFICES ASSUME OneCandidate, Reaching PROVE Spec => []JustlyWaiting
  OBVIOUS
<1>1. IInv /\ Attended => JustlyWaiting
  BY NobodyStranded, FreeIsFull DEF JustlyWaiting, WellQueued
<1> QED
  BY <1>1, AttendedHolds, Invariance, PTL

\* Under the same conditions no capacity lies idle while a request that fits it waits: at
\* the narrowest share a waiter's check fails on every candidate (admitCheckLocked).
THEOREM WorkConservingHolds == OneCandidate /\ Reaching => (Spec => []WorkConserving)
<1> SUFFICES ASSUME OneCandidate, Reaching PROVE Spec => []WorkConserving
  OBVIOUS
<1>1. ASSUME IInv, Attended, LockFree, share = MaxShare, NEW c \in Waiting
      PROVE  Admitting(req[c], c) = {}
  <2>1. PICK k \in at[c] : Full(k, req[c], c)
    BY <1>1, FreeIsFull
  <2>2. k \in Needs(req[c], 1) /\ Attempts(req[c]) = {1}
    BY <1>1, WaiterFacts, SoleAttempt
  <2>3. Blockers(req[c], 1, c) # {}
    BY <2>1, <2>2 DEF Blockers
  <2> QED
    BY <2>2, <2>3 DEF Admitting
<1>2. IInv /\ Attended => WorkConserving
  BY <1>1 DEF WorkConserving
<1> QED
  BY <1>2, AttendedHolds, Invariance, PTL

-----------------------------------------------------------------------------
(* Arrival order.                                                          *)

\* No share makes a ceiling narrower than it is configured.
Steady == \A k \in Keys : Limit[k] > 0 => Narrow(k) = Limit[k]

\* A waiter does not sit in the queue of a key it has set aside.
Apart == \A w \in Callers : at[w] \cap Claims(w) = {}

\* With steady ceilings the check compares with what is configured.
LEMMA SteadyLimits ==
    ASSUME IInv, Steady, NEW k \in Keys, Limit[k] > 0, NEW r
    PROVE  /\ NodeLimit(k) = Limit[k] /\ Limit[k] \in Nat /\ inUse[k] \in Nat
           /\ NarrowFor(k, r) = IF Reserved(r) THEN EffLimit(k) ELSE NodeLimit(k)
           /\ EffLimit(k) \in Nat /\ inUse[k] <= Limit[k]
<1>1. /\ Narrow(k) \in Nat /\ Narrow(k) <= NodeLimit(k) /\ Narrow(k) = Limit[k]
      /\ NodeLimit(k) \in Nat /\ NodeLimit(k) <= Limit[k]
      /\ EffLimit(k) \in Nat /\ inUse[k] \in Nat /\ inUse[k] <= Limit[k]
  BY NarrowBounds, NodeLimitBounds, EffLimitBounds
  DEF IInv, TypeOK, BucketType, CapacityRespected, Steady
<1>2. NodeLimit(k) = Narrow(k)
  BY <1>1
<1> QED
  BY <1>1, <1>2 DEF NarrowFor, EffLimit

\* Leaving queues and giving claims back keeps the two apart.
LEMMA ApartShrinks ==
    ASSUME Apart, \A w \in Callers : at'[w] \subseteq at[w],
           \A k \in Keys : claimant'[k] = claimant[k] \/ claimant'[k] = None
    PROVE  Apart'
<1> SUFFICES ASSUME NEW w \in Callers, NEW k \in Keys, k \in at'[w], claimant'[k] = w
             PROVE  FALSE
  BY DEF Apart, Claims
<1>1. claimant[k] = w /\ k \in at[w]
  BY NoneAssumption
<1> QED
  BY <1>1 DEF Apart, Claims

\* A waiter that stays blocked moves to keys that are full but for what it has claimed,
\* so it has claimed none of them: nothing is used beyond its ceiling.
LEMMA ProbeBlockedApart ==
    ASSUME IInv, OneCandidate, Steady, Unreserved, Apart, NEW w \in Callers, ProbeBlocked(w)
    PROVE  Apart'
<1> DEFINE r == req[w]
           M == IF Armed(w) THEN NewClaims(w, 1, {}) ELSE {}
           Q == Blocking(r, w)
<1>1. phase[w] = "waiting" /\ r \in AllRequests /\ w \in Waiting /\ Admitting(r, w) = {}
  BY ProbedWaits DEF ProbeBlocked, Waiting
<1>2. claimIdx[w] = 1 /\ 1 \in Attempts(r) /\ CandidateCount(r) = 1
  BY <1>1, WaiterFacts, SoleAttempt DEF OneCandidate
<1>3. ~Rotates(w) /\ RotationDrops(w) = {}
  BY <1>2 DEF Rotates, RotationDrops
<1>4. M \subseteq Keys /\ \A k \in M : inUse[k] < NodeLimit(k) /\ ~Reserved(r)
  BY <1>1, <1>2, NewClaimsRoom DEF Armed
<1>5. \A k \in Q : k \in Keys /\ Limit[k] > 0 /\ Full(k, r, w)
  BY <1>1, BlockingFull
<1> HIDE DEF M, Q, r
<1>6. /\ at' = [at EXCEPT ![w] = Q]
      /\ \A k \in Keys : claimant'[k] = IF k \in M THEN w ELSE claimant[k]
  <2>1. M = IF Armed(w) THEN NewClaims(w, claimIdx[w], RotationDrops(w)) ELSE {}
    BY <1>2, <1>3 DEF M
  <2> QED
    BY <1>3, <2>1 DEF ProbeBlocked, Q, r
<1>7. at \in [Callers -> SUBSET Keys]
  BY DEF IInv, TypeOK, WaiterType
<1> SUFFICES ASSUME NEW d \in Callers, NEW k \in Keys, k \in at'[d], claimant'[k] = d
             PROVE  FALSE
  BY DEF Apart, Claims
<1>8. CASE d # w
  <2>1. k \in at[d] /\ claimant[k] = d
    BY <1>6, <1>7, <1>8
  <2> QED
    BY <2>1 DEF Apart, Claims
<1>9. CASE d = w
  <2>1. k \in Q /\ Full(k, r, w) /\ Limit[k] > 0 /\ (k \in M \/ claimant[k] = w)
    BY <1>5, <1>6, <1>7, <1>9
  <2>2. NodeLimit(k) = Limit[k] /\ Limit[k] \in Nat /\ inUse[k] \in Nat /\ inUse[k] <= Limit[k]
    BY <2>1, SteadyLimits
  <2>3. k \notin M
    BY <1>4, <2>1, <2>2 DEF Full
  <2>4. claimant[k] = w /\ ~Reserved(r)
    BY <2>1, <2>3, NoneAssumption DEF Unreserved, r
  <2> QED
    BY <2>1, <2>2, <2>4 DEF Full
<1> QED
  BY <1>8, <1>9

\* Every step of the broker keeps queues and claims apart.
LEMMA NextApart ==
    ASSUME IInv, OneCandidate, Steady, Unreserved, Apart, [Next]_vars
    PROVE  Apart'
<1>0. at \in [Callers -> SUBSET Keys]
  BY DEF IInv, TypeOK, WaiterType
<1>1. CASE UNCHANGED <<at, claimant>>
  BY <1>1, ApartShrinks
<1>2. ASSUME NEW c \in Callers, Forget(c),
             \A k \in Keys : claimant'[k] = claimant[k] \/ claimant'[k] = None
      PROVE  Apart'
  <2>1. \A w \in Callers : at'[w] \subseteq at[w]
    BY <1>0, <1>2 DEF Forget
  <2> QED
    BY <1>2, <2>1, ApartShrinks
<1>3. ASSUME NEW c \in Callers, Abandon(c) PROVE Apart'
  BY <1>2, <1>3 DEF Abandon, DropClaims
<1>4. ASSUME NEW c \in Callers, ProbeGrant(c) \/ ProbeFail(c) PROVE Apart'
  <2>1. CASE ProbeGrant(c)
    BY <1>2, <2>1 DEF ProbeGrant
  <2>2. CASE ProbeFail(c)
    BY <1>2, <2>2 DEF ProbeFail, DropClaims
  <2> QED
    BY <1>4, <2>1, <2>2
<1>5. ASSUME NEW c \in Callers, NEW r \in Requests[c], Enqueue(c, r) PROVE Apart'
  <2>1. /\ claimant' = claimant /\ at' = [at EXCEPT ![c] = Blocking(r, NoClaimant)]
        /\ phase[c] = "idle"
    BY <1>5 DEF Enqueue, bucketVars
  <2>2. Claims(c) = {}
    BY <2>1 DEF IInv, NoTrace
  <2> QED
    BY <1>0, <2>1, <2>2 DEF Apart, Claims
<1>6. CASE PassStep
  <2>1. ASSUME NEW c \in Callers, SweepNext(c) \/ SkipProbed(c) PROVE Apart'
    BY <1>1, <2>1 DEF SweepNext, SkipProbed, waiterVars, bucketVars
  <2>2. CASE NextRound \/ StartServe \/ EndServe
    BY <1>1, <2>2 DEF NextRound, StartServe, EndServe, waiterVars, bucketVars
  <2> QED
    BY <1>4, <1>6, <2>1, <2>2, ProbeBlockedApart DEF PassStep
<1>7. ASSUME NEW c \in Callers, CallerStep(c) PROVE Apart'
  <2>1. ASSUME NEW r \in Requests[c], GrantFresh(c, r) \/ Refuse(c, r) PROVE Apart'
    BY <1>1, <2>1 DEF GrantFresh, Refuse, vars, waiterVars, bucketVars
  <2>2. CASE Receive(c) \/ Release(c) \/ CancelRaced(c)
    BY <1>1, <2>2 DEF Receive, Release, CancelRaced, ReleaseReservation, bucketVars
  <2>3. CASE Timeout(c) \/ Cancel(c)
    BY <1>3, <2>3 DEF Timeout, Cancel
  <2> QED
    BY <1>5, <1>7, <2>1, <2>2, <2>3 DEF CallerStep
<1>8. CASE OwnerStep
  <2>1. ASSUME NEW D \in SUBSET live, Sweep(D) PROVE Apart'
    BY <1>1, <2>1 DEF Sweep, waiterVars, bucketVars
  <2>2. ASSUME NEW n \in 1 .. MaxShare, SetShare(n) PROVE Apart'
    BY <1>1, <2>2 DEF SetShare, waiterVars, bucketVars
  <2>3. CASE Close
    BY <2>3 DEF Close, Apart
  <2> QED
    BY <1>8, <2>1, <2>2, <2>3 DEF OwnerStep
<1>9. CASE UNCHANGED vars
  BY <1>1, <1>9 DEF vars, waiterVars, bucketVars
<1> QED
  BY <1>6, <1>7, <1>8, <1>9 DEF Next

\* Whoever is granted while others of its kind wait is the oldest of them: the older
\* ones are parked because they were probed and found the key busy, and the younger one
\* has set nothing of it aside.
LEMMA OldestGranted ==
    ASSUME IInv, OneCandidate, Steady, Attended, Apart,
           NEW c \in Callers, NEW d \in Callers, ProbeGrant(d),
           phase[c] = "waiting", req[c] = req[d], at[c] = at[d], c \in ahead[d]
    PROVE  FALSE
<1> DEFINE r == req[d]
<1>1. /\ phase[d] = "waiting" /\ d \in Waiting /\ c \in Waiting /\ r \in AllRequests
      /\ cur \in at[d] /\ Queue(cur) \cap ahead[d] = {} /\ Admitting(r, d) # {}
  BY ProbedWaits DEF ProbeGrant, Probing, IsHead, Queue, Waiting
<1>2. cur \in Needs(r, 1) /\ cur \in Keys /\ Limit[cur] > 0
  BY <1>1, WaiterFacts
<1>3. c \in probed
  BY <1>1 DEF Queue, Attended, Parked
<1>4. Others(cur, c) >= NarrowFor(cur, r)
  BY <1>1, <1>3 DEF Attended, HeldUp, Awaited, Busy
<1>5. Blockers(r, 1, d) = {}
  BY <1>1, SoleAttempt DEF Admitting
<1>6. ~Full(cur, r, d)
  BY <1>2, <1>5 DEF Blockers
<1>7. claimant[cur] # d
  BY <1>1, <1>2 DEF Apart, Claims
<1>8. /\ NodeLimit(cur) \in Nat /\ EffLimit(cur) \in Nat /\ inUse[cur] \in Nat
      /\ NarrowFor(cur, r) = IF Reserved(r) THEN EffLimit(cur) ELSE NodeLimit(cur)
  BY <1>2, SteadyLimits
<1>9. inUse[cur] < NarrowFor(cur, r)
  BY <1>6, <1>7, <1>8 DEF Full
<1>10. Others(cur, c) \in Nat /\ Others(cur, c) <= inUse[cur]
  BY <1>2, <1>8, OthersNat DEF Others
<1> HIDE DEF r
<1> QED
  BY <1>4, <1>8, <1>9, <1>10

\* Only a probe grants a waiter.
LEMMA OnlyProbesGrant ==
    ASSUME IInv, [Next]_vars, NEW d \in Callers, phase[d] = "waiting", phase'[d] = "granted"
    PROVE  ProbeGrant(d)
<1>0. phase \in [Callers -> Phases]
  BY DEF IInv, TypeOK, WaiterType
<1>1. CASE UNCHANGED phase
  BY <1>1
<1>2. CASE PassStep
  <2>1. ASSUME NEW c \in Callers, ProbeGrant(c) PROVE ProbeGrant(d)
    <3>1. phase' = [phase EXCEPT ![c] = "granted"]
      BY <2>1 DEF ProbeGrant
    <3> QED
      BY <1>0, <2>1, <3>1
  <2>2. ASSUME NEW c \in Callers, ProbeFail(c) PROVE FALSE
    BY <1>0, <2>2 DEF ProbeFail
  <2>3. ASSUME NEW c \in Callers, SweepNext(c) \/ SkipProbed(c) \/ ProbeBlocked(c) PROVE FALSE
    BY <1>1, <2>3 DEF SweepNext, SkipProbed, ProbeBlocked, waiterVars
  <2>4. CASE NextRound \/ StartServe \/ EndServe
    BY <1>1, <2>4 DEF NextRound, StartServe, EndServe, waiterVars
  <2> QED
    BY <1>2, <2>1, <2>2, <2>3, <2>4 DEF PassStep
<1>3. ASSUME NEW c \in Callers, CallerStep(c) PROVE FALSE
  <2>1. ASSUME NEW v \in {"held", "waiting", "idle"}, phase' = [phase EXCEPT ![c] = v] PROVE FALSE
    BY <1>0, <2>1
  <2>2. ASSUME NEW r \in Requests[c], GrantFresh(c, r) \/ Enqueue(c, r) PROVE FALSE
    BY <2>1, <2>2 DEF GrantFresh, Enqueue
  <2>3. ASSUME NEW r \in Requests[c], Refuse(c, r) PROVE FALSE
    BY <1>1, <2>3 DEF Refuse, vars, waiterVars
  <2>4. CASE Receive(c)
    BY <1>0, <2>4 DEF Receive
  <2>5. CASE Timeout(c) \/ Cancel(c)
    BY <2>1, <2>5 DEF Timeout, Cancel, Abandon
  <2>6. CASE Release(c) \/ CancelRaced(c)
    BY <2>1, <2>6 DEF Release, CancelRaced, ReleaseReservation
  <2> QED
    BY <1>3, <2>2, <2>3, <2>4, <2>5, <2>6 DEF CallerStep
<1>4. CASE OwnerStep
  <2>1. ASSUME NEW D \in SUBSET live, Sweep(D) PROVE FALSE
    BY <1>1, <2>1 DEF Sweep, waiterVars
  <2>2. ASSUME NEW n \in 1 .. MaxShare, SetShare(n) PROVE FALSE
    BY <1>1, <2>2 DEF SetShare, waiterVars
  <2>3. CASE Close
    BY <2>3 DEF Close, Waiting
  <2> QED
    BY <1>4, <2>1, <2>2, <2>3 DEF OwnerStep
<1>5. CASE UNCHANGED vars
  BY <1>1, <1>5 DEF vars, waiterVars
<1> QED
  BY <1>2, <1>3, <1>4, <1>5 DEF Next

\* Only a caller that is admitted at once goes from idle to holding.
LEMMA OnlyFreshHolds ==
    ASSUME IInv, [Next]_vars, NEW c \in Callers, phase[c] = "idle", phase'[c] = "held"
    PROVE  \E r \in Requests[c] : GrantFresh(c, r)
<1>0. phase \in [Callers -> Phases]
  BY DEF IInv, TypeOK, WaiterType
<1>1. CASE UNCHANGED phase
  BY <1>1
<1>2. CASE PassStep
  <2>1. ASSUME NEW e \in Callers, ProbeGrant(e) PROVE FALSE
    BY <1>0, <2>1 DEF ProbeGrant
  <2>2. ASSUME NEW e \in Callers, ProbeFail(e) PROVE FALSE
    BY <1>0, <2>2 DEF ProbeFail
  <2>3. ASSUME NEW e \in Callers, SweepNext(e) \/ SkipProbed(e) \/ ProbeBlocked(e) PROVE FALSE
    BY <1>1, <2>3 DEF SweepNext, SkipProbed, ProbeBlocked, waiterVars
  <2>4. CASE NextRound \/ StartServe \/ EndServe
    BY <1>1, <2>4 DEF NextRound, StartServe, EndServe, waiterVars
  <2> QED
    BY <1>2, <2>1, <2>2, <2>3, <2>4 DEF PassStep
<1>3. ASSUME NEW e \in Callers, CallerStep(e) PROVE \E r \in Requests[c] : GrantFresh(c, r)
  <2>1. ASSUME NEW v \in {"waiting", "idle"}, phase' = [phase EXCEPT ![e] = v] PROVE FALSE
    BY <1>0, <2>1
  <2>2. ASSUME NEW r \in Requests[e], GrantFresh(e, r) PROVE e = c
    BY <1>0, <2>2 DEF GrantFresh
  <2>3. ASSUME NEW r \in Requests[e], Enqueue(e, r) PROVE FALSE
    BY <2>1, <2>3 DEF Enqueue
  <2>4. ASSUME NEW r \in Requests[e], Refuse(e, r) PROVE FALSE
    BY <1>1, <2>4 DEF Refuse, vars, waiterVars
  <2>5. CASE Receive(e)
    BY <1>0, <2>5 DEF Receive
  <2>6. CASE Timeout(e) \/ Cancel(e)
    BY <2>1, <2>6 DEF Timeout, Cancel, Abandon
  <2>7. CASE Release(e) \/ CancelRaced(e)
    BY <2>1, <2>7 DEF Release, CancelRaced, ReleaseReservation
  <2> QED
    BY <1>3, <2>2, <2>3, <2>4, <2>5, <2>6, <2>7 DEF CallerStep
<1>4. CASE OwnerStep
  <2>1. ASSUME NEW D \in SUBSET live, Sweep(D) PROVE FALSE
    BY <1>1, <2>1 DEF Sweep, waiterVars
  <2>2. ASSUME NEW n \in 1 .. MaxShare, SetShare(n) PROVE FALSE
    BY <1>1, <2>2 DEF SetShare, waiterVars
  <2>3. CASE Close
    BY <2>3 DEF Close, Waiting
  <2> QED
    BY <1>4, <2>1, <2>2, <2>3 DEF OwnerStep
<1>5. CASE UNCHANGED vars
  BY <1>1, <1>5 DEF vars, waiterVars
<1> QED
  BY <1>2, <1>3, <1>4, <1>5 DEF Next

\* What a newcomer takes was free, and an interactive waiter at the narrowest share
\* needs a key that was not.
LEMMA NewcomerTakesFree ==
    ASSUME IInv, OneCandidate, Attended, share = MaxShare,
           NEW c \in Callers, NEW r \in Requests[c], GrantFresh(c, r),
           NEW d \in Callers, phase[d] = "waiting", ~req[d].batch
    PROVE  \A i \in Attempts(req[d]) : ~(Needs(req[d], i) \subseteq held'[c])
<1> DEFINE n == Winner(r, NoClaimant)
<1>1. r \in AllRequests
  BY DEF AllRequests
<1>2. LockFree /\ Admitting(r, NoClaimant) # {} /\ held'[c] = Needs(r, n)
  BY DEF GrantFresh, Commit, IInv, TypeOK, ReservationType
<1>3. n \in Attempts(r) /\ Blockers(r, n, NoClaimant) = {}
  BY <1>1, <1>2, WinnerAdmitted DEF Admitting
<1> HIDE DEF n
<1>4. d \in Waiting
  BY DEF Waiting
<1>5. PICK k \in at[d] : Full(k, req[d], d)
  BY <1>2, <1>4, FreeIsFull
<1>6. k \in Needs(req[d], 1) /\ k \in Keys /\ Limit[k] > 0 /\ Attempts(req[d]) = {1}
  BY <1>4, WaiterFacts, SoleAttempt
<1>7. inUse[k] >= NodeLimit(k)
  BY <1>5 DEF Full, Reserved
<1>8. /\ NodeLimit(k) \in Nat /\ EffLimit(k) \in Nat /\ EffLimit(k) <= NodeLimit(k)
      /\ inUse[k] \in Nat /\ claimant[k] # NoClaimant
  BY <1>6, NodeLimitBounds, EffLimitBounds, NoneAssumption DEF IInv, TypeOK, BucketType
<1>9. k \notin Needs(r, n)
  <2> SUFFICES ASSUME k \in Needs(r, n) PROVE FALSE
    OBVIOUS
  <2>1. ~Full(k, r, NoClaimant)
    BY <1>3 DEF Blockers
  <2> QED
    BY <1>7, <1>8, <2>1 DEF Full
<1> QED
  BY <1>2, <1>6, <1>9

\* A newcomer is granted past a waiter only when the waiter could not have been served
\* by what the newcomer took (Acquire's fast path against the queues), whatever the share
\* does in between, if no request spills and the probes of a release reach every waiter.
THEOREM NoBargingHolds == OneCandidate /\ Reaching => (Spec => NoBarging)
<1> SUFFICES ASSUME OneCandidate, Reaching PROVE Spec => NoBarging
  OBVIOUS
<1> DEFINE A == share = MaxShare => \A c, d \in Callers :
          /\ phase[c] = "idle" /\ phase'[c] = "held"
          /\ phase[d] = "waiting" /\ ~req[d].batch
          => \A i \in Attempts(req[d]) : ~(Needs(req[d], i) \subseteq held'[c])
<1>1. IInv /\ Attended /\ [Next]_vars => A
  BY OnlyFreshHolds, NewcomerTakesFree
<1>2. IInv /\ Attended /\ [Next]_vars => [A]_vars
  BY <1>1
<1> HIDE DEF A
<1>3. Spec => [][A]_vars
  BY <1>2, Invariance, AttendedHolds, PTL DEF Spec
<1> QED
  BY <1>3 DEF A, NoBarging

\* Arrival order counts among identical waiters and between waiters and newcomers, when
\* besides no share narrows a ceiling (serveLocked's queue by sequence, parking,
\* extendClaimsLocked).
THEOREM ArrivalOrderHolds == OneCandidate /\ Reaching /\ Steady => (Spec => ArrivalOrder)
<1> SUFFICES ASSUME OneCandidate, Reaching, Steady PROVE Spec => ArrivalOrder
  OBVIOUS
<1> DEFINE A == \A c, d \in Callers :
          /\ phase[c] = "waiting" /\ phase[d] = "waiting"
          /\ req[c] = req[d] /\ at[c] = at[d] /\ c \in ahead[d]
          /\ phase'[d] = "granted"
          => phase'[c] # "waiting"
<1>1. Init => Apart
  BY DEF Init, Apart
<1>2. IInv /\ Attended /\ Apart /\ [Next]_vars => Apart'
  BY NextApart DEF Attended
<1>3. IInv /\ Attended /\ Apart /\ [Next]_vars => A
  BY OnlyProbesGrant, OldestGranted
<1>4. IInv /\ Attended /\ Apart /\ [Next]_vars => [A]_vars
  BY <1>3
<1> HIDE DEF A
<1>5. Spec => [][A]_vars
  BY <1>1, <1>2, <1>4, Invariance, AttendedHolds, PTL DEF Spec
<1>6. Spec => FirstComeFirstServed
  BY <1>5 DEF A, FirstComeFirstServed
<1> QED
  BY <1>6, NoBargingHolds DEF ArrivalOrder
=============================================================================
