--------------------------- MODULE ElectionProofs ---------------------------
(***************************************************************************)
(* Proofs about Election, for any number of processes, any durations and   *)
(* any clock skew: the state is well formed, fenced writes commit in the   *)
(* order of their terms, a disqualified process stays out, and, with an id *)
(* per process and clocks within the guard band, there is one leader.      *)
(***************************************************************************)
EXTENDS Election, TLAPS

-----------------------------------------------------------------------------
(* Type correctness.                                                       *)

\* A process reads a clock that is a number.
LEMMA LocalType ==
    ASSUME TypeOK, NEW p \in Procs
    PROVE  Local(p) \in Nat
  BY ProcAssumption DEF TypeOK, Local

\* TryAcquire leaves a well-formed lease row.
LEMMA AcquiredType ==
    ASSUME TypeOK, NEW p \in Procs
    PROVE  Acquired(p) \in Leases
<1>1. Id(p) \in Ids
  BY DEF Ids
<1>2. sent[p] + TTL \in Nat
  BY DurationAssumption DEF TypeOK
<1>3. row # None => row.used \in Nat \ {0}
  BY DEF TypeOK, Leases
<1> QED
  BY <1>1, <1>2, <1>3 DEF Acquired, Leases

\* A registration leaves a well-formed registry.
LEMMA RegistryType ==
    ASSUME TypeOK, NEW p \in Procs
    PROVE  /\ Registered(p) \in [Ids -> Beats \cup {None}]
           /\ Beaten(p) \in [Ids -> Beats \cup {None}]
           /\ Pruned(p) \in [Ids -> Beats \cup {None}]
<1>1. Id(p) \in Ids /\ sent[p] \in Nat /\ nodes \in [Ids -> Beats \cup {None}]
  BY DEF TypeOK, Ids
<1>2. Registered(p) \in [Ids -> Beats \cup {None}]
  BY <1>1 DEF Registered, Beats
<1>3. Beaten(p) \in [Ids -> Beats \cup {None}]
  BY <1>1 DEF Beaten, OwnRow, Beats
<1>4. Pruned(p) \in [Ids -> Beats \cup {None}]
  BY <1>1 DEF Pruned
<1> QED
  BY <1>2, <1>3, <1>4

\* A process goes to a place there is, with a clock reading or without.
LEMMA GotoType ==
    ASSUME TypeOK, NEW p \in Procs, NEW l \in Labels, Goto(p, l) \/ Send(p, l)
    PROVE  pc' \in [Procs -> Labels] /\ sent' \in [Procs -> Nat]
  BY LocalType DEF TypeOK, Goto, Send

\* A term that is given up or expires.
LEMMA TermType ==
    ASSUME TypeOK, NEW p \in Procs, Demote(p) \/ Expire(p)
    PROVE  /\ leader' \in [Procs -> BOOLEAN]
           /\ fence' \in [Procs -> Nat]
           /\ safeUntil' \in [Procs -> Nat]
<1>1. CASE Demote(p)
  BY <1>1 DEF TypeOK, Demote
<1>2. CASE UNCHANGED <<leader, fence, safeUntil>>
  BY <1>2 DEF TypeOK
<1> QED
  BY <1>1, <1>2 DEF Expire

\* The initial state is well formed.
LEMMA InitType == Init => TypeOK
  BY DEF Init, TypeOK, Labels

\* Every step keeps the state well formed.
LEMMA NextType ==
    ASSUME TypeOK, [Next]_vars
    PROVE  TypeOK'
<1> USE DEF TypeOK, storeVars, electionVars, nodeVars, stepVars
<1>1. CASE UNCHANGED vars
  BY <1>1 DEF vars
<1>2. CASE Advance
  BY <1>2 DEF Advance
<1>3. ASSUME NEW p \in Procs, Step(p)
      PROVE  TypeOK'
  <2>1. CASE Start(p)
    BY <2>1, GotoType DEF Start, Labels, InPass
  <2>2. CASE Register(p)
    BY <2>2, GotoType, RegistryType DEF Register, Labels, InPass
  <2>3. CASE Lookup(p)
    BY <2>3, GotoType, TermType DEF Lookup, Labels, InPass
  <2>4. CASE StartFault(p)
    BY <2>4, GotoType, RegistryType DEF StartFault, Labels
  <2>5. CASE Tick(p)
    BY <2>5, GotoType, TermType DEF Tick, Labels, InPass
  <2>6. CASE Heartbeat(p)
    BY <2>6, GotoType, RegistryType DEF Heartbeat, Labels, InPass
  <2>7. CASE JoinFault(p)
    BY <2>7, GotoType, RegistryType DEF JoinFault, Labels, InPass
  <2>8. CASE Campaign(p)
    BY <2>8, GotoType, TermType DEF Campaign, Labels, InPass
  <2>9. CASE Acquire(p)
    BY <2>9, GotoType, AcquiredType DEF Acquire, Labels, InPass
  <2>10. CASE AcquireFault(p)
    BY <2>10, GotoType, TermType, AcquiredType DEF AcquireFault, Labels
  <2>11. CASE Conclude(p)
    <3>1. got' \in [Procs -> Leases \cup {None}] /\ pc' \in [Procs -> Labels] /\ sent' \in [Procs -> Nat]
      BY <2>11, GotoType DEF Conclude, Labels
    <3>2. CASE got[p] = None \/ Local(p) >= SafeWindow(p)
      BY <2>11, <3>1, <3>2, TermType DEF Conclude
    <3>3. CASE ~(got[p] = None \/ Local(p) >= SafeWindow(p))
      <4>1. got[p] \in Leases
        BY <3>3
      <4>2. SafeWindow(p) \in Nat /\ got[p].used \in Nat
        BY <3>3, <4>1, LocalType, DurationAssumption DEF SafeWindow, Leases
      <4>3. Promote(p, got[p].used, SafeWindow(p))
        BY <2>11, <3>3 DEF Conclude
      <4>4. /\ leader' \in [Procs -> BOOLEAN] /\ fence' \in [Procs -> Nat]
            /\ safeUntil' \in [Procs -> Nat]
        BY <4>2, <4>3 DEF Promote
      <4> QED
        BY <2>11, <3>1, <4>4 DEF Conclude
    <3> QED
      BY <3>2, <3>3
  <2>12. CASE NoJob(p)
    BY <2>12, GotoType DEF NoJob, Labels
  <2>13. CASE Due(p)
    BY <2>13, GotoType, TermType DEF Due, Labels
  <2>14. CASE Check(p)
    BY <2>14, GotoType, TermType DEF Check, Labels
  <2>15. CASE FencedWrite(p)
    BY <2>15, GotoType DEF FencedWrite, Labels
  <2>16. CASE Prune(p)
    BY <2>16, GotoType, RegistryType DEF Prune, Labels
  <2>17. CASE JobFault(p)
    BY <2>17, GotoType DEF JobFault, Labels
  <2>18. CASE Observe(p)
    BY <2>18, TermType DEF Observe
  <2>19. CASE Close(p)
    BY <2>19 DEF Close
  <2>20. CASE Resign(p)
    BY <2>20, GotoType, TermType DEF Resign, Labels, InPass
  <2>21. CASE Release(p)
    BY <2>21, GotoType DEF Release, Labels, Leases
  <2>22. CASE ReleaseFault(p)
    BY <2>22, GotoType DEF ReleaseFault, Labels
  <2>23. CASE Deregister(p)
    BY <2>23, GotoType DEF Deregister, Vanish, Labels
  <2>24. CASE Crash(p)
    BY <2>24, GotoType DEF Crash, Vanish, Labels
  <2> QED
    BY <1>3, <2>1, <2>2, <2>3, <2>4, <2>5, <2>6, <2>7, <2>8, <2>9, <2>10, <2>11, <2>12,
       <2>13, <2>14, <2>15, <2>16, <2>17, <2>18, <2>19, <2>20, <2>21, <2>22, <2>23, <2>24
    DEF Step, Proceed, Fault
<1> QED
  BY <1>1, <1>2, <1>3 DEF Next

\* The state of the election stays well formed for every set of processes, node
\* ids, durations and skews: tokens are positive, and no instant is negative.
THEOREM TypeCorrect == Spec => []TypeOK
<1>1. Init => TypeOK
  BY InitType
<1>2. TypeOK /\ [Next]_vars => TypeOK'
  BY NextType
<1> QED
  BY <1>1, <1>2, PTL DEF Spec

-----------------------------------------------------------------------------
(* Fenced writes.                                                          *)

\* No committed write carries a token ahead of the row's.
WrittenBehindRow == IF row = None THEN written = 0 ELSE written <= row.used

\* TryAcquire never lowers the token.
LEMMA AcquiredAdvances ==
    ASSUME TypeOK, NEW p \in Procs
    PROVE  /\ Acquired(p) # None
           /\ row # None => row.used <= Acquired(p).used
           /\ Acquired(p).used >= 1
<1>1. Acquired(p) \in Leases
  BY AcquiredType
<1>2. row # None => row.used \in Nat \ {0}
  BY DEF TypeOK, Leases
<1> QED
  BY <1>1, <1>2, ProcAssumption DEF Acquired

\* A step that writes nothing leaves the last write behind the row's token.
LEMMA RowStays ==
    ASSUME TypeOK, WrittenBehindRow, NEW p \in Procs, UNCHANGED written,
           row' \in {row, IF MayAcquire(p) THEN Acquired(p) ELSE row}
    PROVE  WrittenBehindRow'
<1>1. written \in Nat /\ (row # None => row.used \in Nat)
  BY DEF TypeOK, Leases
<1>2. Acquired(p).used \in Nat
  BY AcquiredType DEF Leases
<1> QED
  BY <1>1, <1>2, AcquiredAdvances DEF WrittenBehindRow

\* No step moves the last fenced write past the row's token.
LEMMA NextWritten ==
    ASSUME TypeOK, WrittenBehindRow, [Next]_vars
    PROVE  WrittenBehindRow' /\ (written' = written \/ written' >= written)
<1> USE DEF storeVars, electionVars, nodeVars, stepVars
<1>1. CASE UNCHANGED <<row, written>>
  BY <1>1 DEF WrittenBehindRow
<1>2. ASSUME NEW p \in Procs, Acquire(p) \/ AcquireFault(p)
      PROVE  WrittenBehindRow' /\ UNCHANGED written
  BY <1>2, RowStays DEF Acquire, AcquireFault
<1>3. ASSUME NEW p \in Procs, FencedWrite(p)
      PROVE  WrittenBehindRow' /\ (written' = written \/ written' >= written)
  <2>1. CASE Verify(p, token[p])
    BY <1>3, <2>1 DEF FencedWrite, Verify, WrittenBehindRow, TypeOK, Leases
  <2>2. CASE ~Verify(p, token[p])
    BY <1>3, <2>2 DEF FencedWrite, WrittenBehindRow
  <2> QED
    BY <2>1, <2>2
<1>4. ASSUME NEW p \in Procs, Release(p)
      PROVE  WrittenBehindRow' /\ UNCHANGED written
  <2>1. CASE row # None /\ row.node = Id(p)
    <3>1. row' = [row EXCEPT !.expires = sent[p]] /\ row \in Leases
      BY <1>4, <2>1 DEF Release, TypeOK
    <3>2. row' \in Leases /\ row'.used = row.used
      BY <3>1 DEF Leases, TypeOK
    <3> QED
      BY <1>4, <2>1, <3>2, ProcAssumption DEF Release, WrittenBehindRow
  <2>2. CASE ~(row # None /\ row.node = Id(p))
    BY <1>4, <2>2 DEF Release, WrittenBehindRow
  <2> QED
    BY <2>1, <2>2
<1>5. ASSUME NEW p \in Procs, Step(p)
      PROVE  \/ UNCHANGED <<row, written>>
             \/ Acquire(p) \/ AcquireFault(p) \/ FencedWrite(p) \/ Release(p)
  BY <1>5 DEF Step, Proceed, Fault, Start, Register, Lookup, StartFault, Tick, Heartbeat,
     JoinFault, Campaign, Conclude, NoJob, Due, Check, Prune, JobFault, Observe, Close,
     Resign, ReleaseFault, Deregister, Crash
<1> QED
  BY <1>1, <1>2, <1>3, <1>4, <1>5 DEF Next, Advance, vars

\* Whatever the clocks say, however many processes there are and even when they
\* share ids, a write that Fence.In admits never lands after a write of a later
\* term.
THEOREM FencedInOrder == Spec => FencedWritesOrdered
<1> DEFINE I == TypeOK /\ WrittenBehindRow
<1>1. Init => I
  BY InitType DEF Init, WrittenBehindRow
<1>2. I /\ [Next]_vars => I'
  BY NextType, NextWritten
<1>3. I /\ [Next]_vars => [written' >= written]_vars
  <2>1. SUFFICES ASSUME I, [Next]_vars, ~UNCHANGED vars
                 PROVE  written' >= written
    OBVIOUS
  <2>2. written \in Nat /\ (written' = written \/ written' >= written)
    BY <2>1, NextWritten DEF TypeOK
  <2> QED
    BY <2>2
<1> QED
  BY <1>1, <1>2, <1>3, PTL DEF Spec, FencedWritesOrdered

-----------------------------------------------------------------------------
(* A process whose id belongs to another.                                  *)

\* It is out of the election, and neither in a campaign nor about to release.
OutOfElection ==
    \A p \in Procs : conflict[p] =>
        /\ closed[p] /\ ~leader[p]
        /\ pc[p] \in {"off", "joining", "joinLookup", "idle", "leaving"}

\* No step lets a disqualified process lead.
LEMMA NextOut ==
    ASSUME TypeOK, OutOfElection, [Next]_vars
    PROVE  OutOfElection'
<1> USE DEF storeVars, electionVars, nodeVars, stepVars, TypeOK, OutOfElection
<1>1. CASE UNCHANGED vars
  BY <1>1 DEF vars
<1>2. CASE Advance
  BY <1>2 DEF Advance
<1>3. ASSUME NEW p \in Procs, Step(p)
      PROVE  OutOfElection'
  <2>1. CASE \/ Start(p) \/ Register(p) \/ StartFault(p) \/ Heartbeat(p) \/ JoinFault(p)
             \/ Acquire(p) \/ NoJob(p) \/ FencedWrite(p) \/ Prune(p) \/ JobFault(p)
             \/ Close(p) \/ Release(p) \/ ReleaseFault(p)
    <3>1. CASE Start(p) \/ Register(p) \/ StartFault(p) \/ Heartbeat(p) \/ JoinFault(p)
      BY <3>1 DEF Start, Register, StartFault, Heartbeat, JoinFault, Goto, Send
    <3>2. CASE Acquire(p) \/ NoJob(p) \/ FencedWrite(p) \/ Prune(p) \/ JobFault(p)
      BY <3>2 DEF Acquire, NoJob, FencedWrite, Prune, JobFault, Goto, Send
    <3>3. CASE Close(p) \/ Release(p) \/ ReleaseFault(p)
      BY <3>3 DEF Close, Release, ReleaseFault, Goto, Send
    <3> QED
      BY <2>1, <3>1, <3>2, <3>3
  <2>2. CASE Lookup(p)
    <3>1. CASE nodes[Id(p)] # None /\ ~OwnRow(p)
      BY <2>2, <3>1 DEF Lookup, Goto, Demote
    <3>2. CASE ~(nodes[Id(p)] # None /\ ~OwnRow(p))
      <4>1. conflict' = conflict /\ closed' = closed /\ leader' = leader
        BY <2>2, <3>2 DEF Lookup
      <4>2. CASE pc[p] = "joinLookup"
        <5>1. pc' = [pc EXCEPT ![p] = "off"]
          BY <2>2, <3>2, <4>2 DEF Lookup, Goto
        <5> QED
          BY <4>1, <5>1
      <4>3. CASE pc[p] # "joinLookup"
        <5>1. ~conflict[p]
          BY <2>2, <4>3 DEF Lookup
        <5>2. PICK l : Goto(p, l) \/ Send(p, l)
          BY <2>2, <3>2 DEF Lookup
        <5>3. \A q \in Procs : q # p => pc'[q] = pc[q]
          BY <5>2 DEF Goto, Send
        <5> QED
          BY <4>1, <5>1, <5>3
      <4> QED
        BY <4>2, <4>3
    <3> QED
      BY <3>1, <3>2
  <2>3. CASE Tick(p) \/ Campaign(p) \/ AcquireFault(p) \/ Due(p)
    BY <2>3 DEF Tick, Campaign, AcquireFault, Due, Goto, Send, Expire, Demote
  <2>4. CASE Conclude(p)
    BY <2>4 DEF Conclude, Goto, Demote, Promote
  <2>5. CASE Check(p) \/ Observe(p)
    BY <2>5 DEF Check, Observe, Goto, Demote
  <2>6. CASE Resign(p)
    BY <2>6 DEF Resign, Goto, Send, Demote, MustRelease
  <2>7. CASE Deregister(p) \/ Crash(p)
    BY <2>7 DEF Deregister, Crash, Vanish, Goto
  <2> QED
    BY <1>3, <2>1, <2>2, <2>3, <2>4, <2>5, <2>6, <2>7 DEF Step, Proceed, Fault
<1> QED
  BY <1>1, <1>2, <1>3 DEF Next

\* Once Disqualify has run, the process never leads again, and no step it takes,
\* closing included, shortens the lease its id's rightful process holds.
THEOREM DisqualifiedStaysOut == Spec => Disqualified
<1> DEFINE I == TypeOK /\ OutOfElection
<1> DEFINE Kept(p) == conflict[p] =>
                         /\ ~leader'[p]
                         /\ pc'[p] # pc[p] /\ row # None => row'.expires >= row.expires
<1>1. Init => I
  BY InitType DEF Init, OutOfElection
<1>2. I /\ [Next]_vars => I'
  BY NextType, NextOut
<1>3. I /\ [Next]_vars => [\A p \in Procs : Kept(p)]_vars
  <2>1. SUFFICES ASSUME I, Next, NEW p \in Procs, conflict[p]
                 PROVE  /\ ~leader'[p]
                        /\ pc'[p] # pc[p] /\ row # None => row'.expires >= row.expires
    OBVIOUS
  <2> USE DEF storeVars, electionVars, nodeVars, stepVars
  <2>2. /\ pc \in [Procs -> Labels] /\ leader \in [Procs -> BOOLEAN]
        /\ row # None => row.expires \in Nat
        /\ closed[p] /\ ~leader[p]
        /\ pc[p] \in {"off", "joining", "joinLookup", "idle", "leaving"}
    BY <2>1 DEF TypeOK, OutOfElection, Leases
  <2>3. CASE Advance
    BY <2>2, <2>3 DEF Advance
  <2>4. ASSUME NEW q \in Procs, Step(q)
        PROVE  /\ ~leader'[p]
               /\ pc'[p] # pc[p] /\ row # None => row'.expires >= row.expires
    <3>1. leader'[p] => leader[p] \/ (q = p /\ Conclude(p))
      BY <2>2, <2>4 DEF Step, Proceed, Fault, Start, Register, Lookup, StartFault, Tick, Heartbeat,
         JoinFault, Campaign, Acquire, AcquireFault, Conclude, NoJob, Due, Check, FencedWrite,
         Prune, JobFault, Observe, Close, Resign, Release, ReleaseFault, Deregister, Crash,
         Expire, Demote, Promote, Vanish
    <3>2. pc'[p] # pc[p] => q = p
      BY <2>2, <2>4 DEF Step, Proceed, Fault, Start, Register, Lookup, StartFault, Tick, Heartbeat,
         JoinFault, Campaign, Acquire, AcquireFault, Conclude, NoJob, Due, Check, FencedWrite,
         Prune, JobFault, Observe, Close, Resign, Release, ReleaseFault, Deregister, Crash,
         Goto, Send, Vanish
    <3>3. q = p => row' = row
      BY <2>2, <2>4 DEF Step, Proceed, Fault, Start, Register, Lookup, StartFault, Tick, Heartbeat,
         JoinFault, Campaign, Acquire, AcquireFault, Conclude, NoJob, Due, Check, FencedWrite,
         Prune, JobFault, Observe, Close, Resign, Release, ReleaseFault, Deregister, Crash
    <3> QED
      BY <2>2, <3>1, <3>2, <3>3 DEF Conclude
  <2> QED
    BY <2>1, <2>3, <2>4 DEF Next
<1> QED
  BY <1>1, <1>2, <1>3, PTL DEF Spec, Disqualified

-----------------------------------------------------------------------------
(* One leader.                                                             *)

\* An instant p relies on is past on p's clock, or a lease of p's own in the store
\* outlasts it by the guard band.
Covered(p, until) ==
    \/ Local(p) >= until
    \/ row # None /\ row.node = Id(p) /\ row.expires >= until + Guard

\* A term, and the answer of an acquire in flight, are covered.
Backed(p) ==
    /\ leader[p] => Covered(p, safeUntil[p])
    /\ got[p] # None => Covered(p, got[p].expires - Guard)

\* Statements carry a past clock, and no window reaches further than a lease taken
\* now, or than the one being taken.
Timely(p) ==
    /\ sent[p] <= Local(p)
    /\ leader[p] => safeUntil[p] + Guard <= Local(p) + TTL
    /\ leader[p] /\ pc[p] = "acquiring" => safeUntil[p] + Guard <= sent[p] + TTL
    /\ got[p] # None => got[p].expires <= Local(p) + TTL

\* A process that gives its lease up relies on none.
Quiet(p) ==
    /\ pc[p] = "releasing" => ~leader[p]
    /\ got[p] # None => pc[p] = "acquired"

LeaderInv == TypeOK /\ \A p \in Procs : Backed(p) /\ Timely(p) /\ Quiet(p)

\* A step that leaves the store and p's memory alone, at a later or the same time,
\* keeps p's part of the invariant.
LEMMA Bystander ==
    ASSUME TypeOK, TypeOK', NEW p \in Procs, Backed(p), Timely(p), Quiet(p),
           UNCHANGED row, clock' >= clock,
           leader'[p] = leader[p], safeUntil'[p] = safeUntil[p], got'[p] = got[p],
           sent'[p] = sent[p], pc'[p] = pc[p]
    PROVE  Backed(p)' /\ Timely(p)' /\ Quiet(p)'
<1>1. /\ clock \in Nat /\ clock' \in Nat /\ Skew[p] \in Nat /\ safeUntil[p] \in Nat
      /\ sent[p] \in Nat /\ (got[p] # None => got[p].expires \in Nat)
      /\ (row # None => row.expires \in Nat) /\ Guard \in Nat /\ TTL \in Nat
  BY ProcAssumption, DurationAssumption DEF TypeOK, Leases
<1>2. Backed(p)'
  BY <1>1 DEF Backed, Covered, Local
<1>3. Timely(p)'
  BY <1>1 DEF Timely, Local
<1>4. Quiet(p)'
  BY DEF Quiet
<1> QED
  BY <1>2, <1>3, <1>4

\* When another process takes or expires the lease, what p relied on is past: the
\* taker saw the lease expired on a clock at most one guard band ahead.
LEMMA TakenElsewhere ==
    ASSUME TypeOK, DistinctIds, SkewWithinGuard,
           NEW p \in Procs, NEW q \in Procs, p # q, sent[q] <= Local(q),
           Backed(p), Timely(p), Quiet(p),
           UNCHANGED clock, row # None => row.node = Id(q) \/ row.expires <= sent[q],
           leader'[p] = leader[p], safeUntil'[p] = safeUntil[p], got'[p] = got[p],
           sent'[p] = sent[p], pc'[p] = pc[p]
    PROVE  Backed(p)' /\ Timely(p)' /\ Quiet(p)'
<1>1. /\ clock \in Nat /\ Skew[p] \in Nat /\ Skew[q] \in Nat /\ safeUntil[p] \in Nat
      /\ sent[q] \in Nat /\ (got[p] # None => got[p].expires \in Nat)
      /\ (row # None => row.expires \in Nat) /\ Guard \in Nat /\ TTL \in Nat
  BY ProcAssumption, DurationAssumption DEF TypeOK, Leases
<1>2. Skew[q] <= Skew[p] + Guard /\ Id(p) # Id(q)
  BY DEF DistinctIds, SkewWithinGuard
<1>3. ASSUME NEW u \in Int, Covered(p, u)
      PROVE  Local(p) >= u
  BY <1>1, <1>2, <1>3 DEF Covered, Local
<1>4. Backed(p)'
  <2>1. leader[p] => Local(p) >= safeUntil[p]
    BY <1>1, <1>3 DEF Backed
  <2>2. got[p] # None => Local(p) >= got[p].expires - Guard
    BY <1>1, <1>3 DEF Backed
  <2> QED
    BY <2>1, <2>2 DEF Backed, Covered, Local
<1>5. Timely(p)' /\ Quiet(p)'
  BY DEF Timely, Local, Quiet
<1> QED
  BY <1>4, <1>5

\* A step of p leaves what the other processes remember alone.
LEMMA OthersUntouched ==
    ASSUME TypeOK, NEW p \in Procs, Step(p), NEW q \in Procs, q # p
    PROVE  /\ leader'[q] = leader[q] /\ safeUntil'[q] = safeUntil[q] /\ got'[q] = got[q]
           /\ sent'[q] = sent[q] /\ pc'[q] = pc[q] /\ clock' = clock
<1> USE DEF TypeOK, storeVars, electionVars, nodeVars, stepVars
<1>1. CASE \/ Start(p) \/ Register(p) \/ StartFault(p) \/ Heartbeat(p) \/ JoinFault(p)
           \/ Acquire(p) \/ NoJob(p) \/ FencedWrite(p) \/ Prune(p) \/ JobFault(p)
           \/ Close(p) \/ Release(p) \/ ReleaseFault(p)
  BY <1>1 DEF Start, Register, StartFault, Heartbeat, JoinFault, Acquire, NoJob,
     FencedWrite, Prune, JobFault, Close, Release, ReleaseFault, Goto, Send
<1>2. CASE Lookup(p)
  <2>1. CASE nodes[Id(p)] # None /\ ~OwnRow(p)
    BY <1>2, <2>1 DEF Lookup, Goto, Demote
  <2>2. CASE ~(nodes[Id(p)] # None /\ ~OwnRow(p))
    <3>1. PICK l : Goto(p, l) \/ Send(p, l)
      BY <1>2, <2>2 DEF Lookup
    <3>2. pc'[q] = pc[q] /\ sent'[q] = sent[q]
      BY <3>1 DEF Goto, Send
    <3> QED
      BY <1>2, <2>2, <3>2 DEF Lookup
  <2> QED
    BY <2>1, <2>2
<1>3. CASE Tick(p) \/ Campaign(p) \/ AcquireFault(p) \/ Due(p)
  BY <1>3 DEF Tick, Campaign, AcquireFault, Due, Goto, Send, Expire, Demote
<1>4. CASE Conclude(p)
  BY <1>4 DEF Conclude, Goto, Demote, Promote
<1>5. CASE Check(p) \/ Observe(p) \/ Resign(p)
  BY <1>5 DEF Check, Observe, Resign, Goto, Send, Demote
<1>6. CASE Deregister(p) \/ Crash(p)
  BY <1>6 DEF Deregister, Crash, Vanish, Goto
<1> QED
  BY <1>1, <1>2, <1>3, <1>4, <1>5, <1>6 DEF Step, Proceed, Fault

\* The step of p itself: p's part of the invariant.
LEMMA OwnStep ==
    ASSUME LeaderInv, TypeOK', NEW p \in Procs, Step(p)
    PROVE  Backed(p)' /\ Timely(p)' /\ Quiet(p)'
<1>1. /\ clock \in Nat /\ Skew[p] \in Nat /\ safeUntil[p] \in Nat /\ sent[p] \in Nat
      /\ (got[p] # None => got[p].expires \in Nat)
      /\ (row # None => row.expires \in Nat)
      /\ Guard \in Nat /\ TTL \in Nat /\ Guard > 0 /\ Guard < TTL
  BY ProcAssumption, DurationAssumption DEF LeaderInv, TypeOK, Leases
<1>2. /\ leader \in [Procs -> BOOLEAN] /\ safeUntil \in [Procs -> Nat]
      /\ got \in [Procs -> Leases \cup {None}]
      /\ sent \in [Procs -> Nat] /\ pc \in [Procs -> Labels]
  BY DEF LeaderInv, TypeOK
<1>3. Backed(p) /\ Timely(p) /\ Quiet(p)
  BY DEF LeaderInv
<1> USE DEF storeVars, electionVars, nodeVars, stepVars
\* A step that changes neither the row nor what p relies on, except that the term
\* may end; an acquire that p prepares carries its clock.
<1>4. ASSUME UNCHANGED <<row, clock>>, got'[p] = got[p],
             \/ leader'[p] = leader[p] /\ safeUntil'[p] = safeUntil[p]
             \/ leader'[p] = FALSE,
             sent'[p] \in {0, sent[p], Local(p)},
             pc'[p] = "releasing" => ~leader'[p],
             pc'[p] = "acquiring" => sent'[p] = Local(p) \/ (pc[p] = pc'[p] /\ sent'[p] = sent[p]),
             got[p] # None => pc'[p] = "acquired"
      PROVE  Backed(p)' /\ Timely(p)' /\ Quiet(p)'
  <2>1. Backed(p)'
    BY <1>1, <1>3, <1>4 DEF Backed, Covered, Local
  <2>2. Timely(p)'
    BY <1>1, <1>3, <1>4 DEF Timely, Local
  <2>3. Quiet(p)'
    BY <1>4 DEF Quiet
  <2> QED
    BY <2>1, <2>2, <2>3
<1>5. CASE \/ Start(p) \/ Register(p) \/ StartFault(p) \/ Heartbeat(p) \/ JoinFault(p)
           \/ NoJob(p) \/ FencedWrite(p) \/ Prune(p) \/ JobFault(p)
           \/ Close(p) \/ ReleaseFault(p)
  BY <1>2, <1>3, <1>4, <1>5 DEF Quiet, Start, Register, StartFault, Heartbeat, JoinFault,
     NoJob, FencedWrite, Prune, JobFault, Close, ReleaseFault, Goto, Send, InPass
<1>6. CASE Lookup(p)
  <2>1. CASE nodes[Id(p)] # None /\ ~OwnRow(p)
    BY <1>2, <1>3, <1>4, <1>6, <2>1 DEF Quiet, Lookup, Goto, Demote
  <2>2. CASE ~(nodes[Id(p)] # None /\ ~OwnRow(p))
    BY <1>2, <1>3, <1>4, <1>6, <2>2 DEF Quiet, Lookup, Goto, Send, InPass
  <2> QED
    BY <2>1, <2>2
<1>7. CASE Tick(p) \/ Campaign(p) \/ Due(p)
  BY <1>2, <1>3, <1>4, <1>7 DEF Quiet, Tick, Campaign, Due, Goto, Send, Expire, Demote
<1>8. CASE Check(p) \/ Observe(p) \/ Resign(p)
  BY <1>2, <1>3, <1>4, <1>8 DEF Quiet, Check, Observe, Resign, Goto, Send, Demote, LoopEnded
<1>9. CASE Deregister(p) \/ Crash(p)
  <2>1. leader'[p] = FALSE /\ got'[p] = None /\ sent'[p] = 0 /\ pc'[p] = "gone" /\ clock' = clock
    BY <1>2, <1>9 DEF Deregister, Crash, Vanish, Goto, InPass
  <2> QED
    BY <1>1, <2>1 DEF Backed, Timely, Quiet, Local
<1>10. CASE Release(p)
  <2>1. leader'[p] = FALSE /\ got'[p] = None /\ sent'[p] = 0 /\ pc'[p] = "leaving" /\ clock' = clock
    BY <1>2, <1>3, <1>10 DEF Quiet, Release, Goto, InPass
  <2> QED
    BY <1>1, <2>1 DEF Backed, Timely, Quiet, Local
<1>11. CASE Acquire(p) \/ AcquireFault(p)
  <2>1. /\ Acquired(p) # None /\ Acquired(p).node = Id(p)
        /\ Acquired(p).expires = sent[p] + TTL
    BY AcquiredType, ProcAssumption DEF Acquired, LeaderInv
  <2>2. got[p] = None /\ pc[p] = "acquiring"
    BY <1>3, <1>11 DEF Quiet, Acquire, AcquireFault
  <2>3. ASSUME leader[p], row' \in {row, Acquired(p)}, UNCHANGED clock
        PROVE  Covered(p, safeUntil[p])'  \/ safeUntil'[p] # safeUntil[p]
    BY <1>1, <1>3, <2>1, <2>2, <2>3 DEF Timely, Backed, Covered, Local
  <2>4. CASE Acquire(p)
    <3>1. /\ UNCHANGED <<clock, leader, safeUntil>> /\ pc'[p] = "acquired" /\ sent'[p] = sent[p]
          /\ row' \in {row, Acquired(p)}
          /\ got'[p] # None => got'[p] = Acquired(p) /\ row' = Acquired(p)
      BY <1>2, <2>4 DEF Acquire, Goto, InPass
    <3>2. Backed(p)'
      <4>1. leader'[p] => Covered(p, safeUntil[p])'
        BY <2>3, <3>1
      <4>2. got'[p] # None => Covered(p, got[p].expires - Guard)'
        BY <1>1, <2>1, <3>1 DEF Covered, Local
      <4> QED
        BY <4>1, <4>2 DEF Backed
    <3>3. Timely(p)' /\ Quiet(p)'
      BY <1>1, <1>3, <2>1, <3>1 DEF Timely, Quiet, Local
    <3> QED
      BY <3>2, <3>3
  <2>5. CASE AcquireFault(p)
    <3>1. /\ UNCHANGED <<clock, got>> /\ pc'[p] \in {"jobs", "idle"} /\ sent'[p] = 0
          /\ row' \in {row, Acquired(p)}
          /\ \/ leader'[p] = leader[p] /\ safeUntil'[p] = safeUntil[p]
             \/ leader'[p] = FALSE
      BY <1>2, <2>5 DEF AcquireFault, Goto, InPass, Expire, Demote
    <3>2. Backed(p)'
      BY <2>2, <2>3, <3>1 DEF Backed
    <3>3. Timely(p)' /\ Quiet(p)'
      BY <1>1, <1>3, <2>2, <3>1 DEF Timely, Quiet, Local
    <3> QED
      BY <3>2, <3>3
  <2> QED
    BY <1>11, <2>4, <2>5
<1>12. CASE Conclude(p)
  <2>1. /\ UNCHANGED <<clock, row>> /\ got'[p] = None /\ sent'[p] = 0
        /\ pc'[p] \in {"jobs", "idle"}
    BY <1>2, <1>12 DEF Conclude, Goto, InPass
  <2>2. CASE got[p] = None \/ Local(p) >= SafeWindow(p)
    <3>1. leader'[p] = FALSE
      BY <1>2, <1>12, <2>2 DEF Conclude, Demote
    <3> QED
      BY <1>1, <2>1, <3>1 DEF Backed, Timely, Quiet, Local
  <2>3. CASE ~(got[p] = None \/ Local(p) >= SafeWindow(p))
    <3>1. leader'[p] /\ safeUntil'[p] = got[p].expires - Guard
      BY <1>2, <1>12, <2>3 DEF Conclude, Promote, SafeWindow
    <3>2. Backed(p)'
      BY <1>1, <1>3, <2>1, <2>3, <3>1 DEF Backed, Covered, Local
    <3>3. Timely(p)' /\ Quiet(p)'
      BY <1>1, <1>3, <2>1, <2>3, <3>1 DEF Timely, Quiet, Local
    <3> QED
      BY <3>2, <3>3
  <2> QED
    BY <2>2, <2>3
<1> QED
  BY <1>5, <1>6, <1>7, <1>8, <1>9, <1>10, <1>11, <1>12 DEF Step, Proceed, Fault

\* The step of another process: p's part of the invariant.
LEMMA OtherStep ==
    ASSUME LeaderInv, TypeOK', DistinctIds, SkewWithinGuard,
           NEW p \in Procs, NEW q \in Procs, p # q, Step(q)
    PROVE  Backed(p)' /\ Timely(p)' /\ Quiet(p)'
<1> USE DEF storeVars, electionVars, nodeVars, stepVars
<1>1. /\ leader'[p] = leader[p] /\ safeUntil'[p] = safeUntil[p] /\ got'[p] = got[p]
      /\ sent'[p] = sent[p] /\ pc'[p] = pc[p] /\ clock' = clock
  BY OthersUntouched DEF LeaderInv
<1>2. Backed(p) /\ Timely(p) /\ Quiet(p) /\ TypeOK /\ sent[q] <= Local(q)
  BY DEF LeaderInv, Timely
<1>3. CASE UNCHANGED row
  <2>1. clock' >= clock
    BY <1>1, <1>2 DEF TypeOK
  <2> QED
    BY <1>1, <1>2, <1>3, <2>1, Bystander
<1>4. CASE row # None => row.node = Id(q) \/ row.expires <= sent[q]
  BY <1>1, <1>2, <1>4, TakenElsewhere
<1>5. \/ UNCHANGED row
      \/ row # None => row.node = Id(q) \/ row.expires <= sent[q]
  BY DEF Step, Proceed, Fault, Start, Register, Lookup, StartFault, Tick, Heartbeat,
     JoinFault, Campaign, Acquire, AcquireFault, MayAcquire, Conclude, NoJob, Due, Check,
     FencedWrite, Prune, JobFault, Observe, Close, Resign, Release, ReleaseFault, Deregister,
     Crash
<1> QED
  BY <1>3, <1>4, <1>5

\* Nobody leads at the start.
LEMMA InitLeader == Init => LeaderInv
<1> SUFFICES ASSUME Init PROVE LeaderInv
  OBVIOUS
<1>1. TypeOK
  BY InitType
<1>2. ASSUME NEW p \in Procs
      PROVE  Backed(p) /\ Timely(p) /\ Quiet(p)
  BY <1>2, LocalType, <1>1 DEF Init, Backed, Timely, Quiet
<1> QED
  BY <1>1, <1>2 DEF LeaderInv

\* Every step keeps the promises that bound a term.
LEMMA NextLeader ==
    ASSUME LeaderInv, [Next]_vars, DistinctIds, SkewWithinGuard
    PROVE  LeaderInv'
<1>1. TypeOK /\ TypeOK'
  BY NextType DEF LeaderInv
<1>2. ASSUME NEW p \in Procs
      PROVE  Backed(p)' /\ Timely(p)' /\ Quiet(p)'
  <2>1. CASE UNCHANGED vars \/ Advance
    <3>1. /\ leader'[p] = leader[p] /\ safeUntil'[p] = safeUntil[p] /\ got'[p] = got[p]
          /\ sent'[p] = sent[p] /\ pc'[p] = pc[p] /\ row' = row /\ clock' >= clock
      BY <1>1, <2>1 DEF vars, Advance, TypeOK, storeVars, electionVars, nodeVars, stepVars
    <3> QED
      BY <1>1, <3>1, Bystander DEF LeaderInv
  <2>2. ASSUME NEW q \in Procs, Step(q)
        PROVE  Backed(p)' /\ Timely(p)' /\ Quiet(p)'
    BY <1>1, <2>2, OwnStep, OtherStep
  <2> QED
    BY <2>1, <2>2 DEF Next
<1> QED
  BY <1>1, <1>2 DEF LeaderInv

\* With an id per process and clocks that differ by no more than the guard band,
\* no schedule, store fault, slow acquire, pause or crash makes two processes lead
\* at once: an acquire that displaces a leader finds the leader's own window past.
THEOREM OneLeaderHolds == DistinctIds /\ SkewWithinGuard => (Spec => []OneLeader)
<1> SUFFICES ASSUME DistinctIds, SkewWithinGuard
             PROVE  Spec => []OneLeader
  OBVIOUS
<1>1. Init => LeaderInv
  BY InitLeader
<1>2. LeaderInv /\ [Next]_vars => LeaderInv'
  BY NextLeader
<1>3. LeaderInv => OneLeader
  <2>1. SUFFICES ASSUME LeaderInv, NEW p \in Procs, NEW q \in Procs, Leads(p), Leads(q)
                 PROVE  p = q
    BY DEF OneLeader
  <2>2. Covered(p, safeUntil[p]) /\ Covered(q, safeUntil[q])
    BY <2>1 DEF LeaderInv, Backed, Leads
  <2>3. row.node = Id(p) /\ row.node = Id(q)
    BY <2>1, <2>2 DEF Covered, Leads, Stale
  <2> QED
    BY <2>3 DEF DistinctIds
<1> QED
  BY <1>1, <1>2, <1>3, PTL DEF Spec

=============================================================================
