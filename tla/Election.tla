------------------------------ MODULE Election ------------------------------
(***************************************************************************)
(* Leader election and cluster membership of internal/cluster: the leader  *)
(* lease (leaseLock, Fence), one process's participation (Election), the   *)
(* node registry (Registry) and the loop that drives them (Node.Tick,      *)
(* Node.Close).                                                            *)
(*                                                                         *)
(* A process is one Node value.  Processes share a store, whose statements *)
(* are atomic; the clock may advance, and other processes may run, between *)
(* any two statements of a pass, also between reading the clock for a      *)
(* statement and its commit.  Each process reads its own clock, ahead of   *)
(* the true one by a fixed skew.  Two processes may be configured with one *)
(* node id: a restart, or a mistake.                                       *)
(***************************************************************************)
EXTENDS Integers

CONSTANTS
    Procs,      \* processes
    IdOf,       \* the node id each process is configured with
    Skew,       \* how far each process's clock is ahead
    TTL,        \* lifetime of the leader lease
    Guard,      \* how long before the lease ends leadership is given up
    NodeTTL,    \* heartbeat lapse after which a node counts as gone
    PruneAfter, \* age at which a dead node's row is deleted (11 * NodeTTL)
    Faults,     \* a store statement may fail, with or without its effect
    MaxPass,    \* bound: a process commits what it prepared before this much time
    MaxClock,   \* bound: the clock stops here
    None

Id(p) == IdOf[p]
Ids == {Id(p) : p \in Procs}

\* Rows of the two tables: a lease with its fencing token, a node's last beat.
Leases == [node : Ids, used : Nat \ {0}, expires : Nat]
Beats  == [proc : Procs, beat : Nat]

ASSUME ProcAssumption ==
    /\ Skew \in [Procs -> Nat]
    /\ None \notin Leases /\ None \notin Beats

ASSUME DurationAssumption ==
    /\ TTL \in Nat /\ Guard \in Nat \ {0} /\ Guard < TTL
    /\ NodeTTL \in Nat \ {0}
    /\ PruneAfter \in Nat /\ PruneAfter >= NodeTTL
    /\ Faults \in BOOLEAN
    /\ MaxPass \in Nat
    /\ MaxClock \in Nat

VARIABLES
    clock,      \* true time
    \* store
    row,        \* the leader lease row: holder's id, fencing token, expiry
    nodes,      \* the registry row of each id: the process's incarnation, last beat
    \* Election
    leader, fence, safeUntil,
    closed,     \* refuses further campaigns
    \* Node
    registered, \* it has recorded itself in the registry
    conflict,   \* this id turned out to belong to another process
    stopping,   \* Close was called
    awaits,     \* and it waits for a loop that Start has not launched yet
    pc,         \* where the process stands
    sent,       \* its clock when it prepared its last statement, 0 outside a pass
    got,        \* what Acquire returned
    token,      \* the fencing token the running leader job carries
    \* history
    written     \* the token of the last fenced write that committed

storeVars    == <<row, nodes>>
electionVars == <<leader, fence, safeUntil, closed>>
nodeVars     == <<registered, conflict, stopping, awaits>>
stepVars     == <<got, token>>
vars == <<clock, storeVars, electionVars, nodeVars, pc, sent, stepVars, written>>

Local(p) == clock + Skew[p]

Init ==
    /\ clock = 0
    /\ row = None
    /\ nodes = [i \in Ids |-> None]
    /\ leader = [p \in Procs |-> FALSE]
    /\ fence = [p \in Procs |-> 0]
    /\ safeUntil = [p \in Procs |-> 0]
    /\ closed = [p \in Procs |-> FALSE]
    /\ registered = [p \in Procs |-> FALSE]
    /\ conflict = [p \in Procs |-> FALSE]
    /\ stopping = [p \in Procs |-> FALSE]
    /\ awaits = [p \in Procs |-> FALSE]
    /\ pc = [p \in Procs |-> "off"]
    /\ sent = [p \in Procs |-> 0]
    /\ got = [p \in Procs |-> None]
    /\ token = [p \in Procs |-> 0]
    /\ written = 0

-----------------------------------------------------------------------------
(* Building blocks.                                                        *)

\* The labels between whose steps a statement is prepared and committed.
InPass == {"joining", "joinLookup", "beating", "beatLookup", "rejoining", "rejoinLookup",
           "campaign", "acquiring", "acquired", "releasing"}

Goto(p, l) ==
    /\ pc' = [pc EXCEPT ![p] = l]
    /\ sent' = [sent EXCEPT ![p] = IF l \in InPass THEN @ ELSE 0]

\* Go on to a statement that carries the process's clock.
Send(p, l) ==
    /\ pc' = [pc EXCEPT ![p] = l]
    /\ sent' = [sent EXCEPT ![p] = Local(p)]

\* expireLocked: the safe window of a leader has passed on its own clock.
Stale(p) == leader[p] /\ Local(p) >= safeUntil[p]

\* demoteLocked ends the term and cancels the leader-scoped context.
Demote(p) ==
    /\ leader' = [leader EXCEPT ![p] = FALSE]
    /\ safeUntil' = [safeUntil EXCEPT ![p] = 0]
    /\ UNCHANGED fence

\* promoteLocked opens a term under a token, up to an instant.
Promote(p, f, until) ==
    /\ leader' = [leader EXCEPT ![p] = TRUE]
    /\ safeUntil' = [safeUntil EXCEPT ![p] = until]
    /\ fence' = [fence EXCEPT ![p] = f]

Expire(p) == IF Stale(p) THEN Demote(p) ELSE UNCHANGED <<leader, fence, safeUntil>>

\* The registry row of p's id is p's own.
OwnRow(p) == nodes[Id(p)] # None /\ nodes[Id(p)].proc = p

\* Mutant of Verify: any lease that has not expired will do.
VerifyUnexpired(p, f) == row # None /\ row.expires > Local(p)

\* verify: the row still carries the term of the token.
Verify(p, f) ==
    /\ row # None
    /\ row.node = Id(p) /\ row.used = f
    /\ row.expires > Local(p)

-----------------------------------------------------------------------------
(* Joining: Node.Start and the registration inside a pass.                 *)

Start(p) ==
    /\ pc[p] = "off" /\ ~stopping[p]
    /\ Send(p, "joining")
    /\ UNCHANGED <<clock, storeVars, electionVars, nodeVars, got, token, written>>

\* Mutant of MayRegister: the upsert takes the row whoever beats on it.
MayRegisterAlways(p) == TRUE

\* The row is free, lapsed, or this process's own.
MayRegister(p) ==
    \/ nodes[Id(p)] = None
    \/ OwnRow(p)
    \/ nodes[Id(p)].beat <= sent[p] - NodeTTL

\* The registry after the upsert of Register, or the update of Heartbeat.
Registered(p) ==
    IF MayRegister(p) THEN [nodes EXCEPT ![Id(p)] = [proc |-> p, beat |-> sent[p]]] ELSE nodes

Beaten(p) == IF OwnRow(p) THEN [nodes EXCEPT ![Id(p)].beat = sent[p]] ELSE nodes

\* Registry.Register, one compare-and-swap; a refusal is looked into.
Register(p) ==
    /\ pc[p] \in {"joining", "rejoining"}
    /\ nodes' = Registered(p)
    /\ registered' = [registered EXCEPT ![p] = @ \/ MayRegister(p)]
    /\ Goto(p, CASE MayRegister(p)  -> IF pc[p] = "joining" THEN "idle" ELSE "campaign"
                 [] ~MayRegister(p) -> IF pc[p] = "joining" THEN "joinLookup" ELSE "rejoinLookup")
    /\ UNCHANGED <<clock, row, electionVars, conflict, stopping, awaits, stepVars, written>>

\* Registry.duplicate reads the row again.  Another process's row disqualifies
\* this one for good: it stops leading and its election is closed, but the lease
\* is not released.
Lookup(p) ==
    /\ pc[p] \in {"joinLookup", "beatLookup", "rejoinLookup"}
    /\ IF nodes[Id(p)] # None /\ ~OwnRow(p)
       THEN /\ conflict' = [conflict EXCEPT ![p] = TRUE]
            /\ closed' = [closed EXCEPT ![p] = TRUE]
            /\ Demote(p)
            /\ Goto(p, IF pc[p] = "joinLookup" THEN "off" ELSE "idle")
       ELSE /\ CASE pc[p] = "joinLookup"   -> Goto(p, "off")
                 [] pc[p] = "beatLookup"   -> Send(p, "rejoining")
                 [] pc[p] = "rejoinLookup" -> Goto(p, "campaign")
            /\ UNCHANGED <<conflict, closed, leader, fence, safeUntil>>
    /\ UNCHANGED <<clock, storeVars, registered, stopping, awaits, got, token, written>>

\* Start fails with the registration, whether or not the row was written.
StartFault(p) ==
    /\ Faults
    /\ pc[p] \in {"joining", "joinLookup"}
    /\ nodes' \in {nodes, IF pc[p] = "joining" THEN Registered(p) ELSE nodes}
    /\ Goto(p, "off")
    /\ UNCHANGED <<clock, row, electionVars, nodeVars, stepVars, written>>

-----------------------------------------------------------------------------
(* One pass of the loop: Node.Tick.                                        *)

Tick(p) ==
    /\ pc[p] = "idle" /\ ~stopping[p] /\ ~conflict[p]
    /\ Expire(p)
    /\ Send(p, "beating")
    /\ UNCHANGED <<clock, storeVars, closed, nodeVars, got, token, written>>

\* Registry.Heartbeat touches only a row this process wrote.
Heartbeat(p) ==
    /\ pc[p] = "beating"
    /\ nodes' = Beaten(p)
    /\ Goto(p, IF OwnRow(p) THEN "campaign" ELSE "beatLookup")
    /\ UNCHANGED <<clock, row, electionVars, nodeVars, stepVars, written>>

\* Any other error of the heartbeat or of the registration is collected, and the
\* pass goes on to the campaign.
JoinFault(p) ==
    /\ Faults
    /\ \/ pc[p] = "beating" /\ nodes' \in {nodes, Beaten(p)}
       \/ pc[p] = "rejoining" /\ nodes' \in {nodes, Registered(p)}
       \/ pc[p] \in {"beatLookup", "rejoinLookup"} /\ UNCHANGED nodes
    /\ Goto(p, "campaign")
    /\ UNCHANGED <<clock, row, electionVars, nodeVars, stepVars, written>>

\* Campaign expires a stale term first, then prepares the acquire.  A closed
\* election refuses, and the pass ends.
Campaign(p) ==
    /\ pc[p] = "campaign"
    /\ IF closed[p]
       THEN Goto(p, "idle") /\ UNCHANGED <<leader, fence, safeUntil>>
       ELSE /\ Expire(p)
            /\ Send(p, "acquiring")
    /\ UNCHANGED <<clock, storeVars, closed, nodeVars, got, token, written>>

\* The row may be taken: there is none, it is this id's, or it has expired.
MayAcquire(p) == row = None \/ row.node = Id(p) \/ row.expires <= sent[p]

\* What Acquire writes: the token advances when the holder changes.
Acquired(p) ==
    [node |-> Id(p),
     used |-> IF row = None THEN 1 ELSE IF row.node = Id(p) THEN row.used ELSE row.used + 1,
     expires |-> sent[p] + TTL]

\* leaseLock.Acquire, one compare-and-swap.
Acquire(p) ==
    /\ pc[p] = "acquiring"
    /\ row' = IF MayAcquire(p) THEN Acquired(p) ELSE row
    /\ got' = [got EXCEPT ![p] = IF MayAcquire(p) THEN Acquired(p) ELSE None]
    /\ Goto(p, "acquired")
    /\ UNCHANGED <<clock, nodes, electionVars, nodeVars, token, written>>

\* The acquire fails, whether or not its transaction was committed: a term still
\* safe goes on.
AcquireFault(p) ==
    /\ Faults
    /\ pc[p] = "acquiring"
    /\ row' \in {row, IF MayAcquire(p) THEN Acquired(p) ELSE row}
    /\ Expire(p)
    /\ Goto(p, IF leader'[p] THEN "jobs" ELSE "idle")
    /\ UNCHANGED <<clock, nodes, closed, nodeVars, stepVars, written>>

\* Mutant of SafeWindow: the window is measured from the clock after the call.
SafeWindowLocal(p) == Local(p) + TTL - Guard

\* The granted lease less the guard band.
SafeWindow(p) == got[p].expires - Guard

\* The rest of Campaign.  A lease that changed hands and came back opens a new
\* term; a round trip that used the window up opens none.
Conclude(p) ==
    /\ pc[p] = "acquired"
    /\ IF got[p] = None \/ Local(p) >= SafeWindow(p)
       THEN Demote(p)
       ELSE Promote(p, got[p].used, SafeWindow(p))
    /\ got' = [got EXCEPT ![p] = None]
    /\ Goto(p, IF leader'[p] THEN "jobs" ELSE "idle")
    /\ UNCHANGED <<clock, storeVars, closed, nodeVars, token, written>>

-----------------------------------------------------------------------------
(* Leader jobs: runDueJobs.                                                *)

\* No job is due, or none is left.
NoJob(p) ==
    /\ pc[p] = "jobs"
    /\ Goto(p, "idle")
    /\ UNCHANGED <<clock, storeVars, electionVars, nodeVars, stepVars, written>>

\* A job is due: Election.Leader answers from this node's clock.
Due(p) ==
    /\ pc[p] = "jobs"
    /\ Expire(p)
    /\ Goto(p, IF leader'[p] THEN "checking" ELSE "idle")
    /\ token' = [token EXCEPT ![p] = IF leader'[p] THEN fence[p] ELSE 0]
    /\ UNCHANGED <<clock, storeVars, closed, nodeVars, got, written>>

\* Fence.Check: the store's row decides; a superseded leader is demoted.
Check(p) ==
    /\ pc[p] = "checking"
    /\ IF Verify(p, token[p])
       THEN Goto(p, "working") /\ UNCHANGED <<leader, fence, safeUntil, token>>
       ELSE /\ Demote(p)
            /\ Goto(p, "idle")
            /\ token' = [token EXCEPT ![p] = 0]
    /\ UNCHANGED <<clock, storeVars, closed, nodeVars, got, written>>

\* The job's write asserts the term inside its own transaction (Fence.In).
FencedWrite(p) ==
    /\ pc[p] = "working"
    /\ written' = IF Verify(p, token[p]) THEN token[p] ELSE written
    /\ token' = [token EXCEPT ![p] = IF Verify(p, @) THEN @ ELSE 0]
    /\ Goto(p, "pruning")
    /\ UNCHANGED <<clock, storeVars, electionVars, nodeVars, got>>

\* The registry without the rows of nodes that are long gone, p's own kept.
Pruned(p) == [i \in Ids |->
    IF i # Id(p) /\ nodes[i] # None /\ nodes[i].beat < Local(p) - PruneAfter
    THEN None ELSE nodes[i]]

\* The job ends; the reclaim job prunes, though its write was fenced out.  A job
\* that was fenced out ends the pass.
Prune(p) ==
    /\ pc[p] = "pruning"
    /\ nodes' \in {nodes, Pruned(p)}
    /\ Goto(p, IF token[p] # 0 THEN "jobs" ELSE "idle")
    /\ token' = [token EXCEPT ![p] = 0]
    /\ UNCHANGED <<clock, row, electionVars, nodeVars, got, written>>

\* The check or the job fails for another reason, or the job is cancelled.
JobFault(p) ==
    /\ pc[p] \in {"checking", "working"}
    /\ Faults \/ ~leader[p]
    /\ Goto(p, IF pc[p] = "working" /\ leader[p] THEN "jobs" ELSE "idle")
    /\ token' = [token EXCEPT ![p] = 0]
    /\ UNCHANGED <<clock, storeVars, electionVars, nodeVars, got, written>>

\* Anybody in the process may ask IsLeader at any time.
Observe(p) ==
    /\ Stale(p)
    /\ Demote(p)
    /\ UNCHANGED <<clock, storeVars, closed, nodeVars, pc, sent, stepVars, written>>

-----------------------------------------------------------------------------
(* Leaving: Node.Close, and dying.                                         *)

\* Close marks the node closed and, if it was started, waits for the loop.
Close(p) ==
    /\ pc[p] # "gone" /\ ~stopping[p]
    /\ stopping' = [stopping EXCEPT ![p] = TRUE]
    /\ awaits' = [awaits EXCEPT ![p] = pc[p] \in {"joining", "joinLookup"}]
    /\ UNCHANGED <<clock, storeVars, electionVars, registered, conflict, pc, sent, stepVars, written>>

\* Mutant of MustRelease: a disqualified process releases the lease of its id.
MustReleaseAlways(p) == TRUE

\* Election.Close returns at once on an election Disqualify has closed.
MustRelease(p) == ~closed[p]

\* Mutant of LoopEnded: a node that was never started is waited for too.
LoopEndedOnly(p) == pc[p] = "idle"

\* The loop Close waits for has stopped, or Close waits for none.
LoopEnded(p) == pc[p] = "idle" \/ (pc[p] = "off" /\ ~awaits[p])

\* Election.Close cancels the leader's work first.
Resign(p) ==
    /\ stopping[p] /\ LoopEnded(p)
    /\ closed' = [closed EXCEPT ![p] = TRUE]
    /\ Demote(p)
    /\ IF MustRelease(p) THEN Send(p, "releasing") ELSE Goto(p, "leaving")
    /\ UNCHANGED <<clock, storeVars, nodeVars, stepVars, written>>

\* leaseLock.Release expires a lease of this id.
Release(p) ==
    /\ pc[p] = "releasing"
    /\ row' = IF row # None /\ row.node = Id(p) THEN [row EXCEPT !.expires = sent[p]] ELSE row
    /\ Goto(p, "leaving")
    /\ UNCHANGED <<clock, nodes, electionVars, nodeVars, stepVars, written>>

ReleaseFault(p) ==
    /\ Faults
    /\ pc[p] = "releasing"
    /\ Goto(p, "leaving")
    /\ UNCHANGED <<clock, storeVars, electionVars, nodeVars, stepVars, written>>

\* The process is gone, and its memory with it.
Vanish(p) ==
    /\ Goto(p, "gone")
    /\ leader' = [leader EXCEPT ![p] = FALSE]
    /\ fence' = [fence EXCEPT ![p] = 0]
    /\ safeUntil' = [safeUntil EXCEPT ![p] = 0]
    /\ closed' = [closed EXCEPT ![p] = TRUE]
    /\ registered' = [registered EXCEPT ![p] = FALSE]
    /\ conflict' = [conflict EXCEPT ![p] = FALSE]
    /\ stopping' = [stopping EXCEPT ![p] = FALSE]
    /\ awaits' = [awaits EXCEPT ![p] = FALSE]
    /\ got' = [got EXCEPT ![p] = None]
    /\ token' = [token EXCEPT ![p] = 0]

\* Registry.Deregister, of a row this process wrote only, and only when Close
\* found the node registered.
Deregister(p) ==
    /\ pc[p] = "leaving"
    /\ nodes' = IF OwnRow(p) /\ registered[p] /\ ~awaits[p] THEN [nodes EXCEPT ![Id(p)] = None] ELSE nodes
    /\ Vanish(p)
    /\ UNCHANGED <<clock, row, written>>

\* The process dies; whatever it had in flight is lost.
Crash(p) ==
    /\ pc[p] # "gone"
    /\ Vanish(p)
    /\ UNCHANGED <<clock, storeVars, written>>

-----------------------------------------------------------------------------
\* Time passes, also while a statement is in flight.
Advance ==
    /\ clock < MaxClock
    /\ \A p \in Procs : pc[p] \in InPass => Local(p) - sent[p] < MaxPass
    /\ clock' = clock + 1
    /\ UNCHANGED <<storeVars, electionVars, nodeVars, pc, sent, stepVars, written>>

Fault(p) == StartFault(p) \/ JoinFault(p) \/ AcquireFault(p) \/ JobFault(p) \/ ReleaseFault(p)

\* What the process does on its own once it was started or told to stop.
Proceed(p) ==
    \/ Register(p) \/ Lookup(p) \/ Heartbeat(p)
    \/ Campaign(p) \/ Acquire(p) \/ Conclude(p)
    \/ NoJob(p) \/ Check(p) \/ FencedWrite(p) \/ Prune(p)
    \/ Resign(p) \/ Release(p) \/ Deregister(p)

Step(p) ==
    \/ Start(p) \/ Tick(p) \/ Due(p) \/ Observe(p) \/ Close(p) \/ Crash(p)
    \/ Proceed(p)
    \/ Fault(p)

Next == Advance \/ \E p \in Procs : Step(p)

Spec == Init /\ [][Next]_vars

\* A goroutine between two store statements runs on, and the list of due jobs of
\* a pass comes to its end.
Fairness == \A p \in Procs : WF_vars(Proceed(p)) /\ SF_vars(NoJob(p))

FairSpec == Spec /\ Fairness

-----------------------------------------------------------------------------
(* Properties.                                                             *)

Labels == InPass \cup {"off", "idle", "jobs", "checking", "working", "pruning", "leaving", "gone"}

\* The state is well formed.
TypeOK ==
    /\ clock \in Nat
    /\ row \in Leases \cup {None}
    /\ nodes \in [Ids -> Beats \cup {None}]
    /\ leader \in [Procs -> BOOLEAN]
    /\ fence \in [Procs -> Nat]
    /\ safeUntil \in [Procs -> Nat]
    /\ closed \in [Procs -> BOOLEAN]
    /\ registered \in [Procs -> BOOLEAN]
    /\ conflict \in [Procs -> BOOLEAN]
    /\ stopping \in [Procs -> BOOLEAN]
    /\ awaits \in [Procs -> BOOLEAN]
    /\ pc \in [Procs -> Labels]
    /\ sent \in [Procs -> Nat]
    /\ got \in [Procs -> Leases \cup {None}]
    /\ token \in [Procs -> Nat]
    /\ written \in Nat

\* p leads and can prove it on its own clock.
Leads(p) == leader[p] /\ ~Stale(p)

\* Every process is configured with an id of its own, and no two clocks differ by
\* more than the guard band.
DistinctIds     == \A p, q \in Procs : Id(p) = Id(q) => p = q
SkewWithinGuard == \A p, q \in Procs : Skew[p] <= Skew[q] + Guard

\* No two processes lead at once, however slow an acquire, a pass or a paused
\* process is: with ids of their own as long as their clocks are within the guard
\* band, and with a shared id as long as none stalls past the node TTL in a pass.
OneLeader == \A p, q \in Procs : Leads(p) /\ Leads(q) => p = q

\* Fenced writes commit in the order of their terms: no clock disagreement lets a
\* superseded leader's write land after its successor's.
FencedWritesOrdered == [][written' >= written]_vars

\* A process that learned its id belongs to another never leads again, and what
\* it does on the way out cuts nobody's lease short.
Disqualified ==
    [][\A p \in Procs : conflict[p] =>
          /\ ~leader'[p]
          /\ pc'[p] # pc[p] /\ row # None => row'.expires >= row.expires]_vars

\* A node that is told to close does close ("the wait is bounded"), whatever of its
\* statements fail on the way, if its Start had come to the launch of its loop.
CloseEnds == \A p \in Procs : stopping[p] /\ ~awaits[p] ~> pc[p] = "gone"

=============================================================================
