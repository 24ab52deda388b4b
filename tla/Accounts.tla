------------------------------ MODULE Accounts ------------------------------
(***************************************************************************)
(* Account slots shared by the nodes of a cluster through PostgreSQL       *)
(* (internal/capacity/postgres.go, and its callers tryLocked and Release   *)
(* in broker.go).  A request that runs on an account owns one of its slots *)
(* by two things: a session lock on a connection of its own, and a lease   *)
(* row that it renews.  Either keeps others out, so that a connection that *)
(* is lost, and with it the lock, does not hand the slot on before the     *)
(* owner has had time to cancel its upstream.                              *)
(*                                                                         *)
(* One account is modelled; accounts share nothing but the node's back-off *)
(* after an error.  Every statement is a step.  Time is the database's: a  *)
(* row counts down what is left of it, a call counts up what has passed    *)
(* since its last statement that succeeded.  A call takes up a new attempt *)
(* when the server has ended its last session; the sessions that linger    *)
(* are in the way of the other calls.                                      *)
(***************************************************************************)
EXTENDS Integers, FiniteSets

CONSTANTS
    Nodes,
    Calls,      \* the requests, on all nodes
    NodeOf,     \* the node that serves each
    Limit,      \* slots of the account
    TTL,        \* PGAccounts.ttl, of the row and of the idle session
    Late,       \* after this long without a renewal the upstream has ended
    None

\* ttl/4 to the next renewal, 500ms for it to fail, and the time the backend
\* takes to close a response whose context is cancelled, are less than the ttl.
ASSUME AccountsAssumption ==
    /\ IsFiniteSet(Calls) /\ NodeOf \in [Calls -> Nodes]
    /\ Limit \in Nat \ {0}
    /\ TTL \in Nat /\ Late \in Nat \ {0} /\ Late < TTL
    /\ None \notin Calls

Slots == 1 .. Limit

VARIABLES
    pc,      \* where each call is, in try, with its upstream, or in release
    slot,    \* the slot it tries or holds
    sess,    \* the server has a session for its connection
    lost,    \* accountLease.lost is closed
    due,     \* time since its last renewal, up to TTL
    lock,    \* the session that has the advisory lock of each slot
    row,     \* the lease row of each slot: whose it is, None when that lease is
             \* no more, and how long it is good for
    retry,   \* PGAccounts.retryAt is in the future
    paused   \* the node is stopped, its sockets open

callVars == <<pc, slot, sess, lost, due>>
vars == <<callVars, lock, row, retry, paused>>

NoRow == [id |-> None, left |-> 0]

Init ==
    /\ pc = [c \in Calls |-> "idle"]
    /\ slot = [c \in Calls |-> 1]
    /\ sess = [c \in Calls |-> FALSE]
    /\ lost = [c \in Calls |-> FALSE]
    /\ due = [c \in Calls |-> 0]
    /\ lock = [s \in Slots |-> None]
    /\ row = [s \in Slots |-> NoRow]
    /\ retry = [n \in Nodes |-> FALSE]
    /\ paused = [n \in Nodes |-> FALSE]

-----------------------------------------------------------------------------
Trying(c) == pc[c] \in {"lock", "check", "unlock", "insert"}

\* The call's node runs and the call is at this point.
At(c, label) == pc[c] = label /\ ~paused[NodeOf[c]]

\* A statement of the call reaches its session.
Statement(c, label) == At(c, label) /\ sess[c]

Goto(c, label) == pc' = [pc EXCEPT ![c] = label]

\* The lease, or the attempt at one, is over.
Leave(c) ==
    /\ Goto(c, "idle")
    /\ slot' = [slot EXCEPT ![c] = 1]
    /\ lost' = [lost EXCEPT ![c] = FALSE]
    /\ due' = [due EXCEPT ![c] = 0]

\* tryLocked calls try under the broker's mutex: one call of a node at a time.
\* A call that is refused queues or goes away, and is tried again by releases,
\* by the shared wake loop, or as a new request.
Try(c) ==
    /\ At(c, "idle")
    /\ ~sess[c]
    /\ \A d \in Calls : NodeOf[d] = NodeOf[c] => ~Trying(d)
    /\ ~retry[NodeOf[c]]
    /\ Goto(c, "lock")
    /\ sess' = [sess EXCEPT ![c] = TRUE]
    /\ UNCHANGED <<slot, lost, due, lock, row, retry, paused>>

\* The next slot; after the last one the connection goes back to the pool and
\* the call is refused.
NextSlot(c) ==
    IF slot[c] < Limit
    THEN /\ Goto(c, "lock")
         /\ slot' = [slot EXCEPT ![c] = @ + 1]
         /\ UNCHANGED <<sess, lost, due>>
    ELSE Leave(c) /\ sess' = [sess EXCEPT ![c] = FALSE]

\* pg_try_advisory_lock.
TryLock(c) ==
    /\ Statement(c, "lock")
    /\ \/ /\ lock[slot[c]] = None
          /\ lock' = [lock EXCEPT ![slot[c]] = c]
          /\ Goto(c, "check") /\ UNCHANGED <<slot, sess, lost, due>>
       \/ lock[slot[c]] # None /\ NextSlot(c) /\ UNCHANGED lock
    /\ UNCHANGED <<row, retry, paused>>

\* Mutant: the lock alone decides.
OccupiedNever(s) == FALSE

Occupied(s) == row[s].left > 0

Check(c) ==
    /\ Statement(c, "check")
    /\ Goto(c, IF Occupied(slot[c]) THEN "unlock" ELSE "insert")
    /\ UNCHANGED <<slot, sess, lost, due, lock, row, retry, paused>>

\* Mutant: an occupied slot is passed over with its lock held.
UnlockForgotten(c) ==
    /\ Statement(c, "unlock")
    /\ NextSlot(c)
    /\ UNCHANGED <<lock, row, retry, paused>>

\* pg_advisory_unlock of a slot whose last owner's row is still good.
Unlock(c) ==
    /\ Statement(c, "unlock")
    /\ lock' = [lock EXCEPT ![slot[c]] = None]
    /\ NextSlot(c)
    /\ UNCHANGED <<row, retry, paused>>

Leased(c) == [row EXCEPT ![slot[c]] = [id |-> c, left |-> TTL]]

\* The row of the last owner is replaced in one transaction, and the call runs.
Insert(c) ==
    /\ Statement(c, "insert")
    /\ row' = Leased(c)
    /\ Goto(c, "run")
    /\ due' = [due EXCEPT ![c] = 0]
    /\ UNCHANGED <<slot, sess, lost, lock, retry, paused>>

\* A statement of try fails, the commit with or without its effect: the
\* connection is discarded, and the node lets the database alone for a while.
TryFault(c) ==
    /\ Trying(c) /\ ~paused[NodeOf[c]]
    /\ \/ UNCHANGED row
       \/ Statement(c, "insert") /\ row' = [row EXCEPT ![slot[c]] = [id |-> None, left |-> TTL]]
    /\ Leave(c)
    /\ retry' = [retry EXCEPT ![NodeOf[c]] = TRUE]
    /\ UNCHANGED <<sess, lock, paused>>

-----------------------------------------------------------------------------
\* Mutant: the renewal finds the row and leaves its expiry.
RenewedNothing(c) == row

Renewed(c) == [row EXCEPT ![slot[c]].left = TTL]

\* The renewal loop: one row has to be updated, anything else closes lost.
Renew(c) ==
    /\ Statement(c, "run") /\ ~lost[c]
    /\ \/ /\ row[slot[c]].id = c
          /\ row' = Renewed(c)
          /\ due' = [due EXCEPT ![c] = 0]
          /\ UNCHANGED lost
       \/ /\ row[slot[c]].id # c
          /\ lost' = [lost EXCEPT ![c] = TRUE]
          /\ UNCHANGED <<row, due>>
    /\ UNCHANGED <<pc, slot, sess, lock, retry, paused>>

\* The statement fails, with or without its effect where a session is left.
RenewFault(c) ==
    /\ At(c, "run") /\ ~lost[c]
    /\ lost' = [lost EXCEPT ![c] = TRUE]
    /\ \/ UNCHANGED row
       \/ sess[c] /\ row[slot[c]].id = c /\ row' = Renewed(c)
    /\ UNCHANGED <<pc, slot, sess, due, lock, retry, paused>>

\* The upstream has ended, by itself or because lost cancelled its context,
\* and the reservation is released.
Finish(c) ==
    /\ At(c, "run")
    /\ Goto(c, "delete")
    /\ UNCHANGED <<slot, sess, lost, due, lock, row, retry, paused>>

\* release: the row goes first ...
Delete(c) ==
    /\ Statement(c, "delete")
    /\ row' = IF row[slot[c]].id = c THEN [row EXCEPT ![slot[c]] = NoRow] ELSE row
    /\ Goto(c, "free")
    /\ UNCHANGED <<slot, sess, lost, due, lock, retry, paused>>

\* ... then the lock, and the connection goes back to the pool.
Free(c) ==
    /\ Statement(c, "free")
    /\ lock' = [lock EXCEPT ![slot[c]] = None]
    /\ sess' = [sess EXCEPT ![c] = FALSE]
    /\ Leave(c)
    /\ UNCHANGED <<row, retry, paused>>

\* What the leases of some calls leave behind when they end without a DELETE.
Orphaned(gone) ==
    [s \in Slots |-> IF row[s].id \in gone THEN [row[s] EXCEPT !.id = None] ELSE row[s]]

\* A statement of release fails: the connection is discarded.
ReleaseFault(c) ==
    /\ At(c, "delete") \/ At(c, "free")
    /\ \/ row' = Orphaned({c})
       \/ /\ Statement(c, "delete") /\ row[slot[c]].id = c
          /\ row' = [row EXCEPT ![slot[c]] = NoRow]
    /\ Leave(c)
    /\ UNCHANGED <<sess, lock, retry, paused>>

-----------------------------------------------------------------------------
(* The server, the nodes and time.                                         *)

Unlocked(c) == [s \in Slots |-> IF lock[s] = c THEN None ELSE lock[s]]

\* A session ends: the connection was discarded or broke, the server was
\* restarted, or the session sat idle for the ttl.  Its locks go with it.
SessionEnds(c) ==
    /\ sess[c]
    /\ sess' = [sess EXCEPT ![c] = FALSE]
    /\ lock' = Unlocked(c)
    /\ UNCHANGED <<pc, slot, lost, due, row, retry, paused>>

Discarded(c) == pc[c] = "idle"
IdleTooLong(c) == due[c] = TTL

\* A process dies: its upstreams end, its sessions do when the server notices.
Crash(n) ==
    /\ pc' = [c \in Calls |-> IF NodeOf[c] = n THEN "idle" ELSE pc[c]]
    /\ slot' = [c \in Calls |-> IF NodeOf[c] = n THEN 1 ELSE slot[c]]
    /\ lost' = [c \in Calls |-> lost[c] /\ NodeOf[c] # n]
    /\ due' = [c \in Calls |-> IF NodeOf[c] = n THEN 0 ELSE due[c]]
    /\ paused' = [paused EXCEPT ![n] = FALSE]
    /\ retry' = [retry EXCEPT ![n] = FALSE]
    /\ row' = Orphaned({c \in Calls : NodeOf[c] = n})
    /\ UNCHANGED <<sess, lock>>

Pause(n) ==
    /\ ~paused[n]
    /\ paused' = [paused EXCEPT ![n] = TRUE]
    /\ UNCHANGED <<callVars, lock, row, retry>>

Resume(n) ==
    /\ paused[n]
    /\ paused' = [paused EXCEPT ![n] = FALSE]
    /\ UNCHANGED <<callVars, lock, row, retry>>

\* On a node that runs, an upstream that has not been renewed for Late has ended.
Prompt(c) == pc[c] = "run" /\ ~paused[NodeOf[c]] => due[c] < Late

Tick ==
    /\ \A c \in Calls : Prompt(c)
    /\ row' = [s \in Slots |-> [row[s] EXCEPT !.left = IF @ > 0 THEN @ - 1 ELSE 0]]
    /\ due' = [c \in Calls |->
          IF ~Discarded(c) /\ due[c] < TTL THEN due[c] + 1 ELSE due[c]]
    /\ retry' = [n \in Nodes |-> FALSE]
    /\ UNCHANGED <<pc, slot, sess, lost, lock, paused>>

-----------------------------------------------------------------------------
CallStep(c) ==
    \/ TryLock(c) \/ Check(c) \/ Unlock(c) \/ Insert(c) \/ TryFault(c)
    \/ Finish(c) \/ Delete(c) \/ Free(c) \/ ReleaseFault(c)

Next ==
    \/ \E c \in Calls :
          \/ Try(c) \/ CallStep(c) \/ Renew(c) \/ RenewFault(c)
          \/ SessionEnds(c)
    \/ \E n \in Nodes : Crash(n) \/ Pause(n) \/ Resume(n)
    \/ Tick

Spec == Init /\ [][Next]_vars

\* A call whose node runs goes on: its statements and its upstream have
\* deadlines.  The server ends a session that was discarded or that was idle
\* for the ttl, and time passes.  Nothing is assumed of a paused node.
Fairness ==
    /\ WF_vars(Tick)
    /\ \A c \in Calls :
          /\ SF_vars(CallStep(c))
          /\ WF_vars(SessionEnds(c) /\ (Discarded(c) \/ IdleTooLong(c)))

FairSpec == Spec /\ Fairness

-----------------------------------------------------------------------------
(* Properties.                                                             *)

\* Type correctness of the calls, their sessions, the locks and the lease rows; a
\* row is never good for longer than the ttl.
TypeOK ==
    /\ pc \in [Calls -> {"idle", "lock", "check", "unlock", "insert", "run",
                         "delete", "free"}]
    /\ slot \in [Calls -> Slots]
    /\ sess \in [Calls -> BOOLEAN] /\ lost \in [Calls -> BOOLEAN]
    /\ due \in [Calls -> 0 .. TTL]
    /\ lock \in [Slots -> Calls \cup {None}]
    /\ row \in [Slots -> [id : Calls \cup {None}, left : 0 .. TTL]]
    /\ retry \in [Nodes -> BOOLEAN] /\ paused \in [Nodes -> BOOLEAN]

\* An upstream call that is not past its lease: on a node that runs, every one.
Live(c) == pc[c] = "run" /\ due[c] < TTL

\* The account's ceiling holds across the cluster: connections that break,
\* acknowledgements that are lost and processes that die never let more upstream
\* calls run than the account has slots, counting those within their lease (try,
\* renew, release).
SharedCeiling == Cardinality({c \in Calls : Live(c)}) <= Limit

\* "An expired row alone NEVER permits a second live holder", and neither does
\* a lost lock: while a call is within its lease nobody's session takes its
\* slot past the check, whether or not it still has its own.
NeverRecycled ==
    \A c, d \in Calls : c # d /\ Live(c) /\ pc[d] = "insert" /\ sess[d] => slot[d] # slot[c]

\* No slot is locked for ever: whatever fails in try or release, and also when
\* the node that holds it is stopped and never comes back, again and again there
\* is a moment at which nobody has its lock.
LocksEnd == \A s \in Slots : []<>(lock[s] = None)
=============================================================================
