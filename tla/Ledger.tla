------------------------------- MODULE Ledger -------------------------------
(***************************************************************************)
(* The durable ledger of internal/cluster: one budget or quota counter in  *)
(* the store, from which each node draws blocks of units ahead of spending *)
(* them, held under a lease that the leader reclaims once it has expired.  *)
(*                                                                         *)
(* A request takes units from its node's block by a compare-and-swap; when *)
(* that fails it refills the block in a transaction, under the block's     *)
(* mutex.  A store transaction is one step; requests, the maintenance loop *)
(* and other nodes run between any two steps of a request.  Counters of    *)
(* different keys share nothing, so one key is modelled; the period it     *)
(* belongs to ends, after the retention grace, at PeriodOver.              *)
(***************************************************************************)
EXTENDS Integers, FiniteSets, Functions

CONSTANTS
    Nodes,      \* node ids, one process at a time each
    Callers,    \* request goroutines
    Limit,      \* the ceiling every reservation carries, 0 for none
    Block,      \* units drawn at a time
    TTL,        \* lease lifetime
    Renew,      \* how far ahead of expiry a lease is renewed
    Amounts,    \* estimates a request may reserve
    Overrun,    \* how far the actual cost may exceed the estimate
    PeriodOver, \* the instant from which the period's block may be retired
    Gens,       \* bound: block objects of one node alive at once
    Drained,    \* Close waits for the requests of the node
    Restarts,   \* a node that died may come back under its id
    Faults,     \* a store transaction may fail, with or without its effect
    MaxStall,   \* bound: age of the clock reading a request works with
    MaxDeaths,  \* bound on crashes
    MaxSpent,   \* bound on the total settled
    MaxClock,   \* bound: the clock stops here
    None

\* A row of the lease table.
Leases == [amount : Nat, used : Nat, expires : Nat]

ASSUME LedgerAssumption ==
    /\ IsFiniteSet(Nodes) /\ IsFiniteSet(Callers) /\ IsFiniteSet(Gens)
    /\ Nodes \cap Callers = {} /\ None \notin Nodes \cup Callers \cup Leases
    /\ Limit \in Nat /\ Block \in Nat \ {0}
    /\ TTL \in Nat \ {0} /\ Renew \in Nat /\ Renew < TTL
    /\ Amounts \subseteq Nat /\ Overrun \in Nat /\ PeriodOver \in Nat
    /\ Gens \subseteq Nat \ {0}
    /\ {Drained, Restarts, Faults} \subseteq BOOLEAN
    /\ {MaxStall, MaxDeaths, MaxSpent, MaxClock} \subseteq Nat

VARIABLES
    clock,
    \* store
    counter,    \* units committed against the limit
    lease,      \* each node's lease row: amount drawn, used as checkpointed, expiry
    \* memory of each node
    blk,        \* block objects: remaining, expires, drawn, checked, pending, evicted
    mu,         \* who holds each block's mutex
    cur,        \* the block in the node's map, 0 for none
    mode,       \* the ledger is up, closed, abandoned, or its process is down
    job,        \* what maintenance or Close is doing
    todo,       \* the expired row a reclaim has selected
    req,        \* the requests
    \* history
    spent,      \* what the settled requests cost
    clean,      \* no lease reclaimed, no transaction lost, no block given back under a request
    reclaimed,  \* units the reclaims gave back
    deaths      \* crashes

storeVars == <<counter, lease>>
vars == <<clock, storeVars, blk, mu, cur, mode, job, todo, req, spent, clean, reclaimed, deaths>>

Blocks == Nodes \X Gens

EmptyBlock == [remaining |-> 0, expires |-> 0, drawn |-> 0, checked |-> 0,
               pending |-> 0, evicted |-> FALSE]
NoJob  == [at |-> "idle", gen |-> 0, stamp |-> 0, renew |-> FALSE, unspent |-> 0]
NoCall == [at |-> "idle", node |-> None, gen |-> 0, amount |-> 0, stamp |-> 0, held |-> 0, tries |-> 0]

Init ==
    /\ clock = 1
    /\ counter = 0
    /\ lease = [n \in Nodes |-> None]
    /\ blk = [b \in Blocks |-> EmptyBlock]
    /\ mu = [b \in Blocks |-> None]
    /\ cur = [n \in Nodes |-> 0]
    /\ mode = [n \in Nodes |-> "up"]
    /\ job = [n \in Nodes |-> NoJob]
    /\ todo = [n \in Nodes |-> None]
    /\ req = [c \in Callers |-> NoCall]
    /\ spent = 0 /\ clean = TRUE /\ reclaimed = 0 /\ deaths = 0

-----------------------------------------------------------------------------
(* Building blocks.                                                        *)

AtLeastZero(x) == IF x < 0 THEN 0 ELSE x
Larger(x, y)   == IF x < y THEN y ELSE x
Smaller(x, y)  == IF x < y THEN x ELSE y

BlockOf(c) == <<req[c].node, req[c].gen>>
JobBlock(n) == <<n, job[n].gen>>

\* take: units of an unexpired block.
CanTake(b, amount, now) == now < blk[b].expires /\ blk[b].remaining >= amount

\* used: what the block has consumed.
Used(b) == Smaller(AtLeastZero(blk[b].drawn - blk[b].remaining), blk[b].drawn)

\* Block objects of n nobody refers to.
FreeGens(n) == {g \in Gens :
    /\ g # cur[n] /\ g # job[n].gen
    /\ \A c \in Callers : req[c].node = n => req[c].gen # g}

-----------------------------------------------------------------------------
(* A request: Reserve, then Settle.                                        *)

\* Reserve reads the clock once.
Reserve(c, n, a) ==
    /\ req[c].at = "idle" /\ mode[n] = "up"
    /\ req' = [req EXCEPT ![c] = [NoCall EXCEPT !.at = "finding", !.node = n, !.amount = a,
                                               !.stamp = clock]]
    /\ UNCHANGED <<clock, storeVars, blk, mu, cur, mode, job, todo, spent, clean, reclaimed, deaths>>

\* blockFor: the block in the map, or an empty one put there.
Find(c) ==
    /\ req[c].at = "finding"
    /\ LET n == req[c].node
           next == IF req[c].amount = 0 THEN "holding" ELSE "taking"
       IN \/ /\ mode[n] # "up"
             /\ req' = [req EXCEPT ![c] = NoCall]
             /\ UNCHANGED <<blk, cur>>
          \/ /\ mode[n] = "up" /\ cur[n] # 0
             /\ req' = [req EXCEPT ![c].at = next, ![c].gen = cur[n]]
             /\ UNCHANGED <<blk, cur>>
          \/ /\ mode[n] = "up" /\ cur[n] = 0
             /\ \E g \in FreeGens(n) :
                   /\ \A h \in FreeGens(n) : g <= h
                   /\ cur' = [cur EXCEPT ![n] = g]
                   /\ blk' = [blk EXCEPT ![<<n, g>>] = EmptyBlock]
                   /\ req' = [req EXCEPT ![c].at = next, ![c].gen = g]
    /\ UNCHANGED <<clock, storeVars, mu, mode, job, todo, spent, clean, reclaimed, deaths>>

\* The hot path, with the clock reading of the call.
Take(c) ==
    /\ req[c].at = "taking"
    /\ IF CanTake(BlockOf(c), req[c].amount, req[c].stamp)
       THEN /\ blk' = [blk EXCEPT ![BlockOf(c)].remaining = @ - req[c].amount]
            /\ req' = [req EXCEPT ![c].at = "holding"]
       ELSE /\ req' = [req EXCEPT ![c].at = "locking"]
            /\ UNCHANGED blk
    /\ UNCHANGED <<clock, storeVars, mu, cur, mode, job, todo, spent, clean, reclaimed, deaths>>

\* Mutant of Custody: the remainder stays where the hot path reaches it.
CustodyShared(b) == blk[b]

\* The remainder is taken out of the block for the round trip.
Custody(b) == [blk[b] EXCEPT !.remaining = 0]

\* Mutant of Unlinked: a block that was retired is drawn against.
UnlinkedNever(b) == FALSE

\* The block has been marked by retire.
Unlinked(b) == blk[b].evicted

\* drawAndTake up to its transaction: with the mutex, another look, then the block
\* may turn out retired, or the ledger closed.
Lock(c) ==
    /\ req[c].at = "locking"
    /\ mu[BlockOf(c)] = None
    /\ LET b == BlockOf(c) IN
       IF CanTake(b, req[c].amount, clock)
       THEN /\ blk' = [blk EXCEPT ![b].remaining = @ - req[c].amount]
            /\ req' = [req EXCEPT ![c].at = "holding"]
            /\ UNCHANGED mu
       ELSE IF Unlinked(b)
       THEN /\ req' = [req EXCEPT ![c] = IF @.tries = 0
                          THEN [@ EXCEPT !.at = "finding", !.gen = 0, !.tries = 1]
                          ELSE [NoCall EXCEPT !.at = "evicted"]]
            /\ UNCHANGED <<blk, mu>>
       ELSE IF mode[req[c].node] # "up"
       THEN /\ req' = [req EXCEPT ![c] = NoCall]
            /\ UNCHANGED <<blk, mu>>
       ELSE /\ mu' = [mu EXCEPT ![b] = c]
            /\ blk' = [blk EXCEPT ![b] = Custody(b)]
            /\ req' = [req EXCEPT ![c].at = "drawing", ![c].held = AtLeastZero(blk[b].remaining)]
    /\ UNCHANGED <<clock, storeVars, cur, mode, job, todo, spent, clean, reclaimed, deaths>>

\* What the transaction of drawAndTake finds and decides: a row that is gone voids
\* what the node thinks it holds.
Kept(c, x)  == IF lease[req[c].node] = None THEN 0 ELSE x
Have(c)     == Kept(c, req[c].held)
Need(c)     == req[c].amount - Have(c)
Exhausted(c) == Limit > 0 /\ Limit - counter < Need(c)

\* Mutant of Grant: the room left is not looked at.
GrantAll(c) == Larger(Need(c), Block)

Grant(c) == IF Limit > 0 THEN Smaller(Larger(Need(c), Block), Limit - counter)
                         ELSE Larger(Need(c), Block)

\* Consumption of the block so far, checkpointed with the new units.
Checkpointed(c) == AtLeastZero(Kept(c, blk[BlockOf(c)].drawn) - Have(c))

\* The rows the transaction leaves.
DrawnLease(c) ==
    LET row == lease[req[c].node] IN
    [amount  |-> Grant(c) + (IF row = None THEN 0 ELSE row.amount),
     used    |-> Checkpointed(c),
     expires |-> req[c].stamp + TTL]

\* The whole block is charged before a unit of it is handed out.
Draw(c) ==
    /\ req[c].at = "drawing" /\ ~Exhausted(c)
    /\ LET b == BlockOf(c) IN
       /\ counter' = counter + Grant(c)
       /\ lease' = [lease EXCEPT ![b[1]] = DrawnLease(c)]
       /\ blk' = [blk EXCEPT ![b].remaining = @ + Have(c) + Grant(c) - req[c].amount,
                             ![b].drawn = Kept(c, @) + Grant(c),
                             ![b].checked = Checkpointed(c),
                             ![b].expires = req[c].stamp + TTL]
       /\ mu' = [mu EXCEPT ![b] = None]
    /\ req' = [req EXCEPT ![c].at = "holding", ![c].held = 0]
    /\ UNCHANGED <<clock, cur, mode, job, todo, spent, clean, reclaimed, deaths>>

\* No room, or the transaction fails: custody goes back.
DrawRefused(c) ==
    /\ req[c].at = "drawing"
    /\ \/ (Exhausted(c) \/ Faults) /\ UNCHANGED <<storeVars, clean>>
       \/ /\ Faults /\ ~Exhausted(c)
          /\ clean' = FALSE
          /\ counter' = counter + Grant(c)
          /\ lease' = [lease EXCEPT ![req[c].node] = DrawnLease(c)]
    /\ blk' = [blk EXCEPT ![BlockOf(c)].remaining = @ + req[c].held]
    /\ mu' = [mu EXCEPT ![BlockOf(c)] = None]
    /\ req' = [req EXCEPT ![c] = NoCall]
    /\ UNCHANGED <<clock, cur, mode, job, todo, spent, reclaimed, deaths>>

\* hold: the reservation is counted on the block.
Hold(c) ==
    /\ req[c].at = "holding"
    /\ blk' = [blk EXCEPT ![BlockOf(c)].pending = @ + 1]
    /\ req' = [req EXCEPT ![c].at = "held"]
    /\ UNCHANGED <<clock, storeVars, mu, cur, mode, job, todo, spent, clean, reclaimed, deaths>>

\* Mutant of Refund: nothing comes back from a request that cost less.
RefundNothing(c, actual) == 0

\* What goes back to the block; less than nothing after an overrun.
Refund(c, actual) == req[c].amount - actual

\* Settle records the actual cost and returns the difference to the block; Release
\* settles at zero.
Settle(c, actual) ==
    /\ req[c].at = "held"
    /\ spent + actual <= MaxSpent
    /\ spent' = spent + actual
    /\ blk' = [blk EXCEPT ![BlockOf(c)].remaining = @ + Refund(c, actual),
                          ![BlockOf(c)].pending = @ - 1]
    /\ req' = [req EXCEPT ![c] = NoCall]
    /\ UNCHANGED <<clock, storeVars, mu, cur, mode, job, todo, clean, reclaimed, deaths>>

\* The caller of a reservation that failed on a retired block gets the error.
Report(c) ==
    /\ req[c].at = "evicted"
    /\ req' = [req EXCEPT ![c] = NoCall]
    /\ UNCHANGED <<clock, storeVars, blk, mu, cur, mode, job, todo, spent, clean, reclaimed, deaths>>

-----------------------------------------------------------------------------
(* Maintenance of a node's own block: Maintain, Checkpoint.                *)

\* finished: the period is over, and no hold is outstanding.
Finished(b) == blk[b].pending = 0 /\ clock >= PeriodOver

\* Maintain looks at the block in the map: retire it, renew or checkpoint it, or
\* leave a block that holds no lease alone.
Maintain(n) ==
    /\ mode[n] = "up" /\ job[n].at = "idle" /\ cur[n] # 0
    /\ LET b == <<n, cur[n]>> IN
       /\ Finished(b) \/ blk[b].expires # 0
       /\ job' = [job EXCEPT ![n] =
             [NoJob EXCEPT !.at = IF Finished(b) THEN "evicting" ELSE "refreshing",
                           !.gen = cur[n], !.stamp = clock,
                           !.renew = clock + Renew >= blk[b].expires]]
    /\ UNCHANGED <<clock, storeVars, blk, mu, cur, mode, todo, req, spent, clean, reclaimed, deaths>>

\* The row as refreshBlock leaves it.
RefreshedLease(n, b) ==
    [lease[n] EXCEPT !.used = Used(b),
                     !.expires = IF job[n].renew THEN job[n].stamp + TTL ELSE @]

\* refreshBlock.  A row that is gone was reclaimed, and the block is dropped.
Refresh(n) ==
    /\ job[n].at = "refreshing" /\ mu[JobBlock(n)] = None
    /\ LET b == JobBlock(n) IN
       \/ /\ ~job[n].renew /\ Used(b) = blk[b].checked
          /\ UNCHANGED <<lease, blk>>
       \/ /\ job[n].renew \/ Used(b) # blk[b].checked
          /\ lease[n] = None
          /\ blk' = [blk EXCEPT ![b] = [EmptyBlock EXCEPT !.pending = blk[b].pending,
                                                          !.evicted = blk[b].evicted]]
          /\ UNCHANGED lease
       \/ /\ job[n].renew \/ Used(b) # blk[b].checked
          /\ lease[n] # None
          /\ lease' = [lease EXCEPT ![n] = RefreshedLease(n, b)]
          /\ blk' = [blk EXCEPT ![b].checked = Used(b),
                                ![b].expires = RefreshedLease(n, b).expires]
    /\ job' = [job EXCEPT ![n] = NoJob]
    /\ UNCHANGED <<clock, counter, mu, cur, mode, todo, req, spent, clean, reclaimed, deaths>>

\* The update fails, whether or not the row was written.
RefreshFault(n) ==
    /\ Faults
    /\ job[n].at = "refreshing" /\ mu[JobBlock(n)] = None
    /\ lease' \in {lease, [lease EXCEPT ![n] =
                      IF @ = None THEN None ELSE RefreshedLease(n, JobBlock(n))]}
    /\ job' = [job EXCEPT ![n] = NoJob]
    /\ UNCHANGED <<clock, counter, blk, mu, cur, mode, todo, req, spent, clean, reclaimed, deaths>>

\* Checkpoint forces refreshBlock to write.
Checkpoint(n) ==
    /\ mode[n] = "up" /\ job[n].at = "idle" /\ cur[n] # 0
    /\ mu[<<n, cur[n]>>] = None
    /\ blk' = [blk EXCEPT ![<<n, cur[n]>>].checked = -1]
    /\ job' = [job EXCEPT ![n] = [NoJob EXCEPT !.at = "refreshing", !.gen = cur[n], !.stamp = clock]]
    /\ UNCHANGED <<clock, storeVars, mu, cur, mode, todo, req, spent, clean, reclaimed, deaths>>

-----------------------------------------------------------------------------
(* Giving a block back: retire, Close, Abandon.                            *)

\* retire marks the block first.
Evict(n) ==
    /\ job[n].at = "evicting" /\ mu[JobBlock(n)] = None
    /\ blk' = [blk EXCEPT ![JobBlock(n)].evicted = TRUE]
    /\ job' = [job EXCEPT ![n].at = "returning"]
    /\ UNCHANGED <<clock, storeVars, mu, cur, mode, todo, req, spent, clean, reclaimed, deaths>>

\* returnBlock stops the hot path before it touches the store.
Stop(n) ==
    /\ job[n].at = "returning" /\ mu[JobBlock(n)] = None
    /\ LET b == JobBlock(n) IN
       /\ mu' = [mu EXCEPT ![b] = n]
       /\ job' = [job EXCEPT ![n].at = "stopped", ![n].unspent = AtLeastZero(blk[b].remaining)]
       /\ blk' = [blk EXCEPT ![b].remaining = 0, ![b].expires = 0,
                             ![b].drawn = 0, ![b].checked = 0]
    /\ clean' = (clean /\ \A c \in Callers : req[c].node # n)
    /\ UNCHANGED <<clock, storeVars, cur, mode, todo, req, spent, reclaimed, deaths>>

\* What the transaction gives back: nothing if the row was gone.
Returned(n) == IF lease[n] = None THEN 0 ELSE job[n].unspent

\* addCounter floors the value.
ReturnBlock(n) ==
    /\ job[n].at = "stopped"
    /\ counter' = AtLeastZero(counter - Returned(n))
    /\ lease' = [lease EXCEPT ![n] = None]
    /\ mu' = [mu EXCEPT ![JobBlock(n)] = None]
    /\ job' = [job EXCEPT ![n].at = "unlinking", ![n].unspent = 0]
    /\ UNCHANGED <<clock, blk, cur, mode, todo, req, spent, clean, reclaimed, deaths>>

\* The transaction fails, whether or not it was committed.
ReturnFault(n) ==
    /\ Faults
    /\ job[n].at = "stopped"
    /\ \/ clean' = FALSE /\ UNCHANGED storeVars
       \/ /\ UNCHANGED clean
          /\ counter' = AtLeastZero(counter - Returned(n))
          /\ lease' = [lease EXCEPT ![n] = None]
    /\ mu' = [mu EXCEPT ![JobBlock(n)] = None]
    /\ job' = [job EXCEPT ![n].at = "restoring", ![n].unspent = 0]
    /\ UNCHANGED <<clock, blk, cur, mode, todo, req, spent, reclaimed, deaths>>

\* retire takes its mark back after a failure.
Restore(n) ==
    /\ job[n].at = "restoring" /\ mu[JobBlock(n)] = None
    /\ blk' = [blk EXCEPT ![JobBlock(n)].evicted = FALSE]
    /\ job' = [job EXCEPT ![n] = NoJob]
    /\ UNCHANGED <<clock, storeVars, mu, cur, mode, todo, req, spent, clean, reclaimed, deaths>>

Unlink(n) ==
    /\ job[n].at = "unlinking"
    /\ cur' = [cur EXCEPT ![n] = IF @ = job[n].gen THEN 0 ELSE @]
    /\ job' = [job EXCEPT ![n] = NoJob]
    /\ UNCHANGED <<clock, storeVars, blk, mu, mode, todo, req, spent, clean, reclaimed, deaths>>

\* Close unlinks the block, then returns it; Abandon only stops the hot path.  The
\* node's loop has ended, and its server has drained its requests if it could.
Shutdown(n, how, next) ==
    /\ mode[n] = "up" /\ job[n].at = "idle"
    /\ Drained => \A c \in Callers : req[c].node # n
    /\ mode' = [mode EXCEPT ![n] = how]
    /\ cur' = [cur EXCEPT ![n] = 0]
    /\ job' = [job EXCEPT ![n] =
                  IF cur[n] = 0 THEN NoJob ELSE [NoJob EXCEPT !.at = next, !.gen = cur[n]]]
    /\ UNCHANGED <<clock, storeVars, blk, mu, todo, req, spent, clean, reclaimed, deaths>>

Close(n)   == Shutdown(n, "closed", "returning")
Abandon(n) == Shutdown(n, "abandoned", "abandoning")

Forsake(n) ==
    /\ job[n].at = "abandoning" /\ mu[JobBlock(n)] = None
    /\ blk' = [blk EXCEPT ![JobBlock(n)].remaining = 0, ![JobBlock(n)].expires = 0]
    /\ job' = [job EXCEPT ![n] = NoJob]
    /\ UNCHANGED <<clock, storeVars, mu, cur, mode, todo, req, spent, clean, reclaimed, deaths>>

-----------------------------------------------------------------------------
(* The leader's reclaim: ReclaimExpired, ReclaimNode.  Leadership is the    *)
(* business of Election; two nodes may both believe they lead.              *)

\* The rows are selected first, and what is unspent is computed then.
Select(n, m) ==
    /\ mode[n] = "up" /\ todo[n] = None
    /\ lease[m] # None /\ lease[m].expires <= clock
    /\ todo' = [todo EXCEPT ![n] =
          [of |-> m, unspent |-> AtLeastZero(lease[m].amount - lease[m].used), cutoff |-> clock]]
    /\ UNCHANGED <<clock, storeVars, blk, mu, cur, mode, job, req, spent, clean, reclaimed, deaths>>

\* Mutant of Lapsed: the delete does not repeat the expiry test.
LapsedEver(n) == lease[todo[n].of] # None

\* The delete repeats the test, since the holder may have renewed in between.
Lapsed(n) ==
    /\ lease[todo[n].of] # None
    /\ lease[todo[n].of].expires <= todo[n].cutoff

Reclaim(n) ==
    /\ todo[n] # None
    /\ IF Lapsed(n)
       THEN /\ counter' = AtLeastZero(counter - todo[n].unspent)
            /\ lease' = [lease EXCEPT ![todo[n].of] = None]
            /\ clean' = FALSE
            /\ reclaimed' = reclaimed + todo[n].unspent
       ELSE UNCHANGED <<storeVars, clean, reclaimed>>
    /\ todo' = [todo EXCEPT ![n] = None]
    /\ UNCHANGED <<clock, blk, mu, cur, mode, job, req, spent, deaths>>

\* The store fails, or the fence turns a superseded leader away.
ReclaimRefused(n) ==
    /\ todo[n] # None
    /\ todo' = [todo EXCEPT ![n] = None]
    /\ UNCHANGED <<clock, storeVars, blk, mu, cur, mode, job, req, spent, clean, reclaimed, deaths>>

-----------------------------------------------------------------------------
(* Processes and time.                                                     *)

AmountsOf(S) == SumFunctionOnSet([c \in Callers |-> req[c].amount], S)

HeldBy(n) == {c \in Callers : req[c].node = n /\ req[c].at = "held"}

\* The process dies.  Its requests in flight may or may not have cost their estimate.
Crash(n) ==
    /\ mode[n] # "down" /\ deaths < MaxDeaths
    /\ deaths' = deaths + 1
    /\ \E S \in SUBSET HeldBy(n) : spent' = spent + AmountsOf(S)
    /\ mode' = [mode EXCEPT ![n] = "down"]
    /\ cur' = [cur EXCEPT ![n] = 0]
    /\ blk' = [b \in Blocks |-> IF b[1] = n THEN EmptyBlock ELSE blk[b]]
    /\ mu' = [b \in Blocks |-> IF b[1] = n THEN None ELSE mu[b]]
    /\ job' = [job EXCEPT ![n] = NoJob]
    /\ todo' = [todo EXCEPT ![n] = None]
    /\ req' = [c \in Callers |-> IF req[c].node = n THEN NoCall ELSE req[c]]
    /\ UNCHANGED <<clock, storeVars, clean, reclaimed>>

\* A process starts under the id of one that is gone: a fresh ledger, the old rows.
Restart(n) ==
    /\ Restarts /\ mode[n] = "down"
    /\ mode' = [mode EXCEPT ![n] = "up"]
    /\ UNCHANGED <<clock, storeVars, blk, mu, cur, job, todo, req, spent, clean, reclaimed, deaths>>

Advance ==
    /\ clock < MaxClock
    /\ \A c \in Callers : req[c].at \in {"finding", "taking", "locking", "drawing"} =>
          clock - req[c].stamp < MaxStall
    /\ clock' = clock + 1
    /\ UNCHANGED <<storeVars, blk, mu, cur, mode, job, todo, req, spent, clean, reclaimed, deaths>>

Request(c) ==
    \/ \E n \in Nodes, a \in Amounts : Reserve(c, n, a)
    \/ Find(c) \/ Take(c) \/ Lock(c) \/ Draw(c) \/ DrawRefused(c) \/ Hold(c) \/ Report(c)
    \/ \E actual \in 0 .. req[c].amount + Overrun : Settle(c, actual)

Node(n) ==
    \/ Maintain(n) \/ Refresh(n) \/ RefreshFault(n) \/ Checkpoint(n)
    \/ Evict(n) \/ Stop(n) \/ ReturnBlock(n) \/ ReturnFault(n) \/ Restore(n) \/ Unlink(n)
    \/ Close(n) \/ Abandon(n) \/ Forsake(n)
    \/ (\E m \in Nodes : Select(n, m)) \/ Reclaim(n) \/ ReclaimRefused(n)
    \/ Crash(n) \/ Restart(n)

Next == Advance \/ (\E c \in Callers : Request(c)) \/ (\E n \in Nodes : Node(n))

Spec == Init /\ [][Next]_vars

-----------------------------------------------------------------------------
(* Properties.                                                             *)

BlockRec == [remaining : Int, expires : Nat, drawn : Nat, checked : Nat \cup {-1},
             pending : Nat, evicted : BOOLEAN]
Jobs     == [at : {"idle", "refreshing", "evicting", "returning", "stopped", "unlinking",
                   "restoring", "abandoning"},
             gen : Gens \cup {0}, stamp : Nat, renew : BOOLEAN, unspent : Nat]
Reclaims == [of : Nodes, unspent : Nat, cutoff : Nat]
Calls    == [at : {"idle", "finding", "taking", "locking", "drawing", "holding", "held",
                   "evicted"},
             node : Nodes \cup {None}, gen : Gens \cup {0}, amount : Nat, stamp : Nat,
             held : Nat, tries : {0, 1}]

\* The state is well formed; in particular the store never holds a negative figure,
\* and a block never counts fewer holds than none.
TypeOK ==
    /\ clock \in Nat /\ counter \in Nat
    /\ lease \in [Nodes -> Leases \cup {None}]
    /\ blk \in [Blocks -> BlockRec]
    /\ mu \in [Blocks -> Nodes \cup Callers \cup {None}]
    /\ cur \in [Nodes -> Gens \cup {0}]
    /\ mode \in [Nodes -> {"up", "closed", "abandoned", "down"}]
    /\ job \in [Nodes -> Jobs]
    /\ todo \in [Nodes -> Reclaims \cup {None}]
    /\ req \in [Callers -> Calls]
    /\ spent \in Nat /\ reclaimed \in Nat /\ deaths \in Nat /\ clean \in BOOLEAN

\* Units taken and not settled, and units drawn and not taken.
Outstanding == AmountsOf({c \in Callers : req[c].at \in {"holding", "held"}})
Afloat == SumFunctionOnSet([b \in Blocks |-> blk[b].remaining], Blocks)
        + SumFunctionOnSet([c \in Callers |-> req[c].held], Callers)
        + SumFunctionOnSet([n \in Nodes |-> job[n].unspent], Nodes)

\* The counter covers what was spent, what is held and what any node could still
\* hand out ("the counter is always at or ahead of reality"), up to what reclaims
\* gave back: across draws, retirement, close, crashes and failed transactions.
CounterAhead == counter + reclaimed >= spent + Outstanding + Afloat

\* "A LIVE lease can never over-grant": spending exceeds the limit by no more than
\* what was reclaimed, whatever the nodes hold at the same time.
NeverOverGrants ==
    Limit > 0 => spent + Outstanding + Afloat <= Limit + reclaimed

\* After a planned shutdown of every node "the counter ends up holding precisely
\* what was spent".
ExactOnClose ==
    /\ \A n \in Nodes : mode[n] = "closed" /\ job[n] = NoJob
    /\ clean /\ deaths = 0
    => counter = spent

\* No draw that raced a retirement leaves a lease row behind that no block in the
\* map renews and nobody is about to return, failed transactions included.  Only a
\* process that took over the id of a dead one finds such a row.
NoOrphanLease ==
    \A n \in Nodes : lease[n] # None /\ mode[n] = "up" /\ deaths = 0 =>
        cur[n] # 0 \/ job[n].at # "idle"

\* "No unit is ever spent against a lease the authority may already have reclaimed":
\* a take whose clock reading is current finds the lease row in the store.  (One that
\* was descheduled since Reserve read the clock may not.)
SpentUnderLease ==
    [][\A c \in Callers :
          req[c].at = "taking" /\ req'[c].at = "holding" /\ req[c].stamp = clock
          => lease[req[c].node] # None]_vars

=============================================================================
