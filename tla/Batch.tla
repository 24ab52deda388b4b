-------------------------------- MODULE Batch --------------------------------
(***************************************************************************)
(* The batch service (internal/batch): a file of rows is validated, waits  *)
(* for one of a few dispatch slots, runs its rows and gets its result      *)
(* files, while its owner may cancel it, its window may pass, the store    *)
(* may fail, and the process may close, stop hard or die.                  *)
(*                                                                         *)
(* One run per batch and process does the work (execute); the sweeper and  *)
(* Cancel act beside it.  Every read-modify-write of a batch record        *)
(* happens under Service.mu and is one step here; row records, result      *)
(* files and the semaphore have steps of their own.  The store survives    *)
(* the process: status, rows and files.                                    *)
(*                                                                         *)
(* Data: a row is unfinished or finished (completed or failed, which only  *)
(* chooses its file), and the result files are the set of rows in them.    *)
(***************************************************************************)
EXTENDS Integers, Sequences, FiniteSets

CONSTANTS
    Batches,
    Rows,
    RowsOf,           \* the rows of each batch
    MaxActiveBatches, \* dispatch slots
    RowConcurrency,   \* rows of one batch in flight at once
    MaxAttempts,      \* tries per row
    MaxFaults,        \* store and blob calls that fail (bound)
    MaxLives          \* processes, one after the other (bound)

ASSUME BatchAssumption ==
    /\ {MaxActiveBatches, RowConcurrency, MaxAttempts, MaxLives} \subseteq Nat \ {0}
    /\ IsFiniteSet(Batches)
    /\ RowsOf \in [Batches -> SUBSET Rows]
    /\ MaxFaults \in Nat

VARIABLES
    status,    \* batches.status in the store, "none" before Create
    rows,      \* the finished rows of each batch, in the store
    files,     \* the rows in its result files
    creating,  \* Create has stored the record and not started the run
    runs,      \* Service.runs
    free,      \* fifoSem.free
    queue,     \* fifoSem.q
    granted,   \* runs that a release has handed a slot they have not taken
    sweep,     \* the sweeper's finalize in progress
    stage,     \* "up", then Close's "closing" and "halted", or "down"
    hard,      \* the base context has ended
    lives,
    faults

store == <<status, rows, files>>
sem == <<free, queue, granted>>
life == <<stage, hard, lives>>
vars == <<store, creating, runs, sem, sweep, life, faults>>

Terminal == {"completed", "failed", "cancelled", "expired"}
Active(b) == status[b] \notin Terminal \cup {"none"}

\* The places of a run, and why it was told to stop.
Places == {"none", "load", "prepare", "acquire", "wait", "enter", "dispatch", "settle",
           "files", "save"}
Reasons == {"none", "cancel", "expire", "shutdown"}

Run == [at : Places, phase : {"pending", "dispatch", "final"}, why : Reasons,
        stop : BOOLEAN, slot : BOOLEAN, todo : SUBSET Rows, flying : SUBSET Rows,
        waits : SUBSET Rows, tries : [Rows -> 0 .. MaxAttempts], bad : BOOLEAN,
        final : {"none", "completed", "cancelled", "expired"}, out : SUBSET Rows]

NoRun == [at |-> "none", phase |-> "pending", why |-> "none", stop |-> FALSE, slot |-> FALSE,
          todo |-> {}, flying |-> {}, waits |-> {}, tries |-> [r \in Rows |-> 0],
          bad |-> FALSE, final |-> "none", out |-> {}]
NoSweep == [at |-> "idle", b |-> "none", out |-> {}]

\* start: a run, stopped from the outset when a cancel is to be honoured.
Started(why) == [NoRun EXCEPT !.at = "load", !.why = why, !.stop = (why # "none")]

Init ==
    /\ status = [b \in Batches |-> "none"]
    /\ rows = [b \in Batches |-> {}] /\ files = [b \in Batches |-> {}]
    /\ creating = {}
    /\ runs = [b \in Batches |-> NoRun]
    /\ free = MaxActiveBatches /\ queue = <<>> /\ granted = {}
    /\ sweep = NoSweep
    /\ stage = "up" /\ hard = FALSE /\ lives = 1 /\ faults = 0

Running == stage # "down"
Closed == stage # "up"

\* A call of the store or of the blobs succeeds or fails; it fails for certain
\* once the context it carries has ended.
Ok == ~hard /\ UNCHANGED faults

Fails ==
    \/ hard /\ UNCHANGED faults
    \/ ~hard /\ faults < MaxFaults /\ faults' = faults + 1

-----------------------------------------------------------------------------
(* Steps of a run.                                                         *)

\* halt: the first reason wins.
Halted(r, why) == [r EXCEPT !.stop = TRUE, !.why = IF @ = "none" THEN why ELSE @]

\* fifoSem.release: to the first waiter, else back to the pool.
Release ==
    IF queue # <<>>
    THEN queue' = Tail(queue) /\ granted' = granted \cup {Head(queue)} /\ UNCHANGED free
    ELSE free' = free + 1 /\ UNCHANGED <<queue, granted>>

\* The run ends: its slot is released, and the service forgets it.
Retire(b) ==
    /\ runs' = [runs EXCEPT ![b] = NoRun]
    /\ IF runs[b].slot THEN Release ELSE UNCHANGED sem

Goto(b, at) == runs' = [runs EXCEPT ![b].at = at] /\ UNCHANGED sem

SetStatus(b, s) == status' = [status EXCEPT ![b] = s] /\ UNCHANGED <<rows, files>>

\* Every step of a run, and what none of them touches.
Step(b, at) ==
    /\ Running /\ runs[b].at = at
    /\ UNCHANGED <<creating, sweep, life>>

\* Create: the record first ...
Create(b) ==
    /\ stage = "up" /\ status[b] = "none"
    /\ SetStatus(b, "validating")
    /\ creating' = creating \cup {b}
    /\ UNCHANGED <<runs, sem, sweep, life, faults>>

\* ... then the run, unless the service was closed in between.
Start(b) ==
    /\ Running /\ b \in creating
    /\ creating' = creating \ {b}
    /\ runs' = IF Closed THEN runs ELSE [runs EXCEPT ![b] = Started("none")]
    /\ UNCHANGED <<store, sem, sweep, life, faults>>

Load(b) ==
    /\ Step(b, "load")
    /\ \/ /\ IF status[b] \in Terminal THEN Retire(b)
             ELSE Goto(b, IF status[b] = "validating" THEN "prepare" ELSE "acquire")
          /\ Ok
       \/ Fails /\ Retire(b)
    /\ UNCHANGED store

\* prepare: bad content fails the batch, a failure of the infrastructure leaves
\* it validating; otherwise the rows are stored, those that exist untouched, and
\* the batch is queued unless it was cancelled meanwhile.
Prepare(b) ==
    /\ Step(b, "prepare")
    /\ \/ /\ IF Active(b) THEN SetStatus(b, "failed") ELSE UNCHANGED store
          /\ Retire(b) /\ Ok
       \/ Fails /\ Retire(b) /\ UNCHANGED store
       \/ /\ IF status[b] = "validating"
             THEN SetStatus(b, "queued") /\ Goto(b, "acquire")
             ELSE UNCHANGED store /\ Retire(b)
          /\ Ok

\* fifoSem.acquire: a closed semaphore refuses, a free slot is taken whatever
\* the run's stop says, else the run waits in order.
Acquire(b) ==
    /\ Step(b, "acquire")
    /\ \/ stage = "halted" /\ Goto(b, "settle")
       \/ /\ stage # "halted" /\ free > 0
          /\ free' = free - 1
          /\ runs' = [runs EXCEPT ![b].at = "enter", ![b].slot = TRUE]
          /\ UNCHANGED <<queue, granted>>
       \/ /\ stage # "halted" /\ free = 0
          /\ queue' = Append(queue, b)
          /\ runs' = [runs EXCEPT ![b].at = "wait"]
          /\ UNCHANGED <<free, granted>>
    /\ UNCHANGED <<store, faults>>

Take(b) ==
    /\ Step(b, "wait") /\ b \in granted
    /\ granted' = granted \ {b}
    /\ runs' = [runs EXCEPT ![b].at = "enter", ![b].slot = TRUE]
    /\ UNCHANGED <<store, free, queue, faults>>

\* The queue less its i-th waiter.
Without(i) == SubSeq(queue, 1, i - 1) \o SubSeq(queue, i + 1, Len(queue))

\* Mutant: a waiter that was handed a slot while it gave up keeps it.
AbandonGranted(b) ==
    /\ Step(b, "wait") /\ (runs[b].stop \/ hard \/ stage = "halted")
    /\ \/ \E i \in DOMAIN queue : queue[i] = b /\ queue' = Without(i)
       \/ (\A i \in DOMAIN queue : queue[i] # b) /\ UNCHANGED queue
    /\ granted' = granted \ {b}
    /\ runs' = [runs EXCEPT ![b].at = "settle"]
    /\ UNCHANGED <<store, free, faults>>

\* abandon: a waiter that gives up leaves the queue; when it is not in it any
\* more the semaphore was closed, or it was handed a slot in the same instant,
\* and hands it on.
Abandon(b) ==
    /\ Step(b, "wait") /\ (runs[b].stop \/ hard \/ stage = "halted")
    /\ \/ /\ \E i \in DOMAIN queue : queue[i] = b /\ queue' = Without(i)
          /\ UNCHANGED <<free, granted>>
       \/ /\ b \notin granted /\ \A i \in DOMAIN queue : queue[i] # b
          /\ UNCHANGED sem
       \/ /\ b \in granted /\ queue # <<>>
          /\ granted' = (granted \ {b}) \cup {Head(queue)} /\ queue' = Tail(queue)
          /\ UNCHANGED free
       \/ /\ b \in granted /\ queue = <<>>
          /\ granted' = granted \ {b} /\ free' = free + 1
          /\ UNCHANGED queue
    /\ runs' = [runs EXCEPT ![b].at = "settle"]
    /\ UNCHANGED <<store, faults>>

\* Mutant: a run that arrives after Close has raised the flag, and before it
\* was halted, is turned away without a reason.
EnterDispatchClosed(b) ==
    /\ Step(b, "enter")
    /\ IF runs[b].stop \/ Closed \/ ~Active(b) \/ status[b] = "cancelling"
       THEN Goto(b, "settle") /\ UNCHANGED <<store, faults>>
       ELSE /\ SetStatus(b, "in_progress")
            /\ runs' = [runs EXCEPT ![b].at = "dispatch", ![b].phase = "dispatch",
                                    ![b].todo = RowsOf[b] \ rows[b]]
            /\ UNCHANGED <<sem, faults>>

\* Mutant: a resumed batch starts again from its first row.
EnterDispatchAll(b) ==
    /\ Step(b, "enter")
    /\ IF runs[b].stop \/ Closed \/ ~Active(b) \/ status[b] = "cancelling"
       THEN /\ runs' = [runs EXCEPT ![b] =
                  [Halted(runs[b], IF Closed THEN "shutdown" ELSE "none") EXCEPT !.at = "settle"]]
            /\ UNCHANGED <<store, sem, faults>>
       ELSE /\ SetStatus(b, "in_progress")
            /\ runs' = [runs EXCEPT ![b].at = "dispatch", ![b].phase = "dispatch",
                                    ![b].todo = RowsOf[b]]
            /\ UNCHANGED <<sem, faults>>

\* enterDispatch, and planRows behind it: a stopped run settles, one that finds
\* the service closed or the store gone leaves the batch to the next process,
\* one that finds it terminal or cancelling settles; else the batch is in
\* progress, and the rows that have not finished are the work.
EnterDispatch(b) ==
    /\ Step(b, "enter")
    /\ \/ /\ runs[b].stop
          /\ Goto(b, "settle") /\ UNCHANGED <<store, faults>>
       \/ /\ ~runs[b].stop
          /\ (Closed /\ UNCHANGED faults) \/ (~Closed /\ Fails)
          /\ runs' = [runs EXCEPT ![b] = [Halted(@, "shutdown") EXCEPT !.at = "settle"]]
          /\ UNCHANGED <<store, sem>>
       \/ /\ ~runs[b].stop /\ ~Closed
          /\ ~Active(b) \/ status[b] = "cancelling"
          /\ Goto(b, "settle") /\ UNCHANGED <<store, faults>>
       \/ /\ ~runs[b].stop /\ ~Closed
          /\ Active(b) /\ status[b] # "cancelling"
          /\ SetStatus(b, "in_progress")
          /\ runs' = [runs EXCEPT ![b].at = "dispatch", ![b].phase = "dispatch",
                                  ![b].todo = RowsOf[b] \ rows[b]]
          /\ UNCHANGED <<sem, faults>>

-----------------------------------------------------------------------------
(* Rows.                                                                   *)

MayStartRow(b) == ~runs[b].stop /\ ~runs[b].bad /\ ~hard

\* A worker takes a row that nobody has taken, or comes back to one after its
\* backoff, and sends it upstream.
RowSend(b, r) ==
    /\ Step(b, "dispatch")
    /\ \/ /\ r \in runs[b].todo /\ MayStartRow(b)
          /\ Cardinality(runs[b].flying \cup runs[b].waits) < RowConcurrency
       \/ r \in runs[b].waits /\ ~runs[b].stop /\ ~hard
    /\ runs' = [runs EXCEPT ![b].todo = @ \ {r}, ![b].waits = @ \ {r},
                            ![b].flying = @ \cup {r}, ![b].tries[r] = @ + 1]
    /\ UNCHANGED <<store, sem, faults>>

\* A retryable outcome with tries left.
RowBackoff(b, r) ==
    /\ Step(b, "dispatch") /\ r \in runs[b].flying /\ ~hard
    /\ runs[b].tries[r] < MaxAttempts
    /\ runs' = [runs EXCEPT ![b].flying = @ \ {r}, ![b].waits = @ \cup {r}]
    /\ UNCHANGED <<store, sem, faults>>

\* settleRow: the outcome is recorded; or the store will not take it, and the
\* dispatch has failed.
RowSettle(b, r) ==
    /\ Step(b, "dispatch") /\ r \in runs[b].flying /\ ~hard
    /\ \/ /\ rows' = [rows EXCEPT ![b] = @ \cup {r}]
          /\ runs' = [runs EXCEPT ![b].flying = @ \ {r}]
          /\ UNCHANGED faults
       \/ /\ Fails
          /\ runs' = [runs EXCEPT ![b].flying = @ \ {r}, ![b].bad = TRUE]
          /\ UNCHANGED rows
    /\ UNCHANGED <<status, files, sem>>

\* A row in flight when the context ends, or in its backoff when the run is
\* stopped, stays queued.
RowLeave(b, r) ==
    /\ Step(b, "dispatch")
    /\ \/ r \in runs[b].flying /\ hard
       \/ r \in runs[b].waits /\ (runs[b].stop \/ hard)
    /\ runs' = [runs EXCEPT ![b].flying = @ \ {r}, ![b].waits = @ \ {r}]
    /\ UNCHANGED <<store, sem, faults>>

\* All workers have returned: a failed dispatch fails the batch, the others
\* settle.  With the context gone the store cannot be asked.
DispatchEnd(b) ==
    /\ Step(b, "dispatch")
    /\ runs[b].flying = {} /\ runs[b].waits = {}
    /\ runs[b].todo = {} \/ ~MayStartRow(b)
    /\ IF runs[b].bad
       THEN /\ IF Active(b) /\ ~hard THEN SetStatus(b, "failed") ELSE UNCHANGED store
            /\ Retire(b)
       ELSE Goto(b, "settle") /\ UNCHANGED store
    /\ UNCHANGED faults

-----------------------------------------------------------------------------
(* finalize.                                                               *)

Earned(why) == CASE why = "cancel" -> "cancelled" [] why = "expire" -> "expired"
                 [] OTHER -> "completed"

\* The store is the authority on whether a cancel was accepted.
Final(b) ==
    IF status[b] = "cancelling" /\ Earned(runs[b].why) = "completed" THEN "cancelled"
    ELSE Earned(runs[b].why)

\* settle: a shutdown writes nothing; anything else is finalized, and from here
\* on the batch cannot be cancelled.
Settle(b) ==
    /\ Step(b, "settle")
    /\ \/ runs[b].why = "shutdown" /\ UNCHANGED faults
       \/ runs[b].why # "shutdown" /\ status[b] \in Terminal /\ UNCHANGED faults
       \/ runs[b].why # "shutdown" /\ status[b] \notin Terminal /\ Fails
    /\ Retire(b) /\ UNCHANGED store

FinalStart(b) ==
    /\ Step(b, "settle")
    /\ ~hard /\ runs[b].why # "shutdown" /\ status[b] \notin Terminal
    /\ runs' = [runs EXCEPT ![b].at = "files", ![b].phase = "final", ![b].final = Final(b)]
    /\ IF Final(b) = "completed" THEN SetStatus(b, "finalizing") ELSE UNCHANGED store
    /\ UNCHANGED <<sem, faults>>

\* The rows are counted and written out without the lock; an error ends the run
\* and leaves the batch as it is.
FinalFiles(b) ==
    /\ Step(b, "files")
    /\ \/ runs' = [runs EXCEPT ![b].at = "save", ![b].out = rows[b]] /\ UNCHANGED sem /\ Ok
       \/ Fails /\ Retire(b)
    /\ UNCHANGED store

\* Mutant: the record is saved as it was read before the files were written.
SavedBlindly(b, final, out) ==
    /\ status' = [status EXCEPT ![b] = final]
    /\ files' = [files EXCEPT ![b] = out]
    /\ UNCHANGED rows

\* The record is read again under the lock; a terminal one is left alone.
Saved(b, final, out) ==
    IF status[b] \in Terminal THEN UNCHANGED store
    ELSE /\ status' = [status EXCEPT ![b] = final]
         /\ files' = [files EXCEPT ![b] = out]
         /\ UNCHANGED rows

FinalSave(b) ==
    /\ Step(b, "save")
    /\ \/ Saved(b, runs[b].final, runs[b].out) /\ Ok
       \/ Fails /\ UNCHANGED store
    /\ Retire(b)

-----------------------------------------------------------------------------
(* The sweeper and the owner.                                              *)

\* Mutant: the sweeper looks only at the batches this process runs.
SweepRuns(b) ==
    /\ stage = "up" /\ sweep.at = "idle" /\ Active(b) /\ b \notin creating /\ runs[b].at # "none"
    /\ runs' = [runs EXCEPT ![b] = Halted(@, "expire")]
    /\ UNCHANGED <<store, creating, sem, sweep, life, faults>>

\* Sweep, for a batch whose window has passed, which may be at any time after
\* Create: a run is told to stop, a batch without one is finalized in place.
Sweep(b) ==
    /\ stage = "up" /\ sweep.at = "idle" /\ Active(b) /\ b \notin creating
    /\ IF runs[b].at # "none"
       THEN runs' = [runs EXCEPT ![b] = Halted(@, "expire")] /\ UNCHANGED sweep
       ELSE sweep' = [NoSweep EXCEPT !.at = "files", !.b = b] /\ UNCHANGED runs
    /\ UNCHANGED <<store, creating, sem, life, faults>>

SweepFiles ==
    /\ Running /\ sweep.at = "files"
    /\ \/ sweep' = [sweep EXCEPT !.at = "save", !.out = rows[sweep.b]] /\ Ok
       \/ Fails /\ sweep' = NoSweep
    /\ UNCHANGED <<store, creating, runs, sem, life>>

SweepSave ==
    /\ Running /\ sweep.at = "save"
    /\ \/ Saved(sweep.b, "expired", sweep.out) /\ Ok
       \/ Fails /\ UNCHANGED store
    /\ sweep' = NoSweep
    /\ UNCHANGED <<creating, runs, sem, life>>

\* Cancel: refused while the result files are written; a dispatching batch
\* drains, any other is cancelled on the spot.  The run is stopped before the
\* record is saved, and stays stopped when the save fails.
Cancel(b) ==
    /\ Running /\ Active(b) /\ status[b] # "finalizing"
    /\ runs[b].at # "none" => runs[b].phase # "final"
    /\ runs' = IF runs[b].at = "none" THEN runs
               ELSE [runs EXCEPT ![b] = Halted(@, "cancel")]
    /\ \/ /\ SetStatus(b, IF runs[b].at # "none" /\ runs[b].phase = "dispatch"
                          THEN "cancelling" ELSE "cancelled")
          /\ UNCHANGED faults
       \/ ~hard /\ Fails /\ UNCHANGED store
    /\ UNCHANGED <<creating, sem, sweep, life>>

-----------------------------------------------------------------------------
(* Close, crash and restart.                                               *)

CloseStart ==
    /\ stage = "up"
    /\ stage' = "closing"
    /\ UNCHANGED <<store, creating, runs, sem, sweep, hard, lives, faults>>

\* The sweeper is waited for, the runs are halted, the semaphore is closed.
CloseHalt ==
    /\ stage = "closing" /\ sweep.at = "idle"
    /\ stage' = "halted"
    /\ runs' = [b \in Batches |-> IF runs[b].at = "none" THEN NoRun
                                  ELSE Halted(runs[b], "shutdown")]
    /\ queue' = <<>>
    /\ UNCHANGED <<store, creating, free, granted, sweep, hard, lives, faults>>

\* The caller's context ends before the drain does.
HardStop ==
    /\ stage = "halted" /\ ~hard
    /\ hard' = TRUE
    /\ UNCHANGED <<store, creating, runs, sem, sweep, stage, lives, faults>>

Gone ==
    /\ stage' = "down" /\ hard' = FALSE
    /\ creating' = {} /\ runs' = [b \in Batches |-> NoRun]
    /\ free' = MaxActiveBatches /\ queue' = <<>> /\ granted' = {} /\ sweep' = NoSweep
    /\ UNCHANGED <<store, lives, faults>>

CloseDone ==
    /\ stage = "halted" /\ creating = {} /\ \A b \in Batches : runs[b].at = "none"
    /\ Gone

Crash == Running /\ lives < MaxLives /\ Gone

\* New and Recover: every batch that is not terminal gets a run, one whose
\* cancel was accepted a stopped one.
Restart ==
    /\ stage = "down" /\ lives < MaxLives
    /\ stage' = "up" /\ lives' = lives + 1
    /\ runs' = [b \in Batches |->
                   IF ~Active(b) THEN NoRun
                   ELSE Started(IF status[b] = "cancelling" THEN "cancel" ELSE "none")]
    /\ UNCHANGED <<store, creating, sem, sweep, hard, faults>>

-----------------------------------------------------------------------------
RunStep(b) ==
    \/ Start(b) \/ Load(b) \/ Prepare(b) \/ Acquire(b) \/ Take(b) \/ Abandon(b)
    \/ EnterDispatch(b) \/ DispatchEnd(b) \/ Settle(b) \/ FinalStart(b)
    \/ FinalFiles(b) \/ FinalSave(b)

RowStep(b, r) == RowSend(b, r) \/ RowBackoff(b, r) \/ RowSettle(b, r) \/ RowLeave(b, r)

Sweeper == (\E b \in Batches : Sweep(b)) \/ SweepFiles \/ SweepSave

Closing == CloseHalt \/ CloseDone

Over == stage = "down" /\ lives = MaxLives /\ UNCHANGED vars

Next ==
    \/ \E b \in Batches : Create(b) \/ RunStep(b) \/ Cancel(b)
    \/ \E b \in Batches, r \in Rows : RowStep(b, r)
    \/ Sweeper \/ CloseStart \/ Closing \/ HardStop \/ Crash \/ Restart \/ Over

Spec == Init /\ [][Next]_vars

\* Goroutines that can run do; the executor answers every row; the sweeper's
\* ticker fires; windows pass; a process that ends is started again.  Each of
\* these steps brings a batch nearer its end, so that it is enough to ask that
\* they do not all stop.
Progress ==
    \/ \E b \in Batches : RunStep(b) \/ \E r \in Rows : RowStep(b, r)
    \/ Sweeper \/ Closing \/ Restart

FairSpec == Spec /\ WF_vars(Progress)

-----------------------------------------------------------------------------
(* Properties.                                                             *)

\* Type correctness of the records, the runs and the semaphore; no row is tried
\* more than MaxAttempts times in a run, and no slot is counted that is not there.
TypeOK ==
    /\ status \in [Batches -> Terminal \cup
           {"none", "validating", "queued", "in_progress", "finalizing", "cancelling"}]
    /\ rows \in [Batches -> SUBSET Rows] /\ files \in [Batches -> SUBSET Rows]
    /\ creating \subseteq Batches
    /\ runs \in [Batches -> Run]
    /\ free \in 0 .. MaxActiveBatches
    /\ granted \subseteq Batches /\ queue \in Seq(Batches)
    /\ sweep \in [at : {"idle", "files", "save"}, b : Batches \cup {"none"}, out : SUBSET Rows]
    /\ stage \in {"up", "closing", "halted", "down"} /\ hard \in BOOLEAN
    /\ lives \in 1 .. MaxLives /\ faults \in 0 .. MaxFaults

\* A batch that says completed is: every row of it finished and is in the result
\* files.  No stop, refusal or shutdown on the way is taken for the end of the
\* work (enterDispatch, dispatch, settle, finalize).
CompletedIsComplete == \A b \in Batches :
    status[b] = "completed" => rows[b] = RowsOf[b] /\ files[b] = RowsOf[b]

\* A batch whose window passed keeps what finished: every row that finished is
\* in its result files, and none finishes after they were written (Sweep,
\* settle, finalize).
ExpiredKeepsRows == \A b \in Batches :
    status[b] = "expired" => rows[b] = files[b]

\* The result files of a batch that ended by itself hold what its record says.
ResultsMatch == CompletedIsComplete /\ ExpiredKeepsRows

\* A finished row is never sent again, whatever happened to the process in
\* between (planRows, settleRow, Recover).
PaidOnce == \A b \in Batches : runs[b].flying \cap rows[b] = {}

\* No dispatch slot is lost or invented, whoever gives up while being handed one
\* (fifoSem.acquire, abandon, release).
SlotsKept ==
    free + Cardinality({b \in Batches : runs[b].slot}) + Cardinality(granted)
        = MaxActiveBatches

\* A batch has one end: the run, the sweeper, Cancel and a later process never
\* rewrite a terminal record.
EndsOnce == [][\A b \in Batches :
    status[b] \in Terminal => status'[b] = status[b] /\ files'[b] = files[b]]_vars

\* Every batch ends: again and again there is a moment at which the process has
\* no batch left that is not terminal (the window and the sweeper see to it
\* where the run gave up).
EveryBatchEnds == []<>(stage = "down" \/ \A b \in Batches : ~Active(b))

\* "The output and error files of a cancelled batch contain every row that
\* finished" (Cancel).  Does not hold of the code, see the README.
CancelKeepsRows == \A b \in Batches :
    status[b] = "cancelled" => rows[b] \subseteq files[b]
=============================================================================
