-------------------------------- MODULE Meter --------------------------------
(***************************************************************************)
(* The meter: where a completed request becomes a usage counter and a      *)
(* ledger row (internal/meter, and storeSink in internal/app/metering.go). *)
(*                                                                         *)
(* An event is counted in a shard and, when it carries a request id and is *)
(* sampled, its trace is pushed on a bounded ring.  Three loops move the   *)
(* data on, each under its own mutex: the numeric loop merges the shards   *)
(* and writes rollups, keeping what the sink refuses in a carry-over file; *)
(* the drain loop moves the ring to a segmented spool on disk; the ship    *)
(* loop offers the spool to the sink and moves a cursor.  Close runs the   *)
(* three once more and ends the process; a crash ends it anywhere.  A      *)
(* restart has only the spool directory: segments, cursor, carry-over.     *)
(*                                                                         *)
(* Data: a record is one unit of space, an offset counts records.  A       *)
(* segment is known by its number: the code keeps its segments sorted by   *)
(* number, so the oldest is the lowest and the newest the highest.  All    *)
(* events fall in one (key, hour), so a rollup is the set of the events it *)
(* counts and stored[e] is how often the store has added event e.          *)
(***************************************************************************)
EXTENDS Integers, Sequences, FiniteSets, FiniteSetsExt, Functions

CONSTANTS
    MaxEvents,    \* events the clients produce (a bound of the model)
    Sampled,      \* the events with a request id that the sampler keeps
    RingSize,     \* Config.TraceQueueSize
    SegRecs,      \* Config.SpoolSegmentBytes, in records
    SpoolMax,     \* Config.SpoolMaxBytes, in records
    SpoolBatch,   \* Config.SpoolBatch
    MaxLives,     \* processes run one after the other on one directory (bound)
    MaxFaults,    \* calls of the sink that do not return nil (bound)
    TornCommit    \* a crash may fall between Commit's unlink and its cursor

ASSUME MeterAssumption ==
    /\ {MaxEvents, RingSize, SegRecs, SpoolMax, SpoolBatch, MaxLives} \subseteq Nat \ {0}
    /\ Sampled \subseteq 1 .. MaxEvents
    /\ MaxFaults \in Nat
    /\ TornCommit \in BOOLEAN

Events == 1 .. MaxEvents

VARIABLES
    lives,     \* which process this is
    up,        \* a process is running
    closer,    \* how far its Close has come
    made,      \* events produced so far
    shards,    \* events counted in memory, not merged
    num,       \* the numeric flush in progress: its step and its buckets
    pending,   \* Meter.pending, the carry-over in memory
    carry,     \* the carry-over file
    stored,    \* how often the store has counted each event
    ring,      \* the trace ring
    drain,     \* the drain in progress: its step and what it popped
    segs,      \* the records of each live segment, by the segment's number
    active,    \* the newest segment has a write handle
    nextSeq,   \* diskSpool.nextSeq
    readOff,   \* diskSpool.readOff, in the oldest segment
    cursor,    \* the cursor file
    ship,      \* the ship in progress
    rows,      \* traces in the store's ledger
    faults     \* sink failures so far

numeric == <<shards, num, pending, carry, stored>>
disk == <<segs, active, nextSeq, readOff, cursor>>
trace == <<ring, drain, disk, ship, rows>>
life == <<lives, up, closer>>
vars == <<life, made, numeric, trace, faults>>

-----------------------------------------------------------------------------
(* The spool directory.                                                    *)

Live == DOMAIN segs
Oldest == Min(Live)
Newest == Max(Live)

\* The records on disk, each named by its segment and the offset behind it.
Spots == {p \in [seq : Live, off : 1 .. SegRecs] : p.off <= Len(segs[p.seq])}

At(p) == segs[p.seq][p.off]

\* Bytes on disk, records already acknowledged in a live segment included.
Total == Cardinality(Spots)

Smaller(a, b) == IF a < b THEN a ELSE b

\* The record that ends at p lies behind the position c.
Behind(p, c) == p.seq > c.seq \/ (p.seq = c.seq /\ p.off > c.off)

Origin == [seq |-> 0, off |-> 0]

\* What openDiskSpool keeps: it unlinks every segment older than the cursor's.
Surviving == Restrict(segs, {s \in Live : s >= cursor.seq})

\* Where it starts to read: the cursor's offset, clamped to the segment, when
\* the oldest surviving segment is the cursor's own.
ResumeAt ==
    IF cursor.seq \in Live THEN Smaller(cursor.off, Len(segs[cursor.seq])) ELSE 0

\* The traces the next process on this directory would offer to the sink.
Recoverable == {At(p) : p \in {q \in Spots : Behind(q, cursor)}}

-----------------------------------------------------------------------------
NoNum == [at |-> "idle", buckets |-> {}]
NoDrain == [at |-> "idle", buf |-> <<>>]
NoShip == [at |-> "idle", upto |-> Origin, batch |-> {}]

\* New, on an empty directory.
Init ==
    /\ lives = 1 /\ up = TRUE /\ closer = "open"
    /\ made = 0
    /\ shards = {} /\ num = NoNum /\ pending = {} /\ carry = {}
    /\ stored = [e \in Events |-> 0]
    /\ ring = <<>> /\ drain = NoDrain
    /\ segs = [s \in {} |-> <<>>] /\ active = FALSE /\ nextSeq = 0 /\ readOff = 0
    /\ cursor = Origin
    /\ ship = NoShip /\ rows = {}
    /\ faults = 0

-----------------------------------------------------------------------------
(* Record.                                                                 *)

\* An event is counted in a shard, and its trace is queued unless it has no id,
\* is sampled out or over the byte budget, or finds the ring full.  Close does
\* not stop a call that looked at the flag before; the ones it refuses leave
\* nothing behind but a count of refusals.
Record ==
    /\ up /\ made < MaxEvents
    /\ made' = made + 1
    /\ shards' = shards \cup {made'}
    /\ ring' = IF made' \in Sampled /\ Len(ring) < RingSize THEN Append(ring, made') ELSE ring
    /\ UNCHANGED <<life, num, pending, carry, stored, drain, disk, ship, rows, faults>>

-----------------------------------------------------------------------------
(* The numeric path.                                                       *)

\* A loop starts its pass while the meter is open; Close starts one pass of
\* each, in the order numeric, drain, ship.
MayStart(stage, next) ==
    \/ closer = "open" /\ UNCHANGED closer
    \/ closer = stage /\ closer' = next

\* Mutant: the file is removed when its buckets are taken up, not when they are
\* written.
FlushMergeEager ==
    /\ up /\ num.at = "idle"
    /\ MayStart("numeric", "drain")
    /\ num' = IF pending \cup shards = {} THEN NoNum
              ELSE [at |-> "write", buckets |-> pending \cup shards]
    /\ pending' = {} /\ shards' = {} /\ carry' = {}
    /\ UNCHANGED <<lives, up, made, stored, trace, faults>>

\* Mutant: a flush with nothing new returns before it looks at the carry-over.
FlushMergeFresh ==
    /\ up /\ num.at = "idle"
    /\ MayStart("numeric", "drain")
    /\ num' = IF shards = {} THEN NoNum
              ELSE [at |-> "write", buckets |-> pending \cup shards]
    /\ pending' = (IF shards = {} THEN pending ELSE {}) /\ shards' = {}
    /\ UNCHANGED <<lives, up, made, carry, stored, trace, faults>>

\* flushNumeric takes the carry-over as the seed and merges the shards into it.
FlushMerge ==
    /\ up /\ num.at = "idle"
    /\ MayStart("numeric", "drain")
    /\ num' = IF pending \cup shards = {} THEN NoNum
              ELSE [at |-> "write", buckets |-> pending \cup shards]
    /\ pending' = {} /\ shards' = {}
    /\ UNCHANGED <<lives, up, made, carry, stored, trace, faults>>

\* MergeRollups adds the buckets to the rows of their hour.
Added == [e \in Events |-> stored[e] + (IF e \in num.buckets THEN 1 ELSE 0)]

\* WriteRollups, in one transaction: accepted; refused; or accepted with the
\* answer lost, which Close's cancelled context is enough for.
FlushWrite ==
    /\ up /\ num.at = "write"
    /\ \/ stored' = Added /\ pending' = {} /\ UNCHANGED faults
       \/ /\ faults < MaxFaults /\ faults' = faults + 1
          /\ stored' \in {stored, Added}
          /\ pending' = num.buckets
    /\ num' = [at |-> "persist", buckets |-> {}]
    /\ UNCHANGED <<life, made, shards, carry, trace>>

\* The deferred persistPendingLocked: the file is replaced, or removed.
FlushPersist ==
    /\ up /\ num.at = "persist"
    /\ carry' = pending
    /\ num' = NoNum
    /\ UNCHANGED <<life, made, shards, pending, stored, trace, faults>>

-----------------------------------------------------------------------------
(* The drain: ring to spool.                                               *)

DrainPop ==
    /\ up /\ drain.at = "idle"
    /\ num.at = "idle" \/ closer = "open"
    /\ MayStart("drain", "ship")
    /\ drain' = IF ring = <<>> THEN NoDrain ELSE [at |-> "append", buf |-> ring]
    /\ ring' = <<>>
    /\ UNCHANGED <<lives, up, made, numeric, disk, ship, rows, faults>>

\* The spool's mutex: a Commit half done shuts Append out, and the reverse.
Committing == ship.at = "cursor"
Appending == drain.at = "locked"

\* activeFor: the newest segment while it is open and has room, else it is
\* sealed and a segment with the next number is created.
Roomy == active /\ Len(segs[Newest]) < SegRecs

Appended(t) ==
    IF Roomy THEN [segs EXCEPT ![Newest] = Append(@, t)]
    ELSE [s \in Live \cup {nextSeq} |-> IF s = nextSeq THEN <<t>> ELSE segs[s]]

\* The spool, the record included, stays within its limit.
Fits == Total + 1 <= SpoolMax

\* Append, one record: a crash between two of them leaves the first.
DrainAppend ==
    /\ up /\ drain.at # "idle" /\ ~Committing
    /\ Fits
    /\ segs' = Appended(Head(drain.buf))
    /\ nextSeq' = IF Roomy THEN nextSeq ELSE nextSeq + 1
    /\ active' = TRUE
    /\ drain' = IF Len(drain.buf) > 1 THEN [at |-> "locked", buf |-> Tail(drain.buf)]
                ELSE IF ring = <<>> THEN NoDrain ELSE [at |-> "append", buf |-> ring]
    /\ ring' = IF Len(drain.buf) > 1 THEN ring ELSE <<>>
    /\ UNCHANGED <<life, made, numeric, readOff, cursor, ship, rows, faults>>

\* ErrSpoolFull, or an error of the file system: what is left of the buffer is
\* dropped, and the drain returns.
DrainFull ==
    /\ up /\ drain.at # "idle" /\ ~Committing
    /\ \/ ~Fits /\ UNCHANGED faults
       \/ Fits /\ faults < MaxFaults /\ faults' = faults + 1
    /\ drain' = NoDrain
    /\ UNCHANGED <<life, made, numeric, ring, disk, ship, rows>>

-----------------------------------------------------------------------------
(* The ship: spool to sink.                                                *)

\* Where the spool is read from, which writeCursor puts in the cursor file: the
\* first record that is not acknowledged.
Position == IF Live = {} THEN Origin ELSE [seq |-> Oldest, off |-> readOff]

Unread == {p \in Spots : Behind(p, Position)}

ShipStart ==
    /\ up /\ ship.at = "idle"
    /\ drain.at = "idle" \/ closer = "open"
    /\ MayStart("ship", "seal")
    /\ ship' = [NoShip EXCEPT !.at = "next"]
    /\ UNCHANGED <<lives, up, made, numeric, ring, drain, disk, rows, faults>>

\* What Next returns when the last record it reads is p.
ReadUpTo(p) == {q \in Unread : ~Behind(q, p)}

\* Next reads on from readOff, at most a batch, and remembers the segment and
\* the offset behind the last record it read.
ShipNext ==
    /\ up /\ ship.at = "next" /\ ~Appending
    /\ \/ Unread = {} /\ ship' = NoShip
       \/ \E p \in Unread :
             /\ Cardinality(ReadUpTo(p)) = Smaller(SpoolBatch, Cardinality(Unread))
             /\ ship' = [at |-> "write", upto |-> p, batch |-> {At(q) : q \in ReadUpTo(p)}]
    /\ UNCHANGED <<life, made, numeric, ring, drain, disk, rows, faults>>

\* WriteTraces: accepted; or refused, or accepted in part or in whole with an
\* error, and then the batch stays in the spool.
ShipWrite ==
    /\ up /\ ship.at = "write"
    /\ \/ /\ rows' = rows \cup ship.batch
          /\ ship' = [ship EXCEPT !.at = "unlink"]
          /\ UNCHANGED faults
       \/ /\ faults < MaxFaults /\ faults' = faults + 1
          /\ rows' \in {rows, rows \cup ship.batch}
          /\ ship' = NoShip
    /\ UNCHANGED <<life, made, numeric, ring, drain, disk>>

Sealed(s) == s < Newest \/ ~active

\* Mutant: a sealed segment is dropped with the first batch read from it.
DroppedSealed ==
    {s \in Live : s < ship.upto.seq \/ (s = ship.upto.seq /\ Sealed(s))}

\* Commit drops the segments before the cursor's, and the cursor's own once it
\* is sealed and read to its end.
Dropped ==
    {s \in Live : \/ s < ship.upto.seq
                  \/ s = ship.upto.seq /\ Sealed(s) /\ ship.upto.off >= Len(segs[s])}

\* Its first half, on the files: unlink the dropped segments, and rewind the
\* active one when it is alone and fully read.
CommitUnlink ==
    /\ up /\ ship.at = "unlink" /\ ~Appending
    /\ LET left == Live \ Dropped
           off == IF ship.upto.seq \in Dropped THEN 0 ELSE ship.upto.off
           rewind == active /\ left = {ship.upto.seq} /\ off >= Len(segs[ship.upto.seq])
       IN /\ segs' = [s \in left |-> IF rewind THEN <<>> ELSE segs[s]]
          /\ readOff' = IF rewind THEN 0 ELSE off
    /\ active' = (active /\ Live' # {})
    /\ ship' = [ship EXCEPT !.at = "cursor"]
    /\ UNCHANGED <<life, made, numeric, ring, drain, nextSeq, cursor, rows, faults>>

\* Mutant: the cursor names the segment only.
CommitCursorOfSegment ==
    /\ up /\ ship.at = "cursor"
    /\ cursor' = [Position EXCEPT !.off = 0]
    /\ ship' = [NoShip EXCEPT !.at = "next"]
    /\ UNCHANGED <<life, made, numeric, ring, drain, segs, active, nextSeq, readOff,
                   rows, faults>>

\* Its second half: the cursor is replaced by a rename.  The next batch follows.
CommitCursor ==
    /\ up /\ ship.at = "cursor"
    /\ cursor' = Position
    /\ ship' = [NoShip EXCEPT !.at = "next"]
    /\ UNCHANGED <<life, made, numeric, ring, drain, segs, active, nextSeq, readOff,
                   rows, faults>>

-----------------------------------------------------------------------------
(* Close, crash and restart.                                               *)

\* closed is raised first; then the loops are told to stop and waited for.
CloseStart ==
    /\ up /\ closer = "open"
    /\ closer' = "stopping"
    /\ UNCHANGED <<lives, up, made, numeric, trace, faults>>

CloseJoin ==
    /\ up /\ closer = "stopping"
    /\ num.at = "idle" /\ drain.at = "idle" /\ ship.at = "idle"
    /\ closer' = "numeric"
    /\ UNCHANGED <<lives, up, made, numeric, trace, faults>>

\* What a process leaves behind: the files and the store.
Ended ==
    /\ up' = FALSE /\ closer' = "open"
    /\ shards' = {} /\ num' = NoNum /\ pending' = {}
    /\ ring' = <<>> /\ drain' = NoDrain /\ ship' = NoShip
    /\ active' = FALSE /\ nextSeq' = 0 /\ readOff' = 0
    /\ UNCHANGED <<lives, made, carry, stored, segs, rows, faults>>

\* diskSpool.Close seals the segments and writes the cursor; the process exits.
CloseSeal ==
    /\ up /\ closer = "seal" /\ ship.at = "idle"
    /\ cursor' = Position
    /\ Ended

Crash ==
    /\ up /\ lives < MaxLives
    /\ ship.at = "cursor" => TornCommit
    /\ Ended
    /\ UNCHANGED cursor

\* New: openDiskSpool, and the carry-over replayed into pending.  Numbering
\* resumes behind the newest segment, which is reopened when it has room.
Restart ==
    /\ ~up /\ lives < MaxLives
    /\ up' = TRUE /\ lives' = lives + 1
    /\ segs' = Surviving
    /\ readOff' = ResumeAt
    /\ nextSeq' = IF Live' = {} THEN 0 ELSE Newest' + 1
    /\ active' = (Live' # {} /\ Len(segs'[Newest']) < SegRecs)
    /\ pending' = carry
    /\ UNCHANGED <<closer, made, shards, num, carry, stored, ring, drain, cursor,
                   ship, rows, faults>>

-----------------------------------------------------------------------------
Numeric == FlushMerge \/ FlushWrite \/ FlushPersist
Drain == DrainPop \/ DrainAppend \/ DrainFull
Ship == ShipStart \/ ShipNext \/ ShipWrite \/ CommitUnlink \/ CommitCursor
Close == CloseJoin \/ CloseSeal

\* The last process has closed: nothing is left to happen.
Over == ~up /\ lives = MaxLives /\ UNCHANGED vars

Next ==
    \/ Record
    \/ Numeric \/ Drain \/ Ship
    \/ CloseStart \/ Close \/ Crash \/ Restart \/ Over

Spec == Init /\ [][Next]_vars

\* The loops run on tickers; a process that ends is started again.
FairSpec ==
    /\ Spec
    /\ WF_vars(Numeric) /\ WF_vars(Drain) /\ WF_vars(Ship)
    /\ WF_vars(Close) /\ WF_vars(Restart)

-----------------------------------------------------------------------------
(* Properties.                                                             *)

\* The counters and the numeric flush.
CountersOK ==
    /\ shards \subseteq Events /\ pending \subseteq Events /\ carry \subseteq Events
    /\ num \in [at : {"idle", "write", "persist"}, buckets : SUBSET Events]
    /\ stored \in [Events -> Nat]

\* The traces in memory: the ring, the drain's buffer and the batch in the sink's hands.
QueuesOK ==
    /\ ring \in Seq(Events) /\ Len(ring) <= RingSize
    /\ drain \in [at : {"idle", "append", "locked"}, buf : Seq(Events)]
    /\ drain.at = "idle" <=> drain.buf = <<>>
    /\ ship \in [at : {"idle", "next", "write", "unlink", "cursor"},
                 upto : [seq : Nat, off : 0 .. SegRecs], batch : SUBSET Events]

\* The spool stays within its cap and a segment within its size.
DiskOK ==
    /\ Live \subseteq Nat /\ IsFiniteSet(Live)
    /\ segs \in [Live -> Seq(Events)] /\ \A s \in Live : Len(segs[s]) <= SegRecs
    /\ Total <= SpoolMax
    /\ active \in BOOLEAN /\ (active => Live # {})
    /\ nextSeq \in Nat /\ readOff \in 0 .. SegRecs
    /\ cursor \in [seq : Nat, off : 0 .. SegRecs]

\* Type correctness of the meter, the spool directory and the store.
TypeOK ==
    /\ lives \in 1 .. MaxLives /\ up \in BOOLEAN
    /\ closer \in {"open", "stopping", "numeric", "drain", "ship", "seal"}
    /\ made \in 0 .. MaxEvents
    /\ CountersOK /\ QueuesOK /\ DiskOK
    /\ rows \subseteq Events
    /\ faults \in 0 .. MaxFaults

Spooled == INSTANCE Delivery WITH Traces <- Events, held <- Recoverable, rows <- rows

\* The spool is an at-least-once queue: a trace Append has taken is found by
\* every later process until the sink has it, and nothing but a delivered
\* trace is ever let go (openDiskSpool, Append, Next, Commit and the cursor).
SpoolDelivers == Spooled!Spec

\* "A crash re-delivers at most one batch": the traces that are in the sink and
\* would be offered again never exceed one batch (Commit and writeCursor).
RedeliversOneBatch == Cardinality(Recoverable \cap rows) <= SpoolBatch

\* What a crash of the process does not take.
Durable == {e \in Events : stored[e] > 0} \cup carry

\* A counter that has reached the carry-over file or the store is never on
\* neither again: flushNumeric and persistPendingLocked replace and remove the
\* file only behind the write that makes it unnecessary.
DurableCounters == [][Durable \subseteq Durable']_vars

\* The carry-over file equals the carry-over in memory whenever no flush is in
\* progress, across restarts too: a crash costs only what no flush has seen.
CarryMatches == (up /\ num.at = "idle") => carry = pending

\* What a crash costs: one batch offered again, and no counter a flush has seen.
CrashCost == RedeliversOneBatch /\ CarryMatches

\* Counting is exactly-once, as an idempotent sink would make it: no event is
\* added to its hour twice (WriteRollups, MergeRollups).  Does not hold of the
\* code when an acknowledgement is lost, see the README.
CountedOnce == \A e \in Events : stored[e] <= 1

\* A record Append has accepted is offered to the sink by whoever runs next,
\* wherever the process died: no spooled trace is neither recoverable nor in
\* the ledger ("Un-drained segments are replayed from the cursor").  Does not hold of
\* the code with TornCommit, see the README.
NoTraceLost == {At(p) : p \in Spots} \subseteq Recoverable \cup rows

\* What the spool directory holds and the store does not have.
Owed == (Recoverable \ rows) \cup {e \in carry : stored[e] = 0}

\* Whatever is spooled is shipped and whatever is carried over is counted, in
\* spite of refusals and crashes: again and again there comes a moment at which
\* nothing the directory holds is still owed to the store (the three loops,
\* and openDiskSpool and readCarry at a restart).
CatchesUp == []<>(Owed = {} \/ ~up)
=============================================================================
