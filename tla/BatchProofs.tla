----------------------------- MODULE BatchProofs -----------------------------
(***************************************************************************)
(* Proofs about Batch, for any number of batches and rows and any number   *)
(* of dispatch slots, failures and processes: no dispatch slot is lost or  *)
(* invented (SlotsKept), a finished row is never sent again (PaidOnce),    *)
(* the result files of a batch that ended by itself hold what its record   *)
(* says (ResultsMatch), and a batch has one end (EndsOnce).                *)
(*                                                                         *)
(* The inductive invariant has a part for every batch, which relates its   *)
(* run to its record and its rows (BatchOK), one for the semaphore         *)
(* (SemOK) and one for the sweeper's finalize (SweepOK).  A step of a run  *)
(* changes one batch, so what it has to show is about that batch's new     *)
(* run and record only (RunStepSound).                                     *)
(***************************************************************************)
EXTENDS Batch, FiniteSetTheorems, SequenceTheorems, TLAPS

Statuses == Terminal \cup
    {"none", "validating", "queued", "in_progress", "finalizing", "cancelling"}

Early == {"none", "load", "prepare", "acquire", "wait", "enter"}

Zeros == [r \in Rows |-> 0]

\* A run in itself: it is stopped exactly when it has a reason, holds a slot only
\* between the semaphore and its end, and has rows out only while it dispatches.
Formed(q) ==
    /\ q \in Run
    /\ q.stop <=> q.why # "none"
    /\ q.slot => q.at \in {"enter", "dispatch", "settle", "files", "save"}
    /\ q.at # "dispatch" => q.flying = {} /\ q.waits = {}
    /\ q.at = "dispatch" => q.phase = "dispatch"
    /\ q.at \in Early => q.tries = Zeros /\ q.todo = {}
    /\ q.todo \cap q.flying = {} /\ q.todo \cap q.waits = {} /\ q.flying \cap q.waits = {}
    /\ \A r \in q.todo : q.tries[r] = 0
    /\ \A r \in q.waits : q.tries[r] < MaxAttempts

\* A run against its batch's status st and finished rows rw: what it still has to do
\* has not finished; until it is stopped or fails it accounts for every row; without a
\* stop it reaches its end only with every row finished, or with a record that another
\* already ended; and what it writes out is what finished.
Working(b, q, st, rw) ==
    /\ rw \subseteq RowsOf[b]
    /\ q.todo \cup q.flying \cup q.waits \subseteq RowsOf[b] \ rw
    /\ q.at = "dispatch" /\ ~q.stop /\ ~q.bad
          => RowsOf[b] \subseteq rw \cup q.todo \cup q.flying \cup q.waits
    /\ q.at = "dispatch" => st \notin Terminal
    /\ q.at # "none" => st # "none"
    /\ q.at = "settle" /\ ~q.stop => rw = RowsOf[b] \/ st \in Terminal \cup {"cancelling"}
    /\ q.at \in {"files", "save"} /\ q.final = "completed" => rw = RowsOf[b]
    /\ q.at = "save" => q.out = rw

\* What a record that ended by itself says of rows and result files.
Recorded(b, st, rw, fl) ==
    /\ st = "completed" => rw = RowsOf[b] /\ fl = RowsOf[b]
    /\ st = "expired" => rw = fl

BatchOK(b) ==
    /\ Formed(runs[b])
    /\ Working(b, runs[b], status[b], rows[b])
    /\ Recorded(b, status[b], rows[b], files[b])
    /\ b \in creating => runs[b].at = "none" /\ status[b] # "none"
    /\ stage = "halted" => runs[b].at = "none" \/ runs[b].stop
    /\ stage = "down" => runs[b].at = "none" /\ b \notin creating

\* The sweeper finalizes only a batch that has no run and gets none meanwhile.
SweepOK ==
    /\ sweep \in [at : {"idle", "files", "save"}, b : Batches \cup {"none"}, out : SUBSET Rows]
    /\ sweep.at # "idle" => /\ sweep.b \in Batches /\ runs[sweep.b].at = "none"
                            /\ sweep.b \notin creating /\ status[sweep.b] # "none"
    /\ sweep.at = "save" => sweep.out = rows[sweep.b]
    /\ stage \in {"halted", "down"} => sweep.at = "idle"

Holding == {b \in Batches : runs[b].slot}

\* The semaphore: those in its queue, and those it has handed a slot, wait; nobody is
\* there twice or in both; and every slot is free, held or handed out.
SemOK ==
    /\ free \in Nat /\ granted \subseteq Batches /\ queue \in Seq(Batches)
    /\ \A i \in 1 .. Len(queue) : runs[queue[i]].at = "wait" /\ queue[i] \notin granted
    /\ \A i, j \in 1 .. Len(queue) : queue[i] = queue[j] => i = j
    /\ \A b \in granted : runs[b].at = "wait"
    /\ free + Cardinality(Holding) + Cardinality(granted) = MaxActiveBatches

Typed ==
    /\ status \in [Batches -> Statuses]
    /\ rows \in [Batches -> SUBSET Rows] /\ files \in [Batches -> SUBSET Rows]
    /\ runs \in [Batches -> Run] /\ creating \subseteq Batches
    /\ stage \in {"up", "closing", "halted", "down"} /\ hard \in BOOLEAN
    /\ hard => stage = "halted"
    /\ lives \in 1 .. MaxLives /\ faults \in 0 .. MaxFaults

\* The inductive invariant.
Sound == Typed /\ (\A b \in Batches : BatchOK(b)) /\ SweepOK /\ SemOK

----------------------------------------------------------------------------
(***************************************************************************)
(* One batch changes.                                                      *)
(***************************************************************************)
Change(b, q, s, w, f) ==
    /\ runs' = [runs EXCEPT ![b] = q] /\ status' = [status EXCEPT ![b] = s]
    /\ rows' = [rows EXCEPT ![b] = w] /\ files' = [files EXCEPT ![b] = f]

\* What the new run and the new record of a batch have to satisfy.
Good(b, q, s, w, f) ==
    /\ Formed(q) /\ Working(b, q, s, w) /\ Recorded(b, s, w, f)
    /\ s \in Statuses /\ w \in SUBSET Rows /\ f \in SUBSET Rows
    /\ stage = "halted" => q.at = "none" \/ q.stop

\* What Change says, batch by batch.
LEMMA ChangeOf ==
    ASSUME Typed, NEW b \in Batches, NEW q \in Run, NEW s \in Statuses,
           NEW w \in SUBSET Rows, NEW f \in SUBSET Rows, Change(b, q, s, w, f)
    PROVE  /\ runs' \in [Batches -> Run] /\ status' \in [Batches -> Statuses]
           /\ rows' \in [Batches -> SUBSET Rows] /\ files' \in [Batches -> SUBSET Rows]
           /\ runs'[b] = q /\ status'[b] = s /\ rows'[b] = w /\ files'[b] = f
           /\ \A c \in Batches : c # b => /\ runs'[c] = runs[c] /\ status'[c] = status[c]
                                          /\ rows'[c] = rows[c] /\ files'[c] = files[c]
<1>1. runs' = [runs EXCEPT ![b] = q] /\ runs \in [Batches -> Run]
  BY DEF Change, Typed
<1>2. status' = [status EXCEPT ![b] = s] /\ status \in [Batches -> Statuses]
  BY DEF Change, Typed
<1>3. rows' = [rows EXCEPT ![b] = w] /\ rows \in [Batches -> SUBSET Rows]
  BY DEF Change, Typed
<1>4. files' = [files EXCEPT ![b] = f] /\ files \in [Batches -> SUBSET Rows]
  BY DEF Change, Typed
<1>5. runs' \in [Batches -> Run] /\ runs'[b] = q /\ \A c \in Batches : c # b => runs'[c] = runs[c]
  BY <1>1
<1>6. /\ status' \in [Batches -> Statuses] /\ status'[b] = s
      /\ \A c \in Batches : c # b => status'[c] = status[c]
  BY <1>2
<1>7. /\ rows' \in [Batches -> SUBSET Rows] /\ rows'[b] = w
      /\ \A c \in Batches : c # b => rows'[c] = rows[c]
  BY <1>3
<1>8. /\ files' \in [Batches -> SUBSET Rows] /\ files'[b] = f
      /\ \A c \in Batches : c # b => files'[c] = files[c]
  BY <1>4
<1> QED BY <1>5, <1>6, <1>7, <1>8

\* A step of a batch's run keeps the invariant when the batch's new run and record are
\* good and the semaphore is.
LEMMA RunStepSound ==
    ASSUME Sound, NEW b \in Batches, NEW q, NEW s, NEW w, NEW f,
           Change(b, q, s, w, f), Good(b, q, s, w, f), runs[b].at # "none", SemOK',
           creating' = creating, sweep' = sweep, stage' = stage, hard' = hard, lives' = lives,
           faults' \in 0 .. MaxFaults
    PROVE  Sound'
<1>1. q \in Run /\ s \in Statuses /\ w \in SUBSET Rows /\ f \in SUBSET Rows
  BY DEF Good, Formed
<1>2. /\ runs' \in [Batches -> Run] /\ status' \in [Batches -> Statuses]
      /\ rows' \in [Batches -> SUBSET Rows] /\ files' \in [Batches -> SUBSET Rows]
      /\ runs'[b] = q /\ status'[b] = s /\ rows'[b] = w /\ files'[b] = f
      /\ \A c \in Batches : c # b => /\ runs'[c] = runs[c] /\ status'[c] = status[c]
                                     /\ rows'[c] = rows[c] /\ files'[c] = files[c]
  BY <1>1, ChangeOf DEF Sound
<1>3. b \notin creating /\ stage # "down"
  BY DEF Sound, BatchOK
<1>4. Typed'
  BY <1>2 DEF Sound, Typed
<1>5. BatchOK(b)'
  BY <1>2, <1>3 DEF BatchOK, Good
<1>6. ASSUME NEW c \in Batches, c # b PROVE BatchOK(c)'
  <2>1. BatchOK(c)
    BY DEF Sound
  <2>2. runs'[c] = runs[c] /\ status'[c] = status[c] /\ rows'[c] = rows[c] /\ files'[c] = files[c]
    BY <1>2, <1>6
  <2> QED BY <2>1, <2>2 DEF BatchOK
<1>7. SweepOK'
  <2>1. SweepOK
    BY DEF Sound
  <2>2. sweep.at # "idle" => sweep.b # b
    BY <2>1 DEF SweepOK
  <2>3. sweep.at # "idle" => /\ runs'[sweep.b] = runs[sweep.b]
                             /\ status'[sweep.b] = status[sweep.b] /\ rows'[sweep.b] = rows[sweep.b]
    BY <1>2, <2>1, <2>2 DEF SweepOK
  <2> QED BY <2>1, <2>3 DEF SweepOK
<1> QED BY <1>4, <1>5, <1>6, <1>7 DEF Sound

\* A call of the store or of the blobs costs at most one of the failures there may be.
LEMMA FaultsCounted ==
    ASSUME Sound, Ok \/ Fails \/ faults' = faults
    PROVE  faults' \in 0 .. MaxFaults
  BY BatchAssumption DEF Sound, Typed, Ok, Fails

\* A batch without a run has nothing to answer for.
LEMMA NoRunGood ==
    /\ Formed(NoRun) /\ NoRun.at = "none" /\ ~NoRun.slot /\ ~NoRun.stop
    /\ NoRun.todo = {} /\ NoRun.flying = {} /\ NoRun.waits = {}
<1>1. Zeros \in [Rows -> 0 .. MaxAttempts]
  BY BatchAssumption DEF Zeros
<1>2. NoRun \in Run
  BY <1>1 DEF NoRun, Run, Places, Reasons, Zeros
<1> QED BY <1>2 DEF NoRun, Formed, Early, Zeros

\* A run that ends leaves nothing that could go wrong, whatever the record says.
LEMMA RetiredGood ==
    ASSUME Sound, NEW b \in Batches, NEW s \in Statuses, NEW f \in SUBSET Rows,
           Recorded(b, s, rows[b], f)
    PROVE  Good(b, NoRun, s, rows[b], f)
<1>1. rows[b] \in SUBSET Rows /\ rows[b] \subseteq RowsOf[b]
  BY DEF Sound, Typed, BatchOK, Working
<1>2. Working(b, NoRun, s, rows[b])
  BY <1>1, NoRunGood DEF Working
<1> QED BY <1>1, <1>2, NoRunGood DEF Good

----------------------------------------------------------------------------
(***************************************************************************)
(* The semaphore.                                                          *)
(***************************************************************************)
LEMMA CountIn ==
    ASSUME NEW S, IsFiniteSet(S), NEW T, NEW x, x \notin S, T = S \cup {x}
    PROVE  Cardinality(T) = Cardinality(S) + 1 /\ Cardinality(S) \in Nat
  BY FS_AddElement, FS_CardinalityType

\* A finite set without one of its elements.
LEMMA CountOut ==
    ASSUME NEW S, IsFiniteSet(S), NEW T, NEW x, x \in S, T = S \ {x}
    PROVE  /\ Cardinality(T) = Cardinality(S) - 1 /\ Cardinality(S) \in Nat
           /\ Cardinality(S) >= 1
<1>1. Cardinality(T) = Cardinality(S) - 1 /\ IsFiniteSet(T)
  BY FS_RemoveElement
<1>2. Cardinality(T) \in Nat /\ Cardinality(S) \in Nat
  BY <1>1, FS_CardinalityType
<1> QED BY <1>1, <1>2

\* The holders of the semaphore are finitely many.
LEMMA SemFinite ==
    ASSUME SemOK
    PROVE  /\ IsFiniteSet(Holding) /\ IsFiniteSet(granted)
           /\ Cardinality(Holding) \in Nat /\ Cardinality(granted) \in Nat
           /\ MaxActiveBatches \in Nat
<1>1. IsFiniteSet(Holding) /\ IsFiniteSet(granted)
  BY BatchAssumption, FS_Subset DEF SemOK, Holding
<1> QED BY <1>1, BatchAssumption, FS_CardinalityType

\* Nothing about the semaphore changes, and no waiter stops to wait.
LEMMA SemQuiet ==
    ASSUME SemOK, free' = free, queue' = queue, granted' = granted,
           \A c \in Batches : /\ runs'[c].slot = runs[c].slot
                              /\ runs[c].at = "wait" => runs'[c].at = "wait"
    PROVE  SemOK'
<1>1. Holding' = Holding
  BY DEF Holding
<1>2. \A i \in 1 .. Len(queue) : queue[i] \in Batches
  BY DEF SemOK
<1>3. \A i \in 1 .. Len(queue) : runs'[queue[i]].at = "wait" /\ queue[i] \notin granted
  BY <1>2 DEF SemOK
<1>4. \A b \in granted : runs'[b].at = "wait"
  BY DEF SemOK
<1> QED BY <1>1, <1>3, <1>4 DEF SemOK

\* A run that waits no longer and holds no slot leaves nothing.
LEMMA SemUnslotted ==
    ASSUME SemOK, NEW b \in Batches, free' = free, queue' = queue, granted' = granted,
           runs[b].at # "wait", ~runs[b].slot, ~runs'[b].slot,
           \A c \in Batches : c # b => runs'[c] = runs[c]
    PROVE  SemOK'
<1>1. \A c \in Batches : /\ c \in Holding' <=> c \in Holding
                         /\ runs[c].at = "wait" => runs'[c].at = "wait"
  BY DEF Holding
<1>2. Holding' = Holding
  BY <1>1 DEF Holding
<1>3. \A i \in 1 .. Len(queue) : queue[i] \in Batches
  BY DEF SemOK
<1>4. \A i \in 1 .. Len(queue) : runs'[queue[i]].at = "wait" /\ queue[i] \notin granted
  BY <1>1, <1>3 DEF SemOK
<1>5. \A c \in granted : runs'[c].at = "wait"
  BY <1>1 DEF SemOK
<1> QED BY <1>2, <1>4, <1>5 DEF SemOK

\* The front of the queue is taken off.
LEMMA QueueTail ==
    ASSUME SemOK, queue # <<>>
    PROVE  /\ Head(queue) \in Batches /\ Head(queue) \notin granted
           /\ runs[Head(queue)].at = "wait" /\ Tail(queue) \in Seq(Batches)
           /\ \A i \in 1 .. Len(Tail(queue)) :
                 /\ i + 1 \in 1 .. Len(queue) /\ Tail(queue)[i] = queue[i + 1]
                 /\ Tail(queue)[i] # Head(queue)
<1>1. queue \in Seq(Batches)
  BY DEF SemOK
<1>2. /\ Head(queue) \in Batches /\ Tail(queue) \in Seq(Batches)
      /\ Len(Tail(queue)) = Len(queue) - 1
      /\ \A i \in 1 .. Len(Tail(queue)) : Tail(queue)[i] = queue[i + 1]
  BY <1>1, HeadTailProperties
<1>3. Head(queue) = queue[1] /\ Len(queue) \in Nat /\ Len(queue) >= 1
  BY <1>1
<1>4. 1 \in 1 .. Len(queue)
  BY <1>3
<1>5. Head(queue) \notin granted /\ runs[Head(queue)].at = "wait"
  BY <1>3, <1>4 DEF SemOK
<1>6. ASSUME NEW i \in 1 .. Len(Tail(queue))
      PROVE  i + 1 \in 1 .. Len(queue) /\ Tail(queue)[i] # Head(queue)
  <2>1. i + 1 \in 1 .. Len(queue) /\ i + 1 # 1
    BY <1>2, <1>3
  <2> QED BY <1>2, <1>3, <1>4, <2>1 DEF SemOK
<1> QED BY <1>2, <1>5, <1>6

\* A slot goes back: to the first waiter, else to the pool.
LEMMA SemRelease ==
    ASSUME SemOK, NEW b \in Batches, runs[b].slot, runs[b].at # "wait", ~runs'[b].slot,
           \A c \in Batches : c # b => runs'[c] = runs[c], Release
    PROVE  SemOK'
<1>1. Holding' = Holding \ {b} /\ b \in Holding
  BY DEF Holding
<1>2. /\ IsFiniteSet(Holding) /\ IsFiniteSet(granted)
      /\ Cardinality(granted) \in Nat /\ MaxActiveBatches \in Nat
  BY SemFinite
<1>3. Cardinality(Holding') = Cardinality(Holding) - 1 /\ Cardinality(Holding) \in Nat
  BY <1>1, <1>2, CountOut
<1>4. free \in Nat /\ granted \subseteq Batches /\ queue \in Seq(Batches)
      /\ free + Cardinality(Holding) + Cardinality(granted) = MaxActiveBatches
  BY DEF SemOK
<1>5. \A c \in Batches : runs[c].at = "wait" => runs'[c].at = "wait"
  OBVIOUS
<1>6. CASE queue # <<>>
  <2> DEFINE h == Head(queue)
  <2>1. queue' = Tail(queue) /\ granted' = granted \cup {h} /\ free' = free
    BY <1>6 DEF Release
  <2>2. /\ h \in Batches /\ h \notin granted /\ runs[h].at = "wait" /\ Tail(queue) \in Seq(Batches)
        /\ \A i \in 1 .. Len(Tail(queue)) :
              /\ i + 1 \in 1 .. Len(queue) /\ Tail(queue)[i] = queue[i + 1]
              /\ Tail(queue)[i] # h
    BY <1>6, QueueTail
  <2> HIDE DEF h
  <2>3. Cardinality(granted') = Cardinality(granted) + 1
    BY <1>2, <2>1, <2>2, CountIn
  <2>4. free' + Cardinality(Holding') + Cardinality(granted') = MaxActiveBatches
    BY <1>2, <1>3, <1>4, <2>1, <2>3
  <2>5. ASSUME NEW i \in 1 .. Len(queue')
        PROVE  runs'[queue'[i]].at = "wait" /\ queue'[i] \notin granted'
    <3>1. i + 1 \in 1 .. Len(queue) /\ queue'[i] = queue[i + 1] /\ queue'[i] # h
      BY <2>1, <2>2
    <3>2. queue[i + 1] \in Batches /\ runs[queue[i + 1]].at = "wait" /\ queue[i + 1] \notin granted
      BY <1>4, <3>1 DEF SemOK
    <3> QED BY <1>5, <2>1, <3>1, <3>2
  <2>6. \A i, j \in 1 .. Len(queue') : queue'[i] = queue'[j] => i = j
    <3>1. ASSUME NEW i \in 1 .. Len(queue'), NEW j \in 1 .. Len(queue'), queue'[i] = queue'[j]
          PROVE  i = j
      <4>1. /\ i + 1 \in 1 .. Len(queue) /\ j + 1 \in 1 .. Len(queue)
            /\ queue[i + 1] = queue[j + 1]
        BY <2>1, <2>2, <3>1
      <4>2. i + 1 = j + 1
        BY <4>1 DEF SemOK
      <4> QED BY <4>2
    <3> QED BY <3>1
  <2>7. \A c \in granted' : runs'[c].at = "wait"
    BY <1>4, <1>5, <2>1, <2>2 DEF SemOK
  <2>8. free' \in Nat /\ granted' \subseteq Batches /\ queue' \in Seq(Batches)
    BY <1>4, <2>1, <2>2
  <2> QED BY <2>4, <2>5, <2>6, <2>7, <2>8 DEF SemOK
<1>7. CASE queue = <<>>
  <2>1. free' = free + 1 /\ queue' = queue /\ granted' = granted
    BY <1>7 DEF Release
  <2>2. free' + Cardinality(Holding') + Cardinality(granted') = MaxActiveBatches
    BY <1>2, <1>3, <1>4, <2>1
  <2>3. \A i \in 1 .. Len(queue) : queue[i] \in Batches
    BY <1>4
  <2>4. \A i \in 1 .. Len(queue) : runs'[queue[i]].at = "wait" /\ queue[i] \notin granted
    BY <1>5, <2>3 DEF SemOK
  <2>5. \A c \in granted : runs'[c].at = "wait"
    BY <1>4, <1>5 DEF SemOK
  <2>6. free' \in Nat
    BY <1>4, <2>1
  <2> QED BY <1>4, <2>1, <2>2, <2>4, <2>5, <2>6 DEF SemOK
<1> QED BY <1>6, <1>7

\* The end of a run gives its slot back, if it has one.
LEMMA SemRetire ==
    ASSUME Sound, NEW b \in Batches, runs[b].at # "wait", Retire(b)
    PROVE  SemOK'
<1>1. SemOK /\ runs \in [Batches -> Run]
  BY DEF Sound, Typed
<1>2. runs' = [runs EXCEPT ![b] = NoRun]
  BY DEF Retire
<1>3. runs'[b] = NoRun /\ \A c \in Batches : c # b => runs'[c] = runs[c]
  BY <1>1, <1>2
<1>4. ~runs'[b].slot
  BY <1>3, NoRunGood
<1>5. CASE runs[b].slot
  <2>1. Release
    BY <1>5 DEF Retire
  <2> QED BY <1>1, <1>3, <1>4, <1>5, <2>1, SemRelease
<1>6. CASE ~runs[b].slot
  <2>1. free' = free /\ queue' = queue /\ granted' = granted
    BY <1>6 DEF Retire, sem
  <2> QED BY <1>1, <1>3, <1>4, <1>6, <2>1, SemUnslotted
<1> QED BY <1>5, <1>6

----------------------------------------------------------------------------
(***************************************************************************)
(* The steps of a run.                                                     *)
(***************************************************************************)
LEMMA StepFrame ==
    ASSUME NEW b \in Batches, NEW l, Step(b, l)
    PROVE  /\ runs[b].at = l /\ creating' = creating /\ sweep' = sweep
           /\ stage' = stage /\ hard' = hard /\ lives' = lives
  BY DEF Step, life

\* A run that ends, with the record as it is or as the run leaves it.
LEMMA RetireSound ==
    ASSUME Sound, NEW b \in Batches, runs[b].at \notin {"none", "wait"}, Retire(b),
           NEW s \in Statuses, NEW f \in SUBSET Rows, Recorded(b, s, rows[b], f),
           status' = [status EXCEPT ![b] = s], rows' = rows,
           files' = [files EXCEPT ![b] = f],
           creating' = creating, sweep' = sweep, stage' = stage, hard' = hard, lives' = lives,
           faults' \in 0 .. MaxFaults
    PROVE  Sound'
<1>1. runs' = [runs EXCEPT ![b] = NoRun]
  BY DEF Retire
<1>2. rows' = [rows EXCEPT ![b] = rows[b]]
  BY DEF Sound, Typed
<1>3. Change(b, NoRun, s, rows[b], f)
  BY <1>1, <1>2 DEF Change
<1>4. Good(b, NoRun, s, rows[b], f)
  BY RetiredGood
<1>5. SemOK'
  BY SemRetire
<1> QED BY <1>3, <1>4, <1>5, RunStepSound

\* A run ends and gives back its slot; the store is as it was.
LEMMA RetireQuietly ==
    ASSUME Sound, NEW b \in Batches, runs[b].at \notin {"none", "wait"}, Retire(b),
           status' = status, rows' = rows, files' = files,
           creating' = creating, sweep' = sweep, stage' = stage, hard' = hard, lives' = lives,
           faults' \in 0 .. MaxFaults
    PROVE  Sound'
<1>1. status' = [status EXCEPT ![b] = status[b]] /\ files' = [files EXCEPT ![b] = files[b]]
      /\ status[b] \in Statuses /\ files[b] \in SUBSET Rows
  BY DEF Sound, Typed
<1>2. Recorded(b, status[b], rows[b], files[b])
  BY DEF Sound, BatchOK
<1> QED BY <1>1, <1>2, RetireSound

\* A run that fails its batch.
LEMMA RetireFailed ==
    ASSUME Sound, NEW b \in Batches, runs[b].at \notin {"none", "wait"}, Retire(b),
           SetStatus(b, "failed"),
           creating' = creating, sweep' = sweep, stage' = stage, hard' = hard, lives' = lives,
           faults' \in 0 .. MaxFaults
    PROVE  Sound'
<1>1. /\ status' = [status EXCEPT ![b] = "failed"] /\ rows' = rows
      /\ files' = [files EXCEPT ![b] = files[b]] /\ files[b] \in SUBSET Rows
  BY DEF Sound, Typed, SetStatus
<1>2. "failed" \in Statuses /\ Recorded(b, "failed", rows[b], files[b])
  BY DEF Statuses, Terminal, Recorded
<1> QED BY <1>1, <1>2, RetireSound

\* A run moves on, its record unchanged or with status s, its rows as they are.
LEMMA MoveSound ==
    ASSUME Sound, NEW b \in Batches, runs[b].at # "none", NEW q, NEW s \in Statuses,
           runs' = [runs EXCEPT ![b] = q], status' = [status EXCEPT ![b] = s],
           rows' = rows, files' = files,
           Formed(q), Working(b, q, s, rows[b]), Recorded(b, s, rows[b], files[b]),
           stage = "halted" => q.at = "none" \/ q.stop,
           SemOK', creating' = creating, sweep' = sweep, stage' = stage, hard' = hard,
           lives' = lives, faults' \in 0 .. MaxFaults
    PROVE  Sound'
<1>1. rows' = [rows EXCEPT ![b] = rows[b]] /\ files' = [files EXCEPT ![b] = files[b]]
      /\ rows[b] \in SUBSET Rows /\ files[b] \in SUBSET Rows
  BY DEF Sound, Typed
<1>2. Change(b, q, s, rows[b], files[b])
  BY <1>1 DEF Change
<1>3. Good(b, q, s, rows[b], files[b])
  BY <1>1 DEF Good
<1> QED BY <1>2, <1>3, RunStepSound

\* The parts of the invariant that a step of b's run starts from.
LEMMA Parts ==
    ASSUME Sound, NEW b \in Batches
    PROVE  /\ runs[b] \in Run /\ Formed(runs[b]) /\ Working(b, runs[b], status[b], rows[b])
           /\ Recorded(b, status[b], rows[b], files[b])
           /\ stage = "halted" => runs[b].at = "none" \/ runs[b].stop
           /\ status[b] \in Statuses /\ status = [status EXCEPT ![b] = status[b]]
           /\ runs \in [Batches -> Run] /\ SemOK
  BY DEF Sound, Typed, BatchOK

\* A change of one run that leaves its slot, and is not of a waiter.
LEMMA SemMove ==
    ASSUME Sound, NEW b \in Batches, NEW q, runs' = [runs EXCEPT ![b] = q],
           q.slot = runs[b].slot, runs[b].at = "wait" => q.at = "wait",
           free' = free, queue' = queue, granted' = granted
    PROVE  SemOK'
<1>1. SemOK /\ runs \in [Batches -> Run]
  BY DEF Sound, Typed
<1>2. runs'[b] = q /\ \A c \in Batches : c # b => runs'[c] = runs[c]
  BY <1>1
<1>3. \A c \in Batches : /\ runs'[c].slot = runs[c].slot
                         /\ runs[c].at = "wait" => runs'[c].at = "wait"
  BY <1>2
<1> QED BY <1>1, <1>3, SemQuiet

\* Before the semaphore: load and prepare.
LEMMA EarlyMove ==
    ASSUME Sound, NEW b \in Batches, runs[b].at \in {"load", "prepare"},
           NEW l \in {"prepare", "acquire"}, Goto(b, l),
           NEW s \in {"validating", "queued", status[b]}, status' = [status EXCEPT ![b] = s],
           rows' = rows, files' = files, creating' = creating, sweep' = sweep,
           stage' = stage, hard' = hard, lives' = lives, faults' \in 0 .. MaxFaults
    PROVE  Sound'
<1> DEFINE q == [runs[b] EXCEPT !.at = l]
<1>1. runs' = [runs EXCEPT ![b] = q] /\ free' = free /\ queue' = queue /\ granted' = granted
  BY DEF Goto, sem
<1>2. /\ runs[b] \in Run /\ Formed(runs[b]) /\ Working(b, runs[b], status[b], rows[b])
      /\ Recorded(b, status[b], rows[b], files[b])
      /\ stage = "halted" => runs[b].at = "none" \/ runs[b].stop
      /\ status[b] \in Statuses
  BY Parts
<1>3. q \in Run
  BY <1>2 DEF Run, Places
<1>4. /\ q.at = l /\ q.stop = runs[b].stop /\ q.why = runs[b].why /\ q.slot = runs[b].slot
      /\ q.todo = runs[b].todo /\ q.flying = runs[b].flying /\ q.waits = runs[b].waits
      /\ q.tries = runs[b].tries
  BY <1>2 DEF Run
<1> HIDE DEF q
<1>5. Formed(q)
  BY <1>2, <1>3, <1>4 DEF Formed, Early
<1>6. s \in Statuses /\ s # "none"
  BY <1>2 DEF Statuses, Working
<1>7. Working(b, q, s, rows[b])
  BY <1>2, <1>4, <1>6 DEF Working
<1>8. Recorded(b, s, rows[b], files[b])
  BY <1>2 DEF Recorded
<1>9. SemOK'
  BY <1>1, <1>4, SemMove
<1>10. stage = "halted" => q.at = "none" \/ q.stop
  BY <1>2, <1>4
<1> QED BY <1>1, <1>5, <1>6, <1>7, <1>8, <1>9, <1>10, MoveSound

\* execute reads the rows of the batch.
LEMMA LoadSound ==
    ASSUME Sound, NEW b \in Batches, Load(b)
    PROVE  Sound'
<1>1. /\ runs[b].at = "load" /\ creating' = creating /\ sweep' = sweep
      /\ stage' = stage /\ hard' = hard /\ lives' = lives
  BY StepFrame DEF Load
<1>2. status' = status /\ rows' = rows /\ files' = files
  BY DEF Load, store
<1>3. faults' \in 0 .. MaxFaults
  BY FaultsCounted DEF Load
<1>4. CASE Retire(b)
  BY <1>1, <1>2, <1>3, <1>4, RetireQuietly
<1>5. CASE \E l \in {"prepare", "acquire"} : Goto(b, l)
  <2>1. PICK l \in {"prepare", "acquire"} : Goto(b, l)
    BY <1>5
  <2>2. status' = [status EXCEPT ![b] = status[b]]
    BY <1>2, Parts
  <2> QED BY <1>1, <1>2, <1>3, <2>1, <2>2, EarlyMove
<1> QED BY <1>4, <1>5 DEF Load

\* execute writes the prepared rows and moves the record to in_progress.
LEMMA PrepareSound ==
    ASSUME Sound, NEW b \in Batches, Prepare(b)
    PROVE  Sound'
<1>1. /\ runs[b].at = "prepare" /\ creating' = creating /\ sweep' = sweep
      /\ stage' = stage /\ hard' = hard /\ lives' = lives
  BY StepFrame DEF Prepare
<1>2. faults' \in 0 .. MaxFaults
  BY FaultsCounted DEF Prepare
<1>3. CASE Retire(b) /\ UNCHANGED store
  BY <1>1, <1>2, <1>3, RetireQuietly DEF store
<1>4. CASE Retire(b) /\ SetStatus(b, "failed")
  BY <1>1, <1>2, <1>4, RetireFailed
<1>5. CASE SetStatus(b, "queued") /\ Goto(b, "acquire")
  <2>1. status' = [status EXCEPT ![b] = "queued"] /\ rows' = rows /\ files' = files
    BY <1>5 DEF SetStatus
  <2> QED BY <1>1, <1>2, <1>5, <2>1, EarlyMove
<1> QED BY <1>3, <1>4, <1>5 DEF Prepare

----------------------------------------------------------------------------
\* A slot is taken from the pool.
LEMMA SemTakeFree ==
    ASSUME Sound, NEW b \in Batches, NEW q, runs' = [runs EXCEPT ![b] = q], q.slot = TRUE,
           runs[b].at # "wait", ~runs[b].slot, free > 0, free' = free - 1,
           queue' = queue, granted' = granted
    PROVE  SemOK'
<1>1. SemOK /\ runs \in [Batches -> Run]
  BY DEF Sound, Typed
<1>2. runs'[b] = q /\ \A c \in Batches : c # b => runs'[c] = runs[c]
  BY <1>1
<1>3. Holding' = Holding \cup {b} /\ b \notin Holding
  BY <1>2 DEF Holding
<1>4. /\ IsFiniteSet(Holding) /\ Cardinality(granted) \in Nat /\ MaxActiveBatches \in Nat
      /\ Cardinality(Holding) \in Nat
  BY <1>1, SemFinite
<1>5. Cardinality(Holding') = Cardinality(Holding) + 1
  BY <1>3, <1>4, CountIn
<1>6. free \in Nat /\ queue \in Seq(Batches) /\ granted \subseteq Batches
      /\ free + Cardinality(Holding) + Cardinality(granted) = MaxActiveBatches
  BY <1>1 DEF SemOK
<1>7. free' \in Nat /\ free' + Cardinality(Holding') + Cardinality(granted') = MaxActiveBatches
  BY <1>4, <1>5, <1>6
<1>8. \A c \in Batches : runs[c].at = "wait" => runs'[c].at = "wait"
  BY <1>2
<1>9. \A i \in 1 .. Len(queue) : queue[i] \in Batches
  BY <1>6
<1>10. \A i \in 1 .. Len(queue) : runs'[queue[i]].at = "wait" /\ queue[i] \notin granted
  BY <1>1, <1>8, <1>9 DEF SemOK
<1>11. \A c \in granted : runs'[c].at = "wait"
  BY <1>1, <1>6, <1>8 DEF SemOK
<1> QED BY <1>1, <1>6, <1>7, <1>10, <1>11 DEF SemOK

\* A run joins the end of the queue.
LEMMA SemEnqueue ==
    ASSUME Sound, NEW b \in Batches, NEW q, runs' = [runs EXCEPT ![b] = q], q.at = "wait",
           q.slot = runs[b].slot, runs[b].at # "wait", queue' = Append(queue, b),
           free' = free, granted' = granted
    PROVE  SemOK'
<1>1. SemOK /\ runs \in [Batches -> Run]
  BY DEF Sound, Typed
<1>2. runs'[b] = q /\ \A c \in Batches : c # b => runs'[c] = runs[c]
  BY <1>1
<1>3. \A c \in Batches : /\ runs'[c].slot = runs[c].slot
                         /\ runs[c].at = "wait" => runs'[c].at = "wait"
  BY <1>2
<1>4. Holding' = Holding
  BY <1>3 DEF Holding
<1>5. /\ free \in Nat /\ queue \in Seq(Batches) /\ granted \subseteq Batches
      /\ \A c \in granted : runs[c].at = "wait"
      /\ \A i \in 1 .. Len(queue) : runs[queue[i]].at = "wait" /\ queue[i] \notin granted
      /\ \A i, j \in 1 .. Len(queue) : queue[i] = queue[j] => i = j
  BY <1>1 DEF SemOK
<1>6. b \notin granted /\ \A i \in 1 .. Len(queue) : queue[i] # b /\ queue[i] \in Batches
  BY <1>5
<1>7. /\ queue' \in Seq(Batches) /\ Len(queue') = Len(queue) + 1 /\ Len(queue) \in Nat
      /\ \A i \in 1 .. Len(queue) : queue'[i] = queue[i]
      /\ queue'[Len(queue) + 1] = b
  BY <1>5, AppendProperties
<1>8. \A i \in 1 .. Len(queue') : i \in 1 .. Len(queue) \/ i = Len(queue) + 1
  BY <1>7
<1>9. \A i \in 1 .. Len(queue') : runs'[queue'[i]].at = "wait" /\ queue'[i] \notin granted
  BY <1>2, <1>3, <1>5, <1>6, <1>7, <1>8
<1>10. \A i, j \in 1 .. Len(queue') : queue'[i] = queue'[j] => i = j
  <2> SUFFICES ASSUME NEW i \in 1 .. Len(queue'), NEW j \in 1 .. Len(queue'), queue'[i] = queue'[j]
               PROVE  i = j
    OBVIOUS
  <2> QED BY <1>5, <1>6, <1>7, <1>8
<1>11. \A c \in granted : runs'[c].at = "wait"
  BY <1>3, <1>5
<1>12. free + Cardinality(Holding) + Cardinality(granted) = MaxActiveBatches
  BY <1>1 DEF SemOK
<1> QED BY <1>4, <1>5, <1>7, <1>9, <1>10, <1>11, <1>12 DEF SemOK

\* From the semaphore on: a run that goes to enter or settle with nothing started.
LEMMA IdleMove ==
    ASSUME Sound, NEW b \in Batches, runs[b].at \in {"acquire", "wait", "enter"},
           NEW l \in {"wait", "enter", "settle"}, NEW t \in BOOLEAN, NEW why \in Reasons,
           NEW stop \in BOOLEAN, stop <=> why # "none", runs[b].stop => stop,
           t => l \in {"enter", "settle"},
           l = "settle" /\ ~stop => status[b] \in Terminal \cup {"cancelling"},
           runs' = [runs EXCEPT ![b] = [runs[b] EXCEPT !.at = l, !.slot = t, !.why = why,
                                                       !.stop = stop]],
           status' = status, rows' = rows, files' = files, SemOK', creating' = creating,
           sweep' = sweep, stage' = stage, hard' = hard, lives' = lives,
           faults' \in 0 .. MaxFaults
    PROVE  Sound'
<1> DEFINE q == [runs[b] EXCEPT !.at = l, !.slot = t, !.why = why, !.stop = stop]
<1>1. runs' = [runs EXCEPT ![b] = q]
  OBVIOUS
<1>2. /\ runs[b] \in Run /\ Formed(runs[b]) /\ Working(b, runs[b], status[b], rows[b])
      /\ Recorded(b, status[b], rows[b], files[b])
      /\ stage = "halted" => runs[b].at = "none" \/ runs[b].stop
      /\ status[b] \in Statuses /\ status = [status EXCEPT ![b] = status[b]]
  BY Parts
<1>3. q \in Run
  BY <1>2 DEF Run, Places
<1>4. /\ q.at = l /\ q.stop = stop /\ q.why = why /\ q.slot = t
      /\ q.todo = runs[b].todo /\ q.flying = runs[b].flying /\ q.waits = runs[b].waits
      /\ q.tries = runs[b].tries
  BY <1>2 DEF Run
<1> HIDE DEF q
<1>5. Formed(q)
  BY <1>2, <1>3, <1>4 DEF Formed, Early
<1>6. Working(b, q, status[b], rows[b])
  BY <1>2, <1>4 DEF Working
<1>7. stage = "halted" => q.at = "none" \/ q.stop
  BY <1>2, <1>4
<1> QED BY <1>1, <1>2, <1>5, <1>6, <1>7, MoveSound

\* acquire: refused, served from the pool, or queued.
LEMMA AcquireSound ==
    ASSUME Sound, NEW b \in Batches, Acquire(b)
    PROVE  Sound'
<1>1. /\ runs[b].at = "acquire" /\ creating' = creating /\ sweep' = sweep
      /\ stage' = stage /\ hard' = hard /\ lives' = lives
  BY StepFrame DEF Acquire
<1>2. status' = status /\ rows' = rows /\ files' = files /\ faults' \in 0 .. MaxFaults
  BY FaultsCounted DEF Acquire, store
<1>3. /\ runs[b] \in Run /\ Formed(runs[b])
      /\ stage = "halted" => runs[b].at = "none" \/ runs[b].stop
  BY Parts
<1>4. /\ ~runs[b].slot /\ runs[b].why \in Reasons /\ runs[b].stop \in BOOLEAN
      /\ runs[b].stop <=> runs[b].why # "none"
  BY <1>1, <1>3 DEF Formed, Run
<1>5. ASSUME NEW l, NEW t
      PROVE  [runs[b] EXCEPT !.at = l, !.slot = t]
                = [runs[b] EXCEPT !.at = l, !.slot = t, !.why = runs[b].why, !.stop = runs[b].stop]
  BY <1>3 DEF Run
<1>6. ASSUME NEW l
      PROVE  [runs[b] EXCEPT !.at = l]
                = [runs[b] EXCEPT !.at = l, !.slot = FALSE, !.why = runs[b].why,
                                  !.stop = runs[b].stop]
  BY <1>3, <1>4 DEF Run
<1>7. CASE stage = "halted" /\ Goto(b, "settle")
  <2> DEFINE q == [runs[b] EXCEPT !.at = "settle", !.slot = FALSE, !.why = runs[b].why,
                                  !.stop = runs[b].stop]
  <2>1. /\ runs' = [runs EXCEPT ![b] = [runs[b] EXCEPT !.at = "settle"]]
        /\ free' = free /\ queue' = queue /\ granted' = granted
    BY <1>7 DEF Goto, sem
  <2>2. runs' = [runs EXCEPT ![b] = q]
    BY <1>6, <2>1
  <2>3. q.slot = runs[b].slot
    BY <1>3, <1>4 DEF Run
  <2>4. SemOK'
    <3> HIDE DEF q
    <3> QED BY <1>1, <2>1, <2>2, <2>3, SemMove
  <2>5. runs[b].stop
    BY <1>1, <1>3, <1>7
  <2> QED BY <1>1, <1>2, <1>4, <2>2, <2>4, <2>5, IdleMove
<1>8. CASE /\ stage # "halted" /\ free > 0 /\ free' = free - 1
           /\ runs' = [runs EXCEPT ![b].at = "enter", ![b].slot = TRUE]
           /\ UNCHANGED <<queue, granted>>
  <2> DEFINE q == [runs[b] EXCEPT !.at = "enter", !.slot = TRUE, !.why = runs[b].why,
                                  !.stop = runs[b].stop]
  <2>1. runs' = [runs EXCEPT ![b] = [runs[b] EXCEPT !.at = "enter", !.slot = TRUE]]
    BY <1>8
  <2>2. runs' = [runs EXCEPT ![b] = q]
    BY <1>5, <2>1
  <2>3. q.slot = TRUE
    BY <1>3 DEF Run
  <2>4. SemOK'
    <3> HIDE DEF q
    <3> QED BY <1>1, <1>4, <1>8, <2>2, <2>3, SemTakeFree
  <2> QED BY <1>1, <1>2, <1>4, <2>2, <2>4, IdleMove
<1>9. CASE /\ stage # "halted" /\ queue' = Append(queue, b)
           /\ runs' = [runs EXCEPT ![b].at = "wait"]
           /\ UNCHANGED <<free, granted>>
  <2> DEFINE q == [runs[b] EXCEPT !.at = "wait", !.slot = FALSE, !.why = runs[b].why,
                                  !.stop = runs[b].stop]
  <2>1. runs' = [runs EXCEPT ![b] = [runs[b] EXCEPT !.at = "wait"]]
    BY <1>9
  <2>2. runs' = [runs EXCEPT ![b] = q]
    BY <1>6, <2>1
  <2>3. q.slot = runs[b].slot /\ q.at = "wait"
    BY <1>3, <1>4 DEF Run
  <2>4. SemOK'
    <3> HIDE DEF q
    <3> QED BY <1>1, <1>9, <2>2, <2>3, SemEnqueue
  <2> QED BY <1>1, <1>2, <1>4, <2>2, <2>4, IdleMove
<1> QED BY <1>7, <1>8, <1>9 DEF Acquire

\* Who leaves the queue, or the slot it was handed, disturbs no other waiter.
LEMMA SemLeave ==
    ASSUME Sound, NEW b \in Batches, NEW q, runs' = [runs EXCEPT ![b] = q], ~q.slot,
           ~runs[b].slot, b \notin granted, free' = free, granted' = granted,
           queue' \in Seq(Batches),
           \A i \in 1 .. Len(queue') : /\ queue'[i] # b
                                       /\ \E k \in 1 .. Len(queue) : queue'[i] = queue[k],
           \A i, j \in 1 .. Len(queue') : queue'[i] = queue'[j] => i = j
    PROVE  SemOK'
<1>1. SemOK /\ runs \in [Batches -> Run]
  BY DEF Sound, Typed
<1>2. runs'[b] = q /\ \A c \in Batches : c # b => runs'[c] = runs[c]
  BY <1>1
<1>3. Holding' = Holding
  <2>1. \A c \in Batches : runs'[c].slot <=> runs[c].slot
    BY <1>2
  <2> QED BY <2>1 DEF Holding
<1>4. /\ free \in Nat /\ queue \in Seq(Batches) /\ granted \subseteq Batches
      /\ \A c \in granted : runs[c].at = "wait"
      /\ \A i \in 1 .. Len(queue) : runs[queue[i]].at = "wait" /\ queue[i] \notin granted
      /\ free + Cardinality(Holding) + Cardinality(granted) = MaxActiveBatches
  BY <1>1 DEF SemOK
<1>5. \A c \in granted : runs'[c].at = "wait"
  BY <1>2, <1>4
<1>6. \A i \in 1 .. Len(queue') : queue'[i] \in Batches
  OBVIOUS
<1>7. \A i \in 1 .. Len(queue') : runs'[queue'[i]].at = "wait" /\ queue'[i] \notin granted'
  BY <1>2, <1>4, <1>6
<1> QED BY <1>3, <1>4, <1>5, <1>7 DEF SemOK

\* What is left of a queue of distinct waiters when the k-th leaves it.
LEMMA QueueWithout ==
    ASSUME SemOK, NEW k \in DOMAIN queue
    PROVE  /\ Without(k) \in Seq(Batches)
           /\ \A i \in 1 .. Len(Without(k)) :
                 /\ Without(k)[i] # queue[k]
                 /\ \E m \in 1 .. Len(queue) : Without(k)[i] = queue[m]
           /\ \A i, j \in 1 .. Len(Without(k)) : Without(k)[i] = Without(k)[j] => i = j
<1>1. /\ queue \in Seq(Batches) /\ Len(queue) \in Nat /\ k \in 1 .. Len(queue)
      /\ \A i \in 1 .. Len(queue) : queue[i] \in Batches
      /\ \A i, j \in 1 .. Len(queue) : queue[i] = queue[j] => i = j
  BY DEF SemOK
<1> DEFINE n == Len(queue)
           u == SubSeq(queue, 1, k - 1)
           v == SubSeq(queue, k + 1, n)
           z == Without(k)
<1>2. /\ u \in Seq(Batches) /\ Len(u) = k - 1 /\ \A i \in 1 .. k - 1 : u[i] = queue[i]
  <2>1. 1 \in Int /\ k - 1 \in Int /\ \A i \in 1 .. k - 1 : queue[i] \in Batches
    BY <1>1
  <2>2. /\ u \in Seq(Batches) /\ Len(u) = IF 1 <= k - 1 THEN k - 1 - 1 + 1 ELSE 0
        /\ \A i \in 1 .. k - 1 - 1 + 1 : u[i] = queue[1 + i - 1]
    BY <2>1, SubSeqProperties
  <2> QED BY <1>1, <2>2
<1>3. /\ v \in Seq(Batches) /\ Len(v) = n - k /\ \A i \in 1 .. n - k : v[i] = queue[k + i]
  <2>1. k + 1 \in Int /\ n \in Int /\ \A i \in k + 1 .. n : queue[i] \in Batches
    BY <1>1
  <2>2. PICK m \in Int : m = k + 1 /\ \A i \in m .. n : queue[i] \in Batches
    BY <2>1
  <2>3. /\ SubSeq(queue, m, n) \in Seq(Batches)
        /\ Len(SubSeq(queue, m, n)) = IF m <= n THEN n - m + 1 ELSE 0
        /\ \A i \in 1 .. n - m + 1 : SubSeq(queue, m, n)[i] = queue[m + i - 1]
    BY <2>1, <2>2, SubSeqProperties
  <2>4. v = SubSeq(queue, m, n)
    BY <2>2
  <2> HIDE DEF v
  <2> QED BY <1>1, <2>2, <2>3, <2>4
<1>4. z = u \o v
  BY DEF Without
<1> HIDE DEF u, v, z, n
<1>5. /\ z \in Seq(Batches) /\ Len(z) = Len(u) + Len(v)
      /\ \A i \in 1 .. Len(u) + Len(v) : z[i] = IF i <= Len(u) THEN u[i] ELSE v[i - Len(u)]
  BY <1>2, <1>3, <1>4, ConcatProperties
<1>6. n \in Nat /\ Len(z) = n - 1 /\ n = Len(queue)
  BY <1>1, <1>2, <1>3, <1>5 DEF n
<1>7. ASSUME NEW i \in 1 .. Len(z)
      PROVE  z[i] = IF i < k THEN queue[i] ELSE queue[i + 1]
  <2>1. i \in 1 .. Len(u) + Len(v)
    BY <1>5
  <2>2. CASE i < k
    BY <1>1, <1>2, <1>5, <2>1, <2>2
  <2>3. CASE ~(i < k)
    <3>1. i - (k - 1) \in 1 .. n - k /\ k + (i - (k - 1)) = i + 1
      BY <1>1, <1>6, <2>3
    <3>2. z[i] = v[i - (k - 1)]
      BY <1>1, <1>2, <1>5, <2>1, <2>3
    <3> QED BY <1>3, <2>3, <3>1, <3>2
  <2> QED BY <2>2, <2>3
<1> DEFINE P(i) == IF i < k THEN i ELSE i + 1
<1>8. \A i \in 1 .. Len(z) : P(i) \in 1 .. Len(queue) /\ P(i) # k /\ z[i] = queue[P(i)]
  BY <1>1, <1>6, <1>7
<1>9. \A i, j \in 1 .. Len(z) : P(i) = P(j) => i = j
  BY <1>1, <1>6
<1> HIDE DEF P
<1>10. \A i \in 1 .. Len(z) : z[i] # queue[k]
  BY <1>1, <1>8
<1>11. \A i, j \in 1 .. Len(z) : z[i] = z[j] => i = j
  BY <1>1, <1>8, <1>9
<1>12. \A i \in 1 .. Len(z) : \E m \in 1 .. Len(queue) : z[i] = queue[m]
  BY <1>8
<1> QED BY <1>5, <1>10, <1>11, <1>12 DEF z

\* The slot a waiter was handed becomes its own.
LEMMA SemTake ==
    ASSUME Sound, NEW b \in Batches, NEW q, runs' = [runs EXCEPT ![b] = q], q.slot = TRUE,
           ~runs[b].slot, b \in granted, granted' = granted \ {b}, free' = free, queue' = queue
    PROVE  SemOK'
<1>1. SemOK /\ runs \in [Batches -> Run]
  BY DEF Sound, Typed
<1>2. runs'[b] = q /\ \A c \in Batches : c # b => runs'[c] = runs[c]
  BY <1>1
<1>3. Holding' = Holding \cup {b} /\ b \notin Holding
  BY <1>2 DEF Holding
<1>4. /\ IsFiniteSet(Holding) /\ IsFiniteSet(granted) /\ Cardinality(Holding) \in Nat
  BY <1>1, SemFinite
<1>5. Cardinality(Holding') = Cardinality(Holding) + 1
  BY <1>3, <1>4, CountIn
<1>6. Cardinality(granted') = Cardinality(granted) - 1 /\ Cardinality(granted) \in Nat
  BY <1>4, CountOut
<1>7. /\ free \in Nat /\ queue \in Seq(Batches) /\ granted \subseteq Batches
      /\ \A c \in granted : runs[c].at = "wait"
      /\ \A i \in 1 .. Len(queue) : runs[queue[i]].at = "wait" /\ queue[i] \notin granted
      /\ \A i, j \in 1 .. Len(queue) : queue[i] = queue[j] => i = j
      /\ free + Cardinality(Holding) + Cardinality(granted) = MaxActiveBatches
  BY <1>1 DEF SemOK
<1>8. free' + Cardinality(Holding') + Cardinality(granted') = MaxActiveBatches
  BY <1>4, <1>5, <1>6, <1>7
<1>9. \A c \in granted' : runs'[c].at = "wait"
  BY <1>2, <1>7
<1>10. \A i \in 1 .. Len(queue) : queue[i] \in Batches /\ queue[i] # b
  BY <1>7
<1>11. \A i \in 1 .. Len(queue) : runs'[queue[i]].at = "wait" /\ queue[i] \notin granted'
  BY <1>2, <1>7, <1>10
<1>12. granted' \subseteq Batches
  BY <1>7
<1> QED BY <1>7, <1>8, <1>9, <1>11, <1>12 DEF SemOK

\* The slot a waiter was handed while it gave up is handed on.
LEMMA SemHandOn ==
    ASSUME Sound, NEW b \in Batches, NEW q, runs' = [runs EXCEPT ![b] = q], ~q.slot,
           ~runs[b].slot, b \in granted,
           \/ /\ queue # <<>> /\ granted' = (granted \ {b}) \cup {Head(queue)}
              /\ queue' = Tail(queue) /\ free' = free
           \/ granted' = granted \ {b} /\ free' = free + 1 /\ queue' = queue
    PROVE  SemOK'
<1>1. SemOK /\ runs \in [Batches -> Run]
  BY DEF Sound, Typed
<1>2. runs'[b] = q /\ \A c \in Batches : c # b => runs'[c] = runs[c]
  BY <1>1
<1>3. Holding' = Holding
  <2>1. \A c \in Batches : runs'[c].slot <=> runs[c].slot
    BY <1>2
  <2> QED BY <2>1 DEF Holding
<1>4. /\ IsFiniteSet(granted) /\ Cardinality(Holding) \in Nat
  BY <1>1, SemFinite
<1> DEFINE g == granted \ {b}
<1>5. Cardinality(g) = Cardinality(granted) - 1 /\ Cardinality(granted) \in Nat
      /\ Cardinality(granted) >= 1
  BY <1>4, CountOut
<1>6. /\ free \in Nat /\ queue \in Seq(Batches) /\ granted \subseteq Batches
      /\ \A c \in granted : runs[c].at = "wait"
      /\ \A i \in 1 .. Len(queue) : runs[queue[i]].at = "wait" /\ queue[i] \notin granted
      /\ \A i, j \in 1 .. Len(queue) : queue[i] = queue[j] => i = j
      /\ free + Cardinality(Holding) + Cardinality(granted) = MaxActiveBatches
  BY <1>1 DEF SemOK
<1>7. \A i \in 1 .. Len(queue) : queue[i] \in Batches /\ queue[i] # b
  BY <1>6
<1>8. \A i \in 1 .. Len(queue) : runs'[queue[i]].at = "wait" /\ queue[i] \notin granted
  BY <1>2, <1>6, <1>7
<1>9. CASE granted' = granted \ {b} /\ free' = free + 1 /\ queue' = queue
  <2>1. free' \in Nat /\ free' + Cardinality(Holding') + Cardinality(granted') = MaxActiveBatches
    BY <1>3, <1>4, <1>5, <1>6, <1>9
  <2>2. \A c \in granted' : runs'[c].at = "wait"
    BY <1>2, <1>6, <1>9
  <2>3. \A i \in 1 .. Len(queue') : runs'[queue'[i]].at = "wait" /\ queue'[i] \notin granted'
    BY <1>8, <1>9
  <2>4. granted' \subseteq Batches
    BY <1>6, <1>9
  <2> QED BY <1>6, <1>9, <2>1, <2>2, <2>3, <2>4 DEF SemOK
<1>10. CASE /\ queue # <<>> /\ granted' = (granted \ {b}) \cup {Head(queue)}
            /\ queue' = Tail(queue) /\ free' = free
  <2> DEFINE h == Head(queue)
  <2>1. /\ h \in Batches /\ h \notin granted /\ runs[h].at = "wait" /\ Tail(queue) \in Seq(Batches)
        /\ \A i \in 1 .. Len(Tail(queue)) :
              /\ i + 1 \in 1 .. Len(queue) /\ Tail(queue)[i] = queue[i + 1]
              /\ Tail(queue)[i] # h
    BY <1>1, <1>10, QueueTail
  <2>2. granted' = g \cup {h} /\ h # b
    BY <1>10, <2>1
  <2>3. IsFiniteSet(g)
    BY <1>4, FS_Subset
  <2> HIDE DEF h, g
  <2>4. h \notin g
    BY <2>1 DEF g
  <2>5. Cardinality(granted') = Cardinality(g) + 1
    BY <2>2, <2>3, <2>4, CountIn
  <2>6. free' + Cardinality(Holding') + Cardinality(granted') = MaxActiveBatches
    BY <1>3, <1>4, <1>5, <1>6, <1>10, <2>5
  <2>7. \A c \in granted' : runs'[c].at = "wait"
    BY <1>2, <1>6, <2>1, <2>2 DEF g
  <2>8. ASSUME NEW i \in 1 .. Len(queue')
        PROVE  runs'[queue'[i]].at = "wait" /\ queue'[i] \notin granted'
    <3>1. i + 1 \in 1 .. Len(queue) /\ queue'[i] = queue[i + 1] /\ queue'[i] # h
      BY <1>10, <2>1
    <3>2. runs'[queue[i + 1]].at = "wait" /\ queue[i + 1] \notin granted
      BY <1>8, <3>1
    <3> QED BY <2>2, <3>1, <3>2 DEF g
  <2>9. \A i, j \in 1 .. Len(queue') : queue'[i] = queue'[j] => i = j
    <3>1. ASSUME NEW i \in 1 .. Len(queue'), NEW j \in 1 .. Len(queue'), queue'[i] = queue'[j]
          PROVE  i = j
      <4>1. /\ i + 1 \in 1 .. Len(queue) /\ j + 1 \in 1 .. Len(queue)
            /\ queue[i + 1] = queue[j + 1]
        BY <1>10, <2>1, <3>1
      <4>2. i + 1 = j + 1
        BY <1>6, <4>1
      <4> QED BY <4>2
    <3> QED BY <3>1
  <2>10. granted' \subseteq Batches /\ queue' \in Seq(Batches) /\ free' \in Nat
    BY <1>6, <1>10, <2>1, <2>2 DEF g
  <2> QED BY <2>6, <2>7, <2>8, <2>9, <2>10 DEF SemOK
<1> QED BY <1>9, <1>10

\* Once the service has halted, and so once its context has ended, every run is stopped.
LEMMA HaltedStops ==
    ASSUME Sound, NEW b \in Batches, runs[b].at # "none", runs[b].stop \/ hard \/ stage = "halted"
    PROVE  runs[b].stop
  BY DEF Sound, Typed, BatchOK

\* Acquire returns with the slot that was granted.
LEMMA TakeSound ==
    ASSUME Sound, NEW b \in Batches, Take(b)
    PROVE  Sound'
<1>1. /\ runs[b].at = "wait" /\ creating' = creating /\ sweep' = sweep
      /\ stage' = stage /\ hard' = hard /\ lives' = lives
  BY StepFrame DEF Take
<1>2. status' = status /\ rows' = rows /\ files' = files /\ faults' \in 0 .. MaxFaults
  BY FaultsCounted DEF Take, store
<1>3. /\ runs[b] \in Run /\ Formed(runs[b])
  BY Parts
<1>4. /\ ~runs[b].slot /\ runs[b].why \in Reasons /\ runs[b].stop \in BOOLEAN
      /\ runs[b].stop <=> runs[b].why # "none"
  BY <1>1, <1>3 DEF Formed, Run
<1> DEFINE q == [runs[b] EXCEPT !.at = "enter", !.slot = TRUE, !.why = runs[b].why,
                                !.stop = runs[b].stop]
<1>5. runs' = [runs EXCEPT ![b] = [runs[b] EXCEPT !.at = "enter", !.slot = TRUE]]
  BY DEF Take
<1>6. [runs[b] EXCEPT !.at = "enter", !.slot = TRUE] = q
  BY <1>3 DEF Run
<1>7. runs' = [runs EXCEPT ![b] = q]
  BY <1>5, <1>6
<1>8. q.slot = TRUE
  BY <1>3 DEF Run
<1>9. b \in granted /\ granted' = granted \ {b} /\ free' = free /\ queue' = queue
  BY DEF Take
<1>10. SemOK'
  <2> HIDE DEF q
  <2> QED BY <1>4, <1>7, <1>8, <1>9, SemTake
<1> QED BY <1>1, <1>2, <1>4, <1>7, <1>10, IdleMove

\* Acquire returns without a slot; one granted in the meantime is passed on.
LEMMA AbandonSound ==
    ASSUME Sound, NEW b \in Batches, Abandon(b)
    PROVE  Sound'
<1>1. /\ runs[b].at = "wait" /\ creating' = creating /\ sweep' = sweep
      /\ stage' = stage /\ hard' = hard /\ lives' = lives
  BY StepFrame DEF Abandon
<1>2. status' = status /\ rows' = rows /\ files' = files /\ faults' \in 0 .. MaxFaults
  BY FaultsCounted DEF Abandon, store
<1>3. /\ runs[b] \in Run /\ Formed(runs[b]) /\ SemOK
  BY Parts
<1>4. /\ ~runs[b].slot /\ runs[b].why \in Reasons /\ runs[b].stop \in BOOLEAN
      /\ runs[b].stop <=> runs[b].why # "none"
  BY <1>1, <1>3 DEF Formed, Run
<1>5. runs[b].stop
  BY <1>1, HaltedStops DEF Abandon
<1> DEFINE q == [runs[b] EXCEPT !.at = "settle", !.slot = FALSE, !.why = runs[b].why,
                                !.stop = runs[b].stop]
<1>6. runs' = [runs EXCEPT ![b] = [runs[b] EXCEPT !.at = "settle"]]
  BY DEF Abandon
<1>7. [runs[b] EXCEPT !.at = "settle"] = q
  BY <1>3, <1>4 DEF Run
<1>8. runs' = [runs EXCEPT ![b] = q]
  BY <1>6, <1>7
<1>9. ~q.slot
  BY <1>3 DEF Run
<1>10. SemOK'
  <2> HIDE DEF q
  <2>1. CASE (\E i \in DOMAIN queue : queue[i] = b /\ queue' = Without(i)) /\ UNCHANGED <<free, granted>>
    <3>1. PICK k \in DOMAIN queue : queue[k] = b /\ queue' = Without(k)
      BY <2>1
    <3>2. /\ Without(k) \in Seq(Batches)
          /\ \A i \in 1 .. Len(Without(k)) :
                /\ Without(k)[i] # queue[k]
                /\ \E m \in 1 .. Len(queue) : Without(k)[i] = queue[m]
          /\ \A i, j \in 1 .. Len(Without(k)) : Without(k)[i] = Without(k)[j] => i = j
      BY <1>3, QueueWithout
    <3>3. k \in 1 .. Len(queue)
      BY <1>3 DEF SemOK
    <3>4. b \notin granted
      BY <1>3, <3>1, <3>3 DEF SemOK
    <3>5. free' = free /\ granted' = granted
      BY <2>1
    <3>6. /\ queue' \in Seq(Batches)
          /\ \A i \in 1 .. Len(queue') : /\ queue'[i] # b
                                         /\ \E m \in 1 .. Len(queue) : queue'[i] = queue[m]
          /\ \A i, j \in 1 .. Len(queue') : queue'[i] = queue'[j] => i = j
      BY <3>1, <3>2
    <3> QED BY <1>4, <1>8, <1>9, <3>4, <3>5, <3>6, SemLeave
  <2>2. CASE b \notin granted /\ (\A i \in DOMAIN queue : queue[i] # b) /\ UNCHANGED sem
    <3>1. free' = free /\ granted' = granted /\ queue' = queue
      BY <2>2 DEF sem
    <3>2. /\ queue \in Seq(Batches) /\ \A i \in 1 .. Len(queue) : queue[i] # b
          /\ \A i, j \in 1 .. Len(queue) : queue[i] = queue[j] => i = j
      BY <1>3, <2>2 DEF SemOK
    <3>3. /\ queue' \in Seq(Batches)
          /\ \A i \in 1 .. Len(queue') : /\ queue'[i] # b
                                         /\ \E m \in 1 .. Len(queue) : queue'[i] = queue[m]
          /\ \A i, j \in 1 .. Len(queue') : queue'[i] = queue'[j] => i = j
      BY <3>1, <3>2
    <3> QED BY <1>4, <1>8, <1>9, <2>2, <3>1, <3>3, SemLeave
  <2>3. CASE /\ b \in granted
             /\ \/ /\ queue # <<>> /\ granted' = (granted \ {b}) \cup {Head(queue)}
                   /\ queue' = Tail(queue) /\ free' = free
                \/ granted' = granted \ {b} /\ free' = free + 1 /\ queue' = queue
    BY <1>4, <1>8, <1>9, <2>3, SemHandOn
  <2> QED BY <2>1, <2>2, <2>3 DEF Abandon
<1> QED BY <1>1, <1>2, <1>4, <1>5, <1>8, <1>10, IdleMove

\* enterDispatch: every refusal has a reason or a record that ended; else the rows that
\* have not finished are the work.
LEMMA EnterDispatchSound ==
    ASSUME Sound, NEW b \in Batches, EnterDispatch(b)
    PROVE  Sound'
<1>1. /\ runs[b].at = "enter" /\ creating' = creating /\ sweep' = sweep
      /\ stage' = stage /\ hard' = hard /\ lives' = lives
  BY StepFrame DEF EnterDispatch
<1>2. /\ runs[b] \in Run /\ Formed(runs[b]) /\ SemOK
      /\ Working(b, runs[b], status[b], rows[b]) /\ Recorded(b, status[b], rows[b], files[b])
      /\ status[b] \in Statuses
  BY Parts
<1>3. /\ runs[b].why \in Reasons /\ runs[b].stop \in BOOLEAN /\ runs[b].slot \in BOOLEAN
      /\ runs[b].stop <=> runs[b].why # "none"
  BY <1>2 DEF Formed, Run
<1>4. faults' \in 0 .. MaxFaults
  BY FaultsCounted DEF EnterDispatch
<1>5. ASSUME Goto(b, "settle"), UNCHANGED store,
             runs[b].stop \/ status[b] \in Terminal \cup {"cancelling"}
      PROVE  Sound'
  <2> DEFINE q == [runs[b] EXCEPT !.at = "settle", !.slot = runs[b].slot, !.why = runs[b].why,
                                  !.stop = runs[b].stop]
  <2>1. /\ runs' = [runs EXCEPT ![b] = [runs[b] EXCEPT !.at = "settle"]]
        /\ free' = free /\ queue' = queue /\ granted' = granted
    BY <1>5 DEF Goto, sem
  <2>2. [runs[b] EXCEPT !.at = "settle"] = q
    BY <1>2 DEF Run
  <2>3. runs' = [runs EXCEPT ![b] = q]
    BY <2>1, <2>2
  <2>4. q.slot = runs[b].slot
    BY <1>2 DEF Run
  <2>5. SemOK'
    <3> HIDE DEF q
    <3> QED BY <1>1, <2>1, <2>3, <2>4, SemMove
  <2>6. status' = status /\ rows' = rows /\ files' = files
    BY <1>5 DEF store
  <2> QED BY <1>1, <1>3, <1>4, <1>5, <2>3, <2>5, <2>6, IdleMove
<1>6. CASE runs[b].stop /\ Goto(b, "settle") /\ UNCHANGED <<store, faults>>
  BY <1>5, <1>6
<1>7. CASE /\ ~runs[b].stop
           /\ runs' = [runs EXCEPT ![b] = [Halted(@, "shutdown") EXCEPT !.at = "settle"]]
           /\ UNCHANGED <<store, sem>>
  <2> DEFINE q == [runs[b] EXCEPT !.at = "settle", !.slot = runs[b].slot, !.why = "shutdown",
                                  !.stop = TRUE]
  <2>1. [Halted(runs[b], "shutdown") EXCEPT !.at = "settle"] = q
    BY <1>2, <1>3, <1>7 DEF Run, Halted
  <2>2. runs' = [runs EXCEPT ![b] = q]
    BY <1>7, <2>1
  <2>3. q.slot = runs[b].slot
    BY <1>2 DEF Run
  <2>4. free' = free /\ queue' = queue /\ granted' = granted
        /\ status' = status /\ rows' = rows /\ files' = files
    BY <1>7 DEF store, sem
  <2>5. SemOK'
    <3> HIDE DEF q
    <3> QED BY <1>1, <2>2, <2>3, <2>4, SemMove
  <2>6. "shutdown" \in Reasons /\ "shutdown" # "none"
    BY DEF Reasons
  <2> QED BY <1>1, <1>3, <1>4, <2>2, <2>4, <2>5, <2>6, IdleMove
<1>8. CASE /\ ~Active(b) \/ status[b] = "cancelling"
           /\ Goto(b, "settle") /\ UNCHANGED <<store, faults>>
  <2>1. status[b] \in Terminal \cup {"cancelling"}
    BY <1>1, <1>2, <1>8 DEF Active, Working
  <2> QED BY <1>5, <1>8, <2>1
<1>9. CASE /\ ~runs[b].stop /\ ~Closed /\ Active(b)
           /\ SetStatus(b, "in_progress")
           /\ runs' = [runs EXCEPT ![b].at = "dispatch", ![b].phase = "dispatch",
                                  ![b].todo = RowsOf[b] \ rows[b]]
           /\ UNCHANGED <<sem, faults>>
  <2> DEFINE w == RowsOf[b] \ rows[b]
             q == [runs[b] EXCEPT !.at = "dispatch", !.phase = "dispatch", !.todo = w]
  <2>1. runs' = [runs EXCEPT ![b] = q]
    BY <1>9
  <2>2. w \in SUBSET Rows
    BY BatchAssumption
  <2>3. q \in Run
    <3>1. ASSUME NEW a \in Places, NEW p \in {"pending", "dispatch", "final"}, NEW t \in SUBSET Rows
          PROVE  [runs[b] EXCEPT !.at = a, !.phase = p, !.todo = t] \in Run
      BY <1>2 DEF Run
    <3>2. "dispatch" \in Places /\ "dispatch" \in {"pending", "dispatch", "final"}
      BY DEF Places
    <3> QED BY <2>2, <3>1, <3>2
  <2>4. /\ q.at = "dispatch" /\ q.phase = "dispatch" /\ q.todo = w
        /\ q.stop = runs[b].stop /\ q.why = runs[b].why /\ q.slot = runs[b].slot
        /\ q.flying = runs[b].flying /\ q.waits = runs[b].waits /\ q.tries = runs[b].tries
        /\ q.bad = runs[b].bad
    BY <1>2 DEF Run
  <2> HIDE DEF q
  <2>5. runs[b].flying = {} /\ runs[b].waits = {} /\ runs[b].tries = Zeros
    BY <1>1, <1>2 DEF Formed, Early
  <2>6. \A r \in w : q.tries[r] = 0
    BY <2>2, <2>4, <2>5 DEF Zeros
  <2>7. Formed(q)
    BY <1>2, <2>3, <2>4, <2>5, <2>6 DEF Formed, Early
  <2>8. rows[b] \subseteq RowsOf[b]
    BY <1>2 DEF Working
  <2>9. Working(b, q, "in_progress", rows[b])
    BY <2>4, <2>5, <2>8 DEF Working, Terminal
  <2>10. "in_progress" \in Statuses /\ Recorded(b, "in_progress", rows[b], files[b])
    BY DEF Statuses, Recorded
  <2>11. /\ status' = [status EXCEPT ![b] = "in_progress"] /\ rows' = rows /\ files' = files
         /\ free' = free /\ queue' = queue /\ granted' = granted
    BY <1>9 DEF SetStatus, sem
  <2>12. SemOK'
    BY <1>1, <2>1, <2>4, <2>11, SemMove
  <2>13. stage # "halted"
    BY <1>9 DEF Closed
  <2> QED BY <1>1, <1>4, <2>1, <2>7, <2>9, <2>10, <2>11, <2>12, <2>13, MoveSound
<1> QED BY <1>6, <1>7, <1>8, <1>9 DEF EnterDispatch

----------------------------------------------------------------------------
(***************************************************************************)
(* Rows.                                                                   *)
(***************************************************************************)
\* What the rows to do (t), out (y) and in backoff (x), the tries (n), the failure of the
\* dispatch and the finished rows (w) of b's run have to satisfy.
RowsFit(b, t, y, x, n, bad, w) ==
    /\ t \in SUBSET Rows /\ y \in SUBSET Rows /\ x \in SUBSET Rows
    /\ n \in [Rows -> 0 .. MaxAttempts] /\ bad \in BOOLEAN /\ w \in SUBSET RowsOf[b]
    /\ t \cup y \cup x \subseteq RowsOf[b] \ w
    /\ t \cap y = {} /\ t \cap x = {} /\ y \cap x = {}
    /\ \A r \in t : n[r] = 0
    /\ \A r \in x : n[r] < MaxAttempts
    /\ ~runs[b].stop /\ ~bad => RowsOf[b] \subseteq w \cup t \cup y \cup x

\* A step of a worker on row r: the rows to do, out and in backoff, the tries and what
\* is finished change; the invariant about them decides.
LEMMA RowSound ==
    ASSUME Sound, NEW b \in Batches, runs[b].at = "dispatch",
           NEW t, NEW y, NEW x, NEW n, NEW bad, NEW w, RowsFit(b, t, y, x, n, bad, w),
           runs' = [runs EXCEPT ![b] = [runs[b] EXCEPT !.todo = t, !.waits = x, !.flying = y,
                                                       !.tries = n, !.bad = bad]],
           rows' = [rows EXCEPT ![b] = w], status' = status, files' = files,
           free' = free, queue' = queue, granted' = granted,
           creating' = creating, sweep' = sweep, stage' = stage, hard' = hard, lives' = lives,
           faults' \in 0 .. MaxFaults
    PROVE  Sound'
<1> DEFINE q == [runs[b] EXCEPT !.todo = t, !.waits = x, !.flying = y, !.tries = n, !.bad = bad]
<1>1. /\ runs[b] \in Run /\ Formed(runs[b]) /\ Working(b, runs[b], status[b], rows[b])
      /\ Recorded(b, status[b], rows[b], files[b])
      /\ stage = "halted" => runs[b].at = "none" \/ runs[b].stop
      /\ status[b] \in Statuses /\ status = [status EXCEPT ![b] = status[b]]
  BY Parts
<1>2. /\ t \in SUBSET Rows /\ y \in SUBSET Rows /\ x \in SUBSET Rows
      /\ n \in [Rows -> 0 .. MaxAttempts] /\ bad \in BOOLEAN /\ w \in SUBSET RowsOf[b]
  BY DEF RowsFit
<1>3. q \in Run
  BY <1>1, <1>2 DEF Run
<1>4. /\ q.at = "dispatch" /\ q.phase = runs[b].phase /\ q.todo = t /\ q.flying = y /\ q.waits = x
      /\ q.tries = n /\ q.bad = bad /\ q.stop = runs[b].stop /\ q.why = runs[b].why
      /\ q.slot = runs[b].slot
  BY <1>1 DEF Run
<1>5. runs' = [runs EXCEPT ![b] = q]
  OBVIOUS
<1> HIDE DEF q
<1>6. Formed(q)
  BY <1>1, <1>3, <1>4 DEF Formed, Early, RowsFit
<1>7. status[b] \notin Terminal /\ status[b] # "none"
  BY <1>1 DEF Working
<1>8. Working(b, q, status[b], w)
  BY <1>4, <1>7 DEF Working, RowsFit
<1>9. Recorded(b, status[b], w, files[b])
  BY <1>7 DEF Recorded, Terminal
<1>10. files' = [files EXCEPT ![b] = files[b]] /\ files[b] \in SUBSET Rows /\ w \in SUBSET Rows
  BY <1>2, BatchAssumption DEF Sound, Typed
<1>11. Change(b, q, status[b], w, files[b])
  BY <1>1, <1>5, <1>10 DEF Change
<1>12. stage = "halted" => q.at = "none" \/ q.stop
  BY <1>1, <1>4
<1>13. Good(b, q, status[b], w, files[b])
  BY <1>1, <1>6, <1>8, <1>9, <1>10, <1>12 DEF Good
<1>14. SemOK'
  BY <1>4, <1>5, SemMove
<1>15. runs[b].at # "none"
  OBVIOUS
<1> QED BY <1>11, <1>13, <1>14, <1>15, RunStepSound

\* The facts about the rows of a dispatching run.
LEMMA RowParts ==
    ASSUME Sound, NEW b \in Batches, runs[b].at = "dispatch"
    PROVE  /\ runs[b] \in Run /\ runs \in [Batches -> Run]
           /\ runs[b].todo \in SUBSET Rows /\ runs[b].flying \in SUBSET Rows
           /\ runs[b].waits \in SUBSET Rows
           /\ runs[b].tries \in [Rows -> 0 .. MaxAttempts] /\ runs[b].bad \in BOOLEAN
           /\ rows[b] \subseteq RowsOf[b] /\ rows = [rows EXCEPT ![b] = rows[b]]
           /\ runs[b].todo \cup runs[b].flying \cup runs[b].waits \subseteq RowsOf[b] \ rows[b]
           /\ runs[b].todo \cap runs[b].flying = {} /\ runs[b].todo \cap runs[b].waits = {}
           /\ runs[b].flying \cap runs[b].waits = {}
           /\ \A r \in runs[b].todo : runs[b].tries[r] = 0
           /\ \A r \in runs[b].waits : runs[b].tries[r] < MaxAttempts
           /\ ~runs[b].stop /\ ~runs[b].bad
                => RowsOf[b] \subseteq rows[b] \cup runs[b].todo \cup runs[b].flying \cup runs[b].waits
<1>1. /\ runs[b] \in Run /\ runs \in [Batches -> Run] /\ Formed(runs[b])
      /\ Working(b, runs[b], status[b], rows[b])
  BY Parts
<1>2. rows = [rows EXCEPT ![b] = rows[b]]
  BY DEF Sound, Typed
<1>3. /\ runs[b].todo \in SUBSET Rows /\ runs[b].flying \in SUBSET Rows
      /\ runs[b].waits \in SUBSET Rows
      /\ runs[b].tries \in [Rows -> 0 .. MaxAttempts] /\ runs[b].bad \in BOOLEAN
  BY <1>1 DEF Run
<1> QED BY <1>1, <1>2, <1>3 DEF Formed, Working

\* A row is sent, once.
LEMMA RowSendSound ==
    ASSUME Sound, NEW b \in Batches, NEW r \in Rows, RowSend(b, r)
    PROVE  Sound'
<1>1. /\ runs[b].at = "dispatch" /\ creating' = creating /\ sweep' = sweep
      /\ stage' = stage /\ hard' = hard /\ lives' = lives
  BY StepFrame DEF RowSend
<1> DEFINE o == runs[b]
           t == o.todo \ {r}
           x == o.waits \ {r}
           y == o.flying \cup {r}
           n == [o.tries EXCEPT ![r] = @ + 1]
<1>2. /\ o \in Run /\ o.todo \in SUBSET Rows /\ o.flying \in SUBSET Rows /\ o.waits \in SUBSET Rows
      /\ o.tries \in [Rows -> 0 .. MaxAttempts] /\ o.bad \in BOOLEAN
      /\ rows[b] \subseteq RowsOf[b] /\ rows = [rows EXCEPT ![b] = rows[b]]
      /\ o.todo \cup o.flying \cup o.waits \subseteq RowsOf[b] \ rows[b]
      /\ o.todo \cap o.flying = {} /\ o.todo \cap o.waits = {} /\ o.flying \cap o.waits = {}
      /\ \A z \in o.todo : o.tries[z] = 0
      /\ \A z \in o.waits : o.tries[z] < MaxAttempts
      /\ ~o.stop /\ ~o.bad => RowsOf[b] \subseteq rows[b] \cup o.todo \cup o.flying \cup o.waits
  BY <1>1, RowParts
<1>3. r \in o.todo \/ r \in o.waits
  BY DEF RowSend
<1>4. MaxAttempts \in Nat \ {0}
  BY BatchAssumption
<1>5. o.tries[r] + 1 \in 0 .. MaxAttempts
  BY <1>2, <1>3, <1>4
<1>6. n \in [Rows -> 0 .. MaxAttempts] /\ \A z \in Rows : z # r => n[z] = o.tries[z]
  BY <1>2, <1>5
<1>7. runs' = [runs EXCEPT ![b] = [o EXCEPT !.todo = t, !.waits = x, !.flying = y, !.tries = n]]
  <2>1. runs' = [runs EXCEPT ![b].todo = @ \ {r}, ![b].waits = @ \ {r},
                             ![b].flying = @ \cup {r}, ![b].tries[r] = @ + 1]
    BY DEF RowSend
  <2> QED BY <2>1, Zenon
<1>8. [o EXCEPT !.todo = t, !.waits = x, !.flying = y, !.tries = n]
        = [o EXCEPT !.todo = t, !.waits = x, !.flying = y, !.tries = n, !.bad = o.bad]
  <2> HIDE DEF o, t, x, y, n
  <2> QED BY <1>2 DEF Run
<1>9. runs' = [runs EXCEPT ![b] = [runs[b] EXCEPT !.todo = t, !.waits = x, !.flying = y,
                                                  !.tries = n, !.bad = o.bad]]
  BY <1>7, <1>8
<1>10. /\ status' = status /\ files' = files /\ rows' = [rows EXCEPT ![b] = rows[b]]
       /\ free' = free /\ queue' = queue /\ granted' = granted
       /\ faults' \in 0 .. MaxFaults
  BY <1>2, FaultsCounted DEF RowSend, store, sem
<1>11. /\ t \in SUBSET Rows /\ y \in SUBSET Rows /\ x \in SUBSET Rows
       /\ rows[b] \in SUBSET RowsOf[b] /\ t \cup y \cup x \subseteq RowsOf[b] \ rows[b]
       /\ t \cap y = {} /\ t \cap x = {} /\ y \cap x = {}
  BY <1>2, <1>3
<1>12. (\A z \in t : n[z] = 0) /\ (\A z \in x : n[z] < MaxAttempts)
  BY <1>2, <1>6
<1>13. ~runs[b].stop /\ ~o.bad => RowsOf[b] \subseteq rows[b] \cup t \cup y \cup x
  BY <1>2, <1>3
<1>14. RowsFit(b, t, y, x, n, o.bad, rows[b])
  <2> HIDE DEF t, x, y, n
  <2> QED BY <1>2, <1>6, <1>11, <1>12, <1>13 DEF RowsFit
<1> HIDE DEF t, x, y, n, o
<1> QED BY <1>1, <1>9, <1>10, <1>14, RowSound

\* A row comes back: to its backoff, finished, or not recorded.
LEMMA RowBackSound ==
    ASSUME Sound, NEW b \in Batches, NEW r \in Rows, runs[b].at = "dispatch",
           NEW x \in SUBSET Rows, NEW w \in SUBSET Rows, NEW bad \in BOOLEAN,
           \/ r \in runs[b].flying /\ x = runs[b].waits \cup {r} /\ w = rows[b]
                 /\ runs[b].tries[r] < MaxAttempts /\ bad = runs[b].bad
           \/ r \in runs[b].flying /\ x = runs[b].waits /\ w = rows[b] \cup {r} /\ bad = runs[b].bad
           \/ x = runs[b].waits /\ w = rows[b] /\ bad = TRUE
           \/ x = runs[b].waits \ {r} /\ w = rows[b] /\ bad = runs[b].bad /\ runs[b].stop,
           runs' = [runs EXCEPT ![b] = [runs[b] EXCEPT !.flying = runs[b].flying \ {r},
                                                       !.waits = x, !.bad = bad]],
           rows' = [rows EXCEPT ![b] = w], status' = status, files' = files,
           free' = free, queue' = queue, granted' = granted,
           creating' = creating, sweep' = sweep, stage' = stage, hard' = hard, lives' = lives,
           faults' \in 0 .. MaxFaults
    PROVE  Sound'
<1> DEFINE o == runs[b]
           y == o.flying \ {r}
<1>1. /\ o \in Run /\ o.todo \in SUBSET Rows /\ o.flying \in SUBSET Rows /\ o.waits \in SUBSET Rows
      /\ o.tries \in [Rows -> 0 .. MaxAttempts] /\ o.bad \in BOOLEAN
      /\ rows[b] \subseteq RowsOf[b]
      /\ o.todo \cup o.flying \cup o.waits \subseteq RowsOf[b] \ rows[b]
      /\ o.todo \cap o.flying = {} /\ o.todo \cap o.waits = {} /\ o.flying \cap o.waits = {}
      /\ \A z \in o.todo : o.tries[z] = 0
      /\ \A z \in o.waits : o.tries[z] < MaxAttempts
      /\ ~o.stop /\ ~o.bad => RowsOf[b] \subseteq rows[b] \cup o.todo \cup o.flying \cup o.waits
  BY RowParts
<1>2. [o EXCEPT !.flying = y, !.waits = x, !.bad = bad]
        = [o EXCEPT !.todo = o.todo, !.waits = x, !.flying = y, !.tries = o.tries, !.bad = bad]
  <2> HIDE DEF o, y
  <2> QED BY <1>1 DEF Run
<1>3. runs' = [runs EXCEPT ![b] = [runs[b] EXCEPT !.todo = o.todo, !.waits = x, !.flying = y,
                                                  !.tries = o.tries, !.bad = bad]]
  BY <1>2
<1>4. /\ o.todo \in SUBSET Rows /\ y \in SUBSET Rows /\ w \in SUBSET RowsOf[b]
      /\ o.todo \cup y \cup x \subseteq RowsOf[b] \ w
      /\ o.todo \cap y = {} /\ o.todo \cap x = {} /\ y \cap x = {}
  BY <1>1
<1>5. (\A z \in o.todo : o.tries[z] = 0) /\ (\A z \in x : o.tries[z] < MaxAttempts)
  BY <1>1
<1>6. ~runs[b].stop /\ ~bad => RowsOf[b] \subseteq w \cup o.todo \cup y \cup x
  BY <1>1
<1>7. RowsFit(b, o.todo, y, x, o.tries, bad, w)
  <2> HIDE DEF y
  <2> QED BY <1>1, <1>4, <1>5, <1>6 DEF RowsFit
<1> HIDE DEF y, o
<1> QED BY <1>3, <1>7, RowSound

\* A row waits for its next attempt.
LEMMA RowBackoffSound ==
    ASSUME Sound, NEW b \in Batches, NEW r \in Rows, RowBackoff(b, r)
    PROVE  Sound'
<1>1. /\ runs[b].at = "dispatch" /\ creating' = creating /\ sweep' = sweep
      /\ stage' = stage /\ hard' = hard /\ lives' = lives
  BY StepFrame DEF RowBackoff
<1>2. /\ runs[b] \in Run /\ rows = [rows EXCEPT ![b] = rows[b]] /\ rows[b] \subseteq RowsOf[b]
      /\ runs[b].waits \in SUBSET Rows /\ runs[b].bad \in BOOLEAN
  BY <1>1, RowParts
<1> DEFINE x == runs[b].waits \cup {r}
<1>3. runs' = [runs EXCEPT ![b] = [runs[b] EXCEPT !.flying = runs[b].flying \ {r}, !.waits = x]]
  BY DEF RowBackoff
<1>4. [runs[b] EXCEPT !.flying = runs[b].flying \ {r}, !.waits = x]
        = [runs[b] EXCEPT !.flying = runs[b].flying \ {r}, !.waits = x, !.bad = runs[b].bad]
  BY <1>2 DEF Run
<1>5. runs' = [runs EXCEPT ![b] = [runs[b] EXCEPT !.flying = runs[b].flying \ {r}, !.waits = x,
                                                  !.bad = runs[b].bad]]
  BY <1>3, <1>4
<1>6. /\ status' = status /\ files' = files /\ rows' = [rows EXCEPT ![b] = rows[b]]
      /\ free' = free /\ queue' = queue /\ granted' = granted
      /\ faults' \in 0 .. MaxFaults
  BY <1>2, FaultsCounted DEF RowBackoff, store, sem
<1>7. r \in runs[b].flying /\ runs[b].tries[r] < MaxAttempts
  BY DEF RowBackoff
<1>8. x \in SUBSET Rows /\ rows[b] \in SUBSET Rows
  BY <1>2, BatchAssumption
<1> QED BY <1>1, <1>2, <1>5, <1>6, <1>7, <1>8, RowBackSound

\* A row is left to the next process.
LEMMA RowLeaveSound ==
    ASSUME Sound, NEW b \in Batches, NEW r \in Rows, RowLeave(b, r)
    PROVE  Sound'
<1>1. /\ runs[b].at = "dispatch" /\ creating' = creating /\ sweep' = sweep
      /\ stage' = stage /\ hard' = hard /\ lives' = lives
  BY StepFrame DEF RowLeave
<1>2. /\ runs[b] \in Run /\ rows = [rows EXCEPT ![b] = rows[b]] /\ rows[b] \subseteq RowsOf[b]
      /\ runs[b].waits \in SUBSET Rows /\ runs[b].bad \in BOOLEAN
  BY <1>1, RowParts
<1> DEFINE x == runs[b].waits \ {r}
<1>3. runs' = [runs EXCEPT ![b] = [runs[b] EXCEPT !.flying = runs[b].flying \ {r}, !.waits = x]]
  BY DEF RowLeave
<1>4. [runs[b] EXCEPT !.flying = runs[b].flying \ {r}, !.waits = x]
        = [runs[b] EXCEPT !.flying = runs[b].flying \ {r}, !.waits = x, !.bad = runs[b].bad]
  BY <1>2 DEF Run
<1>5. runs' = [runs EXCEPT ![b] = [runs[b] EXCEPT !.flying = runs[b].flying \ {r}, !.waits = x,
                                                  !.bad = runs[b].bad]]
  BY <1>3, <1>4
<1>6. /\ status' = status /\ files' = files /\ rows' = [rows EXCEPT ![b] = rows[b]]
      /\ free' = free /\ queue' = queue /\ granted' = granted
      /\ faults' \in 0 .. MaxFaults
  BY <1>2, FaultsCounted DEF RowLeave, store, sem
<1>7. runs[b].stop
  BY <1>1, HaltedStops DEF RowLeave
<1>8. x \in SUBSET Rows /\ rows[b] \in SUBSET Rows
  BY <1>2, BatchAssumption
<1> QED BY <1>1, <1>2, <1>5, <1>6, <1>7, <1>8, RowBackSound

\* A row gets its result, or the run fails.
LEMMA RowSettleSound ==
    ASSUME Sound, NEW b \in Batches, NEW r \in Rows, RowSettle(b, r)
    PROVE  Sound'
<1>1. /\ runs[b].at = "dispatch" /\ creating' = creating /\ sweep' = sweep
      /\ stage' = stage /\ hard' = hard /\ lives' = lives
  BY StepFrame DEF RowSettle
<1>2. /\ runs[b] \in Run /\ rows = [rows EXCEPT ![b] = rows[b]] /\ rows[b] \subseteq RowsOf[b]
      /\ runs[b].waits \in SUBSET Rows /\ runs[b].bad \in BOOLEAN
  BY <1>1, RowParts
<1> DEFINE x == runs[b].waits
           y == runs[b].flying \ {r}
<1>3. /\ status' = status /\ files' = files /\ free' = free /\ queue' = queue /\ granted' = granted
      /\ faults' \in 0 .. MaxFaults /\ r \in runs[b].flying
  BY FaultsCounted DEF RowSettle, sem
<1>4. x \in SUBSET Rows /\ rows[b] \in SUBSET Rows /\ rows[b] \cup {r} \in SUBSET Rows
  BY <1>2, BatchAssumption
<1>5. CASE /\ rows' = [rows EXCEPT ![b] = @ \cup {r}]
           /\ runs' = [runs EXCEPT ![b].flying = @ \ {r}]
  <2>1. [runs[b] EXCEPT !.flying = y] = [runs[b] EXCEPT !.flying = y, !.waits = x, !.bad = runs[b].bad]
    BY <1>2 DEF Run
  <2>2. runs' = [runs EXCEPT ![b] = [runs[b] EXCEPT !.flying = y, !.waits = x, !.bad = runs[b].bad]]
    BY <1>5, <2>1
  <2>3. rows' = [rows EXCEPT ![b] = rows[b] \cup {r}]
    BY <1>5
  <2> QED BY <1>1, <1>2, <1>3, <1>4, <2>2, <2>3, RowBackSound
<1>6. CASE /\ runs' = [runs EXCEPT ![b].flying = @ \ {r}, ![b].bad = TRUE]
           /\ UNCHANGED rows
  <2>1. [runs[b] EXCEPT !.flying = y, !.bad = TRUE]
          = [runs[b] EXCEPT !.flying = y, !.waits = x, !.bad = TRUE]
    BY <1>2 DEF Run
  <2>2. runs' = [runs EXCEPT ![b] = [runs[b] EXCEPT !.flying = y, !.waits = x, !.bad = TRUE]]
    BY <1>6, <2>1
  <2>3. rows' = [rows EXCEPT ![b] = rows[b]]
    BY <1>2, <1>6
  <2> QED BY <1>1, <1>2, <1>3, <1>4, <2>2, <2>3, RowBackSound
<1> QED BY <1>5, <1>6 DEF RowSettle

\* The workers are gone: without a stop or a failure, every row has finished.
LEMMA DispatchEndSound ==
    ASSUME Sound, NEW b \in Batches, DispatchEnd(b)
    PROVE  Sound'
<1>1. /\ runs[b].at = "dispatch" /\ creating' = creating /\ sweep' = sweep
      /\ stage' = stage /\ hard' = hard /\ lives' = lives
  BY StepFrame DEF DispatchEnd
<1>2. faults' \in 0 .. MaxFaults
  BY FaultsCounted DEF DispatchEnd
<1>3. CASE Retire(b) /\ UNCHANGED store
  BY <1>1, <1>2, <1>3, RetireQuietly DEF store
<1>4. CASE Retire(b) /\ SetStatus(b, "failed")
  BY <1>1, <1>2, <1>4, RetireFailed
<1>5. CASE ~runs[b].bad /\ Goto(b, "settle") /\ UNCHANGED store
  <2> DEFINE q == [runs[b] EXCEPT !.at = "settle"]
  <2>1. /\ runs' = [runs EXCEPT ![b] = q] /\ free' = free /\ queue' = queue /\ granted' = granted
        /\ status' = status /\ rows' = rows /\ files' = files
    BY <1>5 DEF Goto, sem, store
  <2>2. /\ runs[b] \in Run /\ Formed(runs[b]) /\ Working(b, runs[b], status[b], rows[b])
        /\ Recorded(b, status[b], rows[b], files[b])
        /\ stage = "halted" => runs[b].at = "none" \/ runs[b].stop
        /\ status[b] \in Statuses /\ status = [status EXCEPT ![b] = status[b]]
    BY Parts
  <2>3. q \in Run
    BY <2>2 DEF Run, Places
  <2>4. /\ q.at = "settle" /\ q.stop = runs[b].stop /\ q.why = runs[b].why
        /\ q.slot = runs[b].slot /\ q.todo = runs[b].todo /\ q.flying = runs[b].flying
        /\ q.waits = runs[b].waits /\ q.tries = runs[b].tries
    BY <2>2 DEF Run
  <2> HIDE DEF q
  <2>5. runs[b].flying = {} /\ runs[b].waits = {} /\ (runs[b].todo = {} \/ ~MayStartRow(b))
    BY DEF DispatchEnd
  <2>6. Formed(q)
    BY <1>1, <2>2, <2>3, <2>4, <2>5 DEF Formed, Early
  <2>7. ~runs[b].stop => runs[b].todo = {}
    <3>1. hard => runs[b].stop
      BY <1>1, HaltedStops
    <3> QED BY <1>5, <2>5, <3>1 DEF MayStartRow
  <2>8. ~runs[b].stop => rows[b] = RowsOf[b]
    BY <1>1, <1>5, <2>2, <2>5, <2>7 DEF Working
  <2>9. Working(b, q, status[b], rows[b])
    BY <1>1, <2>2, <2>4, <2>8 DEF Working
  <2>10. SemOK'
    BY <1>1, <2>1, <2>4, SemMove
  <2>11. stage = "halted" => q.at = "none" \/ q.stop
    BY <1>1, <2>2, <2>4
  <2> QED BY <1>1, <1>2, <2>1, <2>2, <2>6, <2>9, <2>10, <2>11, MoveSound
<1> QED BY <1>3, <1>4, <1>5 DEF DispatchEnd

\* settle picks the end of the run by what stopped it.
LEMMA SettleSound ==
    ASSUME Sound, NEW b \in Batches, Settle(b)
    PROVE  Sound'
<1>1. /\ runs[b].at = "settle" /\ creating' = creating /\ sweep' = sweep
      /\ stage' = stage /\ hard' = hard /\ lives' = lives
  BY StepFrame DEF Settle
<1>2. faults' \in 0 .. MaxFaults
  BY FaultsCounted DEF Settle
<1>3. Retire(b) /\ status' = status /\ rows' = rows /\ files' = files
  BY DEF Settle, store
<1> QED BY <1>1, <1>2, <1>3, RetireQuietly

\* finalize begins: only a run that was not told to stop, whose batch nobody cancelled,
\* says completed, and then every row has finished.
LEMMA FinalStartSound ==
    ASSUME Sound, NEW b \in Batches, FinalStart(b)
    PROVE  Sound'
<1>1. /\ runs[b].at = "settle" /\ creating' = creating /\ sweep' = sweep
      /\ stage' = stage /\ hard' = hard /\ lives' = lives
  BY StepFrame DEF FinalStart
<1> DEFINE v == Final(b)
           q == [runs[b] EXCEPT !.at = "files", !.phase = "final", !.final = v]
<1>2. /\ runs' = [runs EXCEPT ![b] = q] /\ free' = free /\ queue' = queue /\ granted' = granted
      /\ rows' = rows /\ files' = files /\ runs[b].why # "shutdown" /\ status[b] \notin Terminal
      /\ status' = IF v = "completed" THEN [status EXCEPT ![b] = "finalizing"] ELSE status
  BY DEF FinalStart, SetStatus, store, sem
<1>3. faults' \in 0 .. MaxFaults
  BY FaultsCounted DEF FinalStart
<1>4. /\ runs[b] \in Run /\ Formed(runs[b]) /\ Working(b, runs[b], status[b], rows[b])
      /\ Recorded(b, status[b], rows[b], files[b])
      /\ stage = "halted" => runs[b].at = "none" \/ runs[b].stop
      /\ status[b] \in Statuses /\ status = [status EXCEPT ![b] = status[b]]
  BY Parts
<1>5. runs[b].why \in Reasons /\ (runs[b].stop <=> runs[b].why # "none")
  BY <1>4 DEF Formed, Run
<1>6. /\ v \in {"completed", "cancelled", "expired"}
      /\ v = "completed" => runs[b].why = "none" /\ status[b] # "cancelling"
  BY <1>2, <1>5 DEF Final, Earned, Reasons
<1>7. v = "completed" => rows[b] = RowsOf[b]
  BY <1>1, <1>2, <1>4, <1>5, <1>6 DEF Working
<1> HIDE DEF v
<1>8. q \in Run
  <2>1. ASSUME NEW a \in Places, NEW p \in {"pending", "dispatch", "final"},
               NEW z \in {"completed", "cancelled", "expired"}
        PROVE  [runs[b] EXCEPT !.at = a, !.phase = p, !.final = z] \in Run
    BY <1>4 DEF Run
  <2>2. "files" \in Places /\ "final" \in {"pending", "dispatch", "final"}
    BY DEF Places
  <2> QED BY <1>6, <2>1, <2>2
<1>9. /\ q.at = "files" /\ q.final = v /\ q.stop = runs[b].stop /\ q.why = runs[b].why
      /\ q.slot = runs[b].slot /\ q.todo = runs[b].todo /\ q.flying = runs[b].flying
      /\ q.waits = runs[b].waits /\ q.tries = runs[b].tries
  BY <1>4 DEF Run
<1> HIDE DEF q
<1>10. Formed(q)
  BY <1>1, <1>4, <1>8, <1>9 DEF Formed, Early
<1>11. SemOK'
  BY <1>1, <1>2, <1>9, SemMove
<1>12. stage = "halted" => q.at = "none" \/ q.stop
  BY <1>1, <1>4, <1>9
<1> DEFINE s == IF v = "completed" THEN "finalizing" ELSE status[b]
<1>13. s \in Statuses /\ s # "none" /\ status' = [status EXCEPT ![b] = s]
  BY <1>1, <1>2, <1>4 DEF Statuses, Working
<1>14. Recorded(b, s, rows[b], files[b])
  BY <1>4 DEF Recorded
<1> HIDE DEF s
<1>15. Working(b, q, s, rows[b])
  BY <1>4, <1>7, <1>9, <1>13 DEF Working
<1>16. runs[b].at # "none"
  BY <1>1
<1> QED BY <1>1, <1>2, <1>3, <1>10, <1>11, <1>12, <1>13, <1>14, <1>15, <1>16, MoveSound

\* finalize writes the result files from the rows.
LEMMA FinalFilesSound ==
    ASSUME Sound, NEW b \in Batches, FinalFiles(b)
    PROVE  Sound'
<1>1. /\ runs[b].at = "files" /\ creating' = creating /\ sweep' = sweep
      /\ stage' = stage /\ hard' = hard /\ lives' = lives
  BY StepFrame DEF FinalFiles
<1>2. status' = status /\ rows' = rows /\ files' = files /\ faults' \in 0 .. MaxFaults
  BY FaultsCounted DEF FinalFiles, store
<1>3. CASE Retire(b)
  BY <1>1, <1>2, <1>3, RetireQuietly
<1>4. CASE runs' = [runs EXCEPT ![b].at = "save", ![b].out = rows[b]] /\ UNCHANGED sem
  <2> DEFINE q == [runs[b] EXCEPT !.at = "save", !.out = rows[b]]
  <2>1. /\ runs' = [runs EXCEPT ![b] = q] /\ free' = free /\ queue' = queue /\ granted' = granted
    BY <1>4 DEF sem
  <2>2. /\ runs[b] \in Run /\ Formed(runs[b]) /\ Working(b, runs[b], status[b], rows[b])
        /\ Recorded(b, status[b], rows[b], files[b])
        /\ stage = "halted" => runs[b].at = "none" \/ runs[b].stop
        /\ status[b] \in Statuses /\ status = [status EXCEPT ![b] = status[b]]
    BY Parts
  <2>3. rows[b] \in SUBSET Rows
    BY DEF Sound, Typed
  <2>4. q \in Run
    BY <2>2, <2>3 DEF Run, Places
  <2>5. /\ q.at = "save" /\ q.out = rows[b] /\ q.final = runs[b].final /\ q.stop = runs[b].stop
        /\ q.why = runs[b].why /\ q.slot = runs[b].slot /\ q.todo = runs[b].todo
        /\ q.flying = runs[b].flying /\ q.waits = runs[b].waits /\ q.tries = runs[b].tries
    BY <2>2 DEF Run
  <2> HIDE DEF q
  <2>6. Formed(q)
    BY <1>1, <2>2, <2>4, <2>5 DEF Formed, Early
  <2>7. Working(b, q, status[b], rows[b])
    BY <1>1, <2>2, <2>5 DEF Working
  <2>8. SemOK'
    BY <1>1, <2>1, <2>5, SemMove
  <2>9. stage = "halted" => q.at = "none" \/ q.stop
    BY <1>1, <2>2, <2>5
  <2> QED BY <1>1, <1>2, <2>1, <2>2, <2>6, <2>7, <2>8, <2>9, MoveSound
<1> QED BY <1>3, <1>4 DEF FinalFiles

\* The end of finalize: what was written out is what finished.
LEMMA FinalSaveSound ==
    ASSUME Sound, NEW b \in Batches, FinalSave(b)
    PROVE  Sound'
<1>1. /\ runs[b].at = "save" /\ creating' = creating /\ sweep' = sweep
      /\ stage' = stage /\ hard' = hard /\ lives' = lives
  BY StepFrame DEF FinalSave
<1>2. faults' \in 0 .. MaxFaults /\ Retire(b)
  BY FaultsCounted DEF FinalSave
<1>3. CASE UNCHANGED store
  BY <1>1, <1>2, <1>3, RetireQuietly DEF store
<1>4. CASE /\ status' = [status EXCEPT ![b] = runs[b].final]
           /\ files' = [files EXCEPT ![b] = runs[b].out] /\ UNCHANGED rows
  <2>1. runs[b] \in Run /\ Working(b, runs[b], status[b], rows[b])
    BY Parts
  <2>2. runs[b].final \in Statuses /\ runs[b].out \in SUBSET Rows
    BY <2>1 DEF Run, Statuses, Terminal
  <2>3. Recorded(b, runs[b].final, rows[b], runs[b].out)
    BY <1>1, <2>1 DEF Working, Recorded
  <2> QED BY <1>1, <1>2, <1>4, <2>2, <2>3, RetireSound
<1> QED BY <1>3, <1>4 DEF FinalSave, Saved

----------------------------------------------------------------------------
(***************************************************************************)
(* Create, the sweeper and the owner.                                      *)
(***************************************************************************)
\* A batch that keeps its run, record and rows keeps its part of the invariant.
LEMMA BatchFrame ==
    ASSUME NEW c \in Batches, BatchOK(c), runs'[c] = runs[c], status'[c] = status[c],
           rows'[c] = rows[c], files'[c] = files[c], c \in creating' <=> c \in creating,
           stage' = stage
    PROVE  BatchOK(c)'
  BY DEF BatchOK

\* Create stores the record of a new batch.
LEMMA CreateSound ==
    ASSUME Sound, NEW b \in Batches, Create(b)
    PROVE  Sound'
<1>1. /\ stage = "up" /\ status[b] = "none" /\ status' = [status EXCEPT ![b] = "validating"]
      /\ creating' = creating \cup {b} /\ rows' = rows /\ files' = files /\ runs' = runs
      /\ free' = free /\ queue' = queue /\ granted' = granted /\ sweep' = sweep
      /\ stage' = stage /\ hard' = hard /\ lives' = lives /\ faults' = faults
  BY DEF Create, SetStatus, sem, life
<1>2. Typed
  BY DEF Sound
<1>3. "validating" \in Statuses
  BY DEF Statuses
<1>4. /\ status' \in [Batches -> Statuses] /\ status'[b] = "validating"
      /\ \A c \in Batches : c # b => status'[c] = status[c]
  BY <1>1, <1>2, <1>3 DEF Typed
<1>5. Typed'
  BY <1>1, <1>2, <1>4 DEF Typed
<1>6. BatchOK(b)
  BY DEF Sound
<1>7. runs[b].at = "none"
  BY <1>1, <1>6 DEF BatchOK, Working
<1>8. Working(b, runs[b], "validating", rows[b]) /\ Recorded(b, "validating", rows[b], files[b])
  BY <1>6, <1>7 DEF BatchOK, Working, Recorded
<1>9. BatchOK(b)'
  BY <1>1, <1>4, <1>6, <1>7, <1>8 DEF BatchOK
<1>10. \A c \in Batches : c # b => BatchOK(c)'
  BY <1>1, <1>4, BatchFrame DEF Sound
<1>11. SweepOK'
  BY <1>1, <1>4 DEF Sound, SweepOK
<1>12. SemOK'
  BY <1>1 DEF Sound, SemOK, Holding
<1> QED BY <1>5, <1>9, <1>10, <1>11, <1>12 DEF Sound

\* A run that has just been started.
LEMMA StartedOK ==
    ASSUME NEW why \in {"none", "cancel"}
    PROVE  /\ Formed(Started(why)) /\ Started(why).at = "load" /\ ~Started(why).slot
           /\ Started(why).todo = {} /\ Started(why).flying = {} /\ Started(why).waits = {}
<1>1. NoRun \in Run /\ NoRun.tries = Zeros
  BY NoRunGood DEF Formed, NoRun, Zeros
<1> DEFINE q == Started(why)
<1>2. (why # "none") \in BOOLEAN
  OBVIOUS
<1>3. q \in Run
  <2>1. ASSUME NEW a \in Places, NEW y \in Reasons, NEW z \in BOOLEAN
        PROVE  [NoRun EXCEPT !.at = a, !.why = y, !.stop = z] \in Run
    BY <1>1 DEF Run
  <2>2. "load" \in Places /\ why \in Reasons
    BY DEF Places, Reasons
  <2> QED BY <1>2, <2>1, <2>2 DEF Started
<1>4. /\ q.at = "load" /\ q.why = why /\ (q.stop <=> why # "none") /\ ~q.slot /\ q.todo = {}
      /\ q.flying = {} /\ q.waits = {} /\ q.tries = Zeros
  BY <1>1 DEF Started, NoRun
<1> HIDE DEF q
<1>5. Formed(q)
  BY <1>3, <1>4 DEF Formed, Early
<1> QED BY <1>4, <1>5 DEF q

\* Create, or Recover, launches the run.
LEMMA StartSound ==
    ASSUME Sound, NEW b \in Batches, Start(b)
    PROVE  Sound'
<1>1. /\ b \in creating /\ creating' = creating \ {b}
      /\ runs' = (IF Closed THEN runs ELSE [runs EXCEPT ![b] = Started("none")])
      /\ status' = status /\ rows' = rows /\ files' = files
      /\ free' = free /\ queue' = queue /\ granted' = granted /\ sweep' = sweep
      /\ stage' = stage /\ hard' = hard /\ lives' = lives /\ faults' = faults
  BY DEF Start, store, sem, life
<1>2. Typed /\ SweepOK /\ SemOK /\ BatchOK(b) /\ runs \in [Batches -> Run]
  BY DEF Sound, Typed
<1>3. runs[b].at = "none" /\ status[b] # "none" /\ ~runs[b].slot /\ stage # "down"
  BY <1>1, <1>2 DEF BatchOK, Formed
<1>4. sweep.at # "idle" => sweep.b # b
  BY <1>1, <1>2 DEF SweepOK
<1>5. ASSUME NEW q \in Run, runs' = [runs EXCEPT ![b] = q], ~q.slot,
             BatchOK(b)'
      PROVE  Sound'
  <2>1. /\ runs' \in [Batches -> Run] /\ runs'[b] = q
        /\ \A c \in Batches : c # b => runs'[c] = runs[c]
    BY <1>2, <1>5
  <2>2. Typed'
    BY <1>1, <1>2, <2>1 DEF Typed
  <2>3. \A c \in Batches : c # b => BatchOK(c)'
    BY <1>1, <2>1, BatchFrame DEF Sound
  <2>4. SweepOK'
    BY <1>1, <1>2, <1>4, <2>1 DEF SweepOK
  <2>5. runs[b].at # "wait" /\ ~runs'[b].slot
    BY <1>3, <1>5, <2>1
  <2>6. SemOK'
    BY <1>1, <1>2, <1>3, <2>1, <2>5, SemUnslotted
  <2> QED BY <1>5, <2>2, <2>3, <2>4, <2>6 DEF Sound
<1>6. CASE Closed
  <2>1. runs' = runs /\ runs' = [runs EXCEPT ![b] = runs[b]] /\ runs[b] \in Run
    BY <1>1, <1>2, <1>6
  <2>2. BatchOK(b)'
    BY <1>1, <1>2, <1>3, <2>1 DEF BatchOK
  <2> QED BY <1>3, <1>5, <2>1, <2>2
<1>7. CASE ~Closed
  <2> DEFINE q == Started("none")
  <2>1. /\ Formed(q) /\ q.at = "load" /\ ~q.slot
        /\ q.todo = {} /\ q.flying = {} /\ q.waits = {}
    BY StartedOK
  <2>2. runs' = [runs EXCEPT ![b] = q]
    BY <1>1, <1>7
  <2> HIDE DEF q
  <2>3. runs'[b] = q /\ q \in Run
    BY <1>2, <2>1, <2>2 DEF Formed
  <2>4. Working(b, q, status[b], rows[b])
    BY <1>2, <1>3, <2>1 DEF BatchOK, Working
  <2>5. stage = "up"
    BY <1>7 DEF Closed
  <2>6. BatchOK(b)'
    BY <1>1, <1>2, <2>1, <2>3, <2>4, <2>5 DEF BatchOK
  <2> QED BY <1>5, <2>1, <2>2, <2>3, <2>6
<1> QED BY <1>6, <1>7

\* A run that is told to stop goes on as it was, with a reason.
LEMMA HaltedOK ==
    ASSUME NEW o \in Run, NEW why \in {"cancel", "expire", "shutdown"}
    PROVE  LET q == Halted(o, why)
           IN /\ q \in Run /\ q.stop /\ q.why # "none" /\ q.at = o.at /\ q.phase = o.phase
              /\ q.slot = o.slot /\ q.todo = o.todo /\ q.flying = o.flying /\ q.waits = o.waits
              /\ q.tries = o.tries /\ q.bad = o.bad /\ q.final = o.final /\ q.out = o.out
<1> DEFINE y == IF o.why = "none" THEN why ELSE o.why
           q == Halted(o, why)
<1>1. y \in Reasons /\ y # "none" /\ TRUE \in BOOLEAN
  BY DEF Run, Reasons
<1>2. q = [o EXCEPT !.stop = TRUE, !.why = y]
  BY DEF Halted
<1> HIDE DEF y, q
<1>3. ASSUME NEW z \in BOOLEAN
      PROVE  [o EXCEPT !.stop = z, !.why = y] \in Run
  BY <1>1 DEF Run
<1>4. q \in Run
  BY <1>1, <1>2, <1>3
<1>5. /\ q.stop = TRUE /\ q.why = y /\ q.at = o.at /\ q.phase = o.phase
      /\ q.slot = o.slot /\ q.todo = o.todo /\ q.flying = o.flying /\ q.waits = o.waits
      /\ q.tries = o.tries /\ q.bad = o.bad /\ q.final = o.final /\ q.out = o.out
  BY <1>2 DEF Run
<1> QED BY <1>1, <1>4, <1>5 DEF q

\* ... and keeps the invariant, whatever status a cancel leaves.
LEMMA HaltSound ==
    ASSUME Sound, NEW b \in Batches, runs[b].at # "none",
           NEW why \in {"cancel", "expire", "shutdown"},
           runs' = [runs EXCEPT ![b] = Halted(runs[b], why)],
           NEW s \in {"cancelling", "cancelled", status[b]}, s = "cancelled" => runs[b].phase # "dispatch",
           status' = [status EXCEPT ![b] = s], rows' = rows, files' = files,
           free' = free, queue' = queue, granted' = granted,
           creating' = creating, sweep' = sweep, stage' = stage, hard' = hard, lives' = lives,
           faults' \in 0 .. MaxFaults
    PROVE  Sound'
<1> DEFINE q == Halted(runs[b], why)
<1>1. /\ runs[b] \in Run /\ Formed(runs[b]) /\ Working(b, runs[b], status[b], rows[b])
      /\ Recorded(b, status[b], rows[b], files[b]) /\ status[b] \in Statuses
  BY Parts
<1>2. /\ q \in Run /\ q.stop /\ q.why # "none" /\ q.at = runs[b].at /\ q.phase = runs[b].phase
      /\ q.slot = runs[b].slot /\ q.todo = runs[b].todo /\ q.flying = runs[b].flying
      /\ q.waits = runs[b].waits /\ q.tries = runs[b].tries /\ q.bad = runs[b].bad
      /\ q.final = runs[b].final /\ q.out = runs[b].out
  BY <1>1, HaltedOK
<1>3. runs' = [runs EXCEPT ![b] = q]
  OBVIOUS
<1> HIDE DEF q
<1>4. Formed(q)
  BY <1>1, <1>2 DEF Formed
<1>5. s \in Statuses /\ s # "none" /\ Recorded(b, s, rows[b], files[b])
  BY <1>1 DEF Statuses, Terminal, Working, Recorded
<1>6. q.at = "dispatch" => s \notin Terminal
  BY <1>1, <1>2 DEF Formed, Working, Terminal
<1>7. Working(b, q, s, rows[b])
  BY <1>1, <1>2, <1>5, <1>6 DEF Working
<1>8. SemOK'
  <2>1. q.slot = runs[b].slot /\ (runs[b].at = "wait" => q.at = "wait")
    BY <1>2
  <2> QED BY <1>3, <2>1, SemMove
<1> QED BY <1>2, <1>3, <1>4, <1>5, <1>7, <1>8, MoveSound

\* sweep finds a batch that has expired.
LEMMA SweepSound ==
    ASSUME Sound, NEW b \in Batches, Sweep(b)
    PROVE  Sound'
<1>1. /\ stage = "up" /\ Active(b) /\ b \notin creating
      /\ status' = status /\ rows' = rows /\ files' = files /\ creating' = creating
      /\ free' = free /\ queue' = queue /\ granted' = granted
      /\ stage' = stage /\ hard' = hard /\ lives' = lives /\ faults' = faults
  BY DEF Sweep, store, sem, life
<1>2. CASE runs[b].at # "none"
  <2>1. runs' = [runs EXCEPT ![b] = Halted(runs[b], "expire")] /\ sweep' = sweep
    BY <1>2 DEF Sweep
  <2>2. status' = [status EXCEPT ![b] = status[b]] /\ faults' \in 0 .. MaxFaults
    BY <1>1, Parts, FaultsCounted
  <2>3. status[b] # "cancelled"
    BY <1>1 DEF Active, Terminal
  <2> QED BY <1>1, <1>2, <2>1, <2>2, <2>3, HaltSound
<1>3. CASE runs[b].at = "none"
  <2>1. sweep' = [NoSweep EXCEPT !.at = "files", !.b = b] /\ runs' = runs
    BY <1>3 DEF Sweep
  <2>2. sweep' = [at |-> "files", b |-> b, out |-> {}]
    BY <2>1 DEF NoSweep
  <2>3. status[b] # "none"
    BY <1>1 DEF Active
  <2>4. SweepOK'
    BY <1>1, <1>3, <2>1, <2>2, <2>3 DEF SweepOK
  <2>5. Typed'
    BY <1>1, <2>1 DEF Sound, Typed
  <2>6. \A c \in Batches : BatchOK(c)'
    BY <1>1, <2>1, BatchFrame DEF Sound
  <2>7. SemOK'
    BY <1>1, <2>1 DEF Sound, SemOK, Holding
  <2> QED BY <2>4, <2>5, <2>6, <2>7 DEF Sound
<1> QED BY <1>2, <1>3

\* sweep writes the files of a batch that nobody runs.
LEMMA SweepFilesSound ==
    ASSUME Sound, SweepFiles
    PROVE  Sound'
<1>1. /\ sweep.at = "files" /\ runs' = runs
      /\ status' = status /\ rows' = rows /\ files' = files /\ creating' = creating
      /\ free' = free /\ queue' = queue /\ granted' = granted
      /\ stage' = stage /\ hard' = hard /\ lives' = lives
      /\ sweep' = [sweep EXCEPT !.at = "save", !.out = rows[sweep.b]] \/ sweep' = NoSweep
  BY DEF SweepFiles, store, sem, life
<1>2. faults' \in 0 .. MaxFaults
  BY FaultsCounted DEF SweepFiles
<1>3. Typed'
  BY <1>1, <1>2 DEF Sound, Typed
<1>4. \A c \in Batches : BatchOK(c)'
  BY <1>1, BatchFrame DEF Sound
<1>5. SemOK'
  BY <1>1 DEF Sound, SemOK, Holding
<1>6. SweepOK'
  <2>1. SweepOK /\ rows \in [Batches -> SUBSET Rows]
    BY DEF Sound, Typed
  <2>2. CASE sweep' = NoSweep
    BY <2>2 DEF SweepOK, NoSweep
  <2>3. CASE sweep' = [sweep EXCEPT !.at = "save", !.out = rows[sweep.b]]
    <3>1. sweep.b \in Batches /\ rows[sweep.b] \in SUBSET Rows
      BY <1>1, <2>1 DEF SweepOK
    <3>2. sweep' = [at |-> "save", b |-> sweep.b, out |-> rows[sweep.b]]
      BY <2>1, <2>3 DEF SweepOK
    <3> QED BY <1>1, <2>1, <3>1, <3>2 DEF SweepOK
  <2> QED BY <1>1, <2>2, <2>3
<1> QED BY <1>3, <1>4, <1>5, <1>6 DEF Sound

\* sweep stores the end of a batch that nobody runs.
LEMMA SweepSaveSound ==
    ASSUME Sound, SweepSave
    PROVE  Sound'
<1>0. sweep.at = "save" /\ sweep.b \in Batches
  BY DEF Sound, SweepOK, SweepSave
<1> PICK b \in Batches : b = sweep.b
  BY <1>0
<1>1. /\ sweep.at = "save" /\ sweep' = NoSweep /\ runs' = runs /\ creating' = creating
      /\ free' = free /\ queue' = queue /\ granted' = granted
      /\ stage' = stage /\ hard' = hard /\ lives' = lives
  BY DEF SweepSave, sem, life
<1>2. faults' \in 0 .. MaxFaults
  BY FaultsCounted DEF SweepSave
<1>3. /\ b \in Batches /\ runs[b].at = "none" /\ b \notin creating /\ sweep.out = rows[b]
      /\ sweep.out \in SUBSET Rows
  BY <1>1 DEF Sound, SweepOK
<1>4. SweepOK'
  BY <1>1 DEF SweepOK, NoSweep
<1>5. SemOK'
  BY <1>1 DEF Sound, SemOK, Holding
<1>6. CASE UNCHANGED store
  <2>1. status' = status /\ rows' = rows /\ files' = files
    BY <1>6 DEF store
  <2>2. Typed'
    BY <1>1, <1>2, <2>1 DEF Sound, Typed
  <2>3. \A c \in Batches : BatchOK(c)'
    BY <1>1, <2>1, BatchFrame DEF Sound
  <2> QED BY <1>4, <1>5, <2>2, <2>3 DEF Sound
<1>7. CASE /\ status' = [status EXCEPT ![b] = "expired"]
           /\ files' = [files EXCEPT ![b] = sweep.out] /\ UNCHANGED rows
  <2>1. Typed /\ BatchOK(b) /\ "expired" \in Statuses
    BY <1>3 DEF Sound, Statuses, Terminal
  <2>2. /\ status' \in [Batches -> Statuses] /\ status'[b] = "expired"
        /\ \A c \in Batches : c # b => status'[c] = status[c]
    BY <1>3, <1>7, <2>1 DEF Typed
  <2>3. /\ files' \in [Batches -> SUBSET Rows] /\ files'[b] = rows[b]
        /\ \A c \in Batches : c # b => files'[c] = files[c]
    BY <1>3, <1>7, <2>1 DEF Typed
  <2>4. Typed'
    BY <1>1, <1>2, <1>7, <2>1, <2>2, <2>3 DEF Typed
  <2>5. rows' = rows
    BY <1>7
  <2>6. Working(b, runs[b], "expired", rows[b]) /\ Recorded(b, "expired", rows[b], rows[b])
    BY <1>3, <2>1 DEF BatchOK, Working, Recorded
  <2>7. BatchOK(b)'
    BY <1>1, <1>3, <2>1, <2>2, <2>3, <2>5, <2>6 DEF BatchOK
  <2>8. \A c \in Batches : c # b => BatchOK(c)'
    BY <1>1, <2>2, <2>3, <2>5, BatchFrame DEF Sound
  <2> QED BY <1>4, <1>5, <2>4, <2>7, <2>8 DEF Sound
<1> QED BY <1>6, <1>7 DEF SweepSave, Saved

\* Cancel stops the run, or ends a batch that has none.
LEMMA CancelSound ==
    ASSUME Sound, NEW b \in Batches, Cancel(b)
    PROVE  Sound'
<1>1. /\ creating' = creating /\ sweep' = sweep /\ free' = free /\ queue' = queue
      /\ granted' = granted /\ stage' = stage /\ hard' = hard /\ lives' = lives
      /\ rows' = rows /\ files' = files /\ Active(b)
  BY DEF Cancel, SetStatus, store, sem, life
<1>2. faults' \in 0 .. MaxFaults
  BY FaultsCounted DEF Cancel
<1>3. status[b] \in Statuses /\ status = [status EXCEPT ![b] = status[b]]
  BY Parts
<1>4. CASE runs[b].at # "none"
  <2>1. runs' = [runs EXCEPT ![b] = Halted(runs[b], "cancel")]
    BY <1>4 DEF Cancel
  <2>2. CASE status' = status
    <3>1. status[b] # "cancelled" /\ status' = [status EXCEPT ![b] = status[b]]
      BY <1>1, <1>3, <2>2 DEF Active, Terminal
    <3> QED BY <1>1, <1>2, <1>4, <2>1, <3>1, HaltSound
  <2>3. CASE status' = [status EXCEPT ![b] = IF runs[b].at # "none" /\ runs[b].phase = "dispatch"
                                            THEN "cancelling" ELSE "cancelled"]
    <3>1. CASE runs[b].phase = "dispatch"
      <4>1. status' = [status EXCEPT ![b] = "cancelling"]
        BY <1>4, <2>3, <3>1
      <4> QED BY <1>1, <1>2, <1>4, <2>1, <4>1, HaltSound
    <3>2. CASE runs[b].phase # "dispatch"
      <4>1. status' = [status EXCEPT ![b] = "cancelled"]
        BY <1>4, <2>3, <3>2
      <4> QED BY <1>1, <1>2, <1>4, <2>1, <3>2, <4>1, HaltSound
    <3> QED BY <3>1, <3>2
  <2> QED BY <2>2, <2>3 DEF Cancel, SetStatus, store
<1>5. CASE runs[b].at = "none"
  <2>1. runs' = runs
    BY <1>5 DEF Cancel
  <2>2. SemOK'
    BY <1>1, <2>1 DEF Sound, SemOK, Holding
  <2>3. CASE status' = status
    <3>1. Typed'
      BY <1>1, <1>2, <2>1, <2>3 DEF Sound, Typed
    <3>2. \A c \in Batches : BatchOK(c)'
      BY <1>1, <2>1, <2>3, BatchFrame DEF Sound
    <3>3. SweepOK'
      BY <1>1, <2>1, <2>3 DEF Sound, SweepOK
    <3> QED BY <2>2, <3>1, <3>2, <3>3 DEF Sound
  <2>4. CASE status' = [status EXCEPT ![b] = "cancelled"]
    <3>1. Typed /\ BatchOK(b) /\ "cancelled" \in Statuses
      BY DEF Sound, Statuses, Terminal
    <3>2. /\ status' \in [Batches -> Statuses] /\ status'[b] = "cancelled"
          /\ \A c \in Batches : c # b => status'[c] = status[c]
      BY <2>4, <3>1 DEF Typed
    <3>3. Typed'
      BY <1>1, <1>2, <2>1, <3>1, <3>2 DEF Typed
    <3>4. Working(b, runs[b], "cancelled", rows[b]) /\ Recorded(b, "cancelled", rows[b], files[b])
      BY <1>5, <3>1 DEF BatchOK, Working, Recorded
    <3>5. BatchOK(b)'
      BY <1>1, <2>1, <3>1, <3>2, <3>4 DEF BatchOK
    <3>6. \A c \in Batches : c # b => BatchOK(c)'
      BY <1>1, <2>1, <3>2, BatchFrame DEF Sound
    <3>7. SweepOK'
      BY <1>1, <2>1, <3>2 DEF Sound, SweepOK
    <3> QED BY <2>2, <3>3, <3>5, <3>6, <3>7 DEF Sound
  <2>5. status' = status \/ status' = [status EXCEPT ![b] = "cancelled"]
    BY <1>5 DEF Cancel, SetStatus, store
  <2> QED BY <2>3, <2>4, <2>5
<1> QED BY <1>4, <1>5

----------------------------------------------------------------------------
(***************************************************************************)
(* Close, crash and restart.                                               *)
(***************************************************************************)
LEMMA CloseStartSound ==
    ASSUME Sound, CloseStart
    PROVE  Sound'
<1>1. /\ stage = "up" /\ stage' = "closing" /\ creating' = creating /\ sweep' = sweep
      /\ runs' = runs /\ free' = free /\ queue' = queue /\ granted' = granted /\ hard' = hard
      /\ lives' = lives /\ faults' = faults /\ status' = status /\ rows' = rows /\ files' = files
  BY DEF CloseStart, store, sem
<1>2. Typed'
  BY <1>1 DEF Sound, Typed
<1>3. \A c \in Batches : BatchOK(c)'
  BY <1>1 DEF Sound, BatchOK
<1>4. SweepOK'
  BY <1>1 DEF Sound, SweepOK
<1>5. SemOK'
  BY <1>1 DEF Sound, SemOK, Holding
<1> QED BY <1>2, <1>3, <1>4, <1>5 DEF Sound

\* Close stops waiting for a run.
LEMMA HardStopSound ==
    ASSUME Sound, HardStop
    PROVE  Sound'
<1>1. /\ stage = "halted" /\ stage' = stage /\ creating' = creating /\ sweep' = sweep
      /\ runs' = runs /\ free' = free /\ queue' = queue /\ granted' = granted /\ hard' = TRUE
      /\ lives' = lives /\ faults' = faults /\ status' = status /\ rows' = rows /\ files' = files
  BY DEF HardStop, store, sem
<1>2. Typed'
  BY <1>1 DEF Sound, Typed
<1>3. \A c \in Batches : BatchOK(c)'
  BY <1>1, BatchFrame DEF Sound
<1>4. SweepOK'
  BY <1>1 DEF Sound, SweepOK
<1>5. SemOK'
  BY <1>1 DEF Sound, SemOK, Holding
<1> QED BY <1>2, <1>3, <1>4, <1>5 DEF Sound

\* Close halts every run and empties the queue; who waited finds the semaphore closed.
LEMMA CloseHaltSound ==
    ASSUME Sound, CloseHalt
    PROVE  Sound'
<1>1. /\ stage = "closing" /\ stage' = "halted" /\ sweep.at = "idle" /\ sweep' = sweep
      /\ creating' = creating /\ queue' = <<>> /\ free' = free /\ granted' = granted
      /\ hard' = hard /\ lives' = lives /\ faults' = faults
      /\ status' = status /\ rows' = rows /\ files' = files
      /\ runs' = [b \in Batches |-> IF runs[b].at = "none" THEN NoRun
                                    ELSE Halted(runs[b], "shutdown")]
  BY DEF CloseHalt, store
<1>2. ASSUME NEW c \in Batches
      PROVE  /\ BatchOK(c)' /\ runs'[c] \in Run
             /\ runs'[c].slot = runs[c].slot \/ (~runs'[c].slot /\ ~runs[c].slot)
             /\ runs[c].at = "wait" => runs'[c].at = "wait"
  <2>1. BatchOK(c) /\ runs[c] \in Run
    BY DEF Sound, Typed
  <2>2. CASE runs[c].at = "none"
    <3>1. runs'[c] = NoRun
      BY <1>1, <2>2
    <3>2. ~runs[c].slot
      BY <2>1, <2>2 DEF BatchOK, Formed
    <3>3. Working(c, NoRun, status[c], rows[c])
      BY <2>1, NoRunGood DEF BatchOK, Working
    <3>4. BatchOK(c)'
      BY <1>1, <2>1, <3>1, <3>3, NoRunGood DEF BatchOK
    <3> QED BY <2>2, <3>1, <3>2, <3>4, NoRunGood DEF Formed
  <2>3. CASE runs[c].at # "none"
    <3> DEFINE q == Halted(runs[c], "shutdown")
    <3>1. /\ q \in Run /\ q.stop /\ q.why # "none" /\ q.at = runs[c].at /\ q.phase = runs[c].phase
          /\ q.slot = runs[c].slot /\ q.todo = runs[c].todo /\ q.flying = runs[c].flying
          /\ q.waits = runs[c].waits /\ q.tries = runs[c].tries /\ q.bad = runs[c].bad
          /\ q.final = runs[c].final /\ q.out = runs[c].out
      BY <2>1, HaltedOK
    <3>2. runs'[c] = q
      BY <1>1, <2>3
    <3> HIDE DEF q
    <3>3. Formed(q)
      BY <2>1, <3>1 DEF BatchOK, Formed
    <3>4. Working(c, q, status[c], rows[c])
      BY <2>1, <3>1 DEF BatchOK, Working
    <3>5. BatchOK(c)'
      BY <1>1, <2>1, <2>3, <3>1, <3>2, <3>3, <3>4 DEF BatchOK
    <3> QED BY <3>1, <3>2, <3>5
  <2> QED BY <2>2, <2>3
<1>3. runs' \in [Batches -> Run]
  BY <1>1, <1>2
<1>4. Typed'
  BY <1>1, <1>3 DEF Sound, Typed
<1>5. SweepOK'
  BY <1>1 DEF Sound, SweepOK
<1>6. SemOK'
  <2>1. SemOK
    BY DEF Sound
  <2>2. Holding' = Holding
    BY <1>2 DEF Holding
  <2>3. \A c \in granted : runs'[c].at = "wait"
    BY <1>2, <2>1 DEF SemOK
  <2>4. queue' \in Seq(Batches) /\ Len(queue') = 0
    BY <1>1
  <2> QED BY <1>1, <2>1, <2>2, <2>3, <2>4 DEF SemOK
<1> QED BY <1>2, <1>4, <1>5, <1>6 DEF Sound

\* The process is gone: what is left is the store.
LEMMA GoneSound ==
    ASSUME Sound, Gone
    PROVE  Sound'
<1>1. /\ stage' = "down" /\ hard' = FALSE /\ creating' = {} /\ sweep' = NoSweep
      /\ runs' = [b \in Batches |-> NoRun]
      /\ free' = MaxActiveBatches /\ queue' = <<>> /\ granted' = {}
      /\ lives' = lives /\ faults' = faults /\ status' = status /\ rows' = rows /\ files' = files
  BY DEF Gone, store
<1>2. NoRun \in Run
  BY NoRunGood DEF Formed
<1>3. runs' \in [Batches -> Run] /\ \A c \in Batches : runs'[c] = NoRun
  BY <1>1, <1>2
<1>4. Typed'
  BY <1>1, <1>3 DEF Sound, Typed
<1>5. ASSUME NEW c \in Batches PROVE BatchOK(c)'
  <2>1. BatchOK(c)
    BY DEF Sound
  <2>2. Working(c, NoRun, status[c], rows[c])
    BY <2>1, NoRunGood DEF BatchOK, Working
  <2> QED BY <1>1, <1>3, <2>1, <2>2, NoRunGood DEF BatchOK
<1>6. SweepOK'
  BY <1>1 DEF SweepOK, NoSweep
<1>7. SemOK'
  <2>1. Holding' = {}
    BY <1>3, NoRunGood DEF Holding
  <2>2. Cardinality({}) = 0 /\ MaxActiveBatches \in Nat
    BY FS_EmptySet, BatchAssumption
  <2>3. queue' \in Seq(Batches) /\ Len(queue') = 0
    BY <1>1
  <2>4. free' + Cardinality(Holding') + Cardinality(granted') = MaxActiveBatches
    BY <1>1, <2>1, <2>2
  <2> QED BY <1>1, <2>2, <2>3, <2>4 DEF SemOK
<1> QED BY <1>4, <1>5, <1>6, <1>7 DEF Sound

\* Recover gives every batch that is not terminal a run, and there was none.
LEMMA RestartSound ==
    ASSUME Sound, Restart
    PROVE  Sound'
<1>1. /\ stage = "down" /\ stage' = "up" /\ lives < MaxLives /\ lives' = lives + 1
      /\ creating' = creating /\ sweep' = sweep /\ hard' = hard /\ faults' = faults
      /\ free' = free /\ queue' = queue /\ granted' = granted
      /\ status' = status /\ rows' = rows /\ files' = files
      /\ runs' = [b \in Batches |->
                   IF ~Active(b) THEN NoRun
                   ELSE Started(IF status[b] = "cancelling" THEN "cancel" ELSE "none")]
  BY DEF Restart, store, sem
<1>2. NoRun \in Run
  BY NoRunGood DEF Formed
<1>3. ASSUME NEW c \in Batches
      PROVE  /\ BatchOK(c)' /\ runs'[c] \in Run /\ ~runs'[c].slot /\ ~runs[c].slot
             /\ runs[c].at = "none" /\ c \notin creating
  <2>1. BatchOK(c)
    BY DEF Sound
  <2>2. runs[c].at = "none" /\ c \notin creating /\ ~runs[c].slot
    BY <1>1, <2>1 DEF BatchOK, Formed
  <2>3. CASE ~Active(c)
    <3>1. runs'[c] = NoRun
      BY <1>1, <2>3
    <3>2. Working(c, NoRun, status[c], rows[c])
      BY <2>1, NoRunGood DEF BatchOK, Working
    <3>3. BatchOK(c)'
      BY <1>1, <2>1, <2>2, <3>1, <3>2, NoRunGood DEF BatchOK
    <3> QED BY <1>2, <2>2, <3>1, <3>3, NoRunGood
  <2>4. CASE Active(c)
    <3> DEFINE y == IF status[c] = "cancelling" THEN "cancel" ELSE "none"
               q == Started(y)
    <3>1. runs'[c] = q
      BY <1>1, <2>4
    <3>2. y \in {"none", "cancel"}
      OBVIOUS
    <3> HIDE DEF y
    <3>3. /\ Formed(q) /\ q.at = "load" /\ ~q.slot
          /\ q.todo = {} /\ q.flying = {} /\ q.waits = {}
      BY <3>2, StartedOK
    <3> HIDE DEF q
    <3>4. Working(c, q, status[c], rows[c])
      BY <2>1, <2>4, <3>3 DEF BatchOK, Working, Active
    <3>5. BatchOK(c)'
      BY <1>1, <2>1, <2>2, <3>1, <3>3, <3>4 DEF BatchOK
    <3> QED BY <2>2, <3>1, <3>3, <3>5 DEF Formed
  <2> QED BY <2>3, <2>4
<1>4. runs' \in [Batches -> Run]
  BY <1>1, <1>3
<1>5. Typed'
  BY <1>1, <1>4, BatchAssumption DEF Sound, Typed
<1>6. SweepOK'
  BY <1>1 DEF Sound, SweepOK
<1>7. SemOK'
  <2>1. SemOK
    BY DEF Sound
  <2>2. Holding' = Holding
    BY <1>3 DEF Holding
  <2>3. \A i \in 1 .. Len(queue) : queue[i] \in Batches /\ runs[queue[i]].at = "wait"
    BY <2>1 DEF SemOK
  <2>4. Len(queue) = 0 \/ 1 \in 1 .. Len(queue)
    BY <2>1 DEF SemOK
  <2>5. Len(queue) = 0
    BY <1>3, <2>3, <2>4
  <2>6. granted = {}
    BY <1>3, <2>1 DEF SemOK
  <2> QED BY <1>1, <2>1, <2>2, <2>5, <2>6 DEF SemOK
<1> QED BY <1>3, <1>5, <1>6, <1>7 DEF Sound

----------------------------------------------------------------------------
(***************************************************************************)
(* The invariant holds.                                                    *)
(***************************************************************************)

\* No batch, no run, every slot free.
LEMMA SoundInit == Init => Sound
<1> SUFFICES ASSUME Init PROVE Sound
  OBVIOUS
<1>1. NoRun \in Run
  BY NoRunGood DEF Formed
<1>2. /\ MaxActiveBatches \in Nat /\ 1 \in 1 .. MaxLives /\ 0 \in 0 .. MaxFaults
  BY BatchAssumption
<1>3. Typed
  BY <1>1, <1>2 DEF Init, Typed, Statuses
<1>4. ASSUME NEW b \in Batches PROVE BatchOK(b)
  <2>1. runs[b] = NoRun /\ status[b] = "none" /\ rows[b] = {} /\ files[b] = {}
    BY DEF Init
  <2>2. Working(b, NoRun, "none", {}) /\ Recorded(b, "none", {}, {})
    BY NoRunGood DEF Working, Recorded
  <2> QED BY <2>1, <2>2, NoRunGood DEF BatchOK, Init
<1>5. SweepOK
  BY DEF Init, SweepOK, NoSweep
<1>6. SemOK
  <2>1. Holding = {} /\ granted = {} /\ queue = <<>> /\ free = MaxActiveBatches
    BY NoRunGood DEF Init, Holding
  <2>2. Cardinality(Holding) = 0 /\ Cardinality(granted) = 0
    BY <2>1, FS_EmptySet
  <2>3. queue \in Seq(Batches) /\ Len(queue) = 0
    BY <2>1
  <2> QED BY <1>2, <2>1, <2>2, <2>3 DEF SemOK
<1> QED BY <1>3, <1>4, <1>5, <1>6 DEF Sound

\* Every step of the service keeps it.
LEMMA NextSound == Sound /\ [Next]_vars => Sound'
<1> SUFFICES ASSUME Sound, [Next]_vars PROVE Sound'
  OBVIOUS
<1>1. ASSUME NEW b \in Batches, Create(b) \/ RunStep(b) \/ Cancel(b) PROVE Sound'
  <2>1. CASE Create(b)
    BY <2>1, CreateSound
  <2>2. CASE RunStep(b)
    <3>1. CASE Start(b)
      BY <3>1, StartSound
    <3>2. CASE Load(b)
      BY <3>2, LoadSound
    <3>3. CASE Prepare(b)
      BY <3>3, PrepareSound
    <3>4. CASE Acquire(b)
      BY <3>4, AcquireSound
    <3>5. CASE Take(b)
      BY <3>5, TakeSound
    <3>6. CASE Abandon(b)
      BY <3>6, AbandonSound
    <3>7. CASE EnterDispatch(b)
      BY <3>7, EnterDispatchSound
    <3>8. CASE DispatchEnd(b)
      BY <3>8, DispatchEndSound
    <3>9. CASE Settle(b)
      BY <3>9, SettleSound
    <3>10. CASE FinalStart(b)
      BY <3>10, FinalStartSound
    <3>11. CASE FinalFiles(b)
      BY <3>11, FinalFilesSound
    <3>12. CASE FinalSave(b)
      BY <3>12, FinalSaveSound
    <3> QED
      BY <2>2, <3>1, <3>2, <3>3, <3>4, <3>5, <3>6, <3>7, <3>8, <3>9, <3>10, <3>11, <3>12
      DEF RunStep
  <2>3. CASE Cancel(b)
    BY <2>3, CancelSound
  <2> QED BY <1>1, <2>1, <2>2, <2>3
<1>2. ASSUME NEW b \in Batches, NEW r \in Rows, RowStep(b, r) PROVE Sound'
  <2>1. CASE RowSend(b, r)
    BY <2>1, RowSendSound
  <2>2. CASE RowBackoff(b, r)
    BY <2>2, RowBackoffSound
  <2>3. CASE RowSettle(b, r)
    BY <2>3, RowSettleSound
  <2>4. CASE RowLeave(b, r)
    BY <2>4, RowLeaveSound
  <2> QED BY <1>2, <2>1, <2>2, <2>3, <2>4 DEF RowStep
<1>3. CASE Sweeper
  <2>1. ASSUME NEW b \in Batches, Sweep(b) PROVE Sound'
    BY <2>1, SweepSound
  <2>2. CASE SweepFiles
    BY <2>2, SweepFilesSound
  <2>3. CASE SweepSave
    BY <2>3, SweepSaveSound
  <2> QED BY <1>3, <2>1, <2>2, <2>3 DEF Sweeper
<1>4. CASE CloseStart
  BY <1>4, CloseStartSound
<1>5. CASE Closing
  <2>1. CASE CloseHalt
    BY <2>1, CloseHaltSound
  <2>2. CASE CloseDone
    BY <2>2, GoneSound DEF CloseDone
  <2> QED BY <1>5, <2>1, <2>2 DEF Closing
<1>6. CASE HardStop
  BY <1>6, HardStopSound
<1>7. CASE Crash
  BY <1>7, GoneSound DEF Crash
<1>8. CASE Restart
  BY <1>8, RestartSound
<1>9. CASE UNCHANGED vars
  <2>1. /\ status' = status /\ rows' = rows /\ files' = files /\ creating' = creating
        /\ runs' = runs /\ free' = free /\ queue' = queue /\ granted' = granted
        /\ sweep' = sweep /\ stage' = stage /\ hard' = hard /\ lives' = lives /\ faults' = faults
    BY <1>9 DEF vars, store, sem, life
  <2>2. Typed'
    BY <2>1 DEF Sound, Typed
  <2>3. \A c \in Batches : BatchOK(c)'
    BY <2>1, BatchFrame DEF Sound
  <2>4. SweepOK'
    BY <2>1 DEF Sound, SweepOK
  <2>5. SemOK'
    BY <2>1 DEF Sound, SemOK, Holding
  <2> QED BY <2>2, <2>3, <2>4, <2>5 DEF Sound
<1> QED BY <1>1, <1>2, <1>3, <1>4, <1>5, <1>6, <1>7, <1>8, <1>9 DEF Next, Over

\* The inductive invariant is one: runs, records, semaphore and sweeper stay in step
\* through every interleaving, failure, close, crash and restart.
THEOREM Soundness == Spec => []Sound
<1>1. Init => Sound
  BY SoundInit
<1>2. Sound /\ [Next]_vars => Sound'
  BY NextSound
<1> QED BY <1>1, <1>2, PTL DEF Spec

\* Type correctness of the records, the runs, the semaphore and the sweeper; with it,
\* no row is tried more than MaxAttempts times in a run.
THEOREM TypeCorrect == Spec => []TypeOK
<1>1. Sound => TypeOK
  <2> SUFFICES ASSUME Sound PROVE TypeOK
    OBVIOUS
  <2>1. Typed /\ SweepOK /\ SemOK
    BY DEF Sound
  <2>2. free \in 0 .. MaxActiveBatches
    BY <2>1, SemFinite DEF SemOK
  <2> QED BY <2>1, <2>2 DEF Typed, SweepOK, SemOK, TypeOK, Statuses
<1> QED BY <1>1, Soundness, PTL

\* No dispatch slot is lost or invented, whoever gives up while being handed one
\* (fifoSem.acquire, abandon, release).
THEOREM SlotsKeptHolds == Spec => []SlotsKept
<1>1. Sound => SlotsKept
  BY DEF Sound, SemOK, Holding, SlotsKept
<1> QED BY <1>1, Soundness, PTL

\* A finished row is never sent again, whatever happened to the process in between
\* (planRows, settleRow, Recover).
THEOREM PaidOnceHolds == Spec => []PaidOnce
<1>1. Sound => PaidOnce
  BY DEF Sound, BatchOK, Working, PaidOnce
<1> QED BY <1>1, Soundness, PTL

\* A batch that says completed has every row finished and in its result files, and one
\* that expired has what finished in them (enterDispatch, settle, finalize, Sweep).
THEOREM ResultsMatchHolds == Spec => []ResultsMatch
<1>1. Sound => ResultsMatch
  BY DEF Sound, BatchOK, Recorded, ResultsMatch, CompletedIsComplete, ExpiredKeepsRows
<1> QED BY <1>1, Soundness, PTL

----------------------------------------------------------------------------
(***************************************************************************)
(* A batch has one end.                                                    *)
(***************************************************************************)
EndsKept == \A b \in Batches :
    status[b] \in Terminal => status'[b] = status[b] /\ files'[b] = files[b]

\* What every write of a record has in common: it changes one that has not ended.
LEMMA EndOf ==
    ASSUME Sound, NEW b \in Batches, status[b] \notin Terminal, NEW s, NEW o,
           status' = [status EXCEPT ![b] = s],
           files' = files \/ files' = [files EXCEPT ![b] = o]
    PROVE  EndsKept
<1>1. \A c \in Batches : c # b => status'[c] = status[c] /\ files'[c] = files[c]
  BY DEF Sound, Typed
<1> QED BY <1>1 DEF EndsKept

\* finalize reads the record again under the lock.
LEMMA SavedKeeps ==
    ASSUME Sound, NEW b \in Batches, NEW s, NEW o, Saved(b, s, o)
    PROVE  EndsKept
<1>1. CASE status[b] \in Terminal
  BY <1>1 DEF Saved, store, EndsKept
<1>2. CASE status[b] \notin Terminal
  BY <1>2, EndOf DEF Saved
<1> QED BY <1>1, <1>2

\* Create, Prepare, EnterDispatch, DispatchEnd, FinalStart and Cancel write a status only.
LEMMA SetStatusKeeps ==
    ASSUME Sound, NEW b \in Batches, NEW s, status[b] \notin Terminal, SetStatus(b, s)
    PROVE  EndsKept
  BY EndOf DEF SetStatus

\* A step that leaves records and files alone changes no end.
LEMMA StoreKeeps ==
    ASSUME status' = status, files' = files
    PROVE  EndsKept
  BY DEF EndsKept

\* The steps of one batch: its run's, its owner's.
LEMMA BatchKeeps ==
    ASSUME Sound, NEW b \in Batches, Create(b) \/ RunStep(b) \/ Cancel(b)
    PROVE  EndsKept
<1>1. CASE Create(b)
  <2>1. status[b] \notin Terminal /\ SetStatus(b, "validating")
    BY <1>1 DEF Create, Terminal
  <2> QED BY <2>1, SetStatusKeeps
<1>2. CASE Start(b) \/ Load(b) \/ Acquire(b) \/ Take(b) \/ Abandon(b) \/ Settle(b) \/ FinalFiles(b)
  <2>1. UNCHANGED store
    BY <1>2 DEF Start, Load, Acquire, Take, Abandon, Settle, FinalFiles, store
  <2> QED BY <2>1, StoreKeeps DEF store
<1>3. CASE Prepare(b)
  <2>1. \/ UNCHANGED store
        \/ status[b] \notin Terminal /\ SetStatus(b, "failed")
        \/ status[b] \notin Terminal /\ SetStatus(b, "queued")
    BY <1>3 DEF Prepare, Active, Terminal
  <2> QED BY <2>1, StoreKeeps, SetStatusKeeps DEF store
<1>4. CASE EnterDispatch(b)
  <2>1. \/ UNCHANGED store
        \/ status[b] \notin Terminal /\ SetStatus(b, "in_progress")
    BY <1>4 DEF EnterDispatch, Active, store
  <2> QED BY <2>1, StoreKeeps, SetStatusKeeps DEF store
<1>5. CASE DispatchEnd(b)
  <2>1. \/ UNCHANGED store
        \/ status[b] \notin Terminal /\ SetStatus(b, "failed")
    BY <1>5 DEF DispatchEnd, Active
  <2> QED BY <2>1, StoreKeeps, SetStatusKeeps DEF store
<1>6. CASE FinalStart(b)
  <2>1. \/ UNCHANGED store
        \/ status[b] \notin Terminal /\ SetStatus(b, "finalizing")
    BY <1>6 DEF FinalStart
  <2> QED BY <2>1, StoreKeeps, SetStatusKeeps DEF store
<1>7. CASE FinalSave(b)
  <2>1. UNCHANGED store \/ Saved(b, runs[b].final, runs[b].out)
    BY <1>7 DEF FinalSave
  <2> QED BY <2>1, StoreKeeps, SavedKeeps DEF store
<1>8. CASE Cancel(b)
  <2> DEFINE s == IF runs[b].at # "none" /\ runs[b].phase = "dispatch" THEN "cancelling"
                  ELSE "cancelled"
  <2>1. UNCHANGED store \/ (status[b] \notin Terminal /\ SetStatus(b, s))
    BY <1>8 DEF Cancel, Active
  <2> QED BY <2>1, StoreKeeps, SetStatusKeeps DEF store
<1> QED BY <1>1, <1>2, <1>3, <1>4, <1>5, <1>6, <1>7, <1>8 DEF RunStep

\* Every step keeps the inductive invariant.
LEMMA NextKeeps ==
    ASSUME Sound, [Next]_vars
    PROVE  EndsKept
<1>1. ASSUME NEW b \in Batches, Create(b) \/ RunStep(b) \/ Cancel(b) PROVE EndsKept
  BY <1>1, BatchKeeps
<1>2. ASSUME NEW b \in Batches, NEW r \in Rows, RowStep(b, r) PROVE EndsKept
  <2>1. status' = status /\ files' = files
    BY <1>2 DEF RowStep, RowSend, RowBackoff, RowSettle, RowLeave, store
  <2> QED BY <2>1, StoreKeeps
<1>3. CASE SweepSave
  <2>1. sweep.b \in Batches
    BY <1>3 DEF SweepSave, Sound, SweepOK
  <2>2. UNCHANGED store \/ Saved(sweep.b, "expired", sweep.out)
    BY <1>3 DEF SweepSave
  <2> QED BY <2>1, <2>2, StoreKeeps, SavedKeeps DEF store
<1>4. CASE (\E b \in Batches : Sweep(b)) \/ SweepFiles \/ CloseStart \/ Closing \/ HardStop
           \/ Crash \/ Restart \/ UNCHANGED vars
  <2>1. UNCHANGED store
    BY <1>4 DEF Sweep, SweepFiles, CloseStart, Closing, CloseHalt, CloseDone, HardStop, Crash,
                Gone, Restart, vars, store
  <2> QED BY <2>1, StoreKeeps DEF store
<1> QED BY <1>1, <1>2, <1>3, <1>4 DEF Next, Over, Sweeper

\* A batch has one end: the run, the sweeper, Cancel and a later process never rewrite
\* the status or the result files of a record that is terminal.
THEOREM EndsOnceHolds == Spec => EndsOnce
<1>1. Sound /\ [Next]_vars => [EndsKept]_vars
  BY NextKeeps
<1>2. Sound /\ [Next]_vars => [\A b \in Batches : status[b] \in Terminal =>
                                    status'[b] = status[b] /\ files'[b] = files[b]]_vars
  BY <1>1 DEF EndsKept
<1> QED BY <1>2, Soundness, PTL DEF Spec, EndsOnce
=============================================================================
