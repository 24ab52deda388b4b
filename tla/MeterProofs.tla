---------------------------- MODULE MeterProofs ----------------------------
(***************************************************************************)
(* Proofs about Meter, for any number of events and processes, any ring,   *)
(* segment, spool and batch size and any number of sink failures: types,   *)
(* what a crash costs, and that the spool implements at-least-once         *)
(* delivery (Delivery).                                                    *)
(*                                                                         *)
(* The invariant has three layers.  Base says that the carry-over file     *)
(* covers the flush in progress and that segment numbers grow; Orderly     *)
(* that traces pass from the ring through the drain to the disk in the     *)
(* order of their events, so that no trace is in two places; both hold     *)
(* wherever a process dies.  Kept ties the cursor to the position of the   *)
(* reader and to the rows of the sink, and holds when no crash falls       *)
(* between the two halves of Commit (~TornCommit): with one there the      *)
(* cursor may name a segment that is gone.                                 *)
(***************************************************************************)
EXTENDS Meter, FiniteSetTheorems, SequenceTheorems, WellFoundedInduction, TLAPS

-----------------------------------------------------------------------------
(* The inductive invariant.                                                *)

\* The carry-over file holds nothing that the flush in progress does not hold too,
\* or has not counted.
Settling ==
    /\ (up /\ num.at = "idle") => carry = pending
    /\ num.at = "write" => carry \subseteq num.buckets
    /\ num.at = "persist" => \A e \in carry : stored[e] > 0 \/ e \in pending
    /\ ~up => num = NoNum

\* A segment's number is below the next one; a process that is down holds nothing.
Resting ==
    /\ up => \A s \in Live : s < nextSeq
    /\ ~up => /\ ring = <<>> /\ drain = NoDrain /\ ship = NoShip
              /\ ~active /\ readOff = 0 /\ nextSeq = 0

Base == TypeOK /\ Settling /\ Resting

Rising(s) == \A i, j \in DOMAIN s : i < j => s[i] < s[j]

\* The traces in memory, oldest event first: the drain's buffer, then the ring.
Lined ==
    /\ Rising(ring) /\ Rising(drain.buf)
    /\ \A i \in DOMAIN ring : ring[i] <= made
    /\ \A i \in DOMAIN drain.buf : drain.buf[i] <= made
    /\ \A i \in DOMAIN drain.buf, j \in DOMAIN ring : drain.buf[i] < ring[j]

\* The records on disk, oldest event first.
Ordered == \A p, q \in Spots : Behind(q, p) => At(p) < At(q)

OnDisk == {At(p) : p \in Spots}

Taken == OnDisk \cup rows

\* What is on disk or in the sink is older than what is still in memory.
Ahead ==
    \A e \in Taken :
        /\ e <= made
        /\ \A i \in DOMAIN drain.buf : e < drain.buf[i]
        /\ \A i \in DOMAIN ring : e < ring[i]

\* A batch in the sink's hands is still on disk.
Aboard == ship.at = "write" => ship.batch \subseteq OnDisk

Orderly == Lined /\ Ordered /\ Ahead /\ Aboard

\* The reader stands inside the oldest segment.
Aimed == IF Live = {} THEN readOff = 0 ELSE readOff <= Len(segs[Oldest])

\* No live segment is older than the cursor's, and outside Commit the cursor is
\* where the reader stands, or untouched since the directory was last empty.
Anchored ==
    /\ \A s \in Live : s >= cursor.seq
    /\ ~Committing => \/ cursor = Origin
                      \/ cursor.seq \in Live /\ cursor.off <= Len(segs[cursor.seq])
    /\ up => Aimed
    /\ (up /\ ~Committing) => cursor = Position \/ (cursor = Origin /\ readOff = 0)

\* Every record that is not behind position c is in the sink.
Acked(c) == \A p \in Spots : ~Behind(p, c) => At(p) \in rows

\* What is not behind the cursor is in the sink; a batch is the oldest recoverable
\* traces, at most SpoolBatch of them, and in the sink before Commit moves the cursor.
Shipped ==
    /\ Acked(cursor)
    /\ Committing => /\ Acked(Position)
                     /\ \A p \in Spots : Behind(p, Position) => Behind(p, cursor)
    /\ ship.at \in {"write", "unlink"} =>
          /\ ship.upto \in Spots /\ Behind(ship.upto, cursor)
          /\ ship.batch = {d \in Recoverable : d <= At(ship.upto)}
          /\ Cardinality(ship.batch) <= SpoolBatch
    /\ ship.at = "unlink" => ship.batch \subseteq rows

\* A recoverable trace that is in the sink is among the oldest SpoolBatch.
Near == \A e \in Recoverable \cap rows :
            Cardinality({d \in Recoverable : d <= e}) <= SpoolBatch

Kept == Anchored /\ Shipped /\ Near

Sound == Base /\ Orderly /\ Kept

\* The steps of Delivery, on the traces that can be recovered and the sink's rows.
Stays == Recoverable' = Recoverable /\ rows' = rows
Accepts == \E t \in Events : /\ t \notin Recoverable \cup rows
                            /\ Recoverable' = Recoverable \cup {t} /\ rows' = rows
Delivers == \E b \in SUBSET Events : /\ b \subseteq Recoverable
                                    /\ rows' = rows \cup b /\ Recoverable' = Recoverable
Forgets == \E b \in SUBSET Events : /\ b \subseteq Recoverable \cap rows
                                   /\ Recoverable' = Recoverable \ b /\ rows' = rows

SpoolStep == Stays \/ Accepts \/ Delivers \/ Forgets

-----------------------------------------------------------------------------
(* Numbers, sequences and the records of a spool directory.                *)

\* A non-empty set of naturals has a least element, and Min picks it.
LEMMA LeastNat ==
    ASSUME NEW T, T \subseteq Nat, T # {}
    PROVE  Min(T) \in T /\ \A y \in T : Min(T) <= y
<1>1. PICK x \in T : \A y \in T : <<y, x>> \notin OpToRel(<, Nat)
  BY NatLessThanWellFounded, WFMin, Zenon
<1>2. \A y \in T : ~(y < x)
  BY <1>1 DEF OpToRel
<1>3. \A y \in T : x <= y
  BY <1>2
<1> QED
  BY <1>3 DEF Min

\* A finite non-empty set of naturals has a greatest element, and Max picks it.
LEMMA GreatestNat ==
    ASSUME NEW T, T \subseteq Nat, T # {}, IsFiniteSet(T)
    PROVE  Max(T) \in T /\ \A y \in T : y <= Max(T)
<1> DEFINE Above(x) == {y \in T : y > x}
           All == {Above(x) : x \in T}
<1>1. All \subseteq FiniteSubsetsOf(T) /\ All # {}
  <2>1. All \subseteq SUBSET T /\ All # {}
    OBVIOUS
  <2> HIDE DEF All
  <2> QED BY <2>1, FS_FiniteSubsetsOfFinite
<1>2. PICK U \in All : \A V \in All : <<V, U>> \notin StrictSubsetOrdering(T)
  <2> HIDE DEF All
  <2> QED BY <1>1, FS_StrictSubsetOrderingWellFounded, WFMin
<1>3. PICK x \in T : U = Above(x)
  BY <1>2
<1>4. ASSUME NEW y \in T, y > x
      PROVE  FALSE
  <2>1. Above(y) \subseteq Above(x) /\ y \in Above(x) /\ y \notin Above(y)
    <3>1. \A z \in T : z > y => z > x
      BY <1>4
    <3>2. ~(y > y)
      OBVIOUS
    <3> QED BY <1>4, <3>1, <3>2, Zenon
  <2>2. <<Above(y), U>> \in StrictSubsetOrdering(T)
    BY <1>3, <2>1 DEF StrictSubsetOrdering
  <2> QED BY <1>2, <2>2
<1>5. \A y \in T : x >= y
  BY <1>4
<1>6. Max(T) \in T /\ \A y \in T : Max(T) >= y
  BY <1>5 DEF Max
<1> QED
  BY <1>6

\* What is left of a sequence behind its head.
LEMMA TailIs ==
    ASSUME NEW S, NEW s \in Seq(S), s # <<>>
    PROVE  /\ Head(s) \in S /\ Head(s) = s[1] /\ Len(s) \in Nat /\ 1 <= Len(s)
           /\ Tail(s) \in Seq(S) /\ Len(Tail(s)) = Len(s) - 1
           /\ \A i \in 1 .. Len(s) - 1 : Tail(s)[i] = s[i + 1]
           /\ Len(s) > 1 => Tail(s) # <<>>
<1>1. Len(s) \in Nat /\ Len(s) # 0 /\ Tail(s) \in Seq(S) /\ Len(Tail(s)) = Len(s) - 1
  BY HeadTailProperties, EmptySeq
<1>2. Len(s) > 1 => Tail(s) # <<>>
  <2> DEFINE n == Len(s)
             r == Tail(s)
  <2>1. n \in Nat /\ Len(r) = n - 1
    BY <1>1
  <2> HIDE DEF n, r
  <2>2. r = <<>> => Len(r) = 0
    BY EmptySeq
  <2>3. n > 1 => r # <<>>
    BY <2>1, <2>2
  <2> QED BY <2>3 DEF n, r
<1> QED
  BY <1>1, <1>2, HeadTailProperties

\* The domain and the members of a sequence.
LEMMA MembersOf ==
    ASSUME NEW S, NEW s \in Seq(S)
    PROVE  /\ DOMAIN s = 1 .. Len(s) /\ Len(s) \in Nat
           /\ \A i \in DOMAIN s : i \in Nat /\ s[i] \in S
  BY LenProperties

\* Finitely many segments have finitely many offsets.
LEMMA SpotsAreFinite ==
    ASSUME NEW L, IsFiniteSet(L), SegRecs \in Nat
    PROVE  IsFiniteSet([seq : L, off : 1 .. SegRecs])
<1> DEFINE R == [seq : L, off : 1 .. SegRecs]
           P == L \X (1 .. SegRecs)
           f == [p \in R |-> <<p.seq, p.off>>]
<1>1. IsFiniteSet(P)
  <2>1. IsFiniteSet(1 .. SegRecs)
    BY FS_Interval
  <2> QED BY <2>1, FS_Product
<1>2. f \in Injection(R, P)
  BY DEF Injection, IsInjective
<1> QED
  BY <1>1, <1>2, FS_Injection

\* The spool directory holds finitely many records.
LEMMA FiniteSpots ==
    ASSUME DiskOK
    PROVE  IsFiniteSet(Spots)
<1>1. IsFiniteSet([seq : Live, off : 1 .. SegRecs])
  BY SpotsAreFinite, MeterAssumption DEF DiskOK
<1> QED
  BY <1>1, FS_Subset DEF Spots

\* The numbers the specification is parameterised by.
LEMMA Bounds ==
    /\ MaxEvents \in Nat /\ RingSize \in Nat /\ SegRecs \in Nat /\ SpoolMax \in Nat
    /\ SpoolBatch \in Nat /\ MaxLives \in Nat /\ MaxFaults \in Nat
    /\ 1 <= SegRecs /\ 1 <= MaxLives /\ 1 <= RingSize /\ 1 <= SpoolBatch
    /\ Sampled \subseteq Events /\ Events \subseteq Nat
  BY MeterAssumption DEF Events

\* The oldest segment is the one with the lowest number.
LEMMA OldestIs ==
    ASSUME DiskOK, Live # {}
    PROVE  Oldest \in Live /\ Oldest \in Nat /\ \A s \in Live : Oldest <= s
  BY LeastNat DEF DiskOK, Oldest

\* The newest segment is the one with the highest number.
LEMMA NewestIs ==
    ASSUME DiskOK, Live # {}
    PROVE  Newest \in Live /\ Newest \in Nat /\ \A s \in Live : s <= Newest
  BY GreatestNat DEF DiskOK, Newest

\* The position writeCursor writes is one a cursor can hold.
LEMMA PositionOK ==
    ASSUME DiskOK
    PROVE  Position \in [seq : Nat, off : 0 .. SegRecs]
  BY OldestIs, Bounds DEF DiskOK, Position, Origin

\* A record on disk lies in a live segment and is an event.
LEMMA SpotOK ==
    ASSUME DiskOK, NEW p \in Spots
    PROVE  /\ p.seq \in Live /\ p.seq \in Nat /\ p.off \in 1 .. Len(segs[p.seq])
           /\ p.off \in Nat /\ At(p) \in Events /\ p = [seq |-> p.seq, off |-> p.off]
           /\ p \in [seq : Nat, off : 0 .. SegRecs]
<1>1. /\ p.seq \in Live /\ p.off \in 1 .. SegRecs /\ p.off <= Len(segs[p.seq])
      /\ p = [seq |-> p.seq, off |-> p.off]
  BY DEF Spots
<1>2. p.seq \in Nat /\ segs[p.seq] \in Seq(Events) /\ Len(segs[p.seq]) \in Nat
  BY <1>1 DEF DiskOK
<1>3. p.off \in 1 .. Len(segs[p.seq]) /\ p.off \in Nat /\ p.off \in 0 .. SegRecs
  BY <1>1, <1>2, Bounds
<1>4. At(p) \in Events
  BY <1>2, <1>3 DEF At
<1> QED
  BY <1>1, <1>2, <1>3, <1>4

\* Every offset within a live segment is a record.
LEMMA IsSpot ==
    ASSUME DiskOK, NEW s \in Live, NEW k \in 1 .. Len(segs[s])
    PROVE  [seq |-> s, off |-> k] \in Spots
  BY Bounds DEF DiskOK, Spots

-----------------------------------------------------------------------------
(* The two ways the files change.                                          *)

\* Segments unlinked or cut short: no record appears and the spool stays within its cap.
LEMMA ShrinkStep ==
    ASSUME DiskOK, Live' \subseteq Live, segs' \in [Live' -> Seq(Events)],
           \A s \in Live' : Len(segs'[s]) <= Len(segs[s])
    PROVE  /\ Live' \subseteq Nat /\ IsFiniteSet(Live')
           /\ \A s \in Live' : Len(segs'[s]) <= SegRecs
           /\ Spots' \subseteq Spots /\ Total' <= SpoolMax
<1>1. Live' \subseteq Nat /\ IsFiniteSet(Live')
  BY FS_Subset DEF DiskOK
<1>2. \A s \in Live' : Len(segs[s]) \in Nat /\ Len(segs'[s]) \in Nat
  BY DEF DiskOK
<1>3. \A s \in Live' : Len(segs'[s]) <= SegRecs
  BY <1>2, Bounds DEF DiskOK
<1>4. Spots' \subseteq Spots
  BY <1>2, Bounds DEF Spots
<1>5. Total' <= Total
  BY <1>4, FiniteSpots, FS_Subset DEF Total
<1>6. Total \in Nat /\ Total' \in Nat
  <2>1. IsFiniteSet(Spots')
    BY <1>4, FiniteSpots, FS_Subset
  <2> QED BY <2>1, FiniteSpots, FS_CardinalityType DEF Total
<1> QED
  BY <1>1, <1>3, <1>4, <1>5, <1>6, Bounds DEF DiskOK

\* Append adds one record behind all the others and moves none (activeFor, Append).
LEMMA GrowStep ==
    ASSUME DiskOK, Resting, up, NEW t \in Events, segs' = Appended(t)
    PROVE  \E p \in [seq : Nat, off : 1 .. SegRecs] :
              /\ p \notin Spots /\ Spots' = Spots \cup {p}
              /\ p.seq \in {nextSeq, Newest} /\ (~Roomy => p.seq = nextSeq)
              /\ (Roomy => Live # {} /\ p.seq = Newest)
              /\ Live' = Live \cup {p.seq} /\ segs' \in [Live' -> Seq(Events)]
              /\ \A s \in Live' : Len(segs'[s]) <= SegRecs
              /\ Len(segs'[p.seq]) = p.off
              /\ \A s \in Live : Len(segs[s]) <= Len(segs'[s])
              /\ segs'[p.seq][p.off] = t
              /\ \A q \in Spots : Behind(p, q) /\ segs'[q.seq][q.off] = At(q)
<1>1. CASE Roomy
  <2> DEFINE p == [seq |-> Newest, off |-> Len(segs[Newest]) + 1]
  <2>1. Live # {} /\ Newest \in Live /\ Newest \in Nat /\ \A s \in Live : s <= Newest
    BY <1>1, NewestIs DEF Roomy, DiskOK
  <2>2. segs' = [segs EXCEPT ![Newest] = Append(segs[Newest], t)]
    BY <1>1, <2>1 DEF Appended
  <2>3. /\ segs[Newest] \in Seq(Events) /\ Len(segs[Newest]) \in Nat
        /\ Len(segs[Newest]) < SegRecs
    BY <1>1, <2>1 DEF Roomy, DiskOK
  <2> DEFINE a == Append(segs[Newest], t)
  <2>4. /\ a \in Seq(Events) /\ Len(a) = Len(segs[Newest]) + 1 /\ a[Len(segs[Newest]) + 1] = t
        /\ \A k \in 1 .. Len(segs[Newest]) : a[k] = segs[Newest][k]
    BY <2>3
  <2>5. /\ Live' = Live /\ segs'[Newest] = a
        /\ \A s \in Live : s # Newest => segs'[s] = segs[s]
    BY <2>1, <2>2 DEF Live, DiskOK
  <2> HIDE DEF a
  <2>6. segs' \in [Live' -> Seq(Events)] /\ \A s \in Live' : Len(segs'[s]) <= SegRecs
    BY <2>2, <2>3, <2>4, <2>5, Bounds DEF DiskOK, a
  <2>7. p \in [seq : Nat, off : 1 .. SegRecs] /\ p \notin Spots
    BY <2>1, <2>3, Bounds DEF Spots
  <2>8. \A s \in Live : Len(segs[s]) \in Nat
    BY DEF DiskOK
  <2>9. Spots' = Spots \cup {p}
    <3>1. ASSUME NEW q \in Spots' PROVE q \in Spots \cup {p}
      <4>1. q.seq \in Live /\ q.off \in 1 .. SegRecs /\ q.off <= Len(segs'[q.seq])
            /\ q = [seq |-> q.seq, off |-> q.off]
        BY <2>5 DEF Spots
      <4>2. CASE q.seq = Newest
        BY <2>3, <2>4, <2>5, <4>1, <4>2, Bounds DEF Spots
      <4>3. CASE q.seq # Newest
        BY <2>5, <4>1, <4>3 DEF Spots
      <4> QED BY <4>2, <4>3
    <3>2. ASSUME NEW q \in Spots PROVE q \in Spots'
      <4>1. q.seq \in Live /\ q.off \in 1 .. SegRecs /\ q.off <= Len(segs[q.seq])
            /\ q \in [seq : Live, off : 1 .. SegRecs]
        BY DEF Spots
      <4>2. Len(segs[q.seq]) <= Len(segs'[q.seq])
        BY <2>3, <2>4, <2>5, <2>8, <4>1
      <4>3. Len(segs'[q.seq]) \in Nat
        BY <2>5, <2>6, <4>1
      <4> QED BY <2>5, <2>8, <4>1, <4>2, <4>3, Bounds DEF Spots
    <3>3. p \in Spots'
      BY <2>1, <2>3, <2>4, <2>5, Bounds DEF Spots
    <3> QED BY <3>1, <3>2, <3>3
  <2>10. \A q \in Spots : Behind(p, q) /\ segs'[q.seq][q.off] = At(q)
    BY <2>1, <2>3, <2>4, <2>5, SpotOK DEF Behind, At
  <2>11. \A s \in Live : Len(segs[s]) <= Len(segs'[s])
    BY <2>3, <2>4, <2>5, <2>8
  <2> QED
    BY <1>1, <2>1, <2>4, <2>5, <2>6, <2>7, <2>9, <2>10, <2>11
<1>2. CASE ~Roomy
  <2> DEFINE p == [seq |-> nextSeq, off |-> 1]
  <2>1. nextSeq \in Nat /\ \A s \in Live : s < nextSeq /\ s \in Nat
    BY DEF DiskOK, Resting
  <2>2. nextSeq \notin Live
    BY <2>1
  <2>3. segs' = [s \in Live \cup {nextSeq} |-> IF s = nextSeq THEN <<t>> ELSE segs[s]]
    BY <1>2 DEF Appended
  <2>4. /\ Live' = Live \cup {nextSeq} /\ segs'[nextSeq] = <<t>>
        /\ \A s \in Live : segs'[s] = segs[s]
    BY <2>2, <2>3 DEF Live
  <2>5. <<t>> \in Seq(Events) /\ Len(<<t>>) = 1 /\ <<t>>[1] = t
    OBVIOUS
  <2>6. segs' \in [Live' -> Seq(Events)]
    BY <2>3, <2>4, <2>5 DEF DiskOK
  <2>7. \A s \in Live' : Len(segs'[s]) <= SegRecs
    BY <2>4, <2>5, Bounds DEF DiskOK
  <2>8. p \in [seq : Nat, off : 1 .. SegRecs] /\ p \notin Spots
    BY <2>1, <2>2, Bounds DEF Spots
  <2>9. Spots' = Spots \cup {p}
    <3>1. ASSUME NEW q \in Spots' PROVE q \in Spots \cup {p}
      <4>1. q.seq \in Live' /\ q.off \in 1 .. SegRecs /\ q.off <= Len(segs'[q.seq])
            /\ q = [seq |-> q.seq, off |-> q.off]
        BY DEF Spots
      <4>2. CASE q.seq = nextSeq
        <5>1. Len(segs'[q.seq]) = 1
          BY <2>4, <4>2
        <5>2. q.off = 1
          BY <4>1, <5>1, Bounds
        <5> QED BY <4>1, <4>2, <5>2
      <4>3. CASE q.seq # nextSeq
        BY <2>4, <4>1, <4>3 DEF Spots
      <4> QED BY <4>2, <4>3
    <3>2. ASSUME NEW q \in Spots PROVE q \in Spots'
      BY <2>4 DEF Spots
    <3>3. p \in Spots'
      BY <2>4, <2>5, Bounds DEF Spots
    <3> QED BY <3>1, <3>2, <3>3
  <2>10. \A q \in Spots : Behind(p, q) /\ segs'[q.seq][q.off] = At(q)
    BY <2>1, <2>4, SpotOK DEF Behind, At
  <2>11. \A s \in Live : Len(segs[s]) <= Len(segs'[s])
    BY <2>4 DEF DiskOK
  <2> QED
    BY <1>2, <2>4, <2>5, <2>6, <2>7, <2>8, <2>9, <2>10, <2>11
<1> QED
  BY <1>1, <1>2

-----------------------------------------------------------------------------
(* Base: types, the carry-over file, the numbering.                        *)

\* The files stay well formed in a step that leaves them alone.
LEMMA DiskKept ==
    ASSUME DiskOK, UNCHANGED disk
    PROVE  DiskOK'
  BY DEF disk, DiskOK, Live, Total, Spots

\* The traces in memory stay well formed in a step that leaves them alone.
LEMMA QueuesKept ==
    ASSUME QueuesOK, UNCHANGED <<ring, drain, ship>>
    PROVE  QueuesOK'
  BY DEF QueuesOK

\* The counters stay well formed in a step that leaves them alone.
LEMMA CountersKept ==
    ASSUME CountersOK, UNCHANGED numeric
    PROVE  CountersOK'
  BY DEF CountersOK, numeric

\* The ship loop between two batches.
LEMMA NextShipOK ==
    /\ NoShip \in [at : {"idle", "next", "write", "unlink", "cursor"},
                    upto : [seq : Nat, off : 0 .. SegRecs], batch : SUBSET Events]
    /\ [NoShip EXCEPT !.at = "next"] \in
          [at : {"idle", "next", "write", "unlink", "cursor"},
           upto : [seq : Nat, off : 0 .. SegRecs], batch : SUBSET Events]
    /\ [NoShip EXCEPT !.at = "next"].at = "next"
<1>1. Origin \in [seq : Nat, off : 0 .. SegRecs]
  BY Bounds DEF Origin
<1> QED
  BY <1>1 DEF NoShip

\* Base holds of a meter on an empty directory.
LEMMA BaseInit ==
    ASSUME Init
    PROVE  Base
<1>1. Live = {} /\ Spots = {}
  BY DEF Init, Live, Spots
<1>2. Total = 0 /\ IsFiniteSet(Live)
  BY <1>1, FS_EmptySet DEF Total
<1>3. DiskOK
  <2>1. segs \in [Live -> Seq(Events)]
    BY <1>1 DEF Init
  <2>2. cursor \in [seq : Nat, off : 0 .. SegRecs] /\ readOff \in 0 .. SegRecs
    BY Bounds DEF Init, Origin
  <2>3. active \in BOOLEAN /\ ~active /\ nextSeq \in Nat
    BY DEF Init
  <2>4. Total <= SpoolMax /\ \A s \in Live : Len(segs[s]) <= SegRecs
    BY <1>1, <1>2, Bounds
  <2> QED BY <1>1, <1>2, <2>1, <2>2, <2>3, <2>4 DEF DiskOK
<1>4. QueuesOK
  BY Bounds DEF Init, QueuesOK, NoDrain, NoShip, Origin
<1>5. CountersOK
  BY DEF Init, CountersOK, NoNum
<1>6. TypeOK
  BY <1>3, <1>4, <1>5, Bounds DEF Init, TypeOK
<1>7. Settling /\ Resting
  BY <1>1 DEF Init, Settling, Resting, NoNum
<1> QED
  BY <1>6, <1>7 DEF Base

\* Record keeps Base.
LEMMA BaseRecord ==
    ASSUME Base, Record
    PROVE  Base'
<1> USE DEF Base, Record
<1>1. DiskOK' /\ made' \in Events /\ made' \in 0 .. MaxEvents
  BY DiskKept, Bounds DEF TypeOK, Events
<1>2. CountersOK'
  BY <1>1 DEF TypeOK, CountersOK
<1>3. QueuesOK'
  <2>1. ring' \in Seq(Events) /\ Len(ring') <= RingSize
    BY <1>1, Bounds DEF TypeOK, QueuesOK
  <2> QED BY <2>1 DEF TypeOK, QueuesOK
<1>4. TypeOK'
  BY <1>1, <1>2, <1>3 DEF TypeOK, life
<1>5. Settling'
  BY DEF Settling, life
<1>6. Resting'
  BY DEF Resting, life, disk, Live
<1> QED
  BY <1>4, <1>5, <1>6

\* Taking up the carry-over and the shards keeps Base.
LEMMA BaseMerge ==
    ASSUME Base, FlushMerge
    PROVE  Base'
<1> USE DEF Base, FlushMerge
<1>1. DiskOK' /\ QueuesOK'
  BY DiskKept, QueuesKept DEF TypeOK, trace
<1>2. CountersOK'
  BY DEF TypeOK, CountersOK, NoNum
<1>3. TypeOK'
  BY <1>1, <1>2 DEF TypeOK, trace, MayStart
<1>4. Settling'
  BY DEF Settling, NoNum
<1>5. Resting'
  BY DEF Resting, trace, disk, Live
<1> QED
  BY <1>3, <1>4, <1>5

\* What MergeRollups adds only grows the counts, and counts every bucket.
LEMMA AddedOK ==
    ASSUME CountersOK
    PROVE  /\ Added \in [Events -> Nat]
           /\ \A e \in Events : Added[e] >= stored[e] /\ (e \in num.buckets => Added[e] > 0)
  BY DEF CountersOK, Added

\* WriteRollups, accepted, refused or in doubt, keeps Base.
LEMMA BaseWrite ==
    ASSUME Base, FlushWrite
    PROVE  Base'
<1> USE DEF Base, FlushWrite
<1>1. DiskOK' /\ QueuesOK'
  BY DiskKept, QueuesKept DEF TypeOK, trace
<1>2. CountersOK'
  <2>1. stored' \in [Events -> Nat]
    BY AddedOK DEF TypeOK, CountersOK
  <2> QED BY <2>1 DEF TypeOK, CountersOK
<1>3. TypeOK'
  BY <1>1, <1>2, Bounds DEF TypeOK, trace, life
<1>4. Settling'
  <2>1. carry \subseteq num.buckets /\ carry \subseteq Events /\ carry' = carry /\ up'
    BY DEF Settling, TypeOK, CountersOK, life
  <2>2. \A e \in carry' : stored'[e] > 0 \/ e \in pending'
    BY <2>1, AddedOK DEF TypeOK
  <2> QED BY <2>1, <2>2 DEF Settling
<1>5. Resting'
  BY DEF Resting, trace, disk, Live, life
<1> QED
  BY <1>3, <1>4, <1>5

\* Replacing the carry-over file keeps Base.
LEMMA BasePersist ==
    ASSUME Base, FlushPersist
    PROVE  Base'
<1> USE DEF Base, FlushPersist
<1>1. DiskOK' /\ QueuesOK'
  BY DiskKept, QueuesKept DEF TypeOK, trace
<1>2. CountersOK'
  BY DEF TypeOK, CountersOK, NoNum
<1>3. TypeOK'
  BY <1>1, <1>2 DEF TypeOK, trace, life
<1>4. Settling'
  BY DEF Settling, NoNum
<1>5. Resting'
  BY DEF Resting, trace, disk, Live, life
<1> QED
  BY <1>3, <1>4, <1>5

\* Emptying the ring keeps Base.
LEMMA BaseDrainPop ==
    ASSUME Base, DrainPop
    PROVE  Base'
<1> USE DEF Base, DrainPop
<1>1. DiskOK' /\ CountersOK'
  BY DiskKept, CountersKept DEF TypeOK
<1>2. QueuesOK'
  BY Bounds DEF TypeOK, QueuesOK, NoDrain
<1>3. TypeOK'
  BY <1>1, <1>2 DEF TypeOK, MayStart
<1>4. Settling'
  BY DEF Settling, numeric
<1>5. Resting'
  BY DEF Resting, disk, Live
<1> QED
  BY <1>3, <1>4, <1>5

\* A drain cut short keeps Base.
LEMMA BaseDrainFull ==
    ASSUME Base, DrainFull
    PROVE  Base'
<1> USE DEF Base, DrainFull
<1>1. DiskOK' /\ CountersOK'
  BY DiskKept, CountersKept DEF TypeOK
<1>2. QueuesOK'
  BY DEF TypeOK, QueuesOK, NoDrain
<1>3. TypeOK'
  BY <1>1, <1>2, Bounds DEF TypeOK, life
<1>4. Settling'
  BY DEF Settling, numeric, life
<1>5. Resting'
  BY DEF Resting, disk, Live, life
<1> QED
  BY <1>3, <1>4, <1>5

\* The start of a ship keeps Base.
LEMMA BaseShipStart ==
    ASSUME Base, ShipStart
    PROVE  Base'
<1> USE DEF Base, ShipStart
<1>1. DiskOK' /\ CountersOK'
  BY DiskKept, CountersKept DEF TypeOK
<1>2. QueuesOK'
  BY NextShipOK DEF TypeOK, QueuesOK
<1>3. TypeOK'
  BY <1>1, <1>2 DEF TypeOK, MayStart
<1>4. Settling'
  BY DEF Settling, numeric
<1>5. Resting'
  BY DEF Resting, disk, Live
<1> QED
  BY <1>3, <1>4, <1>5

\* Reading a batch keeps Base.
LEMMA BaseShipNext ==
    ASSUME Base, ShipNext
    PROVE  Base'
<1> USE DEF Base, ShipNext
<1>1. DiskOK' /\ CountersOK'
  BY DiskKept, CountersKept DEF TypeOK
<1>2. QueuesOK'
  <2>1. CASE ship' = NoShip
    BY <2>1, Bounds DEF TypeOK, QueuesOK, NoShip, Origin
  <2>2. ASSUME NEW p \in Unread,
               ship' = [at |-> "write", upto |-> p, batch |-> {At(q) : q \in ReadUpTo(p)}]
        PROVE  QueuesOK'
    <3>1. Unread \subseteq Spots /\ ReadUpTo(p) \subseteq Spots
      BY DEF Unread, ReadUpTo
    <3>2. {At(q) : q \in ReadUpTo(p)} \in SUBSET Events
      BY <3>1, SpotOK DEF TypeOK
    <3>3. p \in [seq : Nat, off : 0 .. SegRecs]
      BY <3>1, SpotOK DEF TypeOK
    <3> QED BY <2>2, <3>2, <3>3 DEF TypeOK, QueuesOK
  <2> QED BY <2>1, <2>2
<1>3. TypeOK'
  BY <1>1, <1>2 DEF TypeOK, life
<1>4. Settling'
  BY DEF Settling, numeric, life
<1>5. Resting'
  BY DEF Resting, disk, Live, life
<1> QED
  BY <1>3, <1>4, <1>5

\* Offering a batch to the sink keeps Base.
LEMMA BaseShipWrite ==
    ASSUME Base, ShipWrite
    PROVE  Base'
<1> USE DEF Base, ShipWrite
<1>1. DiskOK' /\ CountersOK'
  BY DiskKept, CountersKept DEF TypeOK
<1>2. QueuesOK' /\ rows' \subseteq Events
  <2>1. ship.batch \subseteq Events /\ rows \subseteq Events
    BY DEF TypeOK, QueuesOK
  <2>2. CASE ship' = [ship EXCEPT !.at = "unlink"]
    BY <2>1, <2>2 DEF TypeOK, QueuesOK
  <2>3. CASE ship' = NoShip
    BY <2>1, <2>3, NextShipOK DEF TypeOK, QueuesOK
  <2> QED BY <2>1, <2>2, <2>3
<1>3. TypeOK'
  BY <1>1, <1>2, Bounds DEF TypeOK, life
<1>4. Settling'
  BY DEF Settling, numeric, life
<1>5. Resting'
  BY DEF Resting, disk, Live, life
<1> QED
  BY <1>3, <1>4, <1>5

\* Appending a record keeps Base: the cap was tested with the record counted.
LEMMA BaseDrainAppend ==
    ASSUME Base, DrainAppend
    PROVE  Base'
<1> USE DEF Base
<1>1. drain.buf \in Seq(Events) /\ drain.buf # <<>> /\ ring \in Seq(Events)
  BY DEF DrainAppend, TypeOK, QueuesOK
<1>2. /\ Head(drain.buf) \in Events /\ Tail(drain.buf) \in Seq(Events)
      /\ (Len(drain.buf) > 1 => Tail(drain.buf) # <<>>)
  BY <1>1, TailIs
<1>3. CountersOK'
  BY CountersKept DEF DrainAppend, TypeOK
<1>4. QueuesOK'
  BY <1>1, <1>2, Bounds DEF DrainAppend, TypeOK, QueuesOK, NoDrain
<1>5. DiskOK'
  <2>1. DiskOK /\ Resting /\ up /\ segs' = Appended(Head(drain.buf))
    BY DEF DrainAppend, TypeOK
  <2>2. PICK p \in [seq : Nat, off : 1 .. SegRecs] :
           /\ p \notin Spots /\ Spots' = Spots \cup {p}
           /\ Live' = Live \cup {p.seq} /\ segs' \in [Live' -> Seq(Events)]
           /\ \A s \in Live' : Len(segs'[s]) <= SegRecs
    BY <1>2, <2>1, GrowStep
  <2>3. IsFiniteSet(Spots) /\ IsFiniteSet(Live) /\ Live \subseteq Nat
    BY <2>1, FiniteSpots DEF DiskOK
  <2>4. Total' = Total + 1
    BY <2>2, <2>3, FS_AddElement DEF Total
  <2>5. IsFiniteSet(Live') /\ Live' \subseteq Nat /\ Live' # {}
    BY <2>2, <2>3, FS_AddElement
  <2>6. Total' <= SpoolMax
    BY <2>4 DEF DrainAppend, Fits
  <2>7. active' \in BOOLEAN /\ nextSeq' \in Nat /\ UNCHANGED <<readOff, cursor>>
    BY DEF DrainAppend, TypeOK, DiskOK
  <2> QED BY <2>1, <2>2, <2>5, <2>6, <2>7 DEF DiskOK
<1>6. TypeOK'
  BY <1>3, <1>4, <1>5 DEF DrainAppend, TypeOK, life
<1>7. Settling'
  BY DEF DrainAppend, Settling, numeric, life
<1>8. Resting'
  <2>1. up' = TRUE /\ up /\ nextSeq \in Nat /\ DiskOK
    BY DEF DrainAppend, TypeOK, life, DiskOK
  <2>2. PICK p \in [seq : Nat, off : 1 .. SegRecs] :
           /\ (~Roomy => p.seq = nextSeq) /\ (Roomy => Live # {} /\ p.seq = Newest)
           /\ Live' = Live \cup {p.seq}
    BY <1>2, <2>1, GrowStep DEF DrainAppend
  <2>3. \A s \in Live : s \in Nat /\ s < nextSeq
    BY <2>1 DEF Resting, DiskOK
  <2>4. CASE Roomy
    BY <2>1, <2>2, <2>3, <2>4, NewestIs DEF DrainAppend, Resting
  <2>5. CASE ~Roomy
    BY <2>1, <2>2, <2>3, <2>5 DEF DrainAppend, Resting
  <2> QED BY <2>4, <2>5
<1> QED
  BY <1>6, <1>7, <1>8

\* The first half of Commit keeps Base.
LEMMA BaseUnlink ==
    ASSUME Base, CommitUnlink
    PROVE  Base'
<1> USE DEF Base
<1>1. CountersOK' /\ QueuesOK'
  BY CountersKept DEF CommitUnlink, TypeOK, QueuesOK
<1> DEFINE left == Live \ Dropped
           off == IF ship.upto.seq \in Dropped THEN 0 ELSE ship.upto.off
           rewind == active /\ left = {ship.upto.seq} /\ off >= Len(segs[ship.upto.seq])
<1>2. /\ segs' = [s \in left |-> IF rewind THEN <<>> ELSE segs[s]]
      /\ readOff' = IF rewind THEN 0 ELSE off
      /\ active' = (active /\ Live' # {})
      /\ UNCHANGED <<nextSeq, cursor>> /\ up /\ up'
  BY DEF CommitUnlink, life
<1>3. Live' = left /\ Live' \subseteq Live
  BY <1>2 DEF Live
<1>4. \A s \in Live : segs[s] \in Seq(Events) /\ Len(segs[s]) \in Nat
  BY DEF TypeOK, DiskOK
<1>5. /\ segs' \in [Live' -> Seq(Events)]
      /\ \A s \in Live' : Len(segs'[s]) <= Len(segs[s])
  <2>1. <<>> \in Seq(Events) /\ Len(<<>>) = 0
    OBVIOUS
  <2> HIDE DEF left, rewind, off
  <2> QED BY <1>2, <1>3, <1>4, <2>1
<1>6. DiskOK'
  <2>1. /\ Live' \subseteq Nat /\ IsFiniteSet(Live')
        /\ \A s \in Live' : Len(segs'[s]) <= SegRecs
        /\ Total' <= SpoolMax
    BY <1>3, <1>5, ShrinkStep DEF TypeOK
  <2>2. readOff' \in 0 .. SegRecs
    BY <1>2, Bounds DEF TypeOK, QueuesOK
  <2>3. active' \in BOOLEAN /\ (active' => Live' # {})
    BY <1>2 DEF TypeOK, DiskOK
  <2> QED BY <1>2, <1>5, <2>1, <2>2, <2>3 DEF TypeOK, DiskOK
<1>7. TypeOK'
  BY <1>1, <1>6 DEF CommitUnlink, TypeOK, life
<1>8. Settling'
  BY DEF CommitUnlink, Settling, numeric, life
<1>9. Resting'
  BY <1>2, <1>3 DEF Resting
<1> QED
  BY <1>7, <1>8, <1>9

\* The second half of Commit keeps Base.
LEMMA BaseCursor ==
    ASSUME Base, CommitCursor
    PROVE  Base'
<1> USE DEF Base, CommitCursor
<1>1. CountersOK' /\ QueuesOK'
  BY CountersKept, NextShipOK DEF TypeOK, QueuesOK
<1>2. DiskOK'
  BY PositionOK DEF TypeOK, DiskOK, Live, Total, Spots
<1>3. TypeOK'
  BY <1>1, <1>2 DEF TypeOK, life
<1>4. Settling'
  BY DEF Settling, numeric, life
<1>5. Resting'
  BY DEF Resting, Live, life
<1> QED
  BY <1>3, <1>4, <1>5

\* The end of a process, by Close or by a crash, keeps Base.
LEMMA BaseEnded ==
    ASSUME Base, Ended, cursor' \in {cursor, Position}
    PROVE  Base'
<1> USE DEF Base, Ended
<1>1. CountersOK' /\ QueuesOK'
  <2>1. CountersOK'
    BY DEF TypeOK, CountersOK, NoNum
  <2>2. QueuesOK'
    BY NextShipOK, Bounds DEF QueuesOK, NoDrain
  <2> QED BY <2>1, <2>2
<1>2. DiskOK'
  <2>1. Live' = Live /\ Spots' = Spots /\ Total' = Total /\ segs' = segs
    BY DEF Live, Total, Spots
  <2>2. cursor' \in [seq : Nat, off : 0 .. SegRecs]
    BY PositionOK DEF TypeOK, DiskOK
  <2>3. active' \in BOOLEAN /\ ~active'
    BY Zenon
  <2>4. nextSeq' \in Nat /\ readOff' \in 0 .. SegRecs
    BY Bounds
  <2> QED BY <2>1, <2>2, <2>3, <2>4 DEF TypeOK, DiskOK
<1>3. TypeOK'
  BY <1>1, <1>2 DEF TypeOK
<1>4. Settling' /\ Resting'
  BY DEF Settling, Resting, NoNum
<1> QED
  BY <1>3, <1>4

\* The first two steps of Close keep Base.
LEMMA BaseClosing ==
    ASSUME Base, CloseStart \/ CloseJoin
    PROVE  Base'
<1> USE DEF Base, CloseStart, CloseJoin
<1>1. DiskOK' /\ QueuesOK' /\ CountersOK'
  BY DiskKept, QueuesKept, CountersKept DEF TypeOK, trace
<1>2. TypeOK'
  BY <1>1 DEF TypeOK, trace
<1>3. Settling'
  BY DEF Settling, numeric
<1>4. Resting'
  BY DEF Resting, trace, disk, Live
<1> QED
  BY <1>2, <1>3, <1>4

\* openDiskSpool and the replay of the carry-over keep Base.
LEMMA BaseRestart ==
    ASSUME Base, Restart
    PROVE  Base'
<1> USE DEF Base
<1>1. CountersOK' /\ QueuesOK'
  BY DEF Restart, TypeOK, CountersOK, QueuesOK
<1>2. /\ Live' = {s \in Live : s >= cursor.seq} /\ Live' \subseteq Live
      /\ \A s \in Live' : segs'[s] = segs[s]
      /\ segs' \in [Live' -> Seq(Events)]
  BY DEF Restart, Surviving, Restrict, Live, TypeOK, DiskOK
<1>3. \A s \in Live' : Len(segs'[s]) <= Len(segs[s])
  BY <1>2 DEF TypeOK, DiskOK
<1>4. /\ Live' \subseteq Nat /\ IsFiniteSet(Live')
      /\ \A s \in Live' : Len(segs'[s]) <= SegRecs
      /\ Total' <= SpoolMax
  BY <1>2, <1>3, ShrinkStep DEF TypeOK
<1>5. Live' # {} => Newest' \in Nat /\ \A s \in Live' : s <= Newest'
  BY <1>4, GreatestNat DEF Newest
<1>6. nextSeq' \in Nat /\ \A s \in Live' : s < nextSeq'
  BY <1>4, <1>5 DEF Restart
<1>7. ResumeAt \in 0 .. SegRecs
  BY Bounds DEF ResumeAt, Smaller, TypeOK, DiskOK
<1>8. DiskOK'
  <2>1. active' \in BOOLEAN /\ (active' => Live' # {}) /\ readOff' \in 0 .. SegRecs
    BY <1>7 DEF Restart
  <2> QED BY <1>2, <1>4, <1>6, <2>1 DEF Restart, TypeOK, DiskOK
<1>9. TypeOK'
  BY <1>1, <1>8, Bounds DEF Restart, TypeOK
<1>10. Settling'
  BY DEF Restart, Settling, NoNum
<1>11. Resting'
  BY <1>6 DEF Restart, Resting
<1> QED
  BY <1>9, <1>10, <1>11

\* Every step keeps Base.
LEMMA BaseNext ==
    ASSUME Base, [Next]_vars
    PROVE  Base'
<1>1. CASE UNCHANGED vars
  <2>1. DiskOK' /\ QueuesOK' /\ CountersOK'
    BY <1>1, DiskKept, QueuesKept, CountersKept DEF Base, TypeOK, vars, trace
  <2>2. TypeOK'
    BY <1>1, <2>1 DEF Base, TypeOK, vars, trace, life
  <2>3. Settling' /\ Resting'
    BY <1>1 DEF Base, Settling, Resting, vars, trace, life, numeric, disk, Live
  <2> QED BY <2>2, <2>3 DEF Base
<1>2. CASE CloseSeal
  BY <1>2, BaseEnded DEF CloseSeal
<1>3. CASE Crash
  BY <1>3, BaseEnded DEF Crash
<1> QED
  BY <1>1, <1>2, <1>3, BaseRecord, BaseMerge, BaseWrite, BasePersist, BaseDrainPop,
     BaseDrainAppend, BaseDrainFull, BaseShipStart, BaseShipNext, BaseShipWrite,
     BaseUnlink, BaseCursor, BaseClosing, BaseRestart
  DEF Next, Numeric, Drain, Ship, Close, Over

\* The part of the invariant that needs nothing of where a crash falls: types, the
\* carry-over file against the flush in progress, and the numbering of segments.
THEOREM Grounded == Spec => []Base
<1>1. Init => Base
  BY BaseInit
<1>2. Base /\ [Next]_vars => Base'
  BY BaseNext
<1> QED
  BY <1>1, <1>2, PTL DEF Spec

\* Every variable keeps its type, a segment its size and the spool its cap
\* (SpoolSegmentBytes, SpoolMaxBytes), wherever a process crashes or restarts.
THEOREM TypeCorrect == Spec => []TypeOK
<1>1. Base => TypeOK
  BY DEF Base
<1> QED
  BY <1>1, Grounded, PTL

-----------------------------------------------------------------------------
(* What a flush has made durable.                                          *)

\* No step takes a counter out of both the carry-over file and the store.
LEMMA DurableKept ==
    ASSUME Base, [Next]_vars
    PROVE  Durable \subseteq Durable'
<1> SUFFICES ASSUME NEW e \in Durable PROVE e \in Durable'
  OBVIOUS
<1> USE DEF Base
<1>1. CASE FlushWrite
  BY <1>1, AddedOK DEF FlushWrite, Durable, TypeOK, CountersOK
<1>2. CASE FlushPersist
  BY <1>2 DEF FlushPersist, Durable, Settling, TypeOK, CountersOK
<1>3. CASE UNCHANGED <<carry, stored>>
  BY <1>3 DEF Durable
<1>4. ASSUME ~FlushWrite, ~FlushPersist PROVE UNCHANGED <<carry, stored>>
  BY <1>4 DEF Next, Numeric, Drain, Ship, Close, Over, vars, numeric, Record, FlushMerge,
       DrainPop, DrainAppend, DrainFull, ShipStart, ShipNext, ShipWrite, CommitUnlink,
       CommitCursor, CloseStart, CloseJoin, CloseSeal, Crash, Ended, Restart
<1> QED
  BY <1>1, <1>2, <1>3, <1>4

\* A counter that has reached the carry-over file or the store is never on neither
\* again, whatever the sink answers and wherever the process dies (flushNumeric,
\* persistPendingLocked, readCarry).
THEOREM DurableCountersHolds == Spec => DurableCounters
<1>1. Base /\ [Next]_vars => [Durable \subseteq Durable']_vars
  BY DurableKept
<1> QED
  BY <1>1, Grounded, PTL DEF Spec, DurableCounters

-----------------------------------------------------------------------------
(* Orderly: traces keep the order of their events.                         *)

\* A step that leaves the segments alone leaves the records where they are.
LEMMA SpotsUnchanged ==
    ASSUME UNCHANGED segs
    PROVE  /\ Live' = Live /\ Spots' = Spots /\ OnDisk' = OnDisk
           /\ \A p \in Spots : At(p)' = At(p)
  BY DEF Live, Spots, At, OnDisk

\* The order survives when records and queues only lose members.
LEMMA OrderlyShrinks ==
    ASSUME Base, Orderly, Spots' \subseteq Spots, \A p \in Spots' : At(p)' = At(p),
           rows' \subseteq Taken, made' = made,
           ring' = ring \/ ring' = <<>>,
           drain.buf' = drain.buf \/ drain.buf' = <<>>,
           Aboard'
    PROVE  Orderly'
<1>1. Lined'
  BY DEF Orderly, Lined, Rising
<1>2. Ordered'
  BY DEF Orderly, Ordered, Behind
<1>3. Taken' \subseteq Taken
  BY DEF Taken, OnDisk
<1>4. Ahead'
  BY <1>3 DEF Orderly, Ahead
<1> QED
  BY <1>1, <1>2, <1>4 DEF Orderly

\* Record queues the newest event behind all the others.
LEMMA OrderlyRecord ==
    ASSUME Base, Orderly, Record
    PROVE  Orderly'
<1>1. made \in Nat /\ made' = made + 1 /\ made' \in Nat /\ ring \in Seq(Events)
  BY Bounds DEF Base, TypeOK, QueuesOK, Record
<1>2. UNCHANGED <<segs, drain, ship, rows>>
  BY DEF Record, disk
<1>3. OnDisk' = OnDisk /\ Taken' = Taken /\ Spots' = Spots /\ \A p \in Spots : At(p)' = At(p)
  BY <1>2, SpotsUnchanged DEF Taken
<1>4. \A i \in DOMAIN ring : ring[i] \in Nat /\ ring[i] <= made
  BY <1>1, Bounds, MembersOf DEF Orderly, Lined
<1>5. \A i \in DOMAIN drain.buf : drain.buf[i] \in Nat /\ drain.buf[i] <= made
  <2>1. drain.buf \in Seq(Events)
    BY DEF Base, TypeOK, QueuesOK
  <2> QED BY <2>1, Bounds, MembersOf DEF Orderly, Lined
<1>6. \A e \in Taken : e \in Nat /\ e <= made
  BY Bounds, SpotOK DEF Orderly, Ahead, Taken, OnDisk, Base, TypeOK
<1>7. /\ \A i \in DOMAIN ring' : ring'[i] = made' \/ (i \in DOMAIN ring /\ ring'[i] = ring[i])
      /\ \A i, j \in DOMAIN ring' : i < j => i \in DOMAIN ring /\ ring'[i] = ring[i]
  <2>1. CASE ring' = ring
    BY <2>1
  <2>2. CASE ring' = Append(ring, made')
    <3>1. /\ DOMAIN ring = 1 .. Len(ring) /\ DOMAIN ring' = 1 .. Len(ring) + 1 /\ Len(ring) \in Nat
          /\ \A i \in 1 .. Len(ring) : ring'[i] = ring[i]
          /\ ring'[Len(ring) + 1] = made'
      BY <1>1, <2>2
    <3> QED BY <3>1
  <2> QED BY <2>1, <2>2 DEF Record
<1>8. Lined'
  <2>1. Rising(ring')
    BY <1>1, <1>4, <1>7 DEF Orderly, Lined, Rising
  <2>2. \A i \in DOMAIN ring' : ring'[i] <= made'
    BY <1>1, <1>4, <1>7
  <2>3. \A i \in DOMAIN drain.buf : drain.buf[i] <= made'
    BY <1>1, <1>5
  <2>4. \A i \in DOMAIN drain.buf, j \in DOMAIN ring' : drain.buf[i] < ring'[j]
    BY <1>1, <1>5, <1>7 DEF Orderly, Lined
  <2> QED BY <1>2, <2>1, <2>2, <2>3, <2>4 DEF Orderly, Lined
<1>9. Ordered' /\ Aboard'
  BY <1>2, <1>3 DEF Orderly, Ordered, Behind, Aboard
<1>10. Ahead'
  BY <1>1, <1>2, <1>3, <1>6, <1>7 DEF Orderly, Ahead
<1> QED
  BY <1>8, <1>9, <1>10 DEF Orderly

\* The drain takes the ring in its order.
LEMMA OrderlyDrainPop ==
    ASSUME Base, Orderly, DrainPop
    PROVE  Orderly'
<1>1. UNCHANGED <<segs, ship, rows, made>>
  BY DEF DrainPop, disk
<1>2. OnDisk' = OnDisk /\ Taken' = Taken /\ Spots' = Spots /\ \A p \in Spots : At(p)' = At(p)
  BY <1>1, SpotsUnchanged DEF Taken
<1>3. ring' = <<>> /\ (drain'.buf = ring \/ drain'.buf = <<>>)
  BY DEF DrainPop, NoDrain
<1>4. Lined'
  BY <1>1, <1>3 DEF Orderly, Lined, Rising
<1>5. Ordered' /\ Aboard'
  BY <1>1, <1>2 DEF Orderly, Ordered, Behind, Aboard
<1>6. Ahead'
  BY <1>1, <1>2, <1>3 DEF Orderly, Ahead
<1> QED
  BY <1>4, <1>5, <1>6 DEF Orderly

\* Append writes the oldest trace in memory behind the newest on disk.
LEMMA OrderlyDrainAppend ==
    ASSUME Base, Orderly, DrainAppend
    PROVE  Orderly'
<1> DEFINE t == Head(drain.buf)
<1>1. drain.buf \in Seq(Events) /\ drain.buf # <<>> /\ ring \in Seq(Events)
  BY DEF DrainAppend, Base, TypeOK, QueuesOK
<1>2. /\ t \in Events /\ t = drain.buf[1] /\ 1 \in DOMAIN drain.buf
      /\ DOMAIN drain.buf = 1 .. Len(drain.buf) /\ Len(drain.buf) \in Nat
      /\ Tail(drain.buf) \in Seq(Events)
      /\ DOMAIN Tail(drain.buf) = 1 .. Len(drain.buf) - 1
      /\ \A i \in 1 .. Len(drain.buf) - 1 : Tail(drain.buf)[i] = drain.buf[i + 1]
  BY <1>1, TailIs, MembersOf
<1> HIDE DEF t
<1>3. t \in Nat /\ t <= made /\ made \in Nat
  <2>1. made \in Nat
    BY Bounds DEF Base, TypeOK
  <2> QED BY <1>2, <2>1, Bounds DEF Orderly, Lined
<1>4. /\ \A i \in DOMAIN drain.buf : drain.buf[i] \in Nat /\ drain.buf[i] <= made
      /\ \A i \in DOMAIN drain.buf : i > 1 => t < drain.buf[i]
      /\ \A i \in DOMAIN ring : ring[i] \in Nat /\ t < ring[i]
  <2>1. \A i \in DOMAIN drain.buf : drain.buf[i] \in Nat
    BY <1>1, Bounds, MembersOf
  <2>2. \A i \in DOMAIN ring : ring[i] \in Nat
    BY <1>1, Bounds, MembersOf
  <2> QED BY <1>2, <2>1, <2>2 DEF Orderly, Lined, Rising
<1>5. PICK p \in [seq : Nat, off : 1 .. SegRecs] :
         /\ Spots' = Spots \cup {p} /\ segs'[p.seq][p.off] = t
         /\ \A q \in Spots : Behind(p, q) /\ segs'[q.seq][q.off] = At(q)
  BY <1>2, GrowStep DEF DrainAppend, Base, TypeOK, t
<1>6. At(p)' = t /\ \A q \in Spots : At(q)' = At(q)
  BY <1>5 DEF At
<1>7. made' = made /\ rows' = rows /\ ship' = ship
  BY DEF DrainAppend
<1>8. Taken' = Taken \cup {t} /\ OnDisk' = OnDisk \cup {t}
  BY <1>5, <1>6, <1>7 DEF Taken, OnDisk
<1> DEFINE Shifted == \A i \in DOMAIN drain'.buf :
                        /\ i \in Nat /\ i >= 1 /\ i + 1 \in DOMAIN drain.buf
                        /\ drain'.buf[i] = drain.buf[i + 1]
<1>9. \/ ring' = ring /\ Shifted
      \/ ring' = <<>> /\ (drain'.buf = ring \/ drain'.buf = <<>>)
  <2>1. CASE Len(drain.buf) > 1
    <3>1. drain'.buf = Tail(drain.buf) /\ ring' = ring
      BY <2>1 DEF DrainAppend
    <3>2. Shifted
      BY <1>2, <3>1
    <3> QED BY <3>1, <3>2
  <2>2. CASE ~(Len(drain.buf) > 1)
    BY <2>2 DEF DrainAppend, NoDrain
  <2> QED BY <2>1, <2>2
<1>10. Lined'
  <2>1. CASE ring' = ring /\ Shifted
    <3>1. Rising(ring') /\ \A i \in DOMAIN ring' : ring'[i] <= made'
      BY <1>7, <2>1 DEF Orderly, Lined
    <3>2. \A i \in DOMAIN drain'.buf : drain'.buf[i] <= made'
      BY <1>7, <2>1 DEF Orderly, Lined
    <3>3. \A i, j \in DOMAIN drain'.buf : i < j => drain'.buf[i] < drain'.buf[j]
      BY <2>1 DEF Orderly, Lined, Rising
    <3>4. \A i \in DOMAIN drain'.buf, j \in DOMAIN ring' : drain'.buf[i] < ring'[j]
      BY <2>1 DEF Orderly, Lined
    <3> QED BY <3>1, <3>2, <3>3, <3>4 DEF Lined, Rising
  <2>2. CASE ring' = <<>> /\ (drain'.buf = ring \/ drain'.buf = <<>>)
    BY <1>7, <2>2 DEF Orderly, Lined, Rising
  <2> QED BY <1>9, <2>1, <2>2
<1>11. Ordered'
  <2>1. \A q \in Spots : At(q) < t
    BY <1>2 DEF Orderly, Ahead, Taken, OnDisk
  <2>2. \A q \in Spots : q.seq \in Nat /\ q.off \in Nat
    BY SpotOK DEF Base, TypeOK
  <2>3. \A q \in Spots : ~Behind(q, p)
    BY <1>5, <2>2 DEF Behind
  <2>4. ~Behind(p, p)
    BY <1>5 DEF Behind
  <2>5. ASSUME NEW q \in Spots', NEW r \in Spots', Behind(r, q)
        PROVE  At(q)' < At(r)'
    BY <1>5, <1>6, <2>1, <2>3, <2>4, <2>5 DEF Orderly, Ordered
  <2> QED BY <2>5 DEF Ordered, Behind
<1>12. Ahead'
  <2>1. t <= made' /\ \A i \in DOMAIN drain'.buf : t < drain'.buf[i]
    BY <1>2, <1>3, <1>4, <1>7, <1>9
  <2>2. \A i \in DOMAIN ring' : t < ring'[i]
    BY <1>4, <1>9
  <2>3. ASSUME NEW e \in Taken
        PROVE  /\ e <= made' /\ \A i \in DOMAIN ring' : e < ring'[i]
               /\ \A i \in DOMAIN drain'.buf : e < drain'.buf[i]
    BY <1>7, <1>9 DEF Orderly, Ahead
  <2> QED BY <1>8, <2>1, <2>2, <2>3 DEF Ahead
<1>13. Aboard'
  BY <1>7, <1>8 DEF Orderly, Aboard
<1> QED
  BY <1>10, <1>11, <1>12, <1>13 DEF Orderly

\* What the first half of Commit leaves on disk was there before.
LEMMA UnlinkSpots ==
    ASSUME Base, CommitUnlink
    PROVE  /\ Spots' \subseteq Spots
           /\ \A p \in Spots' : At(p)' = At(p) /\ p.seq \notin Dropped
           /\ Live' = Live \ Dropped
           /\ \A s \in Live' : segs'[s] = <<>> \/ segs'[s] = segs[s]
<1> DEFINE left == Live \ Dropped
           off == IF ship.upto.seq \in Dropped THEN 0 ELSE ship.upto.off
           rewind == active /\ left = {ship.upto.seq} /\ off >= Len(segs[ship.upto.seq])
<1>1. segs' = [s \in left |-> IF rewind THEN <<>> ELSE segs[s]]
  BY DEF CommitUnlink
<1> HIDE DEF rewind
<1>2. Live' = left /\ \A s \in Live' : segs'[s] = <<>> \/ segs'[s] = segs[s]
  BY <1>1 DEF Live
<1>3. ASSUME NEW p \in Spots'
      PROVE  p \in Spots /\ At(p)' = At(p) /\ p.seq \notin Dropped
  <2>1. /\ p \in [seq : Live', off : 1 .. SegRecs] /\ p.seq \in Live'
        /\ p.off \in 1 .. SegRecs /\ p.off <= Len(segs'[p.seq])
    BY <1>3 DEF Spots
  <2>2. segs'[p.seq] # <<>>
    BY <2>1, Bounds
  <2>3. segs'[p.seq] = segs[p.seq] /\ p.seq \in Live /\ p.seq \notin Dropped
    BY <1>2, <2>1, <2>2
  <2> QED BY <2>1, <2>3 DEF Spots, At
<1> QED
  BY <1>2, <1>3

\* openDiskSpool keeps whole segments.
LEMMA RestartSpots ==
    ASSUME Base, Restart
    PROVE  /\ Spots' \subseteq Spots /\ \A p \in Spots' : At(p)' = At(p)
           /\ Live' = {s \in Live : s >= cursor.seq} /\ \A s \in Live' : segs'[s] = segs[s]
<1>1. Live' = {s \in Live : s >= cursor.seq} /\ \A s \in Live' : segs'[s] = segs[s]
  BY DEF Restart, Surviving, Restrict, Live
<1> QED
  BY <1>1 DEF Spots, At

\* A step that leaves disk, sink and ship alone keeps the order.
LEMMA OrderlyQuiet ==
    ASSUME Base, Orderly, UNCHANGED <<segs, made, rows, ship>>,
           ring' = ring \/ ring' = <<>>,
           drain' = drain \/ drain' = NoDrain
    PROVE  Orderly'
<1>1. Spots' = Spots /\ OnDisk' = OnDisk /\ \A p \in Spots : At(p)' = At(p)
  BY SpotsUnchanged
<1>2. rows' \subseteq Taken /\ Aboard'
  BY <1>1 DEF Taken, Orderly, Aboard
<1>3. drain.buf' = drain.buf \/ drain.buf' = <<>>
  BY DEF NoDrain
<1> QED
  BY <1>1, <1>2, <1>3, OrderlyShrinks

\* The ship loop keeps the order.
LEMMA OrderlyShip ==
    ASSUME Base, Orderly, ShipStart \/ ShipNext \/ ShipWrite \/ CommitUnlink \/ CommitCursor
    PROVE  Orderly'
<1>1. UNCHANGED <<ring, drain, made>>
  BY DEF ShipStart, ShipNext, ShipWrite, CommitUnlink, CommitCursor
<1>2. CASE CommitUnlink
  <2>1. rows' = rows /\ ship'.at = "cursor"
    BY <1>2 DEF CommitUnlink, Base, TypeOK, QueuesOK
  <2> QED BY <1>1, <1>2, <2>1, UnlinkSpots, OrderlyShrinks DEF Taken, Aboard
<1>3. CASE UNCHANGED segs
  <2>1. Spots' = Spots /\ OnDisk' = OnDisk /\ \A p \in Spots : At(p)' = At(p)
    BY <1>3, SpotsUnchanged
  <2>2. CASE ShipNext
    <3>1. {At(q) : q \in Unread} \subseteq OnDisk
      BY DEF Unread, OnDisk
    <3>2. \A p \in Unread : {At(q) : q \in ReadUpTo(p)} \subseteq OnDisk
      BY <3>1 DEF ReadUpTo
    <3>3. ship'.at = "write" => ship'.batch \subseteq OnDisk
      BY <2>2, <3>2 DEF ShipNext, NoShip
    <3>4. rows' = rows
      BY <2>2 DEF ShipNext
    <3> QED BY <1>1, <2>1, <3>3, <3>4, OrderlyShrinks DEF Taken, Aboard
  <2>3. CASE ShipWrite
    <3>1. ship.batch \subseteq OnDisk
      BY <2>3 DEF Orderly, Aboard, ShipWrite
    <3>2. rows' \subseteq Taken
      BY <2>3, <3>1 DEF ShipWrite, Taken
    <3>3. ship'.at # "write"
      BY <2>3 DEF ShipWrite, NoShip, Base, TypeOK, QueuesOK
    <3> QED BY <1>1, <2>1, <3>2, <3>3, OrderlyShrinks DEF Aboard
  <2>4. CASE ShipStart \/ CommitCursor
    <3>1. ship'.at = "next" /\ rows' = rows
      BY <2>4, NextShipOK DEF ShipStart, CommitCursor
    <3> QED BY <1>1, <2>1, <3>1, OrderlyShrinks DEF Taken, Aboard
  <2>5. CASE CommitUnlink
    BY <1>2, <2>5
  <2> QED BY <2>2, <2>3, <2>4, <2>5
<1> QED
  BY <1>2, <1>3 DEF ShipStart, ShipNext, ShipWrite, CommitUnlink, CommitCursor, disk

\* The end of a process and a restart keep the order.
LEMMA OrderlyLife ==
    ASSUME Base, Orderly, Ended \/ Restart
    PROVE  Orderly'
<1>1. CASE Ended
  <2>1. /\ Spots' = Spots /\ \A p \in Spots : At(p)' = At(p)
    BY <1>1, SpotsUnchanged DEF Ended
  <2>2. /\ ring' = <<>> /\ drain.buf' = <<>> /\ made' = made /\ rows' = rows
        /\ ship'.at = "idle"
    BY <1>1 DEF Ended, NoDrain, NoShip
  <2> QED BY <2>1, <2>2, OrderlyShrinks DEF Taken, Aboard
<1>2. CASE Restart
  <2>1. UNCHANGED <<ring, drain, made, rows, ship>> /\ ship.at = "idle"
    BY <1>2 DEF Restart, Base, Resting, NoShip
  <2> QED BY <1>2, <2>1, RestartSpots, OrderlyShrinks DEF Taken, Aboard
<1> QED
  BY <1>1, <1>2

\* Every step keeps the order.
LEMMA OrderlyNext ==
    ASSUME Base, Orderly, [Next]_vars
    PROVE  Orderly'
<1>1. CASE UNCHANGED vars
  BY <1>1, OrderlyQuiet DEF vars, trace, disk
<1>2. CASE Numeric
  BY <1>2, OrderlyQuiet DEF Numeric, FlushMerge, FlushWrite, FlushPersist, trace, disk
<1>3. CASE CloseStart \/ CloseJoin
  BY <1>3, OrderlyQuiet DEF CloseStart, CloseJoin, trace, disk
<1>4. CASE DrainFull
  BY <1>4, OrderlyQuiet DEF DrainFull, disk
<1>5. CASE CloseSeal \/ Crash
  BY <1>5, OrderlyLife DEF CloseSeal, Crash
<1> QED
  BY <1>1, <1>2, <1>3, <1>4, <1>5, OrderlyRecord, OrderlyDrainPop, OrderlyDrainAppend,
     OrderlyShip, OrderlyLife
  DEF Next, Drain, Ship, Close, Over

\* The order holds of an empty meter.
LEMMA OrderlyInit ==
    ASSUME Init
    PROVE  Orderly
<1>1. Spots = {} /\ rows = {}
  BY DEF Init, Spots, Live
<1>2. Taken = {}
  BY <1>1 DEF Taken, OnDisk
<1>3. ring = <<>> /\ drain.buf = <<>> /\ ship.at = "idle"
  BY DEF Init, NoDrain, NoShip
<1> QED
  BY <1>1, <1>2, <1>3 DEF Orderly, Lined, Rising, Ordered, Ahead, Aboard

-----------------------------------------------------------------------------
(* Kept: the cursor, the reader, the batch and the sink.                   *)

\* What can be recovered is on disk, and finite.
LEMMA RecoverableOK ==
    ASSUME Base
    PROVE  /\ Recoverable \subseteq Events /\ IsFiniteSet(Recoverable)
           /\ Recoverable \subseteq OnDisk
<1>1. Recoverable \subseteq Events
  BY SpotOK DEF Recoverable, Base, TypeOK
<1>2. IsFiniteSet(Events)
  BY FS_Interval, Bounds DEF Events
<1>3. IsFiniteSet(Recoverable)
  BY <1>1, <1>2, FS_Subset
<1> QED
  BY <1>1, <1>3 DEF Recoverable, OnDisk

\* The recoverable traces up to one of them are finitely many.
LEMMA UpToIsFinite ==
    ASSUME Base, NEW e
    PROVE  /\ IsFiniteSet({d \in Recoverable : d <= e})
           /\ Cardinality({d \in Recoverable : d <= e}) \in Nat
<1>1. IsFiniteSet({d \in Recoverable : d <= e})
  BY RecoverableOK, FS_Subset
<1> QED
  BY <1>1, FS_CardinalityType

\* Of two records on disk, the older event lies first.
LEMMA OrderIs ==
    ASSUME Base, Orderly, NEW p \in Spots, NEW q \in Spots
    PROVE  At(p) <= At(q) <=> ~Behind(p, q)
<1>1. /\ p.seq \in Nat /\ p.off \in Nat /\ p = [seq |-> p.seq, off |-> p.off]
      /\ q.seq \in Nat /\ q.off \in Nat /\ q = [seq |-> q.seq, off |-> q.off]
      /\ At(p) \in Nat /\ At(q) \in Nat
  BY SpotOK, Bounds DEF Base, TypeOK
<1>2. Behind(p, q) \/ Behind(q, p) \/ p = q
  BY <1>1 DEF Behind
<1>3. ~(Behind(p, q) /\ Behind(q, p)) /\ ~Behind(p, p)
  BY <1>1 DEF Behind
<1> QED
  BY <1>1, <1>2, <1>3 DEF Orderly, Ordered

\* While no Commit is half done, Next reads exactly what a restart would recover.
LEMMA UnreadIs ==
    ASSUME Base, Anchored, up, ~Committing
    PROVE  Unread = {p \in Spots : Behind(p, cursor)}
<1>1. CASE cursor = Position
  BY <1>1 DEF Unread
<1>2. CASE cursor = Origin /\ readOff = 0
  <2>1. ASSUME NEW p \in Spots
        PROVE  Behind(p, cursor) /\ Behind(p, Position)
    <3>1. p.seq \in Live /\ p.seq \in Nat /\ p.off \in Nat /\ p.off >= 1
      BY SpotOK DEF Base, TypeOK, Spots
    <3>2. Oldest <= p.seq /\ Oldest \in Nat /\ Position = [seq |-> Oldest, off |-> 0]
      BY <1>2, <3>1, OldestIs DEF Position, Base, TypeOK
    <3> QED BY <1>2, <3>1, <3>2 DEF Behind, Origin
  <2> QED BY <2>1 DEF Unread
<1> QED
  BY <1>1, <1>2 DEF Anchored

\* A step that leaves disk, cursor, ship and sink alone is a stutter of the spool.
LEMMA KeptQuiet ==
    ASSUME Kept, UNCHANGED <<segs, cursor, readOff, ship, rows, up>>
    PROVE  Kept' /\ Stays
<1>1. Live' = Live /\ Spots' = Spots /\ \A p \in Spots : At(p)' = At(p)
  BY SpotsUnchanged
<1>2. Oldest' = Oldest /\ Position' = Position /\ Committing' = Committing /\ Aimed' = Aimed
  BY <1>1 DEF Oldest, Position, Committing, Aimed
<1>3. Recoverable' = Recoverable
  BY <1>1 DEF Recoverable, Behind
<1>4. Anchored'
  BY <1>1, <1>2 DEF Kept, Anchored
<1>5. Shipped'
  BY <1>1, <1>2, <1>3 DEF Kept, Shipped, Acked, Behind
<1>6. Near'
  BY <1>3 DEF Kept, Near
<1> QED
  BY <1>3, <1>4, <1>5, <1>6 DEF Kept, Stays

\* The redelivery bound survives when less is recoverable.
LEMMA NearShrinks ==
    ASSUME Base, Near, Recoverable' \subseteq Recoverable, rows' = rows
    PROVE  Near'
<1> SUFFICES ASSUME NEW e \in Recoverable' \cap rows'
             PROVE  Cardinality({d \in Recoverable' : d <= e}) <= SpoolBatch
  BY DEF Near
<1> DEFINE S == {d \in Recoverable : d <= e}
           T == {d \in Recoverable' : d <= e}
<1>1. Cardinality(S) <= SpoolBatch
  BY DEF Near
<1>2. IsFiniteSet(S) /\ Cardinality(S) \in Nat /\ T \in SUBSET S
  BY UpToIsFinite
<1> HIDE DEF S, T
<1>3. Cardinality(T) <= Cardinality(S) /\ Cardinality(T) \in Nat
  BY <1>2, FS_Subset, FS_CardinalityType
<1>4. Cardinality(T) <= SpoolBatch
  BY <1>1, <1>2, <1>3, Bounds
<1> QED
  BY <1>4 DEF T

\* A ship that ends, or has not read yet, asks nothing of the batch.
LEMMA KeptWaits ==
    ASSUME Base, Kept, UNCHANGED <<segs, cursor, readOff, up>>, ~Committing, Near',
           Acked(cursor)', ship'.at \in {"idle", "next"}
    PROVE  Kept' /\ Recoverable' = Recoverable
<1>1. Live' = Live /\ Spots' = Spots /\ \A p \in Spots : At(p)' = At(p)
  BY SpotsUnchanged
<1>2. Oldest' = Oldest /\ Position' = Position /\ ~Committing' /\ Aimed' = Aimed
  BY <1>1 DEF Oldest, Position, Committing, Aimed
<1>3. Recoverable' = Recoverable
  BY <1>1 DEF Recoverable, Behind
<1>4. Anchored'
  BY <1>1, <1>2 DEF Kept, Anchored
<1>5. Shipped'
  BY <1>2 DEF Shipped
<1> QED
  BY <1>3, <1>4, <1>5 DEF Kept

\* Append is Delivery's Accept: the record is new, and lies behind the cursor.
LEMMA KeptDrainAppend ==
    ASSUME Sound, DrainAppend
    PROVE  Kept' /\ Accepts
<1> DEFINE t == Head(drain.buf)
<1> USE DEF Sound, Kept
<1>1. DiskOK /\ DiskOK' /\ cursor \in [seq : Nat, off : 0 .. SegRecs]
  BY BaseDrainAppend DEF Base, TypeOK, DiskOK
<1>2. t \in Events /\ t \in Nat /\ t = drain.buf[1] /\ 1 \in DOMAIN drain.buf
  <2>1. drain.buf \in Seq(Events) /\ drain.buf # <<>>
    BY DEF DrainAppend, Base, TypeOK, QueuesOK
  <2>2. /\ t \in Events /\ t = drain.buf[1] /\ 1 <= Len(drain.buf)
        /\ Len(drain.buf) \in Nat /\ DOMAIN drain.buf = 1 .. Len(drain.buf)
    BY <2>1, TailIs, MembersOf
  <2> HIDE DEF t
  <2> QED BY <2>2, Bounds
<1>3. /\ UNCHANGED <<cursor, readOff, ship, rows>> /\ up /\ up' /\ ~Committing /\ ~Committing'
      /\ segs' = Appended(t)
  BY DEF DrainAppend, life, Committing
<1> HIDE DEF t
<1>4. PICK p \in [seq : Nat, off : 1 .. SegRecs] :
         /\ Spots' = Spots \cup {p} /\ segs'[p.seq][p.off] = t
         /\ (~Roomy => p.seq = nextSeq) /\ (Roomy => Live # {} /\ p.seq = Newest)
         /\ Live' = Live \cup {p.seq} /\ Len(segs'[p.seq]) = p.off
         /\ \A s \in Live : Len(segs[s]) <= Len(segs'[s])
         /\ \A q \in Spots : Behind(p, q) /\ segs'[q.seq][q.off] = At(q)
         /\ p \notin Spots
  BY <1>1, <1>2, <1>3, GrowStep DEF Base
<1>5. At(p)' = t /\ \A q \in Spots : At(q)' = At(q)
  BY <1>4 DEF At
<1>6. \A e \in Taken : e < t /\ e \in Nat
  BY <1>2, SpotOK, Bounds DEF Orderly, Ahead, Taken, OnDisk, Base, TypeOK
<1>7. /\ p.seq \in Nat /\ p.off \in Nat /\ p.off >= 1
      /\ nextSeq \in Nat /\ \A s \in Live : s \in Nat /\ s < nextSeq
      /\ \A s \in Live : Len(segs[s]) \in Nat /\ Len(segs'[s]) \in Nat
  BY <1>1, <1>3, <1>4 DEF Base, Resting, DiskOK
<1>8. \A s \in Live : s <= p.seq
  BY <1>1, <1>4, <1>7, NewestIs
<1>9. p.seq >= cursor.seq /\ Behind(p, cursor)
  <2>1. CASE cursor = Origin
    BY <1>7, <2>1 DEF Origin, Behind
  <2>2. CASE cursor.seq \in Live /\ cursor.off <= Len(segs[cursor.seq])
    <3>1. CASE p.seq > cursor.seq
      BY <1>1, <1>7, <3>1 DEF Behind
    <3>2. CASE p.seq = cursor.seq
      <4>1. [seq |-> p.seq, off |-> p.off] = p
        BY <1>4
      <4>2. ~(p.off <= Len(segs[p.seq]))
        <5>1. SUFFICES ASSUME p.off <= Len(segs[p.seq]) PROVE p \in Spots
          BY <1>4
        <5> QED BY <1>1, <1>4, <1>7, <2>2, <3>2, <4>1, <5>1, IsSpot
      <4> QED BY <1>1, <1>7, <2>2, <3>2, <4>2 DEF Behind
    <3> QED BY <1>1, <1>7, <1>8, <2>2, <3>1, <3>2
  <2> QED BY <1>3, <2>1, <2>2 DEF Anchored
<1>10. Recoverable' = Recoverable \cup {t}
  <2>1. Recoverable' = {At(q)' : q \in {r \in Spots' : Behind(r, cursor')}}
    BY DEF Recoverable, Behind, At
  <2>2. {r \in Spots' : Behind(r, cursor')} = {r \in Spots : Behind(r, cursor)} \cup {p}
    BY <1>3, <1>4, <1>9
  <2> QED BY <1>5, <2>1, <2>2 DEF Recoverable
<1>11. t \notin Recoverable \cup rows /\ Recoverable \cup rows \subseteq Taken
  BY <1>2, <1>6, RecoverableOK DEF Taken
<1>12. Accepts
  BY <1>2, <1>3, <1>10, <1>11 DEF Accepts
<1>13. Live # {} => Oldest' = Oldest
  <2> SUFFICES ASSUME Live # {} PROVE Oldest' = Oldest
    OBVIOUS
  <2>1. Oldest \in Live /\ Oldest \in Nat /\ \A s \in Live : Oldest <= s
    BY <1>1, OldestIs
  <2>2. /\ Oldest' \in Live' /\ Oldest' \in Nat /\ \A s \in Live' : Oldest' <= s
    BY <1>1, <1>4, LeastNat DEF DiskOK, Oldest
  <2> QED BY <1>4, <1>8, <2>1, <2>2
<1>14. Aimed'
  <2>1. Live' # {} /\ Oldest' \in Live' /\ Len(segs'[Oldest']) \in Nat /\ readOff \in Nat
    <3>1. Live' # {} /\ Live' \subseteq Nat
      BY <1>1, <1>4 DEF DiskOK
    <3>2. Oldest' \in Live'
      BY <3>1, LeastNat DEF Oldest
    <3>3. segs'[Oldest'] \in Seq(Events)
      BY <1>1, <3>2 DEF DiskOK
    <3>4. readOff \in Nat
      BY <1>1, Bounds DEF DiskOK
    <3> QED BY <3>1, <3>2, <3>3, <3>4
  <2>2. CASE Live = {}
    BY <1>3, <2>1, <2>2 DEF Anchored, Aimed
  <2>3. CASE Live # {}
    <3>1. readOff <= Len(segs[Oldest]) /\ Oldest \in Live
      BY <1>1, <1>3, <2>3, OldestIs DEF Anchored, Aimed
    <3> QED BY <1>3, <1>4, <1>7, <1>13, <2>1, <2>3, <3>1 DEF Aimed
  <2> QED BY <2>2, <2>3
<1>15. cursor' = Position' \/ (cursor' = Origin /\ readOff' = 0)
  <2>1. CASE Live = {}
    BY <1>3, <2>1 DEF Anchored, Aimed, Position
  <2>2. CASE Live # {}
    BY <1>3, <1>4, <1>13, <2>2 DEF Anchored, Position
  <2> QED BY <2>1, <2>2
<1>16. Anchored'
  <2>1. \A s \in Live' : s >= cursor'.seq
    BY <1>3, <1>4, <1>9 DEF Anchored
  <2>2. \/ cursor' = Origin
        \/ cursor'.seq \in Live' /\ cursor'.off <= Len(segs'[cursor'.seq])
    <3>1. CASE cursor = Origin
      BY <1>3, <3>1
    <3>2. CASE cursor.seq \in Live /\ cursor.off <= Len(segs[cursor.seq])
      BY <1>1, <1>3, <1>4, <1>7, <3>2, Bounds
    <3> QED BY <1>3, <3>1, <3>2 DEF Anchored
  <2> QED BY <1>14, <1>15, <2>1, <2>2 DEF Anchored
<1>17. Shipped'
  <2>1. Acked(cursor)'
    <3> SUFFICES ASSUME NEW q \in Spots', ~Behind(q, cursor) PROVE At(q)' \in rows'
      BY <1>3 DEF Acked, Behind
    <3> QED BY <1>3, <1>4, <1>5, <1>9 DEF Shipped, Acked
  <2>2. ASSUME ship.at \in {"write", "unlink"}
        PROVE  /\ ship.upto \in Spots' /\ Behind(ship.upto, cursor)
               /\ At(ship.upto)' = At(ship.upto)
               /\ ship.batch = {d \in Recoverable' : d <= At(ship.upto)}
               /\ Cardinality(ship.batch) <= SpoolBatch
    <3>1. /\ ship.upto \in Spots /\ Behind(ship.upto, cursor)
          /\ ship.batch = {d \in Recoverable : d <= At(ship.upto)}
          /\ Cardinality(ship.batch) <= SpoolBatch
      BY <2>2 DEF Shipped
    <3>2. At(ship.upto)' = At(ship.upto)
      BY <1>3, <1>4, <3>1 DEF At
    <3>3. At(ship.upto) < t /\ At(ship.upto) \in Nat
      BY <1>6, <3>1 DEF Taken, OnDisk
    <3>4. {d \in Recoverable' : d <= At(ship.upto)} = {d \in Recoverable : d <= At(ship.upto)}
      BY <1>2, <1>10, <3>3
    <3> QED BY <1>4, <3>1, <3>2, <3>4
  <2> QED BY <1>3, <2>1, <2>2 DEF Shipped, Behind
<1>18. Near'
  <2> SUFFICES ASSUME NEW e \in Recoverable' \cap rows'
               PROVE  Cardinality({d \in Recoverable' : d <= e}) <= SpoolBatch
    BY DEF Near
  <2>1. e \in Recoverable \cap rows
    BY <1>3, <1>10, <1>11
  <2>2. e < t /\ e \in Nat
    BY <1>6, <1>11, <2>1
  <2>3. {d \in Recoverable' : d <= e} = {d \in Recoverable : d <= e}
    BY <1>2, <1>10, <2>2
  <2> QED BY <2>1, <2>3 DEF Near
<1> QED
  BY <1>12, <1>16, <1>17, <1>18

\* The start of a ship is a stutter of the spool.
LEMMA KeptShipStart ==
    ASSUME Sound, ShipStart
    PROVE  Kept' /\ Stays
<1>1. UNCHANGED <<segs, cursor, readOff, up, rows>> /\ ~Committing /\ ship'.at = "next"
  BY NextShipOK DEF ShipStart, disk, Committing
<1>2. Recoverable' = Recoverable /\ Acked(cursor)' /\ Near'
  <2>1. Spots' = Spots /\ \A p \in Spots : At(p)' = At(p)
    BY <1>1, SpotsUnchanged
  <2>2. Recoverable' = Recoverable
    BY <1>1, <2>1 DEF Recoverable, Behind
  <2> QED BY <1>1, <2>1, <2>2 DEF Sound, Kept, Shipped, Acked, Behind, Near
<1> QED
  BY <1>1, <1>2, KeptWaits DEF Sound, Stays

\* Next reads the oldest recoverable traces, one batch at most; a stutter.
LEMMA KeptShipNext ==
    ASSUME Sound, ShipNext
    PROVE  Kept' /\ Stays
<1> USE DEF Sound, Kept
<1>1. UNCHANGED <<segs, cursor, readOff, up, rows>> /\ up /\ ~Committing
  BY DEF ShipNext, disk, Committing, life
<1>2. Spots' = Spots /\ Live' = Live /\ \A p \in Spots : At(p)' = At(p)
  BY <1>1, SpotsUnchanged
<1>3. Recoverable' = Recoverable
  BY <1>1, <1>2 DEF Recoverable, Behind
<1>4. Acked(cursor)' /\ Near'
  BY <1>1, <1>2, <1>3 DEF Shipped, Acked, Behind, Near
<1>5. CASE ship' = NoShip
  BY <1>1, <1>3, <1>4, <1>5, KeptWaits DEF NoShip, Stays
<1>6. ASSUME NEW p \in Unread,
             Cardinality(ReadUpTo(p)) = Smaller(SpoolBatch, Cardinality(Unread)),
             ship' = [at |-> "write", upto |-> p, batch |-> {At(q) : q \in ReadUpTo(p)}]
      PROVE  Kept' /\ Stays
  <2>1. Unread = {q \in Spots : Behind(q, cursor)}
    BY <1>1, UnreadIs
  <2>2. p \in Spots /\ Behind(p, cursor)
    BY <2>1
  <2>3. \A q \in Unread : At(q) <= At(p) <=> q \in ReadUpTo(p)
    BY <2>1, <2>2, OrderIs DEF ReadUpTo
  <2>4. ship'.batch = {d \in Recoverable : d <= At(p)}
    <3>1. {At(q) : q \in ReadUpTo(p)} = {d \in Recoverable : d <= At(p)}
      BY <2>1, <2>3 DEF Recoverable, ReadUpTo
    <3> QED BY <1>6, <3>1
  <2>5. Cardinality(ship'.batch) <= SpoolBatch
    <3> DEFINE R == ReadUpTo(p)
               B == {At(q) : q \in R}
               f == [q \in R |-> At(q)]
    <3>1. IsFiniteSet(Unread) /\ IsFiniteSet(R)
      <4>1. IsFiniteSet(Unread)
        BY FiniteSpots, FS_Subset DEF Unread, Base, TypeOK
      <4> QED BY <4>1, FS_Subset DEF ReadUpTo
    <3>2. f \in Surjection(R, B)
      BY DEF Surjection
    <3> HIDE DEF R
    <3>3. Cardinality(B) <= Cardinality(R) /\ IsFiniteSet(B)
      BY <3>1, <3>2, FS_Surjection
    <3>4. Cardinality(B) \in Nat /\ Cardinality(R) \in Nat /\ Cardinality(Unread) \in Nat
      BY <3>1, <3>3, FS_CardinalityType
    <3>5. Cardinality(R) <= SpoolBatch
      BY <1>6, <3>4, Bounds DEF Smaller, R
    <3>6. Cardinality(B) <= SpoolBatch
      BY <3>3, <3>4, <3>5, Bounds
    <3> QED BY <1>6, <3>6 DEF R
  <2>6. ~Committing' /\ ship'.at = "write" /\ ship'.upto = p /\ At(p)' = At(p)
    BY <1>2, <1>6, <2>2 DEF Committing
  <2>7. Oldest' = Oldest /\ Position' = Position /\ Aimed' = Aimed
    BY <1>1, <1>2 DEF Oldest, Position, Aimed
  <2>8. Anchored'
    BY <1>1, <1>2, <2>6, <2>7 DEF Anchored
  <2>9. At(ship.upto)' = At(p)
    BY <1>1, <2>6 DEF At
  <2>10. Shipped'
    BY <1>1, <1>2, <1>3, <1>4, <2>2, <2>4, <2>5, <2>6, <2>9 DEF Shipped, Behind
  <2> QED BY <1>1, <1>3, <1>4, <2>8, <2>10 DEF Stays
<1> QED
  BY <1>5, <1>6 DEF ShipNext

\* WriteTraces is Delivery's Deliver of the batch, or a stutter when it is refused.
LEMMA KeptShipWrite ==
    ASSUME Sound, ShipWrite
    PROVE  Kept' /\ (Stays \/ Delivers)
<1> USE DEF Sound, Kept
<1>1. UNCHANGED <<segs, cursor, readOff, up>> /\ ship.at = "write" /\ ~Committing
  BY DEF ShipWrite, disk, Committing, life
<1>2. Spots' = Spots /\ Live' = Live /\ \A p \in Spots : At(p)' = At(p)
  BY <1>1, SpotsUnchanged
<1>3. Recoverable' = Recoverable
  BY <1>1, <1>2 DEF Recoverable, Behind
<1>4. rows' = rows \/ rows' = rows \cup ship.batch
  BY DEF ShipWrite
<1>5. /\ ship.upto \in Spots /\ Behind(ship.upto, cursor)
      /\ ship.batch = {d \in Recoverable : d <= At(ship.upto)}
      /\ Cardinality(ship.batch) <= SpoolBatch
  BY <1>1 DEF Shipped
<1>6. Stays \/ Delivers
  BY <1>3, <1>4, <1>5, RecoverableOK DEF Stays, Delivers
<1>7. Acked(cursor)'
  BY <1>1, <1>2, <1>4 DEF Shipped, Acked, Behind
<1>8. Near'
  <2> SUFFICES ASSUME NEW e \in Recoverable' \cap rows'
               PROVE  Cardinality({d \in Recoverable' : d <= e}) <= SpoolBatch
    BY DEF Near
  <2>1. CASE e \in rows
    BY <1>3, <2>1 DEF Near
  <2>2. CASE e \in ship.batch
    <3> DEFINE S == {d \in Recoverable : d <= e}
               B == {d \in Recoverable : d <= At(ship.upto)}
    <3>1. /\ e \in Nat /\ At(ship.upto) \in Nat /\ e <= At(ship.upto)
          /\ \A d \in Recoverable : d \in Nat
      BY <1>5, <2>2, RecoverableOK, SpotOK, Bounds DEF Base, TypeOK
    <3>2. S \in SUBSET B
      BY <3>1
    <3>3. IsFiniteSet(B) /\ Cardinality(B) \in Nat /\ Cardinality(S) \in Nat
      BY UpToIsFinite
    <3>4. Cardinality(B) <= SpoolBatch
      BY <1>5
    <3> HIDE DEF S, B
    <3>5. Cardinality(S) <= Cardinality(B)
      BY <3>2, <3>3, FS_Subset
    <3>6. Cardinality(S) <= SpoolBatch
      BY <3>3, <3>4, <3>5, Bounds
    <3> QED BY <1>3, <3>6 DEF S
  <2> QED BY <1>4, <2>1, <2>2
<1>9. CASE ship' = NoShip
  BY <1>1, <1>6, <1>7, <1>8, <1>9, KeptWaits DEF NoShip
<1>10. CASE ship' = [ship EXCEPT !.at = "unlink"] /\ rows' = rows \cup ship.batch
  <2>1. /\ ship'.at = "unlink" /\ ship'.upto = ship.upto /\ ship'.batch = ship.batch
        /\ ~Committing'
    BY <1>10 DEF Base, TypeOK, QueuesOK, Committing
  <2>2. Oldest' = Oldest /\ Position' = Position /\ Aimed' = Aimed
    BY <1>1, <1>2 DEF Oldest, Position, Aimed
  <2>3. Anchored'
    BY <1>1, <1>2, <2>1, <2>2 DEF Anchored
  <2>4. At(ship.upto)' = At(ship.upto)
    BY <1>1, <2>1 DEF At
  <2>5. Shipped'
    BY <1>1, <1>2, <1>3, <1>5, <1>7, <1>10, <2>1, <2>4 DEF Shipped, Behind
  <2> QED BY <1>6, <1>8, <2>3, <2>5
<1> QED
  BY <1>9, <1>10 DEF ShipWrite

\* Positions in the spool are ordered.
LEMMA BehindTrans ==
    ASSUME NEW p \in [seq : Nat, off : Nat], NEW q \in [seq : Nat, off : Nat],
           NEW r \in [seq : Nat, off : Nat], Behind(p, q), Behind(q, r)
    PROVE  Behind(p, r)
  BY DEF Behind

\* The first half of Commit is Delivery's Forget: what it unlinks or rewinds is delivered.
LEMMA KeptUnlink ==
    ASSUME Sound, CommitUnlink
    PROVE  Kept' /\ Forgets
<1> USE DEF Sound, Kept
<1> DEFINE u == ship.upto
           left == Live \ Dropped
           off == IF u.seq \in Dropped THEN 0 ELSE u.off
           rewind == active /\ left = {u.seq} /\ off >= Len(segs[u.seq])
<1>1. /\ segs' = [s \in left |-> IF rewind THEN <<>> ELSE segs[s]]
      /\ readOff' = IF rewind THEN 0 ELSE off
      /\ UNCHANGED <<cursor, rows>> /\ up /\ up' /\ ship.at = "unlink"
      /\ ship'.at = "cursor" /\ Committing'
  BY DEF CommitUnlink, life, Committing, Base, TypeOK, QueuesOK
<1>2. /\ u \in Spots /\ Behind(u, cursor) /\ ship.batch \subseteq rows
      /\ ship.batch = {d \in Recoverable : d <= At(u)}
  BY <1>1 DEF Shipped
<1>3. DiskOK /\ DiskOK' /\ cursor \in [seq : Nat, off : Nat]
  <2>1. DiskOK /\ DiskOK'
    BY BaseUnlink DEF Base, TypeOK
  <2>2. cursor \in [seq : Nat, off : 0 .. SegRecs]
    BY <2>1 DEF DiskOK
  <2>3. \A n \in 0 .. SegRecs : n \in Nat
    BY Bounds
  <2> QED BY <2>1, <2>2, <2>3
<1>4. /\ Spots' \subseteq Spots /\ Live' = left
      /\ \A p \in Spots' : At(p)' = At(p) /\ p.seq \notin Dropped
  BY UnlinkSpots
<1>5. /\ u.seq \in Live /\ u.seq \in Nat /\ u.off \in Nat /\ 1 <= u.off
      /\ u.off <= Len(segs[u.seq]) /\ u = [seq |-> u.seq, off |-> u.off]
  BY <1>2, <1>3, SpotOK DEF Spots
<1>6. \A p \in Spots : ~Behind(p, u) => At(p) \in rows
  <2> SUFFICES ASSUME NEW p \in Spots, ~Behind(p, u) PROVE At(p) \in rows
    OBVIOUS
  <2>1. CASE Behind(p, cursor)
    <3>1. At(p) \in Recoverable
      BY <2>1 DEF Recoverable
    <3>2. At(p) <= At(u)
      BY <1>2, OrderIs
    <3> QED BY <1>2, <3>1, <3>2
  <2>2. CASE ~Behind(p, cursor)
    BY <2>2 DEF Shipped, Acked
  <2> QED BY <2>1, <2>2
<1> HIDE DEF u
<1>7. \A p \in Spots : p.seq \in Nat /\ p.off \in Nat /\ 1 <= p.off /\ p.seq \in Live
                       /\ p.off <= Len(segs[p.seq]) /\ p \in [seq : Nat, off : Nat]
  BY <1>3, SpotOK, Bounds DEF Spots
<1>8. Dropped = {s \in Live : \/ s < u.seq
                              \/ s = u.seq /\ Sealed(s) /\ u.off >= Len(segs[s])}
  BY DEF Dropped, u
<1>9. ASSUME NEW p \in Spots, p \notin Spots'
      PROVE  ~Behind(p, u)
  <2>1. \A s \in Live : Len(segs[s]) \in Nat
    BY <1>3 DEF DiskOK
  <2>2. CASE p.seq \in Dropped
    BY <1>5, <1>7, <1>8, <2>1, <2>2 DEF Behind
  <2>3. CASE p.seq \notin Dropped /\ rewind
    <3>1. p.seq = u.seq /\ off = u.off
      BY <1>7, <2>3
    <3> QED BY <1>5, <1>7, <2>1, <2>3, <3>1 DEF Behind
  <2>4. CASE p.seq \notin Dropped /\ ~rewind
    <3>1. p.seq \in Live' /\ segs'[p.seq] = segs[p.seq]
      BY <1>1, <1>4, <1>7, <2>4
    <3>2. p \in Spots'
      BY <3>1 DEF Spots
    <3> QED BY <1>9, <3>2
  <2> QED BY <2>2, <2>3, <2>4
<1>10. Recoverable' = {At(p) : p \in {q \in Spots' : Behind(q, cursor)}}
  BY <1>1, <1>4 DEF Recoverable, Behind
<1>11. Recoverable' \subseteq Recoverable /\ Recoverable \ Recoverable' \subseteq rows
  <2>1. Recoverable' \subseteq Recoverable
    BY <1>4, <1>10 DEF Recoverable
  <2>2. ASSUME NEW e \in Recoverable, e \notin Recoverable' PROVE e \in rows
    <3>1. PICK q \in Spots : Behind(q, cursor) /\ e = At(q)
      BY DEF Recoverable
    <3>2. q \notin Spots'
      BY <1>10, <2>2, <3>1
    <3> QED BY <1>6, <1>9, <3>1, <3>2
  <2> QED BY <2>1, <2>2
<1>12. Forgets
  <2>1. Recoverable \ Recoverable' \in SUBSET Events
    BY RecoverableOK
  <2>2. /\ Recoverable \ Recoverable' \subseteq Recoverable \cap rows
        /\ Recoverable' = Recoverable \ (Recoverable \ Recoverable')
    BY <1>11
  <2> QED BY <1>1, <2>1, <2>2 DEF Forgets
<1>13. Near'
  BY <1>1, <1>11, NearShrinks
<1>14. Acked(cursor)'
  BY <1>1, <1>4 DEF Shipped, Acked, Behind
<1>15. /\ Aimed' /\ Acked(Position)'
       /\ \A p \in Spots' : Behind(p, Position') => Behind(p, cursor)
  <2>1. Live' # {} => Oldest' \in Live' /\ Oldest' \in Nat /\ \A s \in Live' : Oldest' <= s
    BY <1>3, LeastNat DEF DiskOK, Oldest
  <2>2. \A p \in Spots' : p.seq \in Live'
    BY DEF Spots
  <2>3. Position' = IF Live' = {} THEN Origin ELSE [seq |-> Oldest', off |-> readOff']
    BY DEF Position
  <2>4. \A s \in Live' : Len(segs'[s]) \in Nat
    BY <1>3 DEF DiskOK
  <2>5. CASE rewind
    <3>1. \A s \in Live' : segs'[s] = <<>>
      BY <1>1, <1>4, <2>5
    <3>2. Spots' = {}
      BY <3>1, Bounds DEF Spots
    <3>3. readOff' = 0
      BY <1>1, <2>5
    <3> QED BY <2>1, <2>4, <3>2, <3>3 DEF Aimed, Acked
  <2>6. CASE ~rewind /\ u.seq \in Dropped
    <3>1. readOff' = 0
      BY <1>1, <2>6
    <3>2. ASSUME NEW p \in Spots' PROVE Behind(p, Position') /\ Behind(p, cursor)
      <4>1. p.seq > u.seq
        BY <1>4, <1>5, <1>7, <1>8, <2>6
      <4>2. Behind(p, u)
        BY <4>1 DEF Behind
      <4>3. Behind(p, cursor)
        BY <1>2, <1>3, <1>4, <1>7, <4>2, BehindTrans DEF u
      <4>4. Live' # {} /\ Oldest' <= p.seq
        BY <2>1, <2>2
      <4> QED BY <1>4, <1>7, <2>1, <2>3, <3>1, <4>3, <4>4 DEF Behind
    <3> QED BY <2>1, <2>4, <3>1, <3>2 DEF Aimed, Acked, Behind
  <2>7. CASE ~rewind /\ u.seq \notin Dropped
    <3>1. u.seq \in Live' /\ readOff' = u.off /\ segs'[u.seq] = segs[u.seq]
      BY <1>1, <1>4, <1>5, <2>7
    <3>2. \A s \in Live' : u.seq <= s
      <4>1. \A s \in Live' : s \in Live /\ s \in Nat /\ ~(s < u.seq)
        BY <1>3, <1>4, <1>8 DEF DiskOK
      <4> QED BY <1>5, <4>1
    <3>3. Oldest' = u.seq
      BY <1>5, <2>1, <3>1, <3>2
    <3>4. Position' = u
      BY <1>5, <2>3, <3>1, <3>3
    <3>5. Aimed'
      BY <1>5, <3>1, <3>3 DEF Aimed
    <3>6. \A p \in Spots' : ~Behind(p, u) => At(p)' \in rows'
      BY <1>1, <1>4, <1>6
    <3>7. \A p \in Spots' : Behind(p, u) => Behind(p, cursor)
      BY <1>2, <1>3, <1>4, <1>7, BehindTrans DEF u
    <3> QED BY <3>4, <3>5, <3>6, <3>7 DEF Acked, Behind
  <2> QED BY <2>5, <2>6, <2>7
<1>16. Anchored'
  BY <1>1, <1>4, <1>15 DEF Anchored
<1>17. Shipped'
  BY <1>1, <1>14, <1>15 DEF Shipped, Behind
<1> QED
  BY <1>12, <1>13, <1>16, <1>17

\* The position of the reader is a sound cursor.
LEMMA AtPosition ==
    ASSUME Base, Anchored, up
    PROVE  /\ \A s \in Live : s >= Position.seq
           /\ \/ Position = Origin
              \/ Position.seq \in Live /\ Position.off <= Len(segs[Position.seq])
<1>1. CASE Live = {}
  BY <1>1 DEF Position
<1>2. CASE Live # {}
  <2>1. Oldest \in Live /\ Oldest \in Nat /\ \A s \in Live : Oldest <= s /\ s \in Nat
    BY <1>2, OldestIs DEF Base, TypeOK, DiskOK
  <2>2. Position.seq = Oldest /\ Position.off = readOff
    BY <1>2 DEF Position
  <2> QED BY <1>2, <2>1, <2>2 DEF Anchored, Aimed
<1> QED
  BY <1>1, <1>2

\* The second half of Commit is Delivery's Forget of the batch.
LEMMA KeptCursor ==
    ASSUME Sound, CommitCursor
    PROVE  Kept' /\ Forgets
<1> USE DEF Sound, Kept
<1>1. /\ UNCHANGED <<segs, readOff, rows>> /\ up /\ up' /\ Committing
      /\ cursor' = Position /\ ship'.at = "next" /\ ~Committing'
  BY NextShipOK DEF CommitCursor, life, Committing
<1>2. Spots' = Spots /\ Live' = Live /\ \A p \in Spots : At(p)' = At(p)
  BY <1>1, SpotsUnchanged
<1>3. Oldest' = Oldest /\ Position' = Position /\ Aimed' = Aimed
  BY <1>1, <1>2 DEF Oldest, Position, Aimed
<1>4. Recoverable' = {At(p) : p \in {q \in Spots : Behind(q, Position)}}
  BY <1>1, <1>2 DEF Recoverable, Behind
<1>5. /\ Acked(Position) /\ \A p \in Spots : Behind(p, Position) => Behind(p, cursor)
  BY <1>1 DEF Shipped
<1>6. Recoverable' \subseteq Recoverable /\ Recoverable \ Recoverable' \subseteq rows
  <2>1. Recoverable' \subseteq Recoverable
    BY <1>4, <1>5 DEF Recoverable
  <2>2. ASSUME NEW e \in Recoverable, e \notin Recoverable' PROVE e \in rows
    <3>1. PICK q \in Spots : Behind(q, cursor) /\ e = At(q)
      BY DEF Recoverable
    <3>2. ~Behind(q, Position)
      BY <1>4, <2>2, <3>1
    <3> QED BY <1>5, <3>1, <3>2 DEF Acked
  <2> QED BY <2>1, <2>2
<1>7. Forgets
  <2>1. Recoverable \ Recoverable' \in SUBSET Events
    BY RecoverableOK
  <2>2. /\ Recoverable \ Recoverable' \subseteq Recoverable \cap rows
        /\ Recoverable' = Recoverable \ (Recoverable \ Recoverable')
    BY <1>6
  <2> QED BY <1>1, <2>1, <2>2 DEF Forgets
<1>8. Near'
  BY <1>1, <1>6, NearShrinks
<1>9. Anchored'
  <2>1. /\ \A s \in Live' : s >= cursor'.seq
        /\ \/ cursor' = Origin
           \/ cursor'.seq \in Live' /\ cursor'.off <= Len(segs'[cursor'.seq])
    BY <1>1, <1>2, AtPosition
  <2> QED BY <1>1, <1>3, <2>1 DEF Anchored
<1>10. Shipped'
  BY <1>1, <1>2, <1>5 DEF Shipped, Acked, Behind
<1> QED
  BY <1>7, <1>8, <1>9, <1>10

\* A process that ends outside Commit changes nothing of what can be recovered.
LEMMA KeptEnded ==
    ASSUME Sound, up, Ended, ~Committing, cursor' \in {cursor, Position}
    PROVE  Kept' /\ Stays
<1> USE DEF Sound, Kept
<1>1. /\ UNCHANGED <<segs, rows>> /\ ~up' /\ ship'.at = "idle" /\ ~Committing'
  BY DEF Ended, NoShip, Committing
<1>2. Spots' = Spots /\ Live' = Live /\ \A p \in Spots : At(p)' = At(p)
  BY <1>1, SpotsUnchanged
<1>3. \A p \in Spots : Behind(p, cursor') <=> Behind(p, cursor)
  <2>1. \A p \in Spots : Behind(p, Position) <=> Behind(p, cursor)
    BY UnreadIs DEF Unread
  <2> QED BY <2>1
<1>4. Recoverable' = Recoverable
  <2>1. Recoverable' = {At(p) : p \in {q \in Spots : Behind(q, cursor')}}
    BY <1>1, <1>2 DEF Recoverable, Behind
  <2> QED BY <1>3, <2>1 DEF Recoverable
<1>5. Near'
  BY <1>1, <1>4, NearShrinks
<1>6. Anchored'
  <2>1. /\ \A s \in Live' : s >= cursor'.seq
        /\ \/ cursor' = Origin
           \/ cursor'.seq \in Live' /\ cursor'.off <= Len(segs'[cursor'.seq])
    BY <1>1, <1>2, AtPosition DEF Anchored
  <2> QED BY <1>1, <2>1 DEF Anchored
<1>7. Shipped'
  <2>1. Acked(cursor)'
    <3> SUFFICES ASSUME NEW p \in Spots, ~Behind(p, cursor') PROVE At(p)' \in rows'
      BY <1>2 DEF Acked, Behind
    <3> QED BY <1>1, <1>2, <1>3 DEF Shipped, Acked
  <2> QED BY <1>1, <2>1 DEF Shipped
<1> QED
  BY <1>1, <1>4, <1>5, <1>6, <1>7 DEF Stays

\* openDiskSpool resumes exactly at the cursor: a stutter of the spool.
LEMMA KeptRestart ==
    ASSUME Sound, Restart
    PROVE  Kept' /\ Stays
<1> USE DEF Sound, Kept
<1>1. /\ UNCHANGED <<cursor, rows, ship>> /\ ~up /\ up' /\ readOff' = ResumeAt
      /\ ship = NoShip /\ ship'.at = "idle" /\ ~Committing /\ ~Committing'
  BY DEF Restart, Base, Resting, NoShip, Committing
<1>2. /\ Live' = Live /\ \A s \in Live : segs'[s] = segs[s]
  BY RestartSpots DEF Anchored
<1>3. Spots' = Spots /\ \A p \in Spots : At(p)' = At(p)
  BY <1>2 DEF Spots, At
<1>4. Recoverable' = Recoverable
  BY <1>1, <1>3 DEF Recoverable, Behind
<1>5. Near'
  BY <1>1, <1>4, NearShrinks
<1>6. Acked(cursor)'
  BY <1>1, <1>3 DEF Shipped, Acked, Behind
<1>7. Shipped'
  BY <1>1, <1>6 DEF Shipped
<1>8. /\ Oldest' = Oldest
      /\ Live # {} => Oldest \in Live /\ Oldest \in Nat /\ \A s \in Live : Oldest <= s
  BY <1>2, OldestIs DEF Oldest, Base, TypeOK
<1>9. Aimed' /\ (cursor' = Position' \/ (cursor' = Origin /\ readOff' = 0))
  <2>1. CASE cursor.seq \in Live /\ cursor.off <= Len(segs[cursor.seq])
    <3>1. /\ cursor = [seq |-> cursor.seq, off |-> cursor.off] /\ cursor.seq \in Nat
          /\ cursor.off \in Nat /\ Len(segs[cursor.seq]) \in Nat
      BY <2>1, Bounds DEF Base, TypeOK, DiskOK
    <3>2. readOff' = cursor.off
      BY <1>1, <2>1, <3>1 DEF ResumeAt, Smaller
    <3>3. Oldest = cursor.seq
      BY <1>8, <2>1, <3>1 DEF Anchored
    <3>4. Position' = cursor
      BY <1>2, <1>8, <2>1, <3>1, <3>2, <3>3 DEF Position
    <3> QED BY <1>1, <1>2, <1>8, <2>1, <3>2, <3>3, <3>4 DEF Aimed
  <2>2. CASE cursor = Origin
    <3>1. \A s \in Live : Len(segs[s]) \in Nat
      BY DEF Base, TypeOK, DiskOK
    <3>2. readOff' = 0
      BY <1>1, <2>2, <3>1 DEF ResumeAt, Smaller, Origin
    <3> QED BY <1>1, <1>2, <1>8, <2>2, <3>1, <3>2 DEF Aimed
  <2> QED BY <1>1, <2>1, <2>2 DEF Anchored
<1>10. Anchored'
  BY <1>1, <1>2, <1>9 DEF Anchored
<1> QED
  BY <1>1, <1>4, <1>5, <1>7, <1>10 DEF Stays

\* Every step keeps the spool invariant and is a step of Delivery or a stutter.
LEMMA KeptNext ==
    ASSUME ~TornCommit, Sound, [Next]_vars
    PROVE  Kept' /\ SpoolStep
<1> USE DEF Sound
<1>1. CASE UNCHANGED <<segs, cursor, readOff, ship, rows, up>>
  BY <1>1, KeptQuiet DEF SpoolStep
<1>2. CASE DrainAppend
  BY <1>2, KeptDrainAppend DEF SpoolStep
<1>3. CASE Ship
  BY <1>3, KeptShipStart, KeptShipNext, KeptShipWrite, KeptUnlink, KeptCursor
  DEF Ship, SpoolStep
<1>4. CASE CloseSeal \/ Crash
  BY <1>4, KeptEnded DEF CloseSeal, Crash, Committing, SpoolStep
<1>5. CASE Restart
  BY <1>5, KeptRestart DEF SpoolStep
<1>6. ASSUME ~DrainAppend, ~Ship, ~CloseSeal, ~Crash, ~Restart
      PROVE  UNCHANGED <<segs, cursor, readOff, ship, rows, up>>
  BY <1>6 DEF Next, Numeric, Drain, Close, Over, vars, trace, disk, life, Record, FlushMerge,
       FlushWrite, FlushPersist, DrainPop, DrainFull, CloseStart, CloseJoin
<1> QED
  BY <1>1, <1>2, <1>3, <1>4, <1>5, <1>6

\* The spool invariant holds of an empty directory.
LEMMA KeptInit ==
    ASSUME Init
    PROVE  Kept
<1>1. Live = {} /\ Spots = {} /\ cursor = Origin /\ readOff = 0 /\ ship.at = "idle"
  BY DEF Init, Live, Spots, NoShip
<1>2. Recoverable = {} /\ Position = Origin
  BY <1>1 DEF Recoverable, Position
<1> QED
  BY <1>1, <1>2 DEF Kept, Anchored, Aimed, Shipped, Acked, Committing, Near

\* Every step keeps the inductive invariant.
LEMMA SoundNext ==
    ASSUME ~TornCommit, Sound, [Next]_vars
    PROVE  Sound'
  BY BaseNext, OrderlyNext, KeptNext DEF Sound

\* The whole inductive invariant, when no crash falls between Commit's unlink and
\* its cursor.
THEOREM Soundness == ~TornCommit => (Spec => []Sound)
<1> SUFFICES ASSUME ~TornCommit PROVE Spec => []Sound
  OBVIOUS
<1>1. Init => Sound
  BY BaseInit, OrderlyInit, KeptInit DEF Sound
<1>2. Sound /\ [Next]_vars => Sound'
  BY SoundNext
<1> QED
  BY <1>1, <1>2, PTL DEF Spec

\* The invariant bounds what a crash re-delivers.
LEMMA OneBatch ==
    ASSUME Sound
    PROVE  RedeliversOneBatch
<1> USE DEF Sound, Kept
<1> DEFINE S == Recoverable \cap rows
<1>1. IsFiniteSet(S) /\ S \subseteq Nat
  BY RecoverableOK, FS_Subset, Bounds
<1>2. CASE S = {}
  BY <1>2, FS_EmptySet, Bounds DEF RedeliversOneBatch
<1>3. CASE S # {}
  <2> DEFINE m == Max(S)
             T == {d \in Recoverable : d <= m}
  <2>1. m \in S /\ \A d \in S : d <= m
    BY <1>1, <1>3, GreatestNat
  <2>2. Cardinality(T) <= SpoolBatch
    BY <2>1 DEF Near
  <2>3. S \in SUBSET T
    BY <2>1
  <2>4. IsFiniteSet(T) /\ Cardinality(T) \in Nat /\ Cardinality(S) \in Nat
    BY <1>1, UpToIsFinite, FS_CardinalityType
  <2> HIDE DEF T, S
  <2>5. Cardinality(S) <= Cardinality(T)
    BY <2>3, <2>4, FS_Subset
  <2>6. Cardinality(S) <= SpoolBatch
    BY <2>2, <2>4, <2>5, Bounds
  <2> QED BY <2>6 DEF S, RedeliversOneBatch
<1> QED
  BY <1>2, <1>3

\* A crash outside Commit re-delivers at most one batch of traces and costs no counter
\* that a flush has seen (Commit, writeCursor, persistPendingLocked).
THEOREM CrashCostHolds == ~TornCommit => (Spec => []CrashCost)
<1> SUFFICES ASSUME ~TornCommit PROVE Spec => []CrashCost
  OBVIOUS
<1>1. Sound => CrashCost
  BY OneBatch DEF Sound, Base, Settling, CrashCost, CarryMatches
<1> QED
  BY <1>1, Soundness, PTL

\* Unless a crash splits a Commit, every record in the spool directory is offered by
\* the next process or already in the ledger (openDiskSpool, Commit).
THEOREM NoTraceLostHolds == ~TornCommit => (Spec => []NoTraceLost)
<1> SUFFICES ASSUME ~TornCommit PROVE Spec => []NoTraceLost
  OBVIOUS
<1>1. Sound => NoTraceLost
  BY DEF Sound, Kept, Shipped, Acked, NoTraceLost, Recoverable
<1> QED
  BY <1>1, Soundness, PTL

\* Unless a crash splits a Commit, the segments, the cursor and the three loops
\* implement at-least-once delivery: every step of the meter is a step of Delivery, or
\* leaves what Delivery speaks of unchanged.
THEOREM SpoolDeliversHolds == ~TornCommit => (Spec => SpoolDelivers)
<1> SUFFICES ASSUME ~TornCommit PROVE Spec => SpoolDelivers
  OBVIOUS
<1>1. Init => Spooled!Init
  <2>1. Init => Spots = {} /\ rows = {}
    BY DEF Init, Live, Spots
  <2> QED BY <2>1 DEF Spooled!Init, Recoverable
<1>2. Sound /\ [Next]_vars => [Spooled!Next]_(Spooled!vars)
  <2> SUFFICES ASSUME Sound, [Next]_vars PROVE [Spooled!Next]_(Spooled!vars)
    OBVIOUS
  <2>1. SpoolStep
    BY KeptNext
  <2>2. CASE Stays
    BY <2>2 DEF Stays, Spooled!vars
  <2>3. CASE Accepts
    BY <2>3 DEF Accepts, Spooled!Next, Spooled!Accept
  <2>4. CASE Delivers
    BY <2>4 DEF Delivers, Spooled!Next, Spooled!Deliver
  <2>5. CASE Forgets
    BY <2>5 DEF Forgets, Spooled!Next, Spooled!Forget
  <2> QED BY <2>1, <2>2, <2>3, <2>4, <2>5 DEF SpoolStep
<1> QED
  BY <1>1, <1>2, Soundness, PTL DEF Spec, SpoolDelivers, Spooled!Spec
=============================================================================
