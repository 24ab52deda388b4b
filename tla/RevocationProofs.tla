-------------------------- MODULE RevocationProofs --------------------------
(***************************************************************************)
(* Proofs about Revocation, for any number of secrets, versions and        *)
(* messages and any lifetimes: an applied message leaves no older entry of *)
(* the key behind (DropsOnReceipt), an entry outlives the rows it was      *)
(* built from by a bounded time (BoundedFallback), and where the sequence  *)
(* numbers are those of a store with one writer the watermark passes over  *)
(* no message (NoSkippedMessage).                                          *)
(*                                                                         *)
(* What the cache holds is judged entry by entry (EntryOK, FreshFor), the  *)
(* reads in flight likewise (FetchOK, LoadOK), so that a step that moves   *)
(* entries between the maps has nothing to show; a step that adds a        *)
(* version, applies a message or lets time pass does.                      *)
(***************************************************************************)
EXTENDS Revocation, FiniteSetTheorems, SequenceTheorems, WellFoundedInduction, TLAPS

RowRec == [blocked : BOOLEAN, pended : BOOLEAN,
           sec : [Lookups -> {"absent", "current", "grace", "cut"}]]
Told   == [ver : Versions, lookups : SUBSET Lookups, mine : BOOLEAN]
Drawn  == [seq : Nat, ver : Versions, lookups : SUBSET Lookups, mine : BOOLEAN]
Seen   == [seq : Nat, ver : Versions, lookups : SUBSET Lookups]
FetchRec == [ver : 0..MaxVersion, left : 0..StoreTimeout, late : 0..MaxVersion]
LoadRec  == [at : {"idle", "read", "stored"}, ver : 0..MaxVersion, late : 0..MaxVersion]

-----------------------------------------------------------------------------
(* The inductive invariant.                                                  *)

\* The store and the messages speak of versions there are, and a version that is not
\* current yet has no age.
StoreOK ==
    /\ rows \in Seq(RowRec) /\ Now \in Versions
    /\ since \in [Versions -> 0..Horizon]
    /\ \A v \in Versions : v > Now => since[v] = 0
    /\ told \subseteq Told /\ drawn \subseteq Drawn /\ bus \subseteq Seen /\ msgs \subseteq Seen
    /\ \A m \in told \cup drawn \cup bus \cup msgs : m.ver <= Now
    /\ \A m \in drawn \cup bus : m.seq <= lastSeq
    /\ ctl \in [ver : 0..MaxVersion, lookups : SUBSET Lookups]
    /\ ctl.ver <= Now /\ (ctl.ver = 0 => ctl = NoCtl)
    /\ applied \subseteq 1..Now
    /\ boot \in [at : {"head", "clear", "load", "seq", "up"}, head : Nat]
    /\ seq \in Nat /\ lastSeq \in Nat /\ base \in 0..Now /\ returned \in 0..Now

\* What is left of an entry's life and what has passed since its rows were superseded
\* add up to no more than a lifetime and a store lookup.
EntryOK(e, l) ==
    /\ e \in Entry /\ e.ver <= Now
    /\ e.ver # 0 /\ Live(e) /\ e.ttl # Forever =>
          /\ e.ttl <= EntryLife(e.ver, l)
          /\ e.ver < Now => since[e.ver + 1] + e.ttl <= StoreTimeout + EntryLife(e.ver, l)

\* No message about a version newer than ver was applied before the read that was
\* overtaken last at version late.
Late(ver, late) == \A v \in applied : ver < v => v <= late

FreshFor(e, l) == Positive(e, l) => Late(e.ver, e.late)

FetchOK(r) ==
    /\ r \in FetchRec /\ r.ver <= Now
    /\ r.ver = 0 => r = NoFetch
    /\ r.ver # 0 => Late(r.ver, r.late)
    /\ r.ver # 0 /\ r.ver < Now => since[r.ver + 1] + r.left <= StoreTimeout

LoadFits(d) ==
    /\ d \in LoadRec /\ d.ver <= Now
    /\ d.ver = 0 => d = NoLoad
    /\ d.ver # 0 => Late(d.ver, d.late)

\* One lookup in a cache that consists of the snapshot s, the overlay o, the snapshot w
\* in the making and the reads f: the overlay is clean at any time; the snapshot is
\* when the mutex is free, and else the one that is about to replace it.
LookupOK(s, o, w, f, l) ==
    /\ EntryOK(s[l], l) /\ EntryOK(o[l], l) /\ EntryOK(w.map[l], l)
    /\ FreshFor(o[l], l)
    /\ w.on => FreshFor(w.map[l], l)
    /\ ~w.on => FreshFor(s[l], l)
    /\ FetchOK(f[l])

Swaps == [on : BOOLEAN, map : [Lookups -> Entry], mine : BOOLEAN]

Cache(s, o, w, f, d) ==
    /\ s \in [Lookups -> Entry] /\ o \in [Lookups -> Entry]
    /\ w \in Swaps /\ f \in [Lookups -> FetchRec]
    /\ \A l \in Lookups : LookupOK(s, o, w, f, l)
    /\ LoadFits(d)

CacheOK == Cache(snap, overlay, swap, fetch, load)

Sound == StoreOK /\ CacheOK

Heard(m) == m.ver \in applied \/ m.ver <= base

\* The messages: their numbers are distinct and behind lastSeq; what the watermark is
\* past is heard, and so will be what the poll in progress or the start that is under
\* way moves it past; the messages of this node are applied before they are told.
Ordered ==
    /\ drawn = {} /\ IsFiniteSet(bus)
    /\ \A m \in bus \cup msgs : m.seq \in 1..lastSeq
    /\ seq <= lastSeq /\ boot.head <= lastSeq
    /\ \A m, k \in bus \cup msgs : m.seq = k.seq => m = k
    /\ NoSkippedMessage
    /\ \A m \in msgs, k \in bus : k.seq <= m.seq => Heard(k) \/ k \in msgs
    /\ boot.at \in {"load", "seq"} => \A m \in bus : m.seq <= boot.head => m.ver <= base
    /\ ~Local => ctl = NoCtl /\ \A t \in told : ~t.mine
    /\ Local => /\ \A m \in bus : m.ver \in applied
                /\ \A t \in told : t.mine /\ t.ver \in applied

-----------------------------------------------------------------------------
(* Versions.                                                                 *)

\* The parameters as numbers.
LEMMA Numbers ==
    /\ MaxGen \in Nat /\ MaxVersion \in Nat /\ MaxVersion >= 1
    /\ EntryTTL \in Nat /\ EntryTTL >= 1 /\ NegativeTTL \in Nat /\ NegativeTTL >= 1
    /\ NegativeTTL <= EntryTTL /\ StoreTimeout \in Nat /\ Batch \in Nat
    /\ Forever \in Nat /\ Horizon \in Nat
  BY RevocationAssumption DEF Forever, Horizon

\* A control's transaction writes a row.
LEMMA RowType ==
    ASSUME StoreOK
    PROVE  Row \in RowRec
<1>1. rows \in Seq(RowRec) /\ Len(rows) \in 1..Len(rows)
  BY DEF StoreOK, Now, Versions
<1> QED BY <1>1 DEF Row, Now

\* RotateKey writes a row.
LEMMA RotatedType ==
    ASSUME StoreOK
    PROVE  RotatedRow \in RowRec
<1> DEFINE new == Max(Known(Row)) + 1
           live == {new} \cup Secrets(Row, {"current", "grace"})
           cut == {l \in live : Cardinality({m \in live : m >= l}) > MaxSecrets}
           sec == [l \in Lookups |->
               CASE l \in cut -> "cut" [] l = new -> "current" [] l \in live -> "grace"
                 [] OTHER -> Row.sec[l]]
<1>1. Row \in RowRec
  BY RowType
<1>2. RotatedRow = [Row EXCEPT !.sec = sec]
  BY DEF RotatedRow
<1>3. ASSUME NEW l \in Lookups PROVE sec[l] \in {"absent", "current", "grace", "cut"}
  <2>1. Row.sec[l] \in {"absent", "current", "grace", "cut"}
    BY <1>1 DEF RowRec
  <2> HIDE DEF cut, live, new
  <2> QED BY <2>1
<1>4. sec \in [Lookups -> {"absent", "current", "grace", "cut"}]
  BY <1>3
<1> HIDE DEF sec
<1> QED BY <1>1, <1>2, <1>4 DEF RowRec

\* So does every control.
LEMMA NewRowType ==
    ASSUME StoreOK, NEW kind \in Controls
    PROVE  NewRow(kind) \in RowRec
<1>1. Row \in RowRec /\ RotatedRow \in RowRec
  BY RowType, RotatedType
<1>2. kind \in {"pend", "release", "revoke", "rotate", "cut", "delete"}
  BY RevocationAssumption
<1>3. CASE kind = "pend"
  BY <1>1, <1>3 DEF NewRow, RowRec
<1>4. CASE kind = "release"
  BY <1>1, <1>4 DEF NewRow, RowRec
<1>5. CASE kind = "revoke"
  BY <1>1, <1>5 DEF NewRow, RowRec
<1>6. CASE kind = "rotate"
  BY <1>1, <1>6 DEF NewRow
<1>7. CASE kind = "cut"
  <2> DEFINE sec == [l \in Lookups |-> IF Row.sec[l] = "grace" THEN "cut" ELSE Row.sec[l]]
  <2>1. NewRow(kind) = [Row EXCEPT !.sec = sec]
    BY <1>7 DEF NewRow
  <2>2. sec \in [Lookups -> {"absent", "current", "grace", "cut"}]
    BY <1>1 DEF RowRec
  <2> HIDE DEF sec
  <2> QED BY <1>1, <2>1, <2>2 DEF RowRec
<1>8. CASE kind = "delete"
  <2> DEFINE sec == [l \in Lookups |-> "absent"]
  <2>1. NewRow(kind) = [Row EXCEPT !.sec = sec]
    BY <1>8 DEF NewRow
  <2>2. sec \in [Lookups -> {"absent", "current", "grace", "cut"}]
    OBVIOUS
  <2> HIDE DEF sec
  <2> QED BY <1>1, <2>1, <2>2 DEF RowRec
<1> QED BY <1>2, <1>3, <1>4, <1>5, <1>6, <1>7, <1>8

\* A message names lookups of the key.
LEMMA NamedType ==
    ASSUME NEW kind
    PROVE  Named(kind) \in SUBSET Lookups
  BY DEF Named, Known, Secrets

\* The new version is the newest; the others stay what they were.
LEMMA Written ==
    ASSUME StoreOK, NEW kind \in Controls, Write(kind)
    PROVE  /\ rows' \in Seq(RowRec) /\ Now' = Now + 1 /\ Now' \in Versions
           /\ \A v \in 1..Now : rows'[v] = rows[v]
           /\ since' = since /\ drawn' = drawn /\ bus' = bus /\ lastSeq' = lastSeq
<1>1. /\ rows' = Append(rows, NewRow(kind)) /\ Now < MaxVersion
      /\ since' = since /\ drawn' = drawn /\ bus' = bus /\ lastSeq' = lastSeq
  BY DEF Write
<1>2. rows \in Seq(RowRec) /\ NewRow(kind) \in RowRec /\ Now \in Versions
  BY NewRowType DEF StoreOK
<1>3. /\ Append(rows, NewRow(kind)) \in Seq(RowRec)
      /\ Len(Append(rows, NewRow(kind))) = Len(rows) + 1
      /\ \A v \in 1..Len(rows) : Append(rows, NewRow(kind))[v] = rows[v]
  BY <1>2, AppendProperties
<1> QED BY <1>1, <1>2, <1>3, Numbers DEF Now, Versions

\* How long an entry lives depends on rows that do not change.
LEMMA LifeType ==
    ASSUME NEW v, NEW l
    PROVE  /\ EntryLife(v, l) \in Nat /\ EntryLife(v, l) <= EntryTTL /\ EntryLife(v, l) >= 1
           /\ EntryLife(v, l) < Forever
  BY Numbers DEF EntryLife, Forever

-----------------------------------------------------------------------------
(* What a new version leaves alone.                                          *)

\* The rows of the versions there are stay, and so does the age of each.
Grown ==
    /\ Now' \in {Now, Now + 1} /\ Now' \in Versions /\ since' = since
    /\ \A v \in 1..Now : rows'[v] = rows[v]

\* A new version leaves an entry what it was: superseded now, with its whole life to go
\* at most.
LEMMA EntryGrown ==
    ASSUME StoreOK, Grown, NEW l \in Lookups, NEW e, EntryOK(e, l)
    PROVE  EntryOK(e, l)'
<1>1. /\ e \in Entry /\ e.ver <= Now /\ Now \in Nat /\ Now' \in Nat /\ Now' >= Now
      /\ Now' \in {Now, Now + 1}
  BY Numbers DEF StoreOK, EntryOK, Versions, Grown
<1>2. e.ver \in Nat /\ e.ttl \in Nat
  BY <1>1, Numbers DEF Entry
<1>3. CASE ~(e.ver # 0 /\ Live(e) /\ e.ttl # Forever)
  BY <1>1, <1>2, <1>3 DEF EntryOK
<1>4. CASE e.ver # 0 /\ Live(e) /\ e.ttl # Forever
  <2>1. rows'[e.ver] = rows[e.ver]
    BY <1>1, <1>2, <1>4 DEF Grown
  <2>2. EntryLife(e.ver, l)' = EntryLife(e.ver, l)
    BY <2>1 DEF EntryLife, Refuses
  <2>3. e.ttl <= EntryLife(e.ver, l) /\ EntryLife(e.ver, l) \in Nat
    BY <1>4, LifeType DEF EntryOK
  <2>4. ASSUME e.ver < Now' PROVE since[e.ver + 1] + e.ttl <= StoreTimeout + EntryLife(e.ver, l)
    <3>1. CASE e.ver < Now
      BY <1>4, <3>1 DEF EntryOK
    <3>2. CASE e.ver = Now
      <4>1. Now' = Now + 1 /\ e.ver + 1 \in Versions /\ e.ver + 1 > Now
        BY <1>1, <1>2, <2>4, <3>2, Numbers DEF Versions, Grown
      <4>2. since[e.ver + 1] = 0
        BY <4>1 DEF StoreOK
      <4> QED BY <1>2, <2>3, <4>2, Numbers
    <3> QED BY <1>1, <1>2, <3>1, <3>2
  <2>5. since' = since
    BY DEF Grown
  <2> QED BY <1>1, <1>2, <2>2, <2>3, <2>4, <2>5 DEF EntryOK
<1> QED BY <1>3, <1>4

\* A new version does not make an applied message of an entry.
LEMMA FreshGrown ==
    ASSUME StoreOK, Grown, applied' \subseteq applied, NEW l \in Lookups, NEW e, e \in Entry, e.ver <= Now,
           FreshFor(e, l)
    PROVE  FreshFor(e, l)'
<1>1. e.ver \in Nat /\ Now \in Nat
  BY Numbers DEF Entry, StoreOK, Versions
<1>2. CASE e.ver = 0
  BY <1>2 DEF FreshFor, Positive
<1>3. CASE e.ver # 0
  <2>1. rows'[e.ver] = rows[e.ver]
    BY <1>1, <1>3 DEF Grown
  <2>2. Positive(e, l)' = Positive(e, l)
    BY <2>1 DEF Positive, Found
  <2> QED BY <2>2 DEF FreshFor, Late
<1> QED BY <1>2, <1>3

\* A new version leaves a lookup in flight with its timeout to go at most.
LEMMA FetchGrown ==
    ASSUME StoreOK, Grown, applied' \subseteq applied, NEW r, FetchOK(r)
    PROVE  FetchOK(r)'
<1>1. /\ r \in FetchRec /\ r.ver <= Now /\ Now \in Nat /\ Now' \in Nat /\ Now' >= Now
      /\ Now' \in {Now, Now + 1} /\ Now' \in Versions /\ since' = since
  BY Numbers DEF StoreOK, FetchOK, Versions, Grown
<1>2. r.ver \in Nat /\ r.left \in Nat /\ r.left <= StoreTimeout
  BY <1>1, Numbers DEF FetchRec
<1>3. ASSUME r.ver # 0, r.ver < Now' PROVE since[r.ver + 1] + r.left <= StoreTimeout
  <2>1. CASE r.ver < Now
    BY <1>3, <2>1 DEF FetchOK
  <2>2. CASE r.ver = Now
    <3>1. r.ver + 1 \in Versions /\ r.ver + 1 > Now
      BY <1>1, <1>2, <1>3, <2>2, Numbers DEF Versions
    <3>2. since[r.ver + 1] = 0
      BY <3>1 DEF StoreOK
    <3> QED BY <1>2, <3>2, Numbers
  <2> QED BY <1>1, <1>2, <2>1, <2>2
<1>4. r.ver # 0 => Late(r.ver, r.late)'
  BY DEF FetchOK, Late
<1>5. r.ver = 0 => r = NoFetch
  BY DEF FetchOK
<1> QED BY <1>1, <1>2, <1>3, <1>4, <1>5 DEF FetchOK

\* The cache is as good after a write as before it ...
LEMMA CacheGrown ==
    ASSUME StoreOK, Grown, applied' \subseteq applied, NEW s, NEW o, NEW w, NEW f, NEW d,
           Cache(s, o, w, f, d)
    PROVE  Cache(s, o, w, f, d)'
<1>1. ASSUME NEW l \in Lookups PROVE LookupOK(s, o, w, f, l)'
  <2>1. LookupOK(s, o, w, f, l)
    BY DEF Cache
  <2>2. EntryOK(s[l], l)' /\ EntryOK(o[l], l)' /\ EntryOK(w.map[l], l)'
    BY <2>1, EntryGrown DEF LookupOK
  <2>3. \A e : EntryOK(e, l) => e \in Entry /\ e.ver <= Now
    BY DEF EntryOK
  <2>4. FreshFor(o[l], l)' /\ (w.on => FreshFor(w.map[l], l)') /\ (~w.on => FreshFor(s[l], l)')
    BY <2>1, <2>3, FreshGrown DEF LookupOK
  <2>5. FetchOK(f[l])'
    BY <2>1, FetchGrown DEF LookupOK
  <2> QED BY <2>2, <2>4, <2>5 DEF LookupOK
<1>2. LoadFits(d)'
  <2>1. LoadFits(d) /\ Now \in Nat /\ Now' \in Nat /\ Now' >= Now
    BY Numbers DEF Cache, Grown, StoreOK, Versions
  <2>2. d.ver \in Nat /\ d.ver <= Now'
    BY <2>1, Numbers DEF LoadFits, LoadRec
  <2> QED BY <2>1, <2>2 DEF LoadFits, Late
<1> QED BY <1>1, <1>2 DEF Cache

\* ... so that a step that applies no message and lets no time pass has to show that
\* what it leaves in the cache is good.
LEMMA CacheKeeps ==
    ASSUME StoreOK, Grown, applied' \subseteq applied, NEW s, NEW o, NEW w, NEW f, NEW d,
           Cache(s, o, w, f, d),
           snap' = s, overlay' = o, swap' = w, fetch' = f, load' = d
    PROVE  CacheOK'
<1>1. Cache(s, o, w, f, d)'
  BY CacheGrown
<1> QED BY <1>1 DEF CacheOK

\* A step that leaves the rows and their ages alone.
LEMMA StoreStays ==
    ASSUME StoreOK, rows' = rows, since' = since
    PROVE  Grown
  BY DEF Grown, StoreOK, Now

\* Nothing and no read.
LEMMA NothingFits ==
    ASSUME StoreOK, NEW l \in Lookups
    PROVE  /\ NoEntry \in Entry /\ EntryOK(NoEntry, l) /\ FreshFor(NoEntry, l)
           /\ Empty \in [Lookups -> Entry] /\ Empty[l] = NoEntry
           /\ NoFetch \in FetchRec /\ FetchOK(NoFetch) /\ LoadFits(NoLoad) /\ NoSwap \in Swaps
<1>1. Now \in Nat
  BY Numbers DEF StoreOK, Versions
<1>2. NoEntry \in Entry /\ NoFetch \in FetchRec /\ NoLoad \in LoadRec
  BY Numbers DEF NoEntry, Entry, NoFetch, FetchRec, NoLoad, LoadRec
<1>3. Empty \in [Lookups -> Entry] /\ Empty[l] = NoEntry
  BY <1>2 DEF Empty
<1>4. EntryOK(NoEntry, l) /\ FreshFor(NoEntry, l)
  BY <1>1, <1>2 DEF EntryOK, FreshFor, Positive, NoEntry
<1>5. FetchOK(NoFetch)
  BY <1>1, <1>2 DEF FetchOK, NoFetch
<1>6. LoadFits(NoLoad)
  BY <1>1, <1>2 DEF LoadFits, NoLoad
<1>7. NoSwap \in Swaps
  BY <1>3 DEF NoSwap, Swaps
<1> QED BY <1>2, <1>3, <1>4, <1>5, <1>6, <1>7

-----------------------------------------------------------------------------
(* The steps of the cache.                                                   *)

Good(e, l) == EntryOK(e, l) /\ FreshFor(e, l)

\* What a lookup's read has brought is good, and an entry made of it is.
LEMMA LearnedGood ==
    ASSUME Sound, NEW l \in Lookups, fetch[l] # NoFetch
    PROVE  Good(Learned(l), l)
<1>1. FetchOK(fetch[l]) /\ Now \in Nat
  BY Numbers DEF Sound, CacheOK, Cache, LookupOK, StoreOK, Versions
<1>2. fetch[l] \in FetchRec /\ fetch[l].ver # 0 /\ fetch[l].ver <= Now
  BY <1>1 DEF FetchOK
<1>3. fetch[l].ver \in 0..MaxVersion /\ fetch[l].late \in 0..MaxVersion /\ fetch[l].left \in Nat
  BY <1>2, Numbers DEF FetchRec
<1> DEFINE v == fetch[l].ver
           t == EntryLife(v, l)
<1>4. t \in Nat /\ t <= EntryTTL /\ t < Forever
  BY LifeType
<1>5. Learned(l) = [ver |-> v, ttl |-> t, late |-> fetch[l].late]
  BY DEF Learned
<1> HIDE DEF t
<1>6. Learned(l) \in Entry
  BY <1>3, <1>4, <1>5, Numbers DEF Entry
<1>7. ASSUME v < Now PROVE since[v + 1] + t <= StoreTimeout + t
  <2>1. since[v + 1] + fetch[l].left <= StoreTimeout
    BY <1>1, <1>2, <1>7 DEF FetchOK
  <2>2. v + 1 \in Versions /\ since \in [Versions -> 0..Horizon]
    <3>1. Now \in 1..MaxVersion /\ since \in [Versions -> 0..Horizon]
      BY DEF Sound, StoreOK, Versions
    <3>2. v + 1 \in 1..MaxVersion
      BY <1>3, <1>7, <3>1, Numbers
    <3> QED BY <3>1, <3>2 DEF Versions
  <2>3. since[v + 1] \in Nat
    BY <2>2, Numbers
  <2> QED BY <1>3, <1>4, <2>1, <2>3, Numbers
<1>8. EntryOK(Learned(l), l)
  BY <1>2, <1>4, <1>5, <1>6, <1>7 DEF EntryOK, t
<1>9. FreshFor(Learned(l), l)
  BY <1>1, <1>2, <1>5 DEF FreshFor, FetchOK
<1> QED BY <1>8, <1>9 DEF Good

\* A read of the store that starts now has been overtaken by nothing.
LEMMA ReadNow ==
    ASSUME Sound
    PROVE  /\ Late(Now, 0)
           /\ FetchOK([ver |-> Now, left |-> StoreTimeout, late |-> 0])
           /\ LoadFits([at |-> "read", ver |-> Now, late |-> 0])
<1>1. Now \in 1..MaxVersion /\ Now \in Nat /\ applied \subseteq 1..Now
  BY Numbers DEF Sound, StoreOK, Versions
<1>2. Late(Now, 0)
  BY <1>1 DEF Late
<1>3. [ver |-> Now, left |-> StoreTimeout, late |-> 0] \in FetchRec
  BY <1>1, Numbers DEF FetchRec
<1>4. [at |-> "read", ver |-> Now, late |-> 0] \in LoadRec
  BY <1>1, Numbers DEF LoadRec
<1> QED BY <1>1, <1>2, <1>3, <1>4 DEF FetchOK, LoadFits

\* The parts of the cache.
LEMMA CacheParts ==
    ASSUME Sound
    PROVE  /\ snap \in [Lookups -> Entry] /\ overlay \in [Lookups -> Entry] /\ swap \in Swaps
           /\ fetch \in [Lookups -> FetchRec] /\ LoadFits(load)
           /\ \A l \in Lookups :
                 /\ Good(overlay[l], l) /\ EntryOK(snap[l], l) /\ EntryOK(swap.map[l], l)
                 /\ ~swap.on => Good(snap[l], l)
                 /\ swap.on => Good(swap.map[l], l)
                 /\ FetchOK(fetch[l])
  BY DEF Sound, CacheOK, Cache, LookupOK, Good

\* A cache is good when its parts are.
LEMMA CacheMade ==
    ASSUME NEW s \in [Lookups -> Entry], NEW o \in [Lookups -> Entry], NEW w \in Swaps,
           NEW f \in [Lookups -> FetchRec], NEW d, LoadFits(d),
           \A l \in Lookups : Good(o[l], l),
           \A l \in Lookups : EntryOK(s[l], l) /\ EntryOK(w.map[l], l),
           ~w.on => \A l \in Lookups : Good(s[l], l),
           w.on => \A l \in Lookups : Good(w.map[l], l),
           \A l \in Lookups : FetchOK(f[l])
    PROVE  Cache(s, o, w, f, d)
<1>1. ASSUME NEW l \in Lookups PROVE LookupOK(s, o, w, f, l)
  BY DEF LookupOK, Good
<1> QED BY <1>1 DEF Cache

\* The read in flight for one lookup is another.
LEMMA FetchChanged ==
    ASSUME Sound, NEW l \in Lookups, NEW r, FetchOK(r)
    PROVE  /\ [fetch EXCEPT ![l] = r] \in [Lookups -> FetchRec]
           /\ \A m \in Lookups : FetchOK([fetch EXCEPT ![l] = r][m])
<1>1. fetch \in [Lookups -> FetchRec] /\ r \in FetchRec /\ \A m \in Lookups : FetchOK(fetch[m])
  BY CacheParts DEF FetchOK
<1> QED BY <1>1

\* Nothing but the cache changes, and a start may go on.
LEMMA StoreKept ==
    ASSUME StoreOK, rows' = rows, since' = since, told' \subseteq told, drawn' \subseteq drawn,
           bus' \subseteq bus, msgs' \subseteq bus \cup msgs, ctl' \in {ctl, NoCtl},
           applied' \subseteq applied, seq' \in Nat, lastSeq' = lastSeq,
           boot' \in [at : {"head", "clear", "load", "seq", "up"}, head : Nat],
           base' \in 0..Now, returned' \in 0..Now
    PROVE  StoreOK'
<1>1. Now' = Now /\ Now \in Nat
  BY Numbers DEF Now, StoreOK, Versions
<1>2. /\ NoCtl \in [ver : 0..MaxVersion, lookups : SUBSET Lookups] /\ NoCtl.ver = 0
  BY Numbers DEF NoCtl
<1>3. /\ ctl' \in [ver : 0..MaxVersion, lookups : SUBSET Lookups]
      /\ ctl'.ver <= Now /\ (ctl'.ver = 0 => ctl' = NoCtl)
  BY <1>1, <1>2 DEF StoreOK
<1> QED BY <1>1, <1>3 DEF StoreOK

\* The same when it does not.
LEMMA StoreSame ==
    ASSUME StoreOK, UNCHANGED <<storeVars, ctl, boot, pollVars, base, returned>>
    PROVE  StoreOK' /\ Grown /\ applied' \subseteq applied
<1>1. /\ rows' = rows /\ since' = since /\ told' = told /\ drawn' = drawn /\ bus' = bus
      /\ lastSeq' = lastSeq /\ ctl' = ctl /\ boot' = boot /\ seq' = seq /\ msgs' = msgs
      /\ applied' = applied /\ base' = base /\ returned' = returned
  BY DEF storeVars, pollVars
<1>2. /\ seq \in Nat /\ boot \in [at : {"head", "clear", "load", "seq", "up"}, head : Nat]
      /\ base \in 0..Now /\ returned \in 0..Now
  BY DEF StoreOK
<1>3. StoreOK'
  BY <1>1, <1>2, StoreKept
<1> QED BY <1>1, <1>3, StoreStays

\* A lookup starts, or fails.
LEMMA FetchSound ==
    ASSUME Sound, NEW l \in Lookups, FetchRead(l) \/ FetchFail(l)
    PROVE  Sound'
<1>1. PICK r : FetchOK(r) /\ fetch' = [fetch EXCEPT ![l] = r]
  <2>1. CASE FetchRead(l)
    BY <2>1, ReadNow DEF FetchRead
  <2>2. CASE FetchFail(l)
    BY <2>2, NothingFits DEF FetchFail, Sound
  <2> QED BY <2>1, <2>2
<1>2. /\ snap' = snap /\ overlay' = overlay /\ swap' = swap /\ load' = load
      /\ UNCHANGED <<storeVars, ctl, boot, pollVars, base, returned>>
  BY DEF FetchRead, FetchFail
<1>3. Cache(snap, overlay, swap, [fetch EXCEPT ![l] = r], load)
  BY <1>1, FetchChanged, CacheParts, CacheMade
<1>4. StoreOK' /\ Grown /\ applied' \subseteq applied
  BY <1>2, StoreSame DEF Sound
<1> QED BY <1>1, <1>2, <1>3, <1>4, CacheKeeps DEF Sound

\* insert: the overlay with the new entry is good, whatever of it is kept or folded.
LEMMA InsertSound ==
    ASSUME Sound, NEW l \in Lookups, Insert(l)
    PROVE  Sound'
<1> DEFINE o == WithLearned(l)
           f == [fetch EXCEPT ![l] = NoFetch]
<1>1. /\ fetch[l] # NoFetch /\ ~swap.on /\ fetch' = f /\ snap' = snap /\ load' = load
      /\ UNCHANGED <<storeVars, ctl, boot, pollVars, base, returned>>
  BY DEF Insert
<1>2. StoreOK' /\ Grown /\ applied' \subseteq applied /\ StoreOK
  BY <1>1, StoreSame DEF Sound
<1>3. /\ snap \in [Lookups -> Entry] /\ overlay \in [Lookups -> Entry] /\ swap \in Swaps
      /\ LoadFits(load)
      /\ \A m \in Lookups : Good(overlay[m], m) /\ Good(snap[m], m) /\ EntryOK(swap.map[m], m)
  BY <1>1, CacheParts
<1>4. Good(Learned(l), l) /\ Learned(l) \in Entry
  BY <1>1, LearnedGood DEF Good, EntryOK
<1>5. o \in [Lookups -> Entry] /\ \A m \in Lookups : Good(o[m], m)
  BY <1>3, <1>4 DEF WithLearned
<1>6. f \in [Lookups -> FetchRec] /\ \A m \in Lookups : FetchOK(f[m])
  BY <1>2, NothingFits, FetchChanged
<1>7. \A m \in Lookups : NoEntry \in Entry /\ Good(NoEntry, m)
  BY <1>2, NothingFits DEF Good
<1> HIDE DEF o, f
<1>8. ASSUME NEW p \in [Lookups -> Entry], \A m \in Lookups : p[m] \in {o[m], NoEntry},
             NEW w \in Swaps, w = swap \/ (w.on /\ \A m \in Lookups : Good(w.map[m], m)),
             overlay' = p, swap' = w
      PROVE  Sound'
  <2>1. \A m \in Lookups : Good(p[m], m)
    BY <1>5, <1>7, <1>8
  <2>2. /\ \A m \in Lookups : EntryOK(snap[m], m) /\ EntryOK(w.map[m], m)
        /\ w.on => \A m \in Lookups : Good(w.map[m], m)
    BY <1>1, <1>3, <1>8 DEF Good
  <2>3. Cache(snap, p, w, f, load)
    BY <1>3, <1>6, <2>1, <2>2, CacheMade
  <2> QED BY <1>1, <1>2, <1>8, <2>3, CacheKeeps DEF Sound
<1>9. CASE overlay' = o /\ swap' = swap
  BY <1>3, <1>5, <1>8, <1>9
<1>10. CASE overlay' = Empty /\ swap' = swap
  <2>1. Empty \in [Lookups -> Entry] /\ \A m \in Lookups : Empty[m] = NoEntry
    BY <1>7 DEF Empty
  <2> QED BY <1>3, <1>8, <1>10, <2>1
<1>11. CASE /\ overlay' = [m \in Lookups |-> IF Positive(o[m], m) THEN o[m] ELSE NoEntry]
            /\ swap' = swap
  <2> DEFINE p == [m \in Lookups |-> IF Positive(o[m], m) THEN o[m] ELSE NoEntry]
  <2>1. p \in [Lookups -> Entry] /\ \A m \in Lookups : p[m] \in {o[m], NoEntry}
    BY <1>5, <1>7
  <2> HIDE DEF p
  <2> QED BY <1>3, <1>8, <1>11, <2>1 DEF p
<1>12. CASE /\ swap' = [on |-> TRUE, map |-> Folded(snap, o), mine |-> FALSE]
            /\ overlay' = [m \in Lookups |-> IF Positive(o[m], m) THEN NoEntry ELSE o[m]]
  <2> DEFINE p == [m \in Lookups |-> IF Positive(o[m], m) THEN NoEntry ELSE o[m]]
             w == [on |-> TRUE, map |-> Folded(snap, o), mine |-> FALSE]
  <2>1. p \in [Lookups -> Entry] /\ \A m \in Lookups : p[m] \in {o[m], NoEntry}
    BY <1>5, <1>7
  <2>2. Folded(snap, o) \in [Lookups -> Entry] /\ \A m \in Lookups : Good(Folded(snap, o)[m], m)
    BY <1>3, <1>5 DEF Folded
  <2>3. w \in Swaps /\ w.on /\ \A m \in Lookups : Good(w.map[m], m)
    BY <2>2 DEF Swaps
  <2>4. overlay' = p /\ swap' = w
    BY <1>12
  <2> HIDE DEF p, w
  <2> QED BY <1>8, <2>1, <2>3, <2>4
<1> QED BY <1>9, <1>10, <1>11, <1>12 DEF Insert, o

\* The snapshot that was built under the mutex is as good as the maps it was built from.
LEMMA PublishSound ==
    ASSUME Sound, Publish
    PROVE  Sound'
<1>1. /\ swap.on /\ snap' = swap.map /\ swap' = NoSwap /\ overlay' = overlay /\ fetch' = fetch
      /\ load' = load /\ UNCHANGED <<storeVars, ctl, boot, pollVars, base, returned>>
  BY DEF Publish
<1>2. StoreOK' /\ Grown /\ applied' \subseteq applied /\ StoreOK
  BY <1>1, StoreSame DEF Sound
<1>3. swap.map \in [Lookups -> Entry] /\ \A l \in Lookups : Good(swap.map[l], l)
  BY <1>1, CacheParts DEF Swaps
<1>4. NoSwap \in Swaps /\ ~NoSwap.on /\ \A l \in Lookups : EntryOK(NoSwap.map[l], l)
  <2>1. \A l \in Lookups : EntryOK(Empty[l], l) /\ NoEntry \in Entry
    BY <1>2, NothingFits
  <2>2. Empty \in [Lookups -> Entry]
    BY <2>1 DEF Empty
  <2> QED BY <2>1, <2>2 DEF NoSwap, Swaps
<1>5. Cache(swap.map, overlay, NoSwap, fetch, load)
  BY <1>3, <1>4, CacheParts, CacheMade DEF Good
<1> QED BY <1>1, <1>2, <1>5, CacheKeeps DEF Sound

\* The rehash worker drops a lookup.
LEMMA RehashSound ==
    ASSUME Sound, NEW l \in Lookups, Rehash(l)
    PROVE  Sound'
<1> DEFINE o == [overlay EXCEPT ![l] = NoEntry]
           s == [snap EXCEPT ![l] = NoEntry]
           w == IF snap[l] = NoEntry THEN swap ELSE [on |-> TRUE, map |-> s, mine |-> FALSE]
<1>1. /\ ~swap.on /\ snap' = snap /\ swap' = w /\ overlay' = o /\ fetch' = fetch
      /\ load' = load /\ UNCHANGED <<storeVars, ctl, boot, pollVars, base, returned>>
  BY DEF Rehash
<1>2. StoreOK' /\ Grown /\ applied' \subseteq applied /\ StoreOK
  BY <1>1, StoreSame DEF Sound
<1>3. /\ snap \in [Lookups -> Entry] /\ overlay \in [Lookups -> Entry] /\ swap \in Swaps
      /\ \A m \in Lookups : Good(overlay[m], m) /\ Good(snap[m], m) /\ EntryOK(swap.map[m], m)
  BY <1>1, CacheParts
<1>4. NoEntry \in Entry /\ Good(NoEntry, l)
  BY <1>2, NothingFits DEF Good
<1>5. /\ o \in [Lookups -> Entry] /\ s \in [Lookups -> Entry]
      /\ \A m \in Lookups : Good(o[m], m) /\ Good(s[m], m)
  BY <1>3, <1>4
<1> HIDE DEF o, s
<1>6. /\ w \in Swaps /\ \A m \in Lookups : EntryOK(w.map[m], m)
      /\ w.on => \A m \in Lookups : Good(w.map[m], m)
  <2>1. CASE snap[l] = NoEntry
    BY <1>1, <1>3, <2>1
  <2>2. CASE snap[l] # NoEntry
    <3>1. w = [on |-> TRUE, map |-> s, mine |-> FALSE]
      BY <2>2
    <3> HIDE DEF w
    <3>2. w \in Swaps /\ w.on /\ w.map = s
      BY <1>5, <3>1 DEF Swaps
    <3> QED BY <1>5, <3>2 DEF Good
  <2> QED BY <2>1, <2>2
<1> HIDE DEF w
<1>7. Cache(snap, o, w, fetch, load)
  <2>1. \A m \in Lookups : EntryOK(snap[m], m)
    BY <1>3 DEF Good
  <2> QED BY <1>3, <1>5, <1>6, <2>1, CacheParts, CacheMade
<1> QED BY <1>1, <1>2, <1>7, CacheKeeps DEF Sound

\* A bulk load starts.
LEMMA RefreshReadSound ==
    ASSUME Sound, RefreshRead
    PROVE  Sound'
<1> DEFINE d == [at |-> "read", ver |-> Now, late |-> 0]
<1>1. /\ snap' = snap /\ overlay' = overlay /\ swap' = swap /\ fetch' = fetch /\ load' = d
      /\ UNCHANGED <<storeVars, ctl, boot, pollVars, base, returned>>
  BY DEF RefreshRead
<1>2. StoreOK' /\ Grown /\ applied' \subseteq applied /\ StoreOK
  BY <1>1, StoreSame DEF Sound
<1>3. LoadFits(d)
  BY ReadNow
<1> HIDE DEF d
<1>4. Cache(snap, overlay, swap, fetch, d)
  BY <1>3 DEF Sound, CacheOK, Cache
<1> QED BY <1>1, <1>2, <1>4, CacheKeeps DEF Sound

\* The records of a load are what was read, good for ever.
LEMMA BulkGood ==
    ASSUME Sound, load.at = "read"
    PROVE  Bulk(load) \in [Lookups -> Entry] /\ \A l \in Lookups : Good(Bulk(load)[l], l)
<1>1. LoadFits(load) /\ StoreOK
  BY CacheParts DEF Sound
<1>2. load.ver # 0
  BY <1>1 DEF LoadFits, NoLoad
<1>3. /\ load.ver \in 0..MaxVersion /\ load.late \in 0..MaxVersion /\ load.ver <= Now
      /\ Late(load.ver, load.late)
  BY <1>1, <1>2 DEF LoadFits, LoadRec
<1> DEFINE e == [ver |-> load.ver, ttl |-> Forever, late |-> load.late]
<1>4. e \in Entry
  BY <1>3, Numbers DEF Entry
<1>5. ASSUME NEW l \in Lookups PROVE Good(e, l)
  BY <1>3, <1>4 DEF Good, EntryOK, FreshFor
<1>6. ASSUME NEW l \in Lookups PROVE NoEntry \in Entry /\ Good(NoEntry, l)
  BY <1>1, NothingFits DEF Good
<1> HIDE DEF e
<1>7. \A l \in Lookups : Bulk(load)[l] = IF Found(load.ver, l) THEN e ELSE NoEntry
  BY DEF Bulk, e
<1>8. Bulk(load) \in [Lookups -> Entry]
  BY <1>4, <1>6 DEF Bulk, e
<1> QED BY <1>5, <1>6, <1>7, <1>8

\* Load replaces the snapshot by the rows it has read.
LEMMA LoadStoreSound ==
    ASSUME Sound, LoadStore
    PROVE  Sound'
<1> DEFINE d == [load EXCEPT !.at = "stored"]
<1>1. /\ load.at = "read" /\ snap' = Bulk(load) /\ overlay' = overlay /\ swap' = swap
      /\ fetch' = fetch /\ load' = d /\ UNCHANGED <<storeVars, ctl, boot, pollVars, base, returned>>
  BY DEF LoadStore
<1>2. StoreOK' /\ Grown /\ applied' \subseteq applied /\ StoreOK
  BY <1>1, StoreSame DEF Sound
<1>3. LoadFits(load) /\ load.ver # 0
  BY <1>1, CacheParts DEF LoadFits, NoLoad
<1>4. d \in LoadRec /\ d.ver = load.ver /\ d.late = load.late
  BY <1>3 DEF LoadFits, LoadRec
<1> HIDE DEF d
<1>5. LoadFits(d)
  BY <1>3, <1>4 DEF LoadFits
<1>6. Bulk(load) \in [Lookups -> Entry] /\ \A l \in Lookups : Good(Bulk(load)[l], l)
  BY <1>1, BulkGood
<1>7. \A l \in Lookups : EntryOK(Bulk(load)[l], l)
  BY <1>6 DEF Good
<1>8. Cache(Bulk(load), overlay, swap, fetch, d)
  BY <1>5, <1>6, <1>7, CacheParts, CacheMade
<1> QED BY <1>1, <1>2, <1>8, CacheKeeps DEF Sound

\* An empty cache.
LEMMA EmptyGood ==
    ASSUME StoreOK
    PROVE  /\ Empty \in [Lookups -> Entry] /\ \A l \in Lookups : Good(Empty[l], l)
           /\ NoSwap \in Swaps /\ ~NoSwap.on /\ LoadFits(NoLoad)
           /\ \A l \in Lookups : EntryOK(NoSwap.map[l], l)
           /\ [l \in Lookups |-> NoFetch] \in [Lookups -> FetchRec] /\ FetchOK(NoFetch)
<1>1. Now \in Nat
  BY Numbers DEF StoreOK, Versions
<1>2. NoEntry \in Entry /\ NoFetch \in FetchRec /\ NoLoad \in LoadRec
  BY Numbers DEF NoEntry, Entry, NoFetch, FetchRec, NoLoad, LoadRec
<1>3. FetchOK(NoFetch) /\ LoadFits(NoLoad)
  BY <1>1, <1>2 DEF FetchOK, NoFetch, LoadFits, NoLoad
<1>4. Empty \in [Lookups -> Entry]
  BY <1>2 DEF Empty
<1>5. NoSwap \in Swaps /\ ~NoSwap.on /\ NoSwap.map = Empty
  BY <1>4 DEF NoSwap, Swaps
<1>6. \A l \in Lookups : EntryOK(Empty[l], l) /\ FreshFor(Empty[l], l)
  BY NothingFits
<1> QED BY <1>2, <1>3, <1>4, <1>5, <1>6 DEF Good

\* Load drops the overlay.
LEMMA LoadDropSound ==
    ASSUME Sound, LoadDrop
    PROVE  Sound'
<1>1. /\ ~swap.on /\ snap' = snap /\ overlay' = Empty /\ swap' = swap /\ fetch' = fetch
      /\ load' = NoLoad
      /\ rows' = rows /\ since' = since /\ told' = told /\ drawn' = drawn /\ bus' = bus
      /\ lastSeq' = lastSeq /\ ctl' = ctl /\ seq' = seq /\ msgs' = msgs
      /\ applied' = applied /\ base' = base /\ returned' = returned
      /\ boot' = IF boot.at = "load" THEN [boot EXCEPT !.at = "seq"] ELSE boot
  BY DEF LoadDrop, storeVars, pollVars
<1>2. /\ StoreOK /\ seq \in Nat /\ boot \in [at : {"head", "clear", "load", "seq", "up"}, head : Nat]
      /\ base \in 0..Now /\ returned \in 0..Now
  BY DEF Sound, StoreOK
<1>3. boot' \in [at : {"head", "clear", "load", "seq", "up"}, head : Nat]
  BY <1>1, <1>2
<1>4. StoreOK' /\ Grown
  BY <1>1, <1>2, <1>3, StoreKept, StoreStays
<1>5. Cache(snap, Empty, swap, fetch, NoLoad)
  BY <1>1, <1>2, EmptyGood, CacheParts, CacheMade
<1>6. applied' \subseteq applied
  BY <1>1
<1> QED BY <1>1, <1>2, <1>4, <1>5, <1>6, CacheKeeps DEF Sound

\* The steps of a start that leave the cache alone.
LEMMA RejoinStepSound ==
    ASSUME Sound, NEW b \in [at : {"head", "clear", "load", "seq", "up"}, head : Nat],
           boot' = b, seq' \in Nat, UNCHANGED <<storeVars, cacheVars, ctl, msgs, applied, base, returned>>
    PROVE  Sound'
<1>1. /\ rows' = rows /\ since' = since /\ told' = told /\ drawn' = drawn /\ bus' = bus
      /\ lastSeq' = lastSeq /\ ctl' = ctl /\ msgs' = msgs
      /\ applied' = applied /\ base' = base /\ returned' = returned
      /\ snap' = snap /\ overlay' = overlay /\ swap' = swap /\ fetch' = fetch /\ load' = load
  BY DEF storeVars, cacheVars
<1>2. StoreOK /\ base \in 0..Now /\ returned \in 0..Now /\ Cache(snap, overlay, swap, fetch, load)
  BY DEF Sound, StoreOK, CacheOK
<1>3. StoreOK' /\ Grown /\ applied' \subseteq applied
  BY <1>1, <1>2, StoreKept, StoreStays
<1> QED BY <1>1, <1>2, <1>3, CacheKeeps DEF Sound

\* Rejoin clears the cache and reads the rows.
LEMMA RejoinReadSound ==
    ASSUME Sound, RejoinRead
    PROVE  Sound'
<1> DEFINE d == [at |-> "read", ver |-> Now, late |-> 0]
<1>1. /\ ~swap.on /\ snap' = Empty /\ overlay' = Empty /\ swap' = swap /\ fetch' = fetch
      /\ load' = d
      /\ rows' = rows /\ since' = since /\ told' = told /\ drawn' = drawn /\ bus' = bus
      /\ lastSeq' = lastSeq /\ ctl' = ctl /\ seq' = seq /\ msgs' = msgs
      /\ applied' = applied /\ base' = Now /\ returned' = returned
      /\ boot' = [boot EXCEPT !.at = "load"]
  BY DEF RejoinRead, storeVars, pollVars
<1>2. /\ StoreOK /\ seq \in Nat /\ boot \in [at : {"head", "clear", "load", "seq", "up"}, head : Nat]
      /\ returned \in 0..Now /\ Now \in 0..Now
  BY Numbers DEF Sound, StoreOK, Versions
<1>3. boot' \in [at : {"head", "clear", "load", "seq", "up"}, head : Nat]
  BY <1>1, <1>2
<1>4. StoreOK' /\ Grown
  BY <1>1, <1>2, <1>3, StoreKept, StoreStays
<1>5. LoadFits(d)
  BY ReadNow
<1> HIDE DEF d
<1>6. \A l \in Lookups : EntryOK(Empty[l], l)
  BY <1>2, EmptyGood DEF Good
<1>7. Cache(Empty, Empty, swap, fetch, d)
  BY <1>1, <1>2, <1>5, <1>6, EmptyGood, CacheParts, CacheMade
<1>8. applied' \subseteq applied
  BY <1>1
<1> QED BY <1>1, <1>2, <1>4, <1>7, <1>8, CacheKeeps DEF Sound

\* A new process starts with nothing.
LEMMA CrashSound ==
    ASSUME Sound, Crash
    PROVE  Sound'
<1> DEFINE f == [l \in Lookups |-> NoFetch]
<1>1. /\ snap' = Empty /\ overlay' = Empty /\ swap' = NoSwap /\ fetch' = f /\ load' = NoLoad
      /\ rows' = rows /\ since' = since /\ told' \subseteq told /\ drawn' \subseteq drawn
      /\ bus' = bus /\ lastSeq' = lastSeq /\ ctl' = NoCtl /\ seq' = 0 /\ msgs' = {}
      /\ applied' = {} /\ base' = 0 /\ returned' = returned
      /\ boot' = [at |-> "head", head |-> 0]
  BY DEF Crash
<1>2. StoreOK /\ returned \in 0..Now /\ 0 \in 0..Now
  BY Numbers DEF Sound, StoreOK, Versions
<1>3. boot' \in [at : {"head", "clear", "load", "seq", "up"}, head : Nat]
  BY <1>1
<1>4. StoreOK' /\ Grown
  BY <1>1, <1>2, <1>3, StoreKept, StoreStays
<1>5. f \in [Lookups -> FetchRec] /\ \A l \in Lookups : FetchOK(f[l])
  BY <1>2, EmptyGood
<1> HIDE DEF f
<1>6. \A l \in Lookups : EntryOK(Empty[l], l)
  BY <1>2, EmptyGood DEF Good
<1>7. Cache(Empty, Empty, NoSwap, f, NoLoad)
  BY <1>2, <1>5, <1>6, EmptyGood, CacheMade
<1>8. applied' \subseteq applied
  BY <1>1
<1> QED BY <1>1, <1>2, <1>4, <1>7, <1>8, CacheKeeps DEF Sound

-----------------------------------------------------------------------------
(* A message is applied.                                                     *)

\* What is left after the drop is no entry of the key.
LEMMA DroppedClean ==
    ASSUME NEW map \in [Lookups -> Entry], NEW lookups, NEW l \in Lookups, NEW e,
           e = Dropped(map, lookups)[l], rows' = rows, NoEntry \in Entry
    PROVE  e \in {NoEntry, map[l]} /\ e \in Entry /\ FreshFor(e, l)'
<1>1. e = IF l \in lookups \/ Positive(map[l], l) THEN NoEntry ELSE map[l]
  BY DEF Dropped
<1>2. ~Positive(e, l)
  BY <1>1 DEF Positive, NoEntry
<1>3. ~Positive(e, l)'
  BY <1>2 DEF Positive, Found
<1> QED BY <1>1, <1>3 DEF FreshFor

\* A read in flight that the message overtakes is marked.
LEMMA OvertakenLate ==
    ASSUME NEW v \in Nat, NEW ver \in Nat, NEW late \in Nat, Late(ver, late), NEW q,
           q = IF ver < v /\ late < v THEN v ELSE late,
           applied \subseteq Nat, applied' = applied \cup {v}
    PROVE  Late(ver, q)'
<1>1. ASSUME NEW u \in applied', ver < u PROVE u <= q
  <2>1. CASE u = v
    BY <1>1, <2>1
  <2>2. CASE u \in applied
    <3>1. u <= late
      BY <1>1, <2>2 DEF Late
    <3> QED BY <2>2, <3>1
  <2> QED BY <1>1, <2>1, <2>2
<1> QED BY <1>1 DEF Late

\* A lookup in flight when a message is applied is marked as late.
LEMMA FetchOvertaken ==
    ASSUME StoreOK, NEW r, FetchOK(r), NEW v \in 1..Now, NEW q, q = Overtaken(r, v),
           rows' = rows, since' = since, applied' = applied \cup {v}
    PROVE  q \in FetchRec /\ FetchOK(q)'
<1>1. /\ r \in FetchRec /\ r.ver <= Now /\ Now \in Nat /\ Now' = Now /\ Now <= MaxVersion
      /\ applied \subseteq Nat
  BY Numbers DEF FetchOK, StoreOK, Versions, Now
<1>2. r.ver \in Nat /\ r.late \in 0..MaxVersion /\ r.late \in Nat /\ v \in 0..MaxVersion
  BY <1>1, Numbers DEF FetchRec
<1>3. q = [r EXCEPT !.late = IF r.ver # 0 /\ r.ver < v /\ r.late < v THEN v ELSE r.late]
  BY DEF Overtaken
<1>4. /\ q \in FetchRec /\ q.ver = r.ver /\ q.left = r.left
      /\ q.late = IF r.ver # 0 /\ r.ver < v /\ r.late < v THEN v ELSE r.late
  BY <1>1, <1>2, <1>3 DEF FetchRec
<1>5. CASE r.ver = 0
  <2>1. q = r
    BY <1>1, <1>3, <1>5 DEF FetchRec
  <2> QED BY <1>1, <1>4, <1>5, <2>1 DEF FetchOK
<1>6. CASE r.ver # 0
  <2>1. Late(r.ver, r.late) /\ q.late = IF r.ver < v /\ r.late < v THEN v ELSE r.late
    BY <1>4, <1>6 DEF FetchOK
  <2>2. Late(r.ver, q.late)'
    BY <1>1, <1>2, <2>1, OvertakenLate
  <2> QED BY <1>1, <1>4, <1>6, <2>2 DEF FetchOK
<1> QED BY <1>5, <1>6

\* So is a bulk load.
LEMMA LoadOvertaken ==
    ASSUME StoreOK, NEW r, LoadFits(r), NEW v \in 1..Now, NEW q, q = Overtaken(r, v),
           rows' = rows, applied' = applied \cup {v}
    PROVE  LoadFits(q)'
<1>1. /\ r \in LoadRec /\ r.ver <= Now /\ Now \in Nat /\ Now' = Now /\ Now <= MaxVersion
      /\ applied \subseteq Nat
  BY Numbers DEF LoadFits, StoreOK, Versions, Now
<1>2. r.ver \in Nat /\ r.late \in 0..MaxVersion /\ r.late \in Nat /\ v \in 0..MaxVersion
  BY <1>1, Numbers DEF LoadRec
<1>3. q = [r EXCEPT !.late = IF r.ver # 0 /\ r.ver < v /\ r.late < v THEN v ELSE r.late]
  BY DEF Overtaken
<1>4. /\ q \in LoadRec /\ q.ver = r.ver
      /\ q.late = IF r.ver # 0 /\ r.ver < v /\ r.late < v THEN v ELSE r.late
  BY <1>1, <1>2, <1>3 DEF LoadRec
<1>5. CASE r.ver = 0
  <2>1. q = r
    BY <1>1, <1>3, <1>5 DEF LoadRec
  <2> QED BY <1>1, <1>4, <1>5, <2>1 DEF LoadFits
<1>6. CASE r.ver # 0
  <2>1. Late(r.ver, r.late) /\ q.late = IF r.ver < v /\ r.late < v THEN v ELSE r.late
    BY <1>4, <1>6 DEF LoadFits
  <2>2. Late(r.ver, q.late)'
    BY <1>1, <1>2, <2>1, OvertakenLate
  <2> QED BY <1>1, <1>4, <1>6, <2>2 DEF LoadFits
<1> QED BY <1>5, <1>6

\* Apply leaves no map with an entry of the key.
LEMMA ApplyKeeps ==
    ASSUME Sound, NEW v \in 1..Now, NEW lookups, NEW mine \in BOOLEAN, Apply(v, lookups, mine),
           rows' = rows, since' = since
    PROVE  CacheOK'
<1>1. /\ ~swap.on /\ overlay' = Dropped(overlay, lookups) /\ snap' = snap
      /\ swap' = IF Dropped(snap, lookups) = snap THEN swap
                 ELSE [on |-> TRUE, map |-> Dropped(snap, lookups), mine |-> mine]
      /\ fetch' = [l \in Lookups |-> Overtaken(fetch[l], v)]
      /\ load' = Overtaken(load, v) /\ applied' = applied \cup {v}
  BY DEF Apply
<1>2. StoreOK /\ Grown
  BY StoreStays DEF Sound
<1>3. /\ snap \in [Lookups -> Entry] /\ overlay \in [Lookups -> Entry] /\ swap \in Swaps
      /\ fetch \in [Lookups -> FetchRec] /\ LoadFits(load)
      /\ \A l \in Lookups : /\ EntryOK(overlay[l], l) /\ EntryOK(snap[l], l)
                            /\ EntryOK(swap.map[l], l) /\ FetchOK(fetch[l])
  BY CacheParts DEF Good
<1>4. NoEntry \in Entry
  BY Numbers DEF NoEntry, Entry
<1>5. ASSUME NEW map \in [Lookups -> Entry], \A l \in Lookups : EntryOK(map[l], l),
             NEW d, d = Dropped(map, lookups), NEW l \in Lookups
      PROVE  d[l] \in Entry /\ EntryOK(d[l], l)' /\ FreshFor(d[l], l)'
  <2>1. d[l] \in {NoEntry, map[l]} /\ d[l] \in Entry /\ FreshFor(d[l], l)'
    BY <1>4, <1>5, DroppedClean
  <2>2. EntryOK(NoEntry, l) /\ EntryOK(map[l], l)
    BY <1>2, <1>5, NothingFits
  <2>3. EntryOK(d[l], l)
    BY <2>1, <2>2
  <2> QED BY <1>2, <2>1, <2>3, EntryGrown
<1>6. PICK o : o = Dropped(overlay, lookups)
  OBVIOUS
<1>7. PICK s : s = Dropped(snap, lookups)
  OBVIOUS
<1>8. \A l \in Lookups : o[l] \in Entry /\ EntryOK(o[l], l)' /\ FreshFor(o[l], l)'
  BY <1>3, <1>5, <1>6
<1>9. \A l \in Lookups : s[l] \in Entry /\ EntryOK(s[l], l)' /\ FreshFor(s[l], l)'
  BY <1>3, <1>5, <1>7
<1>10. o \in [Lookups -> Entry] /\ s \in [Lookups -> Entry]
  BY <1>6, <1>7, <1>8, <1>9 DEF Dropped
<1>11. PICK z : z = snap
  OBVIOUS
<1>12. PICK w : w = IF s = z THEN swap ELSE [on |-> TRUE, map |-> s, mine |-> mine]
  OBVIOUS
<1>13. PICK f : f = [l \in Lookups |-> Overtaken(fetch[l], v)]
  OBVIOUS
<1>14. PICK d : d = Overtaken(load, v)
  OBVIOUS
<1>15. ASSUME NEW l \in Lookups, NEW e, EntryOK(e, l) PROVE EntryOK(e, l)'
  BY <1>2, <1>15, EntryGrown
<1>16. z \in [Lookups -> Entry] /\ \A l \in Lookups : EntryOK(z[l], l)'
  BY <1>3, <1>11, <1>15
<1>17. /\ w \in Swaps /\ \A l \in Lookups : EntryOK(w.map[l], l)'
       /\ \A l \in Lookups : IF w.on THEN FreshFor(w.map[l], l)' ELSE FreshFor(z[l], l)'
  <2>1. CASE s = z
    <3>1. w = swap /\ ~w.on
      BY <1>1, <1>12, <2>1
    <3>2. \A l \in Lookups : EntryOK(w.map[l], l)
      BY <1>3, <3>1
    <3> QED BY <1>3, <1>9, <1>15, <2>1, <3>1, <3>2
  <2>2. CASE s # z
    <3>1. w = [on |-> TRUE, map |-> s, mine |-> mine]
      BY <1>12, <2>2
    <3>2. w \in Swaps /\ w.on /\ w.map = s
      BY <1>10, <3>1 DEF Swaps
    <3> QED BY <1>9, <3>2
  <2> QED BY <2>1, <2>2
<1>18. f \in [Lookups -> FetchRec] /\ \A l \in Lookups : FetchOK(f[l])'
  <2>1. ASSUME NEW l \in Lookups PROVE f[l] \in FetchRec /\ FetchOK(f[l])'
    <3>1. f[l] = Overtaken(fetch[l], v) /\ FetchOK(fetch[l]) /\ applied' = applied \cup {v}
      BY <1>1, <1>3, <1>13
    <3> QED BY <1>2, <3>1, FetchOvertaken
  <2> QED BY <1>13, <2>1
<1>19. LoadFits(d)'
  BY <1>1, <1>2, <1>3, <1>14, LoadOvertaken
<1>20. \A l \in Lookups : LookupOK(z, o, w, f, l)'
  BY <1>8, <1>16, <1>17, <1>18 DEF LookupOK
<1>21. Cache(z, o, w, f, d)'
  BY <1>10, <1>16, <1>17, <1>18, <1>19, <1>20 DEF Cache
<1>22. snap' = z /\ overlay' = o /\ swap' = w /\ fetch' = f /\ load' = d
  BY <1>1, <1>6, <1>7, <1>11, <1>12, <1>13, <1>14
<1> QED BY <1>21, <1>22 DEF CacheOK

\* Poll: the message is one of those read.
LEMMA PollApplySound ==
    ASSUME Sound, NEW m \in msgs, PollApply(m)
    PROVE  Sound'
<1>1. /\ Apply(m.ver, m.lookups, FALSE) /\ applied' = applied \cup {m.ver}
      /\ rows' = rows /\ since' = since /\ told' = told /\ drawn' = drawn /\ bus' = bus
      /\ lastSeq' = lastSeq /\ ctl' = ctl /\ boot' = boot /\ base' = base /\ returned' = returned
      /\ seq' = Advanced(m.seq) /\ msgs' = msgs \ {m}
  BY DEF PollApply, Apply, storeVars
<1>2. StoreOK /\ m \in Seen /\ m.ver <= Now
  BY DEF Sound, StoreOK
<1>3. m.ver \in 1..Now /\ m.seq \in Nat
  BY <1>2, Numbers DEF Seen, Versions, StoreOK
<1>4. CacheOK'
  BY <1>1, <1>3, ApplyKeeps
<1>5. seq' \in Nat /\ Now' = Now
  BY <1>1, <1>2, <1>3 DEF Advanced, StoreOK, Now
<1>6. StoreOK'
  BY <1>1, <1>2, <1>3, <1>5 DEF StoreOK
<1> QED BY <1>4, <1>6 DEF Sound

\* A control of this node drops the key before it publishes.
LEMMA AnnounceSound ==
    ASSUME Sound, Announce
    PROVE  Sound'
<1> DEFINE t == [ver |-> ctl.ver, lookups |-> ctl.lookups, mine |-> TRUE]
<1>1. /\ ctl # NoCtl /\ Apply(ctl.ver, ctl.lookups, TRUE) /\ applied' = applied \cup {ctl.ver}
      /\ rows' = rows /\ since' = since /\ told' = told \cup {t} /\ drawn' = drawn /\ bus' = bus
      /\ lastSeq' = lastSeq /\ ctl' = NoCtl /\ boot' = boot /\ base' = base /\ returned' = returned
      /\ seq' = seq /\ msgs' = msgs
  BY DEF Announce, Apply
<1>2. StoreOK
  BY DEF Sound
<1>3. ctl.ver \in 1..Now /\ ctl.ver \in Versions /\ ctl.lookups \in SUBSET Lookups
  BY <1>1, <1>2, Numbers DEF StoreOK, Versions
<1>4. CacheOK'
  BY <1>1, <1>3, ApplyKeeps
<1>5. t \in Told /\ t.ver <= Now /\ Now' = Now
  BY <1>1, <1>2, <1>3 DEF Told, StoreOK, Now, Versions
<1> HIDE DEF t
<1>6. NoCtl \in [ver : 0..MaxVersion, lookups : SUBSET Lookups] /\ NoCtl.ver = 0 /\ Now \in Nat
  BY <1>2, Numbers DEF NoCtl, StoreOK, Versions
<1>7. \A x \in told' \cup drawn' \cup bus' \cup msgs' : x.ver <= Now
  BY <1>1, <1>2, <1>5 DEF StoreOK
<1>8. applied' \subseteq 1..Now /\ told' \subseteq Told
  BY <1>1, <1>2, <1>3, <1>5 DEF StoreOK
<1>9. ctl' \in [ver : 0..MaxVersion, lookups : SUBSET Lookups] /\ ctl'.ver <= Now
  BY <1>1, <1>6
<1>10. StoreOK'
  BY <1>1, <1>2, <1>5, <1>7, <1>8, <1>9 DEF StoreOK
<1> QED BY <1>4, <1>10 DEF Sound

-----------------------------------------------------------------------------
(* The store: a control writes, a message is numbered, published, lost.      *)

\* A control of this node writes a version.
LEMMA LocalWriteSound ==
    ASSUME Sound, NEW kind \in Controls, LocalWrite(kind)
    PROVE  Sound'
<1> DEFINE c == [ver |-> Now + 1, lookups |-> Named(kind)]
<1>1. /\ Write(kind) /\ ctl' = c /\ told' = told /\ boot' = boot /\ base' = base
      /\ returned' = returned /\ seq' = seq /\ msgs' = msgs /\ applied' = applied
      /\ snap' = snap /\ overlay' = overlay /\ swap' = swap /\ fetch' = fetch /\ load' = load
  BY DEF LocalWrite, cacheVars, pollVars
<1>2. /\ rows' \in Seq(RowRec) /\ Now' = Now + 1 /\ Now' \in Versions
      /\ \A v \in 1..Now : rows'[v] = rows[v]
      /\ since' = since /\ drawn' = drawn /\ bus' = bus /\ lastSeq' = lastSeq
  BY <1>1, Written DEF Sound
<1>3. StoreOK /\ Grown
  BY <1>2 DEF Sound, Grown
<1>4. Named(kind) \in SUBSET Lookups /\ Now \in Nat
  BY <1>3, NamedType, Numbers DEF StoreOK, Versions
<1>5. /\ c \in [ver : 0..MaxVersion, lookups : SUBSET Lookups] /\ c.ver = Now' /\ c.ver # 0
  BY <1>2, <1>4, Numbers DEF Versions
<1> HIDE DEF c
<1>6. ctl' \in [ver : 0..MaxVersion, lookups : SUBSET Lookups] /\ ctl'.ver <= Now' /\ ctl'.ver # 0
  BY <1>1, <1>2, <1>4, <1>5
<1>7. \A x \in told' \cup drawn' \cup bus' \cup msgs' : x.ver \in Versions /\ x.ver <= Now
  BY <1>1, <1>2, <1>3 DEF StoreOK, Told, Drawn, Seen
<1>8. \A x \in told' \cup drawn' \cup bus' \cup msgs' : x.ver <= Now'
  BY <1>2, <1>4, <1>7, Numbers DEF Versions
<1>9. \A v \in Versions : v > Now' => since'[v] = 0
  <2> SUFFICES ASSUME NEW v \in Versions, v > Now' PROVE since'[v] = 0
    OBVIOUS
  <2>1. v > Now
    BY <1>2, <1>4, Numbers DEF Versions
  <2> QED BY <1>2, <1>3, <2>1 DEF StoreOK
<1>10. applied' \subseteq 1..Now' /\ base' \in 0..Now' /\ returned' \in 0..Now'
  BY <1>1, <1>2, <1>3, <1>4 DEF StoreOK
<1>11. StoreOK'
  BY <1>1, <1>2, <1>3, <1>6, <1>8, <1>9, <1>10 DEF StoreOK
<1>12. Cache(snap, overlay, swap, fetch, load) /\ applied' \subseteq applied
  BY <1>1 DEF Sound, CacheOK
<1> QED BY <1>1, <1>3, <1>11, <1>12, CacheKeeps DEF Sound

\* A control of another node writes a version and announces it.
LEMMA PeerWriteSound ==
    ASSUME Sound, NEW kind \in Controls, PeerWrite(kind)
    PROVE  Sound'
<1> DEFINE t == [ver |-> Now + 1, lookups |-> Named(kind), mine |-> FALSE]
<1>1. /\ Write(kind) /\ ctl' = ctl /\ told' = told \cup {t} /\ boot' = boot /\ base' = base
      /\ returned' = returned /\ seq' = seq /\ msgs' = msgs /\ applied' = applied
      /\ snap' = snap /\ overlay' = overlay /\ swap' = swap /\ fetch' = fetch /\ load' = load
  BY DEF PeerWrite, cacheVars, pollVars
<1>2. /\ rows' \in Seq(RowRec) /\ Now' = Now + 1 /\ Now' \in Versions
      /\ \A v \in 1..Now : rows'[v] = rows[v]
      /\ since' = since /\ drawn' = drawn /\ bus' = bus /\ lastSeq' = lastSeq
  BY <1>1, Written DEF Sound
<1>3. StoreOK /\ Grown
  BY <1>2 DEF Sound, Grown
<1>4. Named(kind) \in SUBSET Lookups /\ Now \in Nat
  BY <1>3, NamedType, Numbers DEF StoreOK, Versions
<1>5. t \in Told /\ t.ver = Now'
  BY <1>2, <1>4 DEF Told
<1> HIDE DEF t
<1>6. /\ ctl' \in [ver : 0..MaxVersion, lookups : SUBSET Lookups] /\ ctl'.ver <= Now'
      /\ ctl'.ver = 0 => ctl' = NoCtl
  BY <1>1, <1>2, <1>3, <1>4, Numbers DEF StoreOK
<1>7. told' \subseteq Told
  BY <1>1, <1>3, <1>5 DEF StoreOK
<1>8. \A x \in told' \cup drawn' \cup bus' \cup msgs' : x.ver <= Now'
  <2>1. \A x \in told \cup drawn \cup bus \cup msgs : x.ver \in Versions /\ x.ver <= Now
    BY <1>3 DEF StoreOK, Told, Drawn, Seen
  <2>2. \A x \in told \cup drawn \cup bus \cup msgs : x.ver <= Now'
    BY <1>2, <1>4, <2>1, Numbers DEF Versions
  <2>3. t.ver <= Now'
    BY <1>2, <1>4, <1>5
  <2> QED BY <1>1, <1>2, <2>2, <2>3
<1>9. \A v \in Versions : v > Now' => since'[v] = 0
  <2> SUFFICES ASSUME NEW v \in Versions, v > Now' PROVE since'[v] = 0
    OBVIOUS
  <2>1. v > Now
    BY <1>2, <1>4, Numbers DEF Versions
  <2> QED BY <1>2, <1>3, <2>1 DEF StoreOK
<1>10. applied' \subseteq 1..Now' /\ base' \in 0..Now' /\ returned' \in 0..Now'
  BY <1>1, <1>2, <1>3, <1>4 DEF StoreOK
<1>11. StoreOK'
  BY <1>1, <1>2, <1>3, <1>6, <1>7, <1>8, <1>9, <1>10 DEF StoreOK
<1>12. Cache(snap, overlay, swap, fetch, load) /\ applied' \subseteq applied
  BY <1>1 DEF Sound, CacheOK
<1> QED BY <1>1, <1>3, <1>11, <1>12, CacheKeeps DEF Sound

\* The messages change, the cache and the rows do not.
LEMMA MessagesSound ==
    ASSUME Sound, rows' = rows, since' = since, UNCHANGED cacheVars, applied' = applied,
           told' \subseteq Told, drawn' \subseteq Drawn, bus' \subseteq Seen, msgs' \subseteq Seen,
           \A x \in told' \cup drawn' \cup bus' \cup msgs' : x.ver <= Now,
           \A x \in drawn' \cup bus' : x.seq <= lastSeq',
           ctl' = ctl, boot' = boot, base' = base,
           seq' \in Nat, lastSeq' \in Nat, returned' \in 0..Now
    PROVE  Sound'
<1>1. StoreOK /\ Cache(snap, overlay, swap, fetch, load) /\ applied' \subseteq applied
  BY DEF Sound, CacheOK
<1>2. snap' = snap /\ overlay' = overlay /\ swap' = swap /\ fetch' = fetch /\ load' = load
  BY DEF cacheVars
<1>3. Now' = Now
  BY DEF Now
<1>4. StoreOK'
  BY <1>1, <1>3 DEF StoreOK
<1>5. Grown
  BY <1>1, StoreStays
<1> QED BY <1>1, <1>2, <1>4, <1>5, CacheKeeps DEF Sound

\* What the message in t's or m's place carries.
LEMMA AppendSound ==
    ASSUME Sound, NEW t \in told, AppendMessage(t)
    PROVE  Sound'
<1> DEFINE m == [seq |-> lastSeq + 1, ver |-> t.ver, lookups |-> t.lookups]
<1>1. /\ t \in Told /\ t.ver <= Now /\ lastSeq \in Nat /\ seq \in Nat /\ returned \in 0..Now
      /\ told \subseteq Told /\ drawn \subseteq Drawn /\ bus \subseteq Seen /\ msgs \subseteq Seen
      /\ \A x \in told \cup drawn \cup bus \cup msgs : x.ver <= Now
      /\ \A x \in drawn \cup bus : x.seq \in Nat /\ x.seq <= lastSeq
  BY DEF Sound, StoreOK, Drawn, Seen
<1>2. t.ver \in Versions /\ t.lookups \in SUBSET Lookups /\ t.ver \in 0..Now
  BY <1>1, Numbers DEF Told, Versions
<1>3. /\ told' = told \ {t} /\ drawn' = drawn /\ bus' = bus \cup {m} /\ msgs' = msgs
      /\ lastSeq' = lastSeq + 1 /\ seq' \in {seq, lastSeq + 1} /\ returned' \in {returned, t.ver}
      /\ rows' = rows /\ since' = since /\ UNCHANGED cacheVars /\ applied' = applied
      /\ ctl' = ctl /\ boot' = boot /\ base' = base
  BY DEF AppendMessage, Visible, Numbered, Advanced
<1>4. m \in Seen /\ m.ver <= Now /\ m.seq <= lastSeq'
  BY <1>1, <1>2, <1>3 DEF Seen
<1> HIDE DEF m
<1>5. told' \subseteq Told /\ drawn' \subseteq Drawn /\ bus' \subseteq Seen /\ msgs' \subseteq Seen
  BY <1>1, <1>3, <1>4
<1>6. \A x \in told' \cup drawn' \cup bus' \cup msgs' : x.ver <= Now
  BY <1>1, <1>3, <1>4
<1>7. seq' \in Nat /\ lastSeq' \in Nat /\ returned' \in 0..Now
  BY <1>1, <1>2, <1>3
<1>8. \A x \in drawn' \cup bus' : x.seq <= lastSeq'
  BY <1>1, <1>3, <1>4
<1> QED BY <1>3, <1>5, <1>6, <1>7, <1>8, MessagesSound

\* A message takes its number.
LEMMA DrawSound ==
    ASSUME Sound, NEW t \in told, Draw(t)
    PROVE  Sound'
<1> DEFINE m == Numbered(t)
<1>1. /\ t \in Told /\ t.ver <= Now /\ lastSeq \in Nat /\ seq \in Nat /\ returned \in 0..Now
      /\ told \subseteq Told /\ drawn \subseteq Drawn /\ bus \subseteq Seen /\ msgs \subseteq Seen
      /\ \A x \in told \cup drawn \cup bus \cup msgs : x.ver <= Now
      /\ \A x \in drawn \cup bus : x.seq \in Nat /\ x.seq <= lastSeq
  BY DEF Sound, StoreOK, Drawn, Seen
<1>2. /\ told' = told \ {t} /\ drawn' = drawn \cup {m} /\ bus' = bus /\ msgs' = msgs
      /\ lastSeq' = lastSeq + 1 /\ seq' = seq /\ returned' = returned
      /\ rows' = rows /\ since' = since /\ UNCHANGED cacheVars /\ applied' = applied
      /\ ctl' = ctl /\ boot' = boot /\ base' = base
  BY DEF Draw, pollVars
<1>3. m \in Drawn /\ m.ver <= Now /\ m.seq <= lastSeq'
  BY <1>1, <1>2 DEF Numbered, Told, Drawn
<1> HIDE DEF m
<1>4. told' \subseteq Told /\ drawn' \subseteq Drawn /\ bus' \subseteq Seen /\ msgs' \subseteq Seen
  BY <1>1, <1>2, <1>3
<1>5. \A x \in told' \cup drawn' \cup bus' \cup msgs' : x.ver <= Now
  BY <1>1, <1>2, <1>3
<1>6. seq' \in Nat /\ lastSeq' \in Nat /\ returned' \in 0..Now
  BY <1>1, <1>2
<1>7. \A x \in drawn' \cup bus' : x.seq <= lastSeq'
  BY <1>1, <1>2, <1>3
<1> QED BY <1>2, <1>4, <1>5, <1>6, <1>7, MessagesSound

\* A numbered message becomes visible.
LEMMA CommitSound ==
    ASSUME Sound, NEW t \in drawn, Commit(t)
    PROVE  Sound'
<1> DEFINE m == [seq |-> t.seq, ver |-> t.ver, lookups |-> t.lookups]
<1>1. /\ t \in Drawn /\ t.ver <= Now /\ lastSeq \in Nat /\ seq \in Nat /\ returned \in 0..Now
      /\ told \subseteq Told /\ drawn \subseteq Drawn /\ bus \subseteq Seen /\ msgs \subseteq Seen
      /\ \A x \in told \cup drawn \cup bus \cup msgs : x.ver <= Now
      /\ \A x \in drawn \cup bus : x.seq \in Nat /\ x.seq <= lastSeq
  BY DEF Sound, StoreOK, Drawn, Seen
<1>2. t.ver \in Versions /\ t.lookups \in SUBSET Lookups /\ t.ver \in 0..Now /\ t.seq \in Nat
  BY <1>1, Numbers DEF Drawn, Versions
<1>3. /\ told' = told /\ drawn' = drawn \ {t} /\ bus' = bus \cup {m} /\ msgs' = msgs
      /\ lastSeq' = lastSeq /\ seq' \in {seq, t.seq} /\ returned' \in {returned, t.ver}
      /\ rows' = rows /\ since' = since /\ UNCHANGED cacheVars /\ applied' = applied
      /\ ctl' = ctl /\ boot' = boot /\ base' = base
  BY DEF Commit, Visible, Advanced
<1>4. m \in Seen /\ m.ver <= Now /\ m.seq <= lastSeq'
  BY <1>1, <1>2, <1>3 DEF Seen
<1> HIDE DEF m
<1>5. told' \subseteq Told /\ drawn' \subseteq Drawn /\ bus' \subseteq Seen /\ msgs' \subseteq Seen
  BY <1>1, <1>3, <1>4
<1>6. \A x \in told' \cup drawn' \cup bus' \cup msgs' : x.ver <= Now
  BY <1>1, <1>3, <1>4
<1>7. seq' \in Nat /\ lastSeq' \in Nat /\ returned' \in 0..Now
  BY <1>1, <1>2, <1>3
<1>8. \A x \in drawn' \cup bus' : x.seq <= lastSeq'
  BY <1>1, <1>3, <1>4
<1> QED BY <1>3, <1>5, <1>6, <1>7, <1>8, MessagesSound

\* A message is lost, pruned or read.
LEMMA LostSound ==
    ASSUME Sound, (\E m \in told \cup drawn : Lost(m)) \/ (\E m \in bus : Prune(m)) \/ PollRead
    PROVE  Sound'
<1>1. /\ told' \subseteq told /\ drawn' \subseteq drawn /\ bus' \subseteq bus
      /\ msgs' \subseteq msgs \cup bus /\ lastSeq' = lastSeq /\ seq' = seq
      /\ rows' = rows /\ since' = since /\ UNCHANGED cacheVars /\ applied' = applied
      /\ ctl' = ctl /\ boot' = boot /\ base' = base
  BY DEF Lost, Prune, PollRead, storeVars, pollVars, InvalidationsSince
<1>2. /\ lastSeq \in Nat /\ seq \in Nat /\ returned \in 0..Now
      /\ told \subseteq Told /\ drawn \subseteq Drawn /\ bus \subseteq Seen /\ msgs \subseteq Seen
      /\ \A x \in told \cup drawn \cup bus \cup msgs : x.ver \in 0..Now /\ x.ver <= Now
      /\ \A x \in drawn \cup bus : x.seq <= lastSeq
  BY Numbers DEF Sound, StoreOK, Told, Drawn, Seen, Versions
<1>3. returned' \in 0..Now
  BY <1>2 DEF Lost, Prune, PollRead
<1>4. told' \subseteq Told /\ drawn' \subseteq Drawn /\ bus' \subseteq Seen /\ msgs' \subseteq Seen
  BY <1>1, <1>2
<1>5. \A x \in told' \cup drawn' \cup bus' \cup msgs' : x.ver <= Now
  BY <1>1, <1>2
<1>6. \A x \in drawn' \cup bus' : x.seq <= lastSeq'
  BY <1>1, <1>2
<1> QED BY <1>1, <1>2, <1>3, <1>4, <1>5, <1>6, MessagesSound

-----------------------------------------------------------------------------
(* Time passes.                                                              *)

\* No version ages by more than a tick, and those that are not current do not.
LEMMA SinceTicked ==
    ASSUME StoreOK, Tick
    PROVE  /\ since' \in [Versions -> 0..Horizon] /\ Now' = Now /\ rows' = rows
           /\ \A v \in Versions : since'[v] <= since[v] + 1 /\ since[v] \in Nat /\ since'[v] \in Nat
           /\ \A v \in Versions : v > Now' => since'[v] = 0
<1>1. /\ rows' = rows
      /\ since' = [v \in Versions |-> IF v \in 2..Now /\ since[v] < Horizon THEN since[v] + 1
                                      ELSE since[v]]
  BY DEF Tick
<1>2. since \in [Versions -> 0..Horizon] /\ Now' = Now /\ Now \in Nat
  BY <1>1, Numbers DEF StoreOK, Now, Versions
<1>3. ASSUME NEW v \in Versions
      PROVE  /\ since'[v] \in 0..Horizon /\ since'[v] <= since[v] + 1 /\ since[v] \in Nat
             /\ v > Now' => since'[v] = 0
  <2>1. since[v] \in Nat /\ since[v] <= Horizon /\ v \in Nat
    BY <1>2, Numbers DEF Versions
  <2>2. since'[v] = IF v \in 2..Now /\ since[v] < Horizon THEN since[v] + 1 ELSE since[v]
    BY <1>1
  <2>3. v > Now => since[v] = 0
    BY DEF StoreOK
  <2> QED BY <1>2, <2>1, <2>2, <2>3, Numbers
<1> QED BY <1>1, <1>2, <1>3, Numbers

\* A tick takes as much from an entry's life as it adds to the age of its rows.
LEMMA EntryAged ==
    ASSUME StoreOK, Tick, NEW map \in [Lookups -> Entry], NEW l \in Lookups, EntryOK(map[l], l),
           NEW a, a = Aged(map)[l]
    PROVE  a \in Entry /\ EntryOK(a, l)' /\ a.ver = map[l].ver /\ a.late = map[l].late
<1>1. PICK e : e = map[l]
  OBVIOUS
<1>2. /\ e \in Entry /\ EntryOK(e, l) /\ e.ver <= Now
      /\ a = IF e.ttl \in {0, Forever} THEN e ELSE [e EXCEPT !.ttl = e.ttl - 1]
  BY <1>1 DEF Aged, EntryOK
<1>3. e.ver \in 0..MaxVersion /\ e.ttl \in 0..Forever /\ e.ttl \in Nat /\ e.ver \in Nat
  BY <1>2, Numbers DEF Entry
<1>4. /\ Now' = Now /\ rows' = rows
      /\ \A v \in Versions : since'[v] <= since[v] + 1 /\ since[v] \in Nat /\ since'[v] \in Nat
  BY SinceTicked
<1>5. CASE e.ttl \in {0, Forever}
  <2>1. a = e
    BY <1>2, <1>5
  <2> QED BY <1>1, <1>2, <1>3, <1>4, <1>5, <2>1 DEF EntryOK, Live
<1>6. CASE e.ttl \notin {0, Forever}
  <2>1. a = [e EXCEPT !.ttl = e.ttl - 1] /\ e.ttl - 1 \in 0..Forever /\ e.ttl - 1 < e.ttl
    BY <1>2, <1>3, <1>6, Numbers
  <2>2. a \in Entry /\ a.ver = e.ver /\ a.late = e.late /\ a.ttl = e.ttl - 1
    BY <1>2, <2>1 DEF Entry
  <2>3. ASSUME e.ver # 0
        PROVE  /\ a.ttl <= EntryLife(e.ver, l)'
               /\ e.ver < Now => since'[e.ver + 1] + a.ttl <= StoreTimeout + EntryLife(e.ver, l)'
    <3>1. EntryLife(e.ver, l)' = EntryLife(e.ver, l) /\ EntryLife(e.ver, l) \in Nat
      BY <1>4, LifeType DEF EntryLife, Refuses
    <3>2. /\ e.ttl <= EntryLife(e.ver, l)
          /\ e.ver < Now => since[e.ver + 1] + e.ttl <= StoreTimeout + EntryLife(e.ver, l)
      BY <1>2, <1>6, <2>3 DEF EntryOK, Live
    <3>3. e.ver < Now => e.ver + 1 \in Versions
      <4>1. Now \in 1..MaxVersion
        BY DEF StoreOK, Versions
      <4> QED BY <1>3, <4>1, Numbers DEF Versions
    <3>4. e.ver < Now => /\ since'[e.ver + 1] <= since[e.ver + 1] + 1
                         /\ since[e.ver + 1] \in Nat /\ since'[e.ver + 1] \in Nat
      BY <1>4, <3>3
    <3> QED BY <1>3, <2>2, <3>1, <3>2, <3>4, Numbers
  <2> QED BY <1>1, <1>2, <1>4, <2>2, <2>3 DEF EntryOK
<1> QED BY <1>5, <1>6

\* A tick takes as much from a lookup's timeout as it adds to the age of its rows.
LEMMA FetchAged ==
    ASSUME StoreOK, Tick, NEW r, FetchOK(r), NEW q,
           q = IF r.left = 0 THEN NoFetch ELSE [r EXCEPT !.left = r.left - 1]
    PROVE  q \in FetchRec /\ FetchOK(q)'
<1>1. r \in FetchRec /\ r.ver <= Now
  BY DEF FetchOK
<1>2. r.ver \in 0..MaxVersion /\ r.left \in 0..StoreTimeout /\ r.ver \in Nat /\ r.left \in Nat
  BY <1>1, Numbers DEF FetchRec
<1>3. /\ Now' = Now /\ Now \in Nat /\ applied' = applied
      /\ \A v \in Versions : since'[v] <= since[v] + 1 /\ since[v] \in Nat /\ since'[v] \in Nat
  <2>1. applied' = applied
    BY DEF Tick, pollVars
  <2>2. Now \in Nat
    <3>1. Now \in 1..MaxVersion
      BY DEF StoreOK, Versions
    <3> QED BY <3>1, Numbers
  <2> QED BY <2>1, <2>2, SinceTicked
<1>4. CASE r.left = 0
  <2>1. q = NoFetch /\ NoFetch \in FetchRec
    BY <1>4, Numbers DEF NoFetch, FetchRec
  <2> QED BY <1>3, <2>1 DEF FetchOK, NoFetch
<1>5. CASE r.left # 0
  <2>1. q = [r EXCEPT !.left = r.left - 1] /\ r.left - 1 \in 0..StoreTimeout
    BY <1>2, <1>5, Numbers
  <2>2. q \in FetchRec /\ q.ver = r.ver /\ q.late = r.late /\ q.left = r.left - 1
    BY <1>1, <2>1 DEF FetchRec
  <2>3. r.ver # 0
    BY <1>5 DEF FetchOK, NoFetch
  <2>4. ASSUME r.ver < Now PROVE since'[r.ver + 1] + q.left <= StoreTimeout
    <3>1. since[r.ver + 1] + r.left <= StoreTimeout
      BY <2>3, <2>4 DEF FetchOK
    <3>2. r.ver + 1 \in 1..MaxVersion
      <4>1. Now \in 1..MaxVersion
        BY DEF Versions, StoreOK
      <4> QED BY <1>2, <1>3, <2>4, <4>1, Numbers
    <3>3. /\ since'[r.ver + 1] <= since[r.ver + 1] + 1 /\ since[r.ver + 1] \in Nat
          /\ since'[r.ver + 1] \in Nat
      BY <1>3, <3>2 DEF Versions
    <3> QED BY <1>2, <2>2, <3>1, <3>3, Numbers
  <2>5. Late(r.ver, r.late)'
    BY <1>3, <2>3 DEF FetchOK, Late
  <2> QED BY <1>1, <1>3, <2>2, <2>3, <2>4, <2>5 DEF FetchOK
<1> QED BY <1>4, <1>5

\* Time passes for both.
LEMMA TickSound ==
    ASSUME Sound, Tick
    PROVE  Sound'
<1>1. /\ snap' = Aged(snap) /\ overlay' = Aged(overlay) /\ swap' = [swap EXCEPT !.map = Aged(swap.map)]
      /\ fetch' = [l \in Lookups |-> IF fetch[l].left = 0 THEN NoFetch
                                     ELSE [fetch[l] EXCEPT !.left = fetch[l].left - 1]]
      /\ told' = told /\ drawn' = drawn /\ bus' = bus /\ lastSeq' = lastSeq /\ load' = load
      /\ ctl' = ctl /\ boot' = boot /\ seq' = seq /\ msgs' = msgs /\ applied' = applied
      /\ base' = base /\ returned' = returned
  BY DEF Tick, pollVars
<1>2. StoreOK /\ Now' = Now /\ rows' = rows /\ since' \in [Versions -> 0..Horizon]
      /\ \A v \in Versions : v > Now' => since'[v] = 0
  BY SinceTicked DEF Sound
<1>3. StoreOK'
  BY <1>1, <1>2 DEF StoreOK
<1>4. /\ snap \in [Lookups -> Entry] /\ overlay \in [Lookups -> Entry] /\ swap \in Swaps
      /\ swap.map \in [Lookups -> Entry]
      /\ fetch \in [Lookups -> FetchRec] /\ LoadFits(load)
      /\ \A l \in Lookups :
            /\ Good(overlay[l], l) /\ EntryOK(snap[l], l) /\ EntryOK(swap.map[l], l)
            /\ ~swap.on => Good(snap[l], l)
            /\ swap.on => Good(swap.map[l], l)
            /\ FetchOK(fetch[l])
  BY CacheParts DEF Swaps
<1>5. ASSUME NEW map \in [Lookups -> Entry], \A l \in Lookups : EntryOK(map[l], l), NEW a, a = Aged(map)
      PROVE  /\ a \in [Lookups -> Entry] /\ \A l \in Lookups : EntryOK(a[l], l)'
             /\ \A l \in Lookups : FreshFor(map[l], l) => FreshFor(a[l], l)'
  <2>1. ASSUME NEW l \in Lookups
        PROVE  a[l] \in Entry /\ EntryOK(a[l], l)' /\ a[l].ver = map[l].ver /\ a[l].late = map[l].late
    BY <1>2, <1>5, EntryAged
  <2>2. ASSUME NEW l \in Lookups, FreshFor(map[l], l) PROVE FreshFor(a[l], l)'
    BY <1>1, <1>2, <2>1, <2>2 DEF FreshFor, Positive, Found, Late
  <2>3. a \in [Lookups -> Entry]
    BY <1>5, <2>1 DEF Aged
  <2> QED BY <2>1, <2>2, <2>3
<1>6. PICK s : s = Aged(snap)
  OBVIOUS
<1>7. PICK o : o = Aged(overlay)
  OBVIOUS
<1>8. PICK p : p = Aged(swap.map)
  OBVIOUS
<1>9. PICK w : w = [swap EXCEPT !.map = p]
  OBVIOUS
<1>10. PICK f : f = [l \in Lookups |-> IF fetch[l].left = 0 THEN NoFetch
                                       ELSE [fetch[l] EXCEPT !.left = fetch[l].left - 1]]
  OBVIOUS
<1>11. PICK z : z = swap
  OBVIOUS
<1>12. PICK d : d = load
  OBVIOUS
<1>13. /\ s \in [Lookups -> Entry] /\ \A l \in Lookups : EntryOK(s[l], l)'
       /\ ~z.on => \A l \in Lookups : FreshFor(s[l], l)'
  <2>1. /\ s \in [Lookups -> Entry] /\ \A l \in Lookups : EntryOK(s[l], l)'
        /\ \A l \in Lookups : FreshFor(snap[l], l) => FreshFor(s[l], l)'
    BY <1>4, <1>5, <1>6
  <2> QED BY <1>4, <1>11, <2>1 DEF Good
<1>14. /\ o \in [Lookups -> Entry] /\ \A l \in Lookups : EntryOK(o[l], l)' /\ FreshFor(o[l], l)'
  <2>1. \A l \in Lookups : EntryOK(overlay[l], l) /\ FreshFor(overlay[l], l)
    BY <1>4 DEF Good
  <2> QED BY <1>4, <1>5, <1>7, <2>1
<1>15. /\ p \in [Lookups -> Entry] /\ \A l \in Lookups : EntryOK(p[l], l)'
       /\ z.on => \A l \in Lookups : FreshFor(p[l], l)'
  <2>1. /\ p \in [Lookups -> Entry] /\ \A l \in Lookups : EntryOK(p[l], l)'
        /\ \A l \in Lookups : FreshFor(swap.map[l], l) => FreshFor(p[l], l)'
    BY <1>4, <1>5, <1>8
  <2> QED BY <1>4, <1>11, <2>1 DEF Good
<1>16. w \in Swaps /\ w.on = z.on /\ w.map = p
  BY <1>4, <1>9, <1>11, <1>15 DEF Swaps
<1>17. f \in [Lookups -> FetchRec] /\ \A l \in Lookups : FetchOK(f[l])'
  <2>1. ASSUME NEW l \in Lookups PROVE f[l] \in FetchRec /\ FetchOK(f[l])'
    <3>1. /\ f[l] = IF fetch[l].left = 0 THEN NoFetch ELSE [fetch[l] EXCEPT !.left = fetch[l].left - 1]
          /\ FetchOK(fetch[l])
      BY <1>4, <1>10
    <3> QED BY <1>2, <3>1, FetchAged
  <2> QED BY <1>10, <2>1
<1>18. LoadFits(d)'
  BY <1>1, <1>2, <1>4, <1>12 DEF LoadFits, Late
<1>19. \A l \in Lookups : LookupOK(s, o, w, f, l)'
  BY <1>13, <1>14, <1>15, <1>16, <1>17 DEF LookupOK
<1>20. Cache(s, o, w, f, d)'
  BY <1>13, <1>14, <1>16, <1>17, <1>18, <1>19 DEF Cache
<1>21. snap' = s /\ overlay' = o /\ swap' = w /\ fetch' = f /\ load' = d
  BY <1>1, <1>6, <1>7, <1>8, <1>9, <1>10, <1>12
<1>22. CacheOK'
  BY <1>20, <1>21 DEF CacheOK
<1> QED BY <1>3, <1>22 DEF Sound

-----------------------------------------------------------------------------
(* The invariant holds.                                                      *)

\* The process starts with an empty cache.
LEMMA SoundInit == Init => Sound
<1> SUFFICES ASSUME Init PROVE Sound
  OBVIOUS
<1>1. PICK gens \in Lookups, pended \in BOOLEAN : rows = <<FirstRow(gens, pended)>>
  BY DEF Init
<1>2. FirstRow(gens, pended) \in RowRec
  <2> DEFINE sec == [l \in Lookups |->
          CASE l < gens -> "grace" [] l = gens -> "current" [] l > gens -> "absent"]
  <2>1. ASSUME NEW l \in Lookups PROVE sec[l] \in {"absent", "current", "grace", "cut"}
    <3>1. l \in Int /\ gens \in Int
      BY Numbers DEF Lookups
    <3>2. l < gens \/ l = gens \/ l > gens
      BY <3>1
    <3> QED BY <3>2
  <2>2. sec \in [Lookups -> {"absent", "current", "grace", "cut"}]
    BY <2>1
  <2>3. FirstRow(gens, pended) = [blocked |-> FALSE, pended |-> pended, sec |-> sec]
    BY DEF FirstRow
  <2> HIDE DEF sec
  <2> QED BY <2>2, <2>3 DEF RowRec
<1>3. rows \in Seq(RowRec) /\ Now = 1 /\ Now \in Versions
  BY <1>1, <1>2, Numbers DEF Now, Versions
<1>4. /\ since = [v \in Versions |-> 0] /\ told = {} /\ drawn = {} /\ bus = {} /\ lastSeq = 0
      /\ ctl = NoCtl /\ boot = [at |-> "head", head |-> 0] /\ seq = 0 /\ msgs = {}
      /\ applied = {} /\ base = 0 /\ returned = 0
      /\ snap = Empty /\ overlay = Empty /\ swap = NoSwap /\ load = NoLoad
      /\ fetch = [l \in Lookups |-> NoFetch]
  BY DEF Init
<1>5. StoreOK
  <2>1. since \in [Versions -> 0..Horizon] /\ \A v \in Versions : since[v] = 0
    BY <1>4, Numbers
  <2>2. /\ ctl \in [ver : 0..MaxVersion, lookups : SUBSET Lookups] /\ ctl.ver = 0
    BY <1>4, Numbers DEF NoCtl
  <2>3. /\ boot \in [at : {"head", "clear", "load", "seq", "up"}, head : Nat]
        /\ 0 \in 0..Now
    BY <1>3, <1>4
  <2> QED BY <1>3, <1>4, <2>1, <2>2, <2>3 DEF StoreOK
<1>6. CacheOK
  <2>1. \A l \in Lookups : EntryOK(Empty[l], l)
    BY <1>5, EmptyGood DEF Good
  <2>2. \A l \in Lookups : FetchOK(fetch[l])
    BY <1>4, <1>5, EmptyGood
  <2>3. fetch \in [Lookups -> FetchRec]
    BY <1>4, <1>5, EmptyGood
  <2>4. Cache(Empty, Empty, NoSwap, fetch, NoLoad)
    BY <1>5, <2>1, <2>2, <2>3, EmptyGood, CacheMade
  <2> QED BY <1>4, <2>4 DEF CacheOK
<1> QED BY <1>5, <1>6 DEF Sound

\* A set of numbers that is bounded has a greatest element.
LEMMA BoundedMax ==
    ASSUME NEW S, S \subseteq Nat, S # {}, NEW b \in Nat, \A x \in S : x <= b
    PROVE  Max(S) \in S /\ \A y \in S : Max(S) >= y
<1> DEFINE T == {b - x : x \in S}
<1>1. T \subseteq Nat /\ T # {}
  OBVIOUS
<1>2. IsWellFoundedOn(OpToRel(<, Nat), Nat)
  BY NatLessThanWellFounded
<1>3. PICK t \in T : \A u \in T : ~(<<u, t>> \in OpToRel(<, Nat))
  BY <1>1, <1>2, WFMin
<1>4. PICK x \in S : t = b - x
  OBVIOUS
<1>5. ASSUME NEW y \in S PROVE x >= y
  <2>1. b - y \in T /\ b - y \in Nat /\ t \in Nat
    BY <1>1
  <2> HIDE DEF T
  <2>2. ~(b - y < t)
    BY <1>3, <2>1 DEF OpToRel
  <2> QED BY <1>4, <2>1, <2>2
<1>6. \E z \in S : \A y \in S : z >= y
  BY <1>5
<1> QED BY <1>6 DEF Max

\* The newest message of the table.
LEMMA LatestBound ==
    ASSUME StoreOK
    PROVE  /\ Latest \in Nat /\ Latest <= lastSeq
           /\ \A m \in bus : m.seq <= Latest
<1> DEFINE S == {m.seq : m \in bus}
<1>1. /\ S \subseteq Nat /\ lastSeq \in Nat
      /\ \A x \in S : x <= lastSeq
  BY DEF StoreOK, Seen
<1>2. CASE bus = {}
  BY <1>1, <1>2 DEF Latest
<1>3. CASE bus # {}
  <2>1. S # {} /\ Latest = Max(S) /\ \A m \in bus : m.seq \in S
    BY <1>3 DEF Latest
  <2> HIDE DEF S
  <2>2. Max(S) \in S /\ \A y \in S : Max(S) >= y
    BY <1>1, <2>1, BoundedMax
  <2>3. Max(S) \in Nat /\ Max(S) <= lastSeq
    BY <1>1, <2>2
  <2> QED BY <1>1, <2>1, <2>2, <2>3
<1> QED BY <1>2, <1>3

\* Every step keeps the store and the cache sound.
LEMMA NextSound == Sound /\ [Next]_vars => Sound'
<1> SUFFICES ASSUME Sound, [Next]_vars PROVE Sound'
  OBVIOUS
<1>1. ASSUME NEW kind \in Controls, LocalWrite(kind) \/ PeerWrite(kind) PROVE Sound'
  BY <1>1, LocalWriteSound, PeerWriteSound
<1>2. CASE Announce
  BY <1>2, AnnounceSound
<1>3. ASSUME NEW t \in told, AppendMessage(t) \/ Draw(t) PROVE Sound'
  BY <1>3, AppendSound, DrawSound
<1>4. ASSUME NEW m \in drawn, Commit(m) PROVE Sound'
  BY <1>4, CommitSound
<1>5. CASE (\E m \in told \cup drawn : Lost(m)) \/ (\E m \in bus : Prune(m)) \/ PollRead
  BY <1>5, LostSound
<1>6. ASSUME NEW m \in msgs, PollApply(m) PROVE Sound'
  BY <1>6, PollApplySound
<1>7. ASSUME NEW l \in Lookups, FetchRead(l) \/ FetchFail(l) \/ Insert(l) \/ Rehash(l) PROVE Sound'
  BY <1>7, FetchSound, InsertSound, RehashSound
<1>8. CASE Publish \/ RefreshRead \/ LoadStore \/ LoadDrop
  BY <1>8, PublishSound, RefreshReadSound, LoadStoreSound, LoadDropSound
<1>9. CASE RejoinHead \/ RejoinSeq \/ RejoinFail \/ UNCHANGED vars
  <2>1. StoreOK /\ boot.head \in Nat /\ seq \in Nat /\ Latest \in Nat
    BY LatestBound DEF Sound, StoreOK
  <2>2. boot \in [at : {"head", "clear", "load", "seq", "up"}, head : Nat]
    BY DEF Sound, StoreOK
  <2>3. /\ boot' \in [at : {"head", "clear", "load", "seq", "up"}, head : Nat] /\ seq' \in Nat
        /\ UNCHANGED <<storeVars, cacheVars, ctl, msgs, applied, base, returned>>
    BY <1>9, <2>1, <2>2 DEF RejoinHead, RejoinSeq, RejoinFail, vars, pollVars
  <2> QED BY <2>3, RejoinStepSound
<1>10. CASE RejoinRead
  BY <1>10, RejoinReadSound
<1>11. CASE Crash
  BY <1>11, CrashSound
<1>12. CASE Tick
  BY <1>12, TickSound
<1> QED
  BY <1>1, <1>2, <1>3, <1>4, <1>5, <1>6, <1>7, <1>8, <1>9, <1>10, <1>11, <1>12 DEF Next

\* Store, messages and cache stay consistent through every order of reads, drops, folds,
\* loads, restarts and losses.
THEOREM Soundness == Spec => []Sound
<1>1. Init => Sound
  BY SoundInit
<1>2. Sound /\ [Next]_vars => Sound'
  BY NextSound
<1> QED BY <1>1, <1>2, PTL DEF Spec

-----------------------------------------------------------------------------
(* What the invariant says.                                                  *)

\* The state of the store, of the cache and of the poller keeps its shape.
THEOREM TypeCorrect == Spec => []TypeOK
<1>1. ASSUME Sound PROVE TypeOK
  <2>1. /\ StoreOK /\ snap \in [Lookups -> Entry] /\ overlay \in [Lookups -> Entry] /\ swap \in Swaps
        /\ fetch \in [Lookups -> FetchRec] /\ load \in LoadRec
    BY <1>1, CacheParts DEF Sound, LoadFits
  <2>2. Now \in 1..MaxVersion /\ Now \in Nat
    BY <2>1, Numbers DEF StoreOK, Versions
  <2>3. {base, returned} \subseteq 0..MaxVersion /\ applied \subseteq Versions
    <3>1. base \in 0..Now /\ returned \in 0..Now /\ applied \subseteq 1..Now
      BY <2>1 DEF StoreOK
    <3> QED BY <2>2, <3>1, Numbers DEF Versions
  <2>4. /\ rows \in Seq([blocked : BOOLEAN, pended : BOOLEAN,
                         sec : [Lookups -> {"absent", "current", "grace", "cut"}]])
        /\ Len(rows) \in Versions /\ since \in [Versions -> 0..Horizon]
    BY <2>1 DEF StoreOK, RowRec, Now
  <2>5. /\ told \subseteq [ver : Versions, lookups : SUBSET Lookups, mine : BOOLEAN]
        /\ drawn \subseteq [seq : Nat, ver : Versions, lookups : SUBSET Lookups, mine : BOOLEAN]
        /\ bus \cup msgs \subseteq [seq : Nat, ver : Versions, lookups : SUBSET Lookups]
    BY <2>1 DEF StoreOK, Told, Drawn, Seen
  <2>6. /\ ctl \in [ver : 0..MaxVersion, lookups : SUBSET Lookups]
        /\ boot \in [at : {"head", "clear", "load", "seq", "up"}, head : Nat]
        /\ {seq, lastSeq} \subseteq Nat
    BY <2>1 DEF StoreOK
  <2> QED BY <2>1, <2>3, <2>4, <2>5, <2>6 DEF TypeOK, Swaps, FetchRec, LoadRec
<1> QED BY <1>1, Soundness, PTL

\* Apply: once a message is applied and the mutex is free, neither map holds an entry of
\* the key that is older than the change, save what a read brings that was in flight.
THEOREM DropsOnReceiptHolds == Spec => []DropsOnReceipt
<1>1. ASSUME Sound PROVE DropsOnReceipt
  <2>1. SUFFICES ASSUME ~swap.on, NEW l \in Lookups, NEW v \in applied, NEW e \in {snap[l], overlay[l]},
                        Positive(e, l), e.ver < v
                 PROVE  v <= e.late
    BY DEF DropsOnReceipt
  <2>2. FreshFor(e, l)
    BY <1>1, <2>1, CacheParts DEF Good
  <2> QED BY <2>1, <2>2 DEF FreshFor, Late
<1> QED BY <1>1, Soundness, PTL

\* Lookup: whatever happens to the messages, an entry learned at runtime answers for a
\* bounded time after its rows were superseded.
THEOREM BoundedFallbackHolds == Spec => []BoundedFallback
<1>1. ASSUME Sound PROVE BoundedFallback
  <2>1. SUFFICES ASSUME NEW l \in Lookups, NEW e, e = Answer(l), Live(e), e.ttl # Forever, e.ver < Now
                 PROVE  since[e.ver + 1] < StoreTimeout
                                + (IF Refuses(e.ver, l) THEN NegativeTTL ELSE EntryTTL)
    BY DEF BoundedFallback
  <2>2. e \in {snap[l], overlay[l]}
    BY <2>1 DEF Answer, Live, NoEntry
  <2>3. EntryOK(e, l) /\ e.ver # 0
    BY <1>1, <2>1, <2>2, CacheParts DEF Good, Live
  <2>4. since[e.ver + 1] + e.ttl <= StoreTimeout + EntryLife(e.ver, l)
    BY <2>1, <2>3 DEF EntryOK
  <2>5. e.ttl \in Nat /\ e.ttl # 0 /\ e.ver \in Nat
    BY <2>1, <2>3, Numbers DEF EntryOK, Entry, Live
  <2>6. e.ver + 1 \in Versions /\ since \in [Versions -> 0..Horizon]
    <3>1. Now \in 1..MaxVersion /\ since \in [Versions -> 0..Horizon]
      BY <1>1 DEF Sound, StoreOK, Versions
    <3> QED BY <2>1, <2>5, <3>1, Numbers DEF Versions
  <2>7. since[e.ver + 1] \in Nat
    BY <2>6, Numbers
  <2>8. EntryLife(e.ver, l) \in Nat
    BY LifeType
  <2>9. since[e.ver + 1] < StoreTimeout + EntryLife(e.ver, l)
    BY <2>4, <2>5, <2>7, <2>8, Numbers
  <2> QED BY <2>9 DEF EntryLife
<1> QED BY <1>1, Soundness, PTL

-----------------------------------------------------------------------------
(* The watermark.                                                            *)

\* A step that touches no message and does not take the start of the process further.
LEMMA OrderedSame ==
    ASSUME Ordered, UNCHANGED <<drawn, bus, lastSeq, seq, msgs, applied, base, boot, ctl, told>>
    PROVE  Ordered'
  BY DEF Ordered, NoSkippedMessage, Heard

\* The start of the process: the head of the table is behind the rows that are loaded
\* after it, and only then becomes the watermark.
LEMMA RejoinOrdered ==
    ASSUME Sound, Ordered, RejoinHead \/ RejoinRead \/ RejoinSeq \/ RejoinFail \/ LoadDrop
    PROVE  Ordered'
<1>1. /\ drawn' = drawn /\ bus' = bus /\ lastSeq' = lastSeq /\ msgs' = msgs /\ applied' = applied
      /\ ctl' = ctl /\ told' = told
  BY DEF RejoinHead, RejoinRead, RejoinSeq, RejoinFail, LoadDrop, storeVars, pollVars
<1>2. /\ boot \in [at : {"head", "clear", "load", "seq", "up"}, head : Nat] /\ lastSeq \in Nat
      /\ base \in 0..Now /\ bus \subseteq Seen /\ StoreOK
      /\ \A m \in bus : m.ver \in Nat /\ m.ver <= Now
  BY Numbers DEF Sound, StoreOK, Seen, Versions
<1>3. /\ drawn = {} /\ IsFiniteSet(bus) /\ boot.head <= lastSeq /\ seq <= lastSeq
      /\ \A m \in bus \cup msgs : m.seq \in 1..lastSeq
      /\ \A m, k \in bus \cup msgs : m.seq = k.seq => m = k
      /\ \A m \in bus : m.seq <= seq => Heard(m)
      /\ \A m \in msgs, k \in bus : k.seq <= m.seq => Heard(k) \/ k \in msgs
      /\ boot.at \in {"load", "seq"} => \A m \in bus : m.seq <= boot.head => m.ver <= base
  BY DEF Ordered, NoSkippedMessage, Heard
<1>4. CASE RejoinHead \/ RejoinFail \/ LoadDrop
  <2>1. base' = base /\ seq' = seq
    BY <1>4 DEF RejoinHead, RejoinFail, LoadDrop, pollVars
  <2>2. /\ boot'.head <= lastSeq
        /\ boot'.at \in {"load", "seq"} => boot.at \in {"load", "seq"} /\ boot'.head = boot.head
    <3>1. CASE RejoinHead
      <4>1. boot' = [at |-> "clear", head |-> Latest]
        BY <3>1 DEF RejoinHead
      <4> QED BY <1>2, <4>1, LatestBound
    <3>2. CASE RejoinFail
      <4>1. boot' = [at |-> "up", head |-> 0]
        BY <3>2 DEF RejoinFail
      <4> QED BY <1>2, <4>1
    <3>3. CASE LoadDrop
      <4>1. boot' = IF boot.at = "load" THEN [boot EXCEPT !.at = "seq"] ELSE boot
        BY <3>3 DEF LoadDrop
      <4> QED BY <1>2, <1>3, <4>1
    <3> QED BY <1>4, <3>1, <3>2, <3>3
  <2> QED BY <1>1, <1>3, <2>1, <2>2 DEF Ordered, NoSkippedMessage, Heard
<1>5. CASE RejoinRead
  <2>1. base' = Now /\ seq' = seq /\ boot' = [boot EXCEPT !.at = "load"]
    BY <1>5 DEF RejoinRead, pollVars
  <2>2. boot'.head = boot.head
    BY <1>2, <2>1
  <2>3. \A m \in bus : m.ver <= base'
    BY <1>2, <2>1
  <2> QED BY <1>1, <1>3, <2>1, <2>2, <2>3 DEF Ordered, NoSkippedMessage, Heard
<1>6. CASE RejoinSeq
  <2>1. base' = base /\ seq' = boot.head /\ boot' = [at |-> "up", head |-> 0] /\ boot.at = "seq"
    BY <1>6 DEF RejoinSeq
  <2>2. boot'.head = 0 /\ boot'.at = "up" /\ 0 <= lastSeq
    BY <1>2, <2>1
  <2>3. \A m \in bus : m.seq <= seq' => m.ver <= base
    BY <1>3, <2>1
  <2> QED BY <1>1, <1>3, <2>1, <2>2, <2>3 DEF Ordered, NoSkippedMessage, Heard
<1> QED BY <1>4, <1>5, <1>6

\* A new process has a watermark behind every message.
LEMMA CrashOrdered ==
    ASSUME Sound, Ordered, Crash, Local => ~Crashes
    PROVE  Ordered'
<1>1. /\ ~Local /\ drawn' \subseteq drawn /\ told' \subseteq told /\ bus' = bus /\ lastSeq' = lastSeq
      /\ ctl' = NoCtl /\ boot' = [at |-> "head", head |-> 0] /\ seq' = 0 /\ msgs' = {}
  BY DEF Crash
<1>2. boot'.head = 0 /\ boot'.at = "head" /\ lastSeq \in Nat
  BY <1>1 DEF Sound, StoreOK
<1>3. /\ drawn = {} /\ IsFiniteSet(bus) /\ \A m \in bus : m.seq \in 1..lastSeq
      /\ \A m, k \in bus : m.seq = k.seq => m = k
      /\ \A t \in told : ~t.mine
  BY <1>1 DEF Ordered
<1>4. \A m \in bus : ~(m.seq <= 0)
  BY <1>2, <1>3
<1> QED BY <1>1, <1>2, <1>3, <1>4 DEF Ordered, NoSkippedMessage

\* The controls.
LEMMA WriteOrdered ==
    ASSUME Ordered, Local => ~Peers, NEW kind \in Controls, LocalWrite(kind) \/ PeerWrite(kind)
    PROVE  Ordered'
<1>1. /\ drawn' = drawn /\ bus' = bus /\ lastSeq' = lastSeq /\ seq' = seq /\ msgs' = msgs
      /\ applied' = applied /\ base' = base /\ boot' = boot
  BY DEF LocalWrite, PeerWrite, Write, pollVars
<1>2. CASE LocalWrite(kind)
  BY <1>1, <1>2 DEF LocalWrite, Ordered, NoSkippedMessage, Heard
<1>3. CASE PeerWrite(kind)
  <2> DEFINE t == [ver |-> Now + 1, lookups |-> Named(kind), mine |-> FALSE]
  <2>1. ~Local /\ ctl' = ctl /\ told' = told \cup {t} /\ ~t.mine
    BY <1>3 DEF PeerWrite
  <2> HIDE DEF t
  <2>2. ctl' = NoCtl /\ \A x \in told' : ~x.mine
    BY <2>1 DEF Ordered
  <2> QED BY <1>1, <2>1, <2>2 DEF Ordered, NoSkippedMessage, Heard
<1> QED BY <1>2, <1>3

\* A control of this node applies its own message before it is told.
LEMMA AnnounceOrdered ==
    ASSUME Ordered, Announce
    PROVE  Ordered'
<1> DEFINE t == [ver |-> ctl.ver, lookups |-> ctl.lookups, mine |-> TRUE]
<1>1. /\ drawn' = drawn /\ bus' = bus /\ lastSeq' = lastSeq /\ seq' = seq /\ msgs' = msgs
      /\ applied' = applied \cup {t.ver} /\ base' = base /\ boot' = boot
      /\ ctl # NoCtl /\ ctl' = NoCtl /\ told' = told \cup {t} /\ t.mine
  BY DEF Announce, Apply
<1> HIDE DEF t
<1>2. Local
  BY <1>1 DEF Ordered
<1>3. \A x \in told' : x.mine /\ x.ver \in applied'
  BY <1>1, <1>2 DEF Ordered
<1> QED BY <1>1, <1>2, <1>3 DEF Ordered, NoSkippedMessage, Heard

\* A publication gets a number past the watermark, past the head read at the start and
\* past what the poll has read; when it is this node's own and moves the watermark, all
\* the messages there are were its own.
LEMMA AppendOrdered ==
    ASSUME Sound, Ordered, NEW t \in told, AppendMessage(t)
    PROVE  Ordered'
<1> DEFINE m == [seq |-> lastSeq + 1, ver |-> t.ver, lookups |-> t.lookups]
<1>1. /\ told' = told \ {t} /\ drawn' = drawn /\ bus' = bus \cup {m} /\ msgs' = msgs
      /\ lastSeq' = lastSeq + 1 /\ seq' = IF t.mine /\ SQLite THEN Advanced(lastSeq + 1) ELSE seq
      /\ applied' = applied /\ ctl' = ctl /\ boot' = boot /\ base' = base
  BY DEF AppendMessage, Visible, Numbered
<1>2. m.seq = lastSeq + 1 /\ m.ver = t.ver
  OBVIOUS
<1> HIDE DEF m
<1>3. /\ lastSeq \in Nat /\ seq \in Nat /\ boot.head \in Nat /\ boot'.head = boot.head
      /\ \A k \in bus \cup msgs : k.seq \in Nat
  BY <1>1 DEF Sound, StoreOK, Seen
<1>4. /\ drawn = {} /\ IsFiniteSet(bus) /\ boot.head <= lastSeq /\ seq <= lastSeq
      /\ \A k \in bus \cup msgs : k.seq \in 1..lastSeq
      /\ \A j, k \in bus \cup msgs : j.seq = k.seq => j = k
      /\ \A k \in bus : k.seq <= seq => Heard(k)
      /\ \A j \in msgs, k \in bus : k.seq <= j.seq => Heard(k) \/ k \in msgs
      /\ boot.at \in {"load", "seq"} => \A k \in bus : k.seq <= boot.head => k.ver <= base
      /\ ~Local => ctl = NoCtl /\ \A x \in told : ~x.mine
      /\ Local => (\A k \in bus : k.ver \in applied) /\ \A x \in told : x.mine /\ x.ver \in applied
  BY DEF Ordered, NoSkippedMessage, Heard
<1>5. IsFiniteSet(bus')
  BY <1>1, <1>4, FS_AddElement
<1>6. /\ \A k \in bus' \cup msgs' : k.seq \in 1..lastSeq'
      /\ \A j, k \in bus' \cup msgs' : j.seq = k.seq => j = k
  <2>1. \A k \in bus \cup msgs : k.seq # m.seq /\ k.seq \in 1..(lastSeq + 1)
    BY <1>2, <1>3, <1>4
  <2> QED BY <1>1, <1>2, <1>3, <1>4, <2>1
<1>7. seq' <= lastSeq' /\ boot'.head <= lastSeq'
  BY <1>1, <1>3, <1>4 DEF Advanced
<1>8. \A k \in bus' : k.seq <= seq' => Heard(k)
  <2>1. CASE Local
    BY <1>1, <1>2, <1>4, <2>1 DEF Heard
  <2>2. CASE ~Local
    <3>1. seq' = seq /\ ~(m.seq <= seq)
      BY <1>1, <1>2, <1>3, <1>4, <2>2
    <3> QED BY <1>1, <1>4, <3>1
  <2> QED BY <2>1, <2>2
<1>9. \A j \in msgs, k \in bus' : k.seq <= j.seq => Heard(k) \/ k \in msgs
  <2>1. \A j \in msgs : ~(m.seq <= j.seq)
    BY <1>2, <1>3, <1>4
  <2> QED BY <1>1, <1>4, <2>1
<1>10. boot.at \in {"load", "seq"} => \A k \in bus' : k.seq <= boot.head => k.ver <= base
  <2>1. ~(m.seq <= boot.head)
    BY <1>2, <1>3, <1>4
  <2> QED BY <1>1, <1>4, <2>1
<1>11. Local => \A k \in bus' : k.ver \in applied
  BY <1>1, <1>2, <1>4
<1> QED
  BY <1>1, <1>4, <1>5, <1>6, <1>7, <1>8, <1>9, <1>10, <1>11 DEF Ordered, NoSkippedMessage, Heard

\* A message that is lost or pruned is none the watermark can pass.
LEMMA LostOrdered ==
    ASSUME Ordered, (\E m \in told \cup drawn : Lost(m)) \/ (\E m \in bus : Prune(m))
    PROVE  Ordered'
<1>1. /\ told' \subseteq told /\ drawn' \subseteq drawn /\ bus' \subseteq bus
      /\ msgs' = msgs /\ lastSeq' = lastSeq /\ seq' = seq /\ applied' = applied
      /\ ctl' = ctl /\ boot' = boot /\ base' = base
  BY DEF Lost, Prune, pollVars
<1>2. IsFiniteSet(bus')
  BY <1>1, FS_Subset DEF Ordered
<1> QED BY <1>1, <1>2 DEF Ordered, NoSkippedMessage, Heard

\* A poll reads the oldest messages past the watermark: with a message it reads every
\* older one.
LEMMA PollReadOrdered ==
    ASSUME Sound, Ordered, PollRead
    PROVE  Ordered'
<1> DEFINE after == {m \in bus : m.seq > seq}
           upto(m) == {k \in after : k.seq <= m.seq}
<1>1. /\ msgs' = {m \in after : Cardinality(upto(m)) <= Batch}
      /\ drawn' = drawn /\ bus' = bus /\ lastSeq' = lastSeq /\ seq' = seq /\ applied' = applied
      /\ base' = base /\ boot' = boot /\ ctl' = ctl /\ told' = told
  BY DEF PollRead, InvalidationsSince, storeVars
<1>2. IsFiniteSet(bus) /\ seq \in Nat /\ \A m \in bus : m.seq \in Nat
  BY DEF Ordered, Sound, StoreOK, Seen
<1>3. ASSUME NEW m \in msgs', NEW k \in bus, k.seq <= m.seq
      PROVE  Heard(k) \/ k \in msgs'
  <2>1. CASE k.seq <= seq
    BY <2>1 DEF Ordered, NoSkippedMessage, Heard
  <2>2. CASE ~(k.seq <= seq)
    <3>1. k \in after /\ m \in after /\ Cardinality(upto(m)) <= Batch
      BY <1>1, <1>2, <2>2
    <3>2. upto(k) \subseteq upto(m) /\ upto(m) \subseteq bus
      BY <1>2, <1>3, <3>1
    <3>3. IsFiniteSet(upto(m))
      BY <1>2, <3>2, FS_Subset
    <3> HIDE DEF upto, after
    <3>4. /\ Cardinality(upto(k)) <= Cardinality(upto(m)) /\ IsFiniteSet(upto(k))
      BY <3>2, <3>3, FS_Subset
    <3>5. Cardinality(upto(k)) \in Nat /\ Cardinality(upto(m)) \in Nat
      BY <3>3, <3>4, FS_CardinalityType
    <3>6. Cardinality(upto(k)) <= Batch
      BY <3>1, <3>4, <3>5, Numbers
    <3> QED BY <1>1, <3>1, <3>6
  <2> QED BY <2>1, <2>2
<1>4. msgs' \subseteq bus
  BY <1>1
<1> HIDE DEF after, upto
<1>5. \A m \in msgs', k \in bus : k.seq <= m.seq => Heard(k) \/ k \in msgs'
  BY <1>3
<1>6. /\ drawn' = drawn /\ bus' = bus /\ lastSeq' = lastSeq /\ seq' = seq /\ applied' = applied
      /\ base' = base /\ boot' = boot /\ ctl' = ctl /\ told' = told
  BY <1>1
<1> QED BY <1>4, <1>5, <1>6 DEF Ordered, NoSkippedMessage, Heard

\* The oldest message of the poll is applied: what the watermark then passes is that
\* message or heard already.
LEMMA PollApplyOrdered ==
    ASSUME Sound, Ordered, NEW m \in msgs, PollApply(m)
    PROVE  Ordered'
<1>1. /\ applied' = applied \cup {m.ver} /\ msgs' = msgs \ {m} /\ seq' = Advanced(m.seq)
      /\ drawn' = drawn /\ bus' = bus /\ lastSeq' = lastSeq
      /\ base' = base /\ boot' = boot /\ ctl' = ctl /\ told' = told
      /\ \A k \in msgs : m.seq <= k.seq
  BY DEF PollApply, Apply, storeVars
<1>2. seq \in Nat /\ \A k \in bus \cup msgs : k.seq \in Nat
  BY DEF Sound, StoreOK, Seen
<1>3. /\ \A k \in bus \cup msgs : k.seq \in 1..lastSeq
      /\ \A j, k \in bus \cup msgs : j.seq = k.seq => j = k
      /\ \A k \in bus : k.seq <= seq => Heard(k)
      /\ \A j \in msgs, k \in bus : k.seq <= j.seq => Heard(k) \/ k \in msgs
      /\ seq <= lastSeq
  BY DEF Ordered, NoSkippedMessage, Heard
<1>4. \A k : Heard(k) => Heard(k)'
  BY <1>1 DEF Heard
<1>5. Heard(m)'
  BY <1>1 DEF Heard
<1>6. ASSUME NEW k \in bus, k.seq <= seq' PROVE Heard(k)'
  <2>1. CASE k.seq <= seq
    BY <1>3, <1>4, <2>1
  <2>2. CASE ~(k.seq <= seq)
    <3>1. k.seq <= m.seq
      BY <1>1, <1>2, <1>6, <2>2 DEF Advanced
    <3>2. CASE k \in msgs
      <4>1. k.seq = m.seq
        BY <1>1, <1>2, <3>1, <3>2
      <4>2. k = m
        BY <1>3, <3>2, <4>1
      <4> QED BY <1>5, <4>2
    <3> QED BY <1>3, <1>4, <3>1, <3>2
  <2> QED BY <2>1, <2>2
<1>7. ASSUME NEW j \in msgs', NEW k \in bus, k.seq <= j.seq PROVE Heard(k)' \/ k \in msgs'
  BY <1>1, <1>3, <1>4, <1>5, <1>7
<1>8. seq' <= lastSeq
  BY <1>1, <1>2, <1>3 DEF Advanced
<1>9. NoSkippedMessage'
  BY <1>1, <1>6 DEF NoSkippedMessage, Heard
<1>10. Local => \A k \in bus : k.ver \in applied'
  BY <1>1 DEF Ordered
<1>11. /\ \A x \in bus' \cup msgs' : x.seq \in 1..lastSeq'
       /\ \A x, y \in bus' \cup msgs' : x.seq = y.seq => x = y
  BY <1>1, <1>3
<1>12. \A j \in msgs', k \in bus' : k.seq <= j.seq => Heard(k)' \/ k \in msgs'
  BY <1>1, <1>7
<1>13. Local => (\A k \in bus' : k.ver \in applied') /\ \A x \in told' : x.mine /\ x.ver \in applied'
  BY <1>1, <1>10 DEF Ordered
<1>14. /\ boot'.at \in {"load", "seq"} => \A k \in bus' : k.seq <= boot'.head => k.ver <= base'
       /\ ~Local => ctl' = NoCtl /\ \A x \in told' : ~x.mine
       /\ drawn' = {} /\ IsFiniteSet(bus') /\ boot'.head <= lastSeq'
  BY <1>1 DEF Ordered
<1> QED BY <1>1, <1>8, <1>9, <1>11, <1>12, <1>13, <1>14 DEF Ordered

\* Messages are only ever passed over by what is known of them.
LEMMA NextOrdered ==
    ASSUME SQLite, Local => ~Peers /\ ~Crashes
    PROVE  Sound /\ Ordered /\ [Next]_vars => Ordered'
<1> SUFFICES ASSUME Sound, Ordered, [Next]_vars PROVE Ordered'
  OBVIOUS
<1>1. ASSUME NEW kind \in Controls, LocalWrite(kind) \/ PeerWrite(kind) PROVE Ordered'
  BY <1>1, WriteOrdered
<1>2. CASE Announce
  BY <1>2, AnnounceOrdered
<1>3. ASSUME NEW t \in told, AppendMessage(t) \/ Draw(t) PROVE Ordered'
  BY <1>3, AppendOrdered DEF Draw
<1>4. ASSUME NEW m \in drawn, Commit(m) PROVE Ordered'
  BY <1>4 DEF Ordered
<1>5. CASE (\E m \in told \cup drawn : Lost(m)) \/ (\E m \in bus : Prune(m))
  BY <1>5, LostOrdered
<1>6. CASE PollRead
  BY <1>6, PollReadOrdered
<1>7. ASSUME NEW m \in msgs, PollApply(m) PROVE Ordered'
  BY <1>7, PollApplyOrdered
<1>8. ASSUME NEW l \in Lookups, FetchRead(l) \/ FetchFail(l) \/ Insert(l) \/ Rehash(l) PROVE Ordered'
  <2>1. UNCHANGED <<drawn, bus, lastSeq, seq, msgs, applied, base, boot, ctl, told>>
    BY <1>8 DEF FetchRead, FetchFail, Insert, Rehash, storeVars, pollVars
  <2> QED BY <2>1, OrderedSame
<1>9. CASE Publish \/ RefreshRead \/ LoadStore \/ Tick \/ UNCHANGED vars
  <2>1. UNCHANGED <<drawn, bus, lastSeq, seq, msgs, applied, base, boot, ctl, told>>
    BY <1>9 DEF Publish, RefreshRead, LoadStore, Tick, vars, storeVars, pollVars
  <2> QED BY <2>1, OrderedSame
<1>10. CASE RejoinHead \/ RejoinRead \/ RejoinSeq \/ RejoinFail \/ LoadDrop
  BY <1>10, RejoinOrdered
<1>11. CASE Crash
  BY <1>11, CrashOrdered
<1> QED
  BY <1>1, <1>2, <1>3, <1>4, <1>5, <1>6, <1>7, <1>8, <1>9, <1>10, <1>11 DEF Next

\* Poll, Publish and Rejoin: the watermark passes over no message the node does not know
\* the change of, where a message is numbered and visible at once and where the node's
\* own publications, which move the watermark by themselves, are all there are, with no
\* restart among them.
THEOREM NoSkippedMessageHolds ==
    ASSUME SQLite, Local => ~Peers /\ ~Crashes
    PROVE  Spec => []NoSkippedMessage
<1>1. Init => Ordered
  <2> SUFFICES ASSUME Init PROVE Ordered
    OBVIOUS
  <2>1. /\ drawn = {} /\ bus = {} /\ msgs = {} /\ told = {} /\ seq = 0 /\ lastSeq = 0 /\ ctl = NoCtl
        /\ boot = [at |-> "head", head |-> 0]
    BY DEF Init
  <2>2. IsFiniteSet(bus) /\ boot.head = 0 /\ boot.at = "head"
    BY <2>1, FS_EmptySet
  <2> QED BY <2>1, <2>2 DEF Ordered, NoSkippedMessage
<1>2. Sound /\ Ordered /\ [Next]_vars => Ordered'
  BY NextOrdered
<1>3. Ordered => NoSkippedMessage
  BY DEF Ordered
<1> QED BY <1>1, <1>2, <1>3, Soundness, PTL DEF Spec
=============================================================================
