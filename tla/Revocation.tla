----------------------------- MODULE Revocation -----------------------------
(***************************************************************************)
(* How a change of an API key reaches the credential caches: the controls  *)
(* of internal/cluster/keycontrol.go write the key's rows and announce the *)
(* change, the announcement is a row of the key_invalidations table, and   *)
(* the node polls that table past a watermark and drops the key from its   *)
(* cache.  The cache of internal/auth is a snapshot read without a lock    *)
(* and an overlay of entries learned since, both filled from the store.    *)
(*                                                                         *)
(* One node is modelled in full; the other nodes of the cluster are what   *)
(* they are to it, writers of rows and of messages (the peers).  Nodes     *)
(* share nothing but the store, so every node of a cluster is this one.    *)
(* One key is modelled, with the secrets of its successive rotations as    *)
(* the lookups the cache is indexed by; traffic on other keys appears as   *)
(* the overlay's folds and drops happening at any insertion.  The plain    *)
(* row is abstracted to a version: rows is the history of the key's state, *)
(* and a cached entry remembers which version it was built from.           *)
(*                                                                         *)
(* Time is relative: Tick ages the entries and the versions, so no clock   *)
(* bounds a behaviour.  A secret in grace is refused from its own recorded *)
(* expiry by every copy of its row, so grace ends here only by being cut.  *)
(***************************************************************************)
EXTENDS Integers, Sequences, FiniteSets, FiniteSetsExt

CONSTANTS
    MaxGen,       \* bound: secrets a key is given, one generation each
    MaxSecrets,   \* auth.rotation.max_secrets
    Controls,     \* the controls that are used
    MaxVersion,   \* bound: versions of the key's rows
    EntryTTL,     \* lifetime of a serving entry learned at runtime
    NegativeTTL,  \* lifetime of a refusal
    StoreTimeout, \* bound on one store lookup
    Batch,        \* messages one poll reads
    Local,        \* controls are issued on this node
    Peers,        \* controls are issued on other nodes
    SQLite,       \* the store returns the sequence number and has one writer
    Crashes       \* the process may be restarted

ASSUME RevocationAssumption ==
    /\ {MaxGen, MaxSecrets, MaxVersion, EntryTTL, NegativeTTL, Batch} \subseteq Nat \ {0}
    /\ StoreTimeout \in Nat /\ NegativeTTL <= EntryTTL
    /\ Controls \subseteq {"pend", "release", "revoke", "rotate", "cut", "delete"}
    /\ {Local, Peers, SQLite, Crashes} \subseteq BOOLEAN

VARIABLES
    \* the store
    rows,     \* the versions of the key's rows, the last one current
    since,    \* ticks since each version became current, up to Horizon
    told,     \* changes written and not yet given a sequence number
    drawn,    \* messages with a sequence number, not yet visible
    bus,      \* the key_invalidations table
    lastSeq,  \* the last sequence number drawn
    \* the node
    snap,     \* the snapshot: an entry per lookup
    overlay,  \* the entries learned since the last fold
    swap,     \* the mutex: a snapshot built under it and not yet published
    fetch,    \* the store lookup in flight for each lookup
    load,     \* the bulk load in progress
    ctl,      \* a control of this node between its write and its local drop
    boot,     \* how far the start of the process has come
    seq,      \* the watermark
    msgs,     \* messages read by the poll and not yet applied
    \* history
    applied,  \* versions whose message this process has applied
    base,     \* the version the start of this process loaded
    returned  \* the newest version a control of this node has returned for

storeVars == <<rows, since, told, drawn, bus, lastSeq>>
cacheVars == <<snap, overlay, swap, fetch, load>>
pollVars  == <<seq, msgs, applied>>
vars == <<storeVars, cacheVars, ctl, boot, pollVars, base, returned>>

Lookups  == 1..MaxGen
Versions == 1..MaxVersion
Forever  == EntryTTL + 1                        \* expires = 0
Horizon  == EntryTTL + StoreTimeout + 1
Now      == Len(rows)

NoEntry == [ver |-> 0, ttl |-> 0, late |-> 0]
Empty   == [l \in Lookups |-> NoEntry]
NoSwap  == [on |-> FALSE, map |-> Empty, mine |-> FALSE]
NoFetch == [ver |-> 0, left |-> 0, late |-> 0]
NoLoad  == [at |-> "idle", ver |-> 0, late |-> 0]
NoCtl   == [ver |-> 0, lookups |-> {}]

\* A key that has been rotated gens - 1 times, its superseded secrets in grace.
FirstRow(gens, pended) ==
    [blocked |-> FALSE, pended |-> pended,
     sec |-> [l \in Lookups |->
        CASE l < gens -> "grace" [] l = gens -> "current" [] l > gens -> "absent"]]

Init ==
    /\ \E gens \in Lookups, pended \in BOOLEAN :
            /\ gens <= MaxSecrets /\ (pended => "release" \in Controls)
            /\ rows = <<FirstRow(gens, pended)>>
    /\ since = [v \in Versions |-> 0]
    /\ told = {} /\ drawn = {} /\ bus = {} /\ lastSeq = 0
    /\ snap = Empty /\ overlay = Empty /\ swap = NoSwap
    /\ fetch = [l \in Lookups |-> NoFetch] /\ load = NoLoad /\ ctl = NoCtl
    /\ boot = [at |-> "head", head |-> 0]
    /\ seq = 0 /\ msgs = {} /\ applied = {} /\ base = 0 /\ returned = 0

-----------------------------------------------------------------------------
(* What a version of the rows says of a lookup.                              *)

Found(v, l)   == rows[v].sec[l] # "absent"
Refuses(v, l) == rows[v].blocked \/ rows[v].pended \/ rows[v].sec[l] \in {"cut", "absent"}

Live(e)      == e.ver # 0 /\ e.ttl # 0
Positive(e, l) == e.ver # 0 /\ Found(e.ver, l)

\* The entry a request is answered from, the snapshot first.
Answer(l) == IF Live(snap[l]) THEN snap[l] ELSE IF Live(overlay[l]) THEN overlay[l] ELSE NoEntry

Serves(l) == Live(Answer(l)) /\ ~Refuses(Answer(l).ver, l)

\* Mutant: a row that was found is kept as long as one that serves.
EntryLifeFound(v, l) == IF Found(v, l) THEN EntryTTL ELSE NegativeTTL

\* A refusal, of an unknown key or of a row that was found, is remembered for
\* less time.
EntryLife(v, l) == IF Refuses(v, l) THEN NegativeTTL ELSE EntryTTL

\* The records a bulk load publishes; they do not expire.
Bulk(r) == [l \in Lookups |->
    IF Found(r.ver, l) THEN [ver |-> r.ver, ttl |-> Forever, late |-> r.late] ELSE NoEntry]

-----------------------------------------------------------------------------
(* The controls.                                                             *)

Row     == rows[Now]
Secrets(r, states) == {l \in Lookups : r.sec[l] \in states}
Known(r) == Secrets(r, {"current", "grace", "cut"})

\* RotateKey: the current secret goes into grace, the next generation becomes
\* current, and the oldest live secrets beyond max_secrets are cut.
RotatedRow ==
    LET new  == Max(Known(Row)) + 1
        live == {new} \cup Secrets(Row, {"current", "grace"})
        cut  == {l \in live : Cardinality({m \in live : m >= l}) > MaxSecrets}
    IN  [Row EXCEPT !.sec = [l \in Lookups |->
            CASE l \in cut -> "cut" [] l = new -> "current" [] l \in live -> "grace" [] OTHER -> @[l]]]

NewRow(kind) ==
    CASE kind = "pend"    -> [Row EXCEPT !.pended = TRUE]
      [] kind = "release" -> [Row EXCEPT !.pended = FALSE]
      [] kind = "revoke"  -> [Row EXCEPT !.blocked = TRUE]
      [] kind = "rotate"  -> RotatedRow
      [] kind = "cut"     -> [Row EXCEPT !.sec = [l \in Lookups |-> IF @[l] = "grace" THEN "cut" ELSE @[l]]]
      [] kind = "delete"  -> [Row EXCEPT !.sec = [l \in Lookups |-> "absent"]]

\* The lookups the announcement names: the secrets cut by a rotation or by the
\* end of a grace period, every secret the store still has otherwise.
Named(kind) ==
    IF kind \in {"rotate", "cut"}
    THEN Secrets(NewRow(kind), {"cut"}) \ Secrets(Row, {"cut"})
    ELSE Known(NewRow(kind))

\* The control's transaction, if it does not fail.
Write(kind) ==
    /\ kind \in Controls
    /\ Now < MaxVersion
    /\ kind = "pend" => Known(Row) # {}
    /\ kind = "rotate" => Secrets(Row, {"current"}) # {} /\ Max(Known(Row)) < MaxGen
    /\ rows' = Append(rows, NewRow(kind))
    /\ UNCHANGED <<since, drawn, bus, lastSeq>>

\* Mutant: only the secrets the message names are dropped.
DroppedByLookup(map, lookups) ==
    [l \in Lookups |-> IF l \in lookups THEN NoEntry ELSE map[l]]

\* The drop of internal/auth's Apply, for one map: by lookup, and every entry
\* of the key by its id.
Dropped(map, lookups) ==
    [l \in Lookups |-> IF l \in lookups \/ Positive(map[l], l) THEN NoEntry ELSE map[l]]

\* A read of the store still in flight when version v's drop happens.
Overtaken(r, v) == [r EXCEPT !.late = IF r.ver # 0 /\ r.ver < v /\ @ < v THEN v ELSE @]

\* Apply, which holds the mutex from here to Publish when the snapshot has to
\* be replaced.
Apply(v, lookups, mine) ==
    /\ ~swap.on
    /\ overlay' = Dropped(overlay, lookups)
    /\ swap' = IF Dropped(snap, lookups) = snap THEN swap
               ELSE [on |-> TRUE, map |-> Dropped(snap, lookups), mine |-> mine]
    /\ fetch' = [l \in Lookups |-> Overtaken(fetch[l], v)]
    /\ load' = Overtaken(load, v)
    /\ applied' = applied \cup {v}
    /\ UNCHANGED snap

\* A control of this node: the durable write, then the local drop, then the
\* publication, which returns to the caller.
LocalWrite(kind) ==
    /\ Local /\ boot.at = "up"
    /\ ctl = NoCtl /\ ~\E t \in told \cup drawn : t.mine
    /\ Write(kind)
    /\ ctl' = [ver |-> Now + 1, lookups |-> Named(kind)]
    /\ UNCHANGED <<told, cacheVars, boot, pollVars, base, returned>>

Announce ==
    /\ ctl # NoCtl
    /\ Apply(ctl.ver, ctl.lookups, TRUE)
    /\ told' = told \cup {[ver |-> ctl.ver, lookups |-> ctl.lookups, mine |-> TRUE]}
    /\ ctl' = NoCtl
    /\ UNCHANGED <<rows, since, drawn, bus, lastSeq, boot, seq, msgs, base, returned>>

\* A control of another node, between its write and its publication.
PeerWrite(kind) ==
    /\ Peers
    /\ Write(kind)
    /\ told' = told \cup {[ver |-> Now + 1, lookups |-> Named(kind), mine |-> FALSE]}
    /\ UNCHANGED <<cacheVars, ctl, boot, pollVars, base, returned>>

Numbered(t) == [seq |-> lastSeq + 1, ver |-> t.ver, lookups |-> t.lookups, mine |-> t.mine]

\* The local drop of a control of this node is complete before it publishes.
Announced(t) == t.mine => ~(swap.on /\ swap.mine)

\* The watermark only moves forward.
Advanced(s) == IF s > seq THEN s ELSE seq

\* The message becomes visible and Publish returns: the node moves its watermark
\* past its own message when the store told it the sequence number.
Visible(m) ==
    /\ bus' = bus \cup {[seq |-> m.seq, ver |-> m.ver, lookups |-> m.lookups]}
    /\ seq' = IF m.mine /\ SQLite THEN Advanced(m.seq) ELSE seq
    /\ returned' = IF m.mine /\ m.ver > returned THEN m.ver ELSE returned
    /\ UNCHANGED <<rows, since, cacheVars, ctl, boot, msgs, applied, base>>

\* With one writer at a time a message is numbered and visible in one step.
AppendMessage(t) ==
    /\ SQLite /\ t \in told /\ Announced(t)
    /\ told' = told \ {t} /\ lastSeq' = lastSeq + 1
    /\ Visible(Numbered(t))
    /\ UNCHANGED drawn

\* Elsewhere it takes its number before its transaction commits.
Draw(t) ==
    /\ ~SQLite /\ t \in told /\ Announced(t)
    /\ told' = told \ {t} /\ lastSeq' = lastSeq + 1
    /\ drawn' = drawn \cup {Numbered(t)}
    /\ UNCHANGED <<rows, since, bus, cacheVars, ctl, boot, pollVars, base, returned>>

Commit(m) ==
    /\ m \in drawn
    /\ drawn' = drawn \ {m}
    /\ Visible(m)
    /\ UNCHANGED <<told, lastSeq>>

\* The publication fails, or its process dies before it: the control reports an
\* error, or nothing at all, and the message never exists.
Lost(m) ==
    /\ m \in told \cup drawn
    /\ told' = told \ {m} /\ drawn' = drawn \ {m}
    /\ Announced(m)
    /\ returned' = IF m.mine /\ m.ver > returned THEN m.ver ELSE returned
    /\ UNCHANGED <<rows, since, bus, lastSeq, cacheVars, ctl, boot, pollVars, base>>

\* The leader prunes what has been retained long enough.
Prune(m) ==
    /\ m \in bus
    /\ since[m.ver] = Horizon
    /\ bus' = bus \ {m}
    /\ UNCHANGED <<rows, since, told, drawn, lastSeq, cacheVars, ctl, boot, pollVars, base, returned>>

-----------------------------------------------------------------------------
(* The poller.                                                               *)

InvalidationsSince(s) ==
    LET after == {m \in bus : m.seq > s}
    IN  {m \in after : Cardinality({k \in after : k.seq <= m.seq}) <= Batch}

PollRead ==
    /\ msgs = {} /\ InvalidationsSince(seq) # {}
    /\ msgs' = InvalidationsSince(seq)
    /\ UNCHANGED <<storeVars, cacheVars, ctl, boot, seq, applied, base, returned>>

\* The messages of one poll are applied oldest first.
PollApply(m) ==
    /\ m \in msgs /\ \A k \in msgs : m.seq <= k.seq
    /\ Apply(m.ver, m.lookups, FALSE)
    /\ seq' = Advanced(m.seq)
    /\ msgs' = msgs \ {m}
    /\ UNCHANGED <<storeVars, ctl, boot, base, returned>>

-----------------------------------------------------------------------------
(* Requests: a miss is one store lookup for all the callers waiting on it.   *)

FetchRead(l) ==
    /\ boot.at = "up"
    /\ fetch[l] = NoFetch /\ ~Live(Answer(l))
    /\ fetch' = [fetch EXCEPT ![l] = [ver |-> Now, left |-> StoreTimeout, late |-> 0]]
    /\ UNCHANGED <<storeVars, snap, overlay, swap, load, ctl, boot, pollVars, base, returned>>

\* An error of the store, its timeout, or the budget for unknown keys: nothing
\* is cached.
FetchFail(l) ==
    /\ fetch[l] # NoFetch
    /\ fetch' = [fetch EXCEPT ![l] = NoFetch]
    /\ UNCHANGED <<storeVars, snap, overlay, swap, load, ctl, boot, pollVars, base, returned>>

Learned(l) ==
    [ver |-> fetch[l].ver, ttl |-> EntryLife(fetch[l].ver, l), late |-> fetch[l].late]

\* insert: the overlay takes the entry, and then, according to how much it
\* holds of other keys, keeps it, drops everything, drops the unknown keys, or
\* folds the known ones into a new snapshot.
WithLearned(l) == [overlay EXCEPT ![l] = Learned(l)]

Folded(map, over) == [l \in Lookups |-> IF Positive(over[l], l) THEN over[l] ELSE map[l]]

Insert(l) ==
    /\ fetch[l] # NoFetch /\ ~swap.on
    /\ fetch' = [fetch EXCEPT ![l] = NoFetch]
    /\ \/ overlay' = WithLearned(l) /\ UNCHANGED swap
       \/ overlay' = Empty /\ UNCHANGED swap
       \/ /\ overlay' = [m \in Lookups |->
                IF Positive(WithLearned(l)[m], m) THEN WithLearned(l)[m] ELSE NoEntry]
          /\ UNCHANGED swap
       \/ /\ swap' = [on |-> TRUE, map |-> Folded(snap, WithLearned(l)), mine |-> FALSE]
          /\ overlay' = [m \in Lookups |->
                IF Positive(WithLearned(l)[m], m) THEN NoEntry ELSE WithLearned(l)[m]]
    /\ UNCHANGED <<storeVars, snap, load, ctl, boot, pollVars, base, returned>>

\* The snapshot built under the mutex is published and the mutex given back.
Publish ==
    /\ swap.on
    /\ snap' = swap.map /\ swap' = NoSwap
    /\ UNCHANGED <<storeVars, overlay, fetch, load, ctl, boot, pollVars, base, returned>>

\* The rehash worker upgraded a row in use: its lookup is re-read.
Rehash(l) ==
    /\ Serves(l) /\ ~swap.on
    /\ overlay' = [overlay EXCEPT ![l] = NoEntry]
    /\ swap' = IF snap[l] = NoEntry THEN swap
               ELSE [on |-> TRUE, map |-> [snap EXCEPT ![l] = NoEntry], mine |-> FALSE]
    /\ UNCHANGED <<storeVars, snap, fetch, load, ctl, boot, pollVars, base, returned>>

-----------------------------------------------------------------------------
(* Bulk loads: the periodic Refresh, and Rejoin at the start of the process. *)

RefreshRead ==
    /\ boot.at = "up" /\ load = NoLoad
    /\ load' = [at |-> "read", ver |-> Now, late |-> 0]
    /\ UNCHANGED <<storeVars, snap, overlay, swap, fetch, ctl, boot, pollVars, base, returned>>

\* Mutant: a load keeps the entries that are still live.
LoadKeeping ==
    /\ load.at = "read"
    /\ snap' = [l \in Lookups |-> IF Live(snap[l]) THEN snap[l] ELSE Bulk(load)[l]]
    /\ load' = [load EXCEPT !.at = "stored"]
    /\ UNCHANGED <<storeVars, overlay, swap, fetch, ctl, boot, pollVars, base, returned>>

\* Load publishes the snapshot without the mutex ...
LoadStore ==
    /\ load.at = "read"
    /\ snap' = Bulk(load)
    /\ load' = [load EXCEPT !.at = "stored"]
    /\ UNCHANGED <<storeVars, overlay, swap, fetch, ctl, boot, pollVars, base, returned>>

\* ... and then drops the overlay under it.
LoadDrop ==
    /\ load.at = "stored" /\ ~swap.on
    /\ overlay' = Empty
    /\ load' = NoLoad
    /\ boot' = IF boot.at = "load" THEN [boot EXCEPT !.at = "seq"] ELSE boot
    /\ UNCHANGED <<storeVars, snap, swap, fetch, ctl, pollVars, base, returned>>

Latest == IF bus = {} THEN 0 ELSE Max({m.seq : m \in bus})

\* Rejoin: the head of the table is read before the reload, the watermark set
\* after it.  The poller is already running.
RejoinHead ==
    /\ boot.at = "head"
    /\ boot' = [at |-> "clear", head |-> Latest]
    /\ UNCHANGED <<storeVars, cacheVars, ctl, pollVars, base, returned>>

RejoinRead ==
    /\ boot.at = "clear" /\ ~swap.on
    /\ snap' = Empty /\ overlay' = Empty
    /\ load' = [at |-> "read", ver |-> Now, late |-> 0]
    /\ base' = Now
    /\ boot' = [boot EXCEPT !.at = "load"]
    /\ UNCHANGED <<storeVars, swap, fetch, ctl, pollVars, returned>>

\* Mutant: the head of the table is read after the reload.
RejoinSeqLate ==
    /\ boot.at = "seq"
    /\ seq' = Latest
    /\ boot' = [at |-> "up", head |-> 0]
    /\ UNCHANGED <<storeVars, cacheVars, ctl, msgs, applied, base, returned>>

RejoinSeq ==
    /\ boot.at = "seq"
    /\ seq' = boot.head
    /\ boot' = [at |-> "up", head |-> 0]
    /\ UNCHANGED <<storeVars, cacheVars, ctl, msgs, applied, base, returned>>

\* A reload that fails leaves an empty cache and the watermark where it was.
RejoinFail ==
    /\ boot.at \in {"head", "clear"}
    /\ boot' = [at |-> "up", head |-> 0]
    /\ UNCHANGED <<storeVars, cacheVars, ctl, pollVars, base, returned>>

\* The process dies and a new one starts with nothing; a control it was in the
\* middle of is never announced.
Crash ==
    /\ Crashes
    /\ snap' = Empty /\ overlay' = Empty /\ swap' = NoSwap
    /\ fetch' = [l \in Lookups |-> NoFetch] /\ load' = NoLoad /\ ctl' = NoCtl
    /\ boot' = [at |-> "head", head |-> 0]
    /\ seq' = 0 /\ msgs' = {} /\ applied' = {} /\ base' = 0
    /\ told' = {t \in told : ~t.mine} /\ drawn' = {m \in drawn : ~m.mine}
    /\ UNCHANGED <<rows, since, bus, lastSeq, returned>>

-----------------------------------------------------------------------------

Aged(map) == [l \in Lookups |->
    IF map[l].ttl \in {0, Forever} THEN map[l] ELSE [map[l] EXCEPT !.ttl = @ - 1]]

\* Time passes; a lookup that reaches its timeout fails.  The time between a
\* lookup's answer and its insertion counts as part of the lookup.
Tick ==
    /\ snap' = Aged(snap) /\ overlay' = Aged(overlay)
    /\ swap' = [swap EXCEPT !.map = Aged(@)]
    /\ fetch' = [l \in Lookups |-> IF fetch[l].left = 0 THEN NoFetch ELSE [fetch[l] EXCEPT !.left = @ - 1]]
    /\ since' = [v \in Versions |-> IF v \in 2..Now /\ since[v] < Horizon THEN since[v] + 1 ELSE since[v]]
    /\ UNCHANGED <<rows, told, drawn, bus, lastSeq, load, ctl, boot, pollVars, base, returned>>

Next ==
    \/ \E kind \in Controls : LocalWrite(kind) \/ PeerWrite(kind)
    \/ Announce
    \/ \E t \in told : AppendMessage(t) \/ Draw(t)
    \/ \E m \in drawn : Commit(m)
    \/ \E m \in told \cup drawn : Lost(m)
    \/ \E m \in bus : Prune(m)
    \/ PollRead \/ (\E m \in msgs : PollApply(m))
    \/ \E l \in Lookups : FetchRead(l) \/ FetchFail(l) \/ Insert(l) \/ Rehash(l)
    \/ Publish
    \/ RefreshRead \/ LoadStore \/ LoadDrop
    \/ RejoinHead \/ RejoinRead \/ RejoinSeq \/ RejoinFail \/ Crash
    \/ Tick

\* What the timers and the goroutines guarantee: time passes, whatever is in
\* progress is finished, and the refresh, which comes round for ever, does not
\* run in lockstep with the folds of the overlay.  Nothing is assumed of the
\* poller, of the peers or of the messages.
Fairness ==
    /\ WF_vars(Tick) /\ WF_vars(Publish) /\ SF_vars(LoadDrop)
    /\ WF_vars(RejoinHead) /\ WF_vars(RejoinRead) /\ WF_vars(RejoinSeq)
    /\ WF_vars(RefreshRead) /\ SF_vars(RefreshRead /\ ~swap.on)
    /\ WF_vars(LoadStore) /\ SF_vars(LoadStore /\ ~swap.on)

Spec     == Init /\ [][Next]_vars
FairSpec == Spec /\ Fairness

-----------------------------------------------------------------------------
(* Properties.                                                               *)

Entry == [ver : 0..MaxVersion, ttl : 0..Forever, late : 0..MaxVersion]

\* Type correctness of the state of the store, of the cache and of the poller.
TypeOK ==
    /\ rows \in Seq([blocked : BOOLEAN, pended : BOOLEAN,
                     sec : [Lookups -> {"absent", "current", "grace", "cut"}]])
    /\ Len(rows) \in Versions
    /\ since \in [Versions -> 0..Horizon]
    /\ told \subseteq [ver : Versions, lookups : SUBSET Lookups, mine : BOOLEAN]
    /\ drawn \subseteq [seq : Nat, ver : Versions, lookups : SUBSET Lookups, mine : BOOLEAN]
    /\ bus \cup msgs \subseteq [seq : Nat, ver : Versions, lookups : SUBSET Lookups]
    /\ snap \in [Lookups -> Entry] /\ overlay \in [Lookups -> Entry]
    /\ swap \in [on : BOOLEAN, map : [Lookups -> Entry], mine : BOOLEAN]
    /\ fetch \in [Lookups -> [ver : 0..MaxVersion, left : 0..StoreTimeout, late : 0..MaxVersion]]
    /\ load \in [at : {"idle", "read", "stored"}, ver : 0..MaxVersion, late : 0..MaxVersion]
    /\ ctl \in [ver : 0..MaxVersion, lookups : SUBSET Lookups]
    /\ boot \in [at : {"head", "clear", "load", "seq", "up"}, head : Nat]
    /\ {seq, lastSeq} \subseteq Nat /\ applied \subseteq Versions
    /\ {base, returned} \subseteq 0..MaxVersion

\* Drop on receipt: once the node has applied a message, no map holds an entry
\* of the key built from rows older than the change, whatever secret it is
\* indexed by and whether or not the message named it, unless the read that
\* built it was still in flight when the message was applied.
DropsOnReceipt ==
    ~swap.on => \A l \in Lookups, v \in applied : \A e \in {snap[l], overlay[l]} :
        Positive(e, l) /\ e.ver < v => v <= e.late

\* A watermark past a message means its change is known: the node applied the
\* message, or loaded every row after the change when it started.
NoSkippedMessage ==
    \A m \in bus : m.seq <= seq => m.ver \in applied \/ m.ver <= base

\* The fallback without any message: an entry learned at runtime answers for less
\* than the entry TTL, and a refusal for less than the negative TTL, plus one
\* store lookup, after the rows it was built from were superseded.
BoundedFallback ==
    \A l \in Lookups : LET e == Answer(l) IN
        Live(e) /\ e.ttl # Forever /\ e.ver < Now
            => since[e.ver + 1] < StoreTimeout + (IF Refuses(e.ver, l) THEN NegativeTTL ELSE EntryTTL)

\* A key that is refused for good in the store is in the end refused by the
\* node, even when no message about it ever arrives.
RevocationTakesEffect ==
    \A l \in Lookups : <>[]Refuses(Now, l) => <>[]~Serves(l)

\* What a single node promises: when a control of this node has returned, a
\* secret it stopped does not serve here, "the control and the effect are the
\* same operation".  Does not hold of the code, see the README.
StoppedWhenControlReturns ==
    \A l \in Lookups : returned = Now /\ Refuses(Now, l) => ~Serves(l)
=============================================================================
