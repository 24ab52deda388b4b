--------------------------- MODULE AccountsProofs ---------------------------
(***************************************************************************)
(* Proofs about Accounts, for any number of nodes, calls and slots and any *)
(* lifetimes: the state is well formed, a live lease is not recycled, and  *)
(* the account's ceiling holds.                                            *)
(***************************************************************************)
EXTENDS Accounts, FiniteSetTheorems, TLAPS

-----------------------------------------------------------------------------
(* Type correctness.                                                       *)

\* The slot a call works on is one of the account's.
LEMMA SlotType ==
    ASSUME TypeOK, NEW c \in Calls
    PROVE  slot[c] \in Slots /\ slot[c] \in 1 .. Limit
  BY DEF TypeOK, Slots

\* A call that gives up is idle again.
LEMMA LeaveType ==
    ASSUME TypeOK, NEW c \in Calls, Leave(c)
    PROVE  /\ pc' = [pc EXCEPT ![c] = "idle"]
           /\ slot' \in [Calls -> Slots]
           /\ lost' \in [Calls -> BOOLEAN]
           /\ due' \in [Calls -> 0 .. TTL]
  BY AccountsAssumption DEF TypeOK, Leave, Goto, Slots

\* try goes on with a slot there is.
LEMMA NextSlotType ==
    ASSUME TypeOK, NEW c \in Calls, NextSlot(c)
    PROVE  /\ \/ pc' = [pc EXCEPT ![c] = "idle"]
              \/ pc' = [pc EXCEPT ![c] = "lock"]
           /\ slot' \in [Calls -> Slots]
           /\ sess' \in [Calls -> BOOLEAN]
           /\ lost' \in [Calls -> BOOLEAN]
           /\ due' \in [Calls -> 0 .. TTL]
<1>1. CASE slot[c] < Limit
  <2>1. /\ pc' = [pc EXCEPT ![c] = "lock"] /\ slot' = [slot EXCEPT ![c] = slot[c] + 1]
        /\ sess' = sess /\ lost' = lost /\ due' = due
    BY <1>1 DEF NextSlot, Goto
  <2>2. slot[c] + 1 \in Slots
    BY <1>1, SlotType, AccountsAssumption DEF Slots
  <2>3. /\ slot \in [Calls -> Slots] /\ sess \in [Calls -> BOOLEAN]
        /\ lost \in [Calls -> BOOLEAN] /\ due \in [Calls -> 0 .. TTL]
    BY DEF TypeOK
  <2> QED
    BY <2>1, <2>2, <2>3
<1>2. CASE ~(slot[c] < Limit)
  BY <1>2, LeaveType DEF TypeOK, NextSlot
<1> QED
  BY <1>1, <1>2

\* What insert, renewal and delete leave in the rows.
LEMMA RowType ==
    ASSUME TypeOK, NEW c \in Calls
    PROVE  /\ Leased(c) \in [Slots -> [id : Calls \cup {None}, left : 0 .. TTL]]
           /\ Renewed(c) \in [Slots -> [id : Calls \cup {None}, left : 0 .. TTL]]
           /\ [row EXCEPT ![slot[c]] = NoRow]
                 \in [Slots -> [id : Calls \cup {None}, left : 0 .. TTL]]
  BY SlotType, AccountsAssumption DEF TypeOK, Leased, Renewed, NoRow

\* Every step of a call keeps the state well formed.
LEMMA CallType ==
    ASSUME TypeOK, NEW c \in Calls,
           Try(c) \/ CallStep(c) \/ Renew(c) \/ RenewFault(c) \/ SessionEnds(c)
    PROVE  TypeOK'
<1> USE DEF TypeOK
<1>1. CASE Try(c)
  BY <1>1 DEF Try, Goto
<1>2. CASE TryLock(c)
  <2>1. CASE lock[slot[c]] = None
    <3>1. lock' = [lock EXCEPT ![slot[c]] = c] /\ pc' = [pc EXCEPT ![c] = "check"]
      BY <1>2, <2>1 DEF TryLock, Goto
    <3>2. UNCHANGED <<slot, sess, lost, due, row, retry, paused>>
      BY <1>2, <2>1 DEF TryLock
    <3>3. lock' \in [Slots -> Calls \cup {None}]
      BY <3>1, SlotType
    <3> QED
      BY <3>1, <3>2, <3>3
  <2>2. CASE lock[slot[c]] # None
    <3>1. NextSlot(c) /\ UNCHANGED <<lock, row, retry, paused>>
      BY <1>2, <2>2 DEF TryLock
    <3> QED
      BY <3>1, NextSlotType
  <2> QED
    BY <2>1, <2>2
<1>3. CASE Check(c)
  BY <1>3 DEF Check, Goto
<1>4. CASE Unlock(c)
  <2>1. /\ NextSlot(c) /\ UNCHANGED <<row, retry, paused>>
        /\ lock' \in [Slots -> Calls \cup {None}]
    BY <1>4, SlotType DEF Unlock
  <2> QED
    BY <2>1, NextSlotType
<1>5. CASE Insert(c)
  <2>1. row' \in [Slots -> [id : Calls \cup {None}, left : 0 .. TTL]]
    BY <1>5, RowType DEF Insert
  <2>2. due' \in [Calls -> 0 .. TTL]
    BY <1>5, AccountsAssumption DEF Insert
  <2> QED
    BY <1>5, <2>1, <2>2 DEF Insert, Goto
<1>6. CASE TryFault(c)
  <2>1. row' \in [Slots -> [id : Calls \cup {None}, left : 0 .. TTL]]
    <3>1. \/ row' = row
          \/ row' = [row EXCEPT ![slot[c]] = [id |-> None, left |-> TTL]]
      BY <1>6 DEF TryFault
    <3>2. [row EXCEPT ![slot[c]] = [id |-> None, left |-> TTL]]
             \in [Slots -> [id : Calls \cup {None}, left : 0 .. TTL]]
      BY SlotType, AccountsAssumption
    <3> QED
      BY <3>1, <3>2
  <2>2. retry' \in [Nodes -> BOOLEAN]
    BY <1>6 DEF TryFault
  <2>3. Leave(c) /\ UNCHANGED <<sess, lock, paused>>
    BY <1>6 DEF TryFault
  <2> QED
    BY <2>1, <2>2, <2>3, LeaveType
<1>7. CASE Finish(c)
  BY <1>7 DEF Finish, Goto
<1>8. CASE Delete(c)
  <2>1. row' \in [Slots -> [id : Calls \cup {None}, left : 0 .. TTL]]
    BY <1>8, RowType DEF Delete
  <2> QED
    BY <1>8, <2>1 DEF Delete, Goto
<1>9. CASE Free(c)
  <2>1. /\ Leave(c) /\ UNCHANGED <<row, retry, paused>>
        /\ lock' \in [Slots -> Calls \cup {None}]
        /\ sess' \in [Calls -> BOOLEAN]
    BY <1>9, SlotType DEF Free
  <2> QED
    BY <2>1, LeaveType
<1>10. CASE ReleaseFault(c)
  <2>1. row' \in [Slots -> [id : Calls \cup {None}, left : 0 .. TTL]]
    <3>1. row' = Orphaned({c}) \/ row' = [row EXCEPT ![slot[c]] = NoRow]
      BY <1>10 DEF ReleaseFault
    <3>2. [row EXCEPT ![slot[c]] = NoRow]
             \in [Slots -> [id : Calls \cup {None}, left : 0 .. TTL]]
      BY SlotType, AccountsAssumption DEF NoRow
    <3>3. Orphaned({c}) \in [Slots -> [id : Calls \cup {None}, left : 0 .. TTL]]
      BY DEF Orphaned
    <3> QED
      BY <3>1, <3>2, <3>3
  <2>2. Leave(c) /\ UNCHANGED <<sess, lock, retry, paused>>
    BY <1>10 DEF ReleaseFault
  <2> QED
    BY <2>1, <2>2, LeaveType
<1>11. CASE Renew(c)
  <2>1. row' \in [Slots -> [id : Calls \cup {None}, left : 0 .. TTL]]
    BY <1>11, RowType DEF Renew
  <2>2. due' \in [Calls -> 0 .. TTL]
    BY <1>11, AccountsAssumption DEF Renew
  <2>3. lost' \in [Calls -> BOOLEAN]
    BY <1>11 DEF Renew
  <2>4. UNCHANGED <<pc, slot, sess, lock, retry, paused>>
    BY <1>11 DEF Renew
  <2> QED
    BY <2>1, <2>2, <2>3, <2>4
<1>12. CASE RenewFault(c)
  <2>1. row' \in [Slots -> [id : Calls \cup {None}, left : 0 .. TTL]]
    BY <1>12, RowType DEF RenewFault
  <2> QED
    BY <1>12, <2>1 DEF RenewFault
<1>13. CASE SessionEnds(c)
  <2>1. lock' \in [Slots -> Calls \cup {None}]
    BY <1>13 DEF SessionEnds, Unlocked
  <2>2. sess' \in [Calls -> BOOLEAN] /\ UNCHANGED <<pc, slot, lost, due, row, retry, paused>>
    BY <1>13 DEF SessionEnds
  <2> QED
    BY <2>1, <2>2
<1> QED
  BY <1>1, <1>2, <1>3, <1>4, <1>5, <1>6, <1>7, <1>8, <1>9, <1>10, <1>11, <1>12, <1>13
     DEF CallStep

\* Every node starts with nothing.
LEMMA InitType == Init => TypeOK
  BY AccountsAssumption DEF Init, TypeOK, NoRow, Slots

\* Each statement and each fault keeps the types.
LEMMA NextType ==
    ASSUME TypeOK, [Next]_vars
    PROVE  TypeOK'
<1>1. CASE UNCHANGED vars
  BY <1>1 DEF TypeOK, vars, callVars
<1>2. ASSUME NEW n \in Nodes, Crash(n)
      PROVE  TypeOK'
  <2>1. row' \in [Slots -> [id : Calls \cup {None}, left : 0 .. TTL]]
    <3>1. row \in [Slots -> [id : Calls \cup {None}, left : 0 .. TTL]]
      BY DEF TypeOK
    <3>2. \A r \in [id : Calls \cup {None}, left : 0 .. TTL] :
             [r EXCEPT !.id = None] \in [id : Calls \cup {None}, left : 0 .. TTL]
      OBVIOUS
    <3>3. row' = [s \in Slots |-> IF row[s].id \in {c \in Calls : NodeOf[c] = n}
                                  THEN [row[s] EXCEPT !.id = None] ELSE row[s]]
      BY <1>2 DEF Crash, Orphaned
    <3> QED
      BY <3>1, <3>2, <3>3
  <2>2. slot' \in [Calls -> Slots] /\ due' \in [Calls -> 0 .. TTL]
    <3>1. slot \in [Calls -> Slots] /\ due \in [Calls -> 0 .. TTL] /\ 1 \in Slots /\ 0 \in 0 .. TTL
      BY AccountsAssumption DEF TypeOK, Slots
    <3>2. /\ slot' = [c \in Calls |-> IF NodeOf[c] = n THEN 1 ELSE slot[c]]
          /\ due' = [c \in Calls |-> IF NodeOf[c] = n THEN 0 ELSE due[c]]
      BY <1>2 DEF Crash
    <3> QED
      BY <3>1, <3>2
  <2>3. lost' \in [Calls -> BOOLEAN]
    BY <1>2 DEF TypeOK, Crash
  <2>4. pc' \in [Calls -> {"idle", "lock", "check", "unlock", "insert", "run",
                           "delete", "free"}]
    BY <1>2 DEF TypeOK, Crash
  <2>5. retry' \in [Nodes -> BOOLEAN] /\ paused' \in [Nodes -> BOOLEAN]
    BY <1>2 DEF TypeOK, Crash
  <2>6. sess' \in [Calls -> BOOLEAN] /\ lock' \in [Slots -> Calls \cup {None}]
    BY <1>2 DEF TypeOK, Crash
  <2> QED
    BY <2>1, <2>2, <2>3, <2>4, <2>5, <2>6 DEF TypeOK
<1>3. ASSUME NEW n \in Nodes, Pause(n) \/ Resume(n)
      PROVE  TypeOK'
  BY <1>3 DEF TypeOK, Pause, Resume, callVars
<1>4. CASE Tick
  <2>1. row' \in [Slots -> [id : Calls \cup {None}, left : 0 .. TTL]]
    <3>1. \A s \in Slots : [row[s] EXCEPT !.left = IF @ > 0 THEN @ - 1 ELSE 0]
                                \in [id : Calls \cup {None}, left : 0 .. TTL]
      BY AccountsAssumption DEF TypeOK
    <3> QED
      BY <1>4, <3>1 DEF Tick
  <2>2. due' \in [Calls -> 0 .. TTL]
    BY <1>4, AccountsAssumption DEF TypeOK, Tick
  <2>3. retry' \in [Nodes -> BOOLEAN]
    BY <1>4 DEF Tick
  <2>4. UNCHANGED <<pc, slot, sess, lost, lock, paused>>
    BY <1>4 DEF Tick
  <2> QED
    BY <2>1, <2>2, <2>3, <2>4 DEF TypeOK
<1> QED
  BY <1>1, <1>2, <1>3, <1>4, CallType DEF Next

\* The state of the calls, of the server's locks and rows and of the nodes stays
\* well formed; no row is good for longer than its lifetime.
THEOREM TypeCorrect == Spec => []TypeOK
  BY InitType, NextType, PTL DEF Spec

-----------------------------------------------------------------------------
(* The inductive invariant.                                                *)

\* A call past pg_try_advisory_lock has the lock as long as it has its session.
Locked ==
    \A c \in Calls :
        pc[c] \in {"check", "unlock", "insert", "run", "delete", "free"} /\ sess[c]
            => lock[slot[c]] = c

\* Between the check and the insert the slot's row stays expired.
CheckedFree ==
    \A c \in Calls : pc[c] = "insert" /\ sess[c] => row[slot[c]].left = 0

\* A call within its lease has the row, which is good for as long.
Backed ==
    \A c \in Calls : Live(c) => row[slot[c]].id = c /\ row[slot[c]].left + due[c] >= TTL

IInv == TypeOK /\ Locked /\ CheckedFree /\ Backed

-----------------------------------------------------------------------------
(* A step of one call, as the others see it and for the call itself.       *)

\* The other calls stay where they are, keep their locks and the rows that are
\* good, and a slot that another call has checked stays expired.
Aside(c) ==
    \A d \in Calls \ {c} :
        /\ pc'[d] = pc[d] /\ slot'[d] = slot[d] /\ sess'[d] = sess[d] /\ due'[d] = due[d]
        /\ \A s \in Slots :
              /\ lock[s] = d => lock'[s] = d
              /\ lock[s] = d /\ row[s].left = 0 => row'[s].left = 0
              /\ row[s].id = d /\ row[s].left > 0 => row'[s] = row[s]

\* The call's own part of the invariant after its step.
Own(c) ==
    /\ pc'[c] \in {"check", "unlock", "insert", "run", "delete", "free"} /\ sess'[c]
          => lock'[slot'[c]] = c
    /\ pc'[c] = "insert" /\ sess'[c] => row'[slot'[c]].left = 0
    /\ pc'[c] = "run" /\ due'[c] < TTL
          => row'[slot'[c]].id = c /\ row'[slot'[c]].left + due'[c] >= TTL

\* A step of one call that has what it needs and leaves the others theirs.
LEMMA CallKeeps ==
    ASSUME IInv, TypeOK', NEW c \in Calls, Aside(c), Own(c)
    PROVE  IInv'
<1>1. Locked'
  <2>1. ASSUME NEW d \in Calls \ {c},
               pc'[d] \in {"check", "unlock", "insert", "run", "delete", "free"} /\ sess'[d]
        PROVE  lock'[slot'[d]] = d
    BY <2>1 DEF IInv, Locked, Aside, TypeOK
  <2> QED
    BY <2>1 DEF Locked, Own
<1>2. CheckedFree'
  <2>1. ASSUME NEW d \in Calls \ {c}, pc'[d] = "insert" /\ sess'[d]
        PROVE  row'[slot'[d]].left = 0
    <3>1. pc[d] = "insert" /\ sess[d] /\ slot'[d] = slot[d] /\ slot[d] \in Slots
      BY <2>1 DEF Aside, IInv, TypeOK
    <3>2. lock[slot[d]] = d /\ row[slot[d]].left = 0
      BY <3>1 DEF IInv, Locked, CheckedFree
    <3> QED
      BY <3>1, <3>2 DEF Aside
  <2> QED
    BY <2>1 DEF CheckedFree, Own
<1>3. Backed'
  <2>1. ASSUME NEW d \in Calls \ {c}, pc'[d] = "run" /\ due'[d] < TTL
        PROVE  row'[slot'[d]].id = d /\ row'[slot'[d]].left + due'[d] >= TTL
    <3>1. /\ pc[d] = "run" /\ due[d] < TTL /\ due'[d] = due[d]
          /\ slot'[d] = slot[d] /\ slot[d] \in Slots
      BY <2>1 DEF Aside, IInv, TypeOK
    <3>2. row[slot[d]].id = d /\ row[slot[d]].left + due[d] >= TTL
      BY <3>1 DEF IInv, Backed, Live
    <3>3. row[slot[d]].left > 0
      BY <3>1, <3>2, AccountsAssumption DEF IInv, TypeOK
    <3>4. row'[slot[d]] = row[slot[d]]
      BY <3>1, <3>2, <3>3 DEF Aside
    <3> QED
      BY <3>1, <3>2, <3>4
  <2> QED
    BY <2>1 DEF Backed, Own, Live
<1> QED
  BY <1>1, <1>2, <1>3 DEF IInv

\* What Leave and NextSlot do to the calls.
LEMMA LeaveAside ==
    ASSUME TypeOK, NEW c \in Calls, Leave(c)
    PROVE  /\ pc'[c] = "idle"
           /\ \A d \in Calls \ {c} : pc'[d] = pc[d] /\ slot'[d] = slot[d] /\ due'[d] = due[d]
  BY DEF TypeOK, Leave, Goto

\* Going on to the next slot claims nothing.
LEMMA NextSlotAside ==
    ASSUME TypeOK, NEW c \in Calls, NextSlot(c)
    PROVE  /\ pc'[c] \in {"idle", "lock"}
           /\ \A d \in Calls \ {c} :
                 pc'[d] = pc[d] /\ slot'[d] = slot[d] /\ sess'[d] = sess[d] /\ due'[d] = due[d]
<1>1. CASE slot[c] < Limit
  BY <1>1 DEF TypeOK, NextSlot, Goto
<1>2. CASE ~(slot[c] < Limit)
  BY <1>2, LeaveAside DEF TypeOK, NextSlot
<1> QED
  BY <1>1, <1>2

\* The session of a call past the lock statement excludes the others'.
LEMMA Excluded ==
    ASSUME IInv, NEW c \in Calls, sess[c],
           pc[c] \in {"check", "unlock", "insert", "run", "delete", "free"}
    PROVE  lock[slot[c]] = c
  BY DEF IInv, Locked

-----------------------------------------------------------------------------
(* One lemma per action.                                                   *)

\* try takes a connection.
LEMMA TryKeeps ==
    ASSUME IInv, NEW c \in Calls, Try(c)
    PROVE  Aside(c) /\ Own(c)
  BY DEF IInv, TypeOK, Try, Goto, Aside, Own

\* pg_try_advisory_lock gives the lock to a session that has none of that slot.
LEMMA TryLockKeeps ==
    ASSUME IInv, NEW c \in Calls, TryLock(c)
    PROVE  Aside(c) /\ Own(c)
<1>1. CASE lock[slot[c]] = None
  <2>1. /\ lock' = [lock EXCEPT ![slot[c]] = c] /\ pc' = [pc EXCEPT ![c] = "check"]
        /\ UNCHANGED <<slot, sess, lost, due, row>>
    BY <1>1 DEF TryLock, Goto
  <2>2. slot[c] \in Slots /\ None \notin Calls
    BY AccountsAssumption DEF IInv, TypeOK
  <2>3. Aside(c)
    BY <1>1, <2>1, <2>2 DEF IInv, TypeOK, Aside
  <2>4. Own(c)
    BY <2>1, <2>2 DEF IInv, TypeOK, Own
  <2> QED
    BY <2>3, <2>4
<1>2. CASE lock[slot[c]] # None
  <2>1. NextSlot(c) /\ UNCHANGED <<lock, row>>
    BY <1>2 DEF TryLock
  <2> QED
    BY <2>1, NextSlotAside DEF IInv, Aside, Own
<1> QED
  BY <1>1, <1>2

\* The row is looked at under the lock.
LEMMA CheckKeeps ==
    ASSUME IInv, NEW c \in Calls, Check(c)
    PROVE  Aside(c) /\ Own(c)
<1>1. /\ pc' = [pc EXCEPT ![c] = IF Occupied(slot[c]) THEN "unlock" ELSE "insert"]
      /\ UNCHANGED <<slot, sess, due, lock, row>>
  BY DEF Check, Goto
<1>2. sess[c] /\ pc[c] = "check" /\ slot[c] \in Slots
  BY DEF Check, Statement, At, IInv, TypeOK
<1>3. Aside(c)
  BY <1>1 DEF IInv, TypeOK, Aside
<1>4. ~Occupied(slot[c]) => row[slot[c]].left = 0
  BY <1>2, AccountsAssumption DEF Occupied, IInv, TypeOK
<1>5. Own(c)
  BY <1>1, <1>2, <1>4, Excluded DEF IInv, TypeOK, Own
<1> QED
  BY <1>3, <1>5

\* The lock of a slot whose row is still live is given back.
LEMMA UnlockKeeps ==
    ASSUME IInv, NEW c \in Calls, Unlock(c)
    PROVE  Aside(c) /\ Own(c)
<1>1. sess[c] /\ pc[c] = "unlock" /\ slot[c] \in Slots
  BY DEF Unlock, Statement, At, IInv, TypeOK
<1>2. lock[slot[c]] = c
  BY <1>1, Excluded
<1>3. NextSlot(c) /\ lock' = [lock EXCEPT ![slot[c]] = None] /\ UNCHANGED row
  BY DEF Unlock
<1>4. \A s \in Slots, d \in Calls \ {c} : lock[s] = d => lock'[s] = d
  BY <1>1, <1>2, <1>3 DEF IInv, TypeOK
<1> QED
  BY <1>3, <1>4, NextSlotAside DEF IInv, Aside, Own

\* The row is written under the lock by the call that found it lapsed.
LEMMA InsertKeeps ==
    ASSUME IInv, NEW c \in Calls, Insert(c)
    PROVE  Aside(c) /\ Own(c)
<1>1. sess[c] /\ pc[c] = "insert" /\ slot[c] \in Slots
  BY DEF Insert, Statement, At, IInv, TypeOK
<1>2. lock[slot[c]] = c /\ row[slot[c]].left = 0
  BY <1>1, Excluded DEF IInv, CheckedFree
<1>3. /\ row' = [row EXCEPT ![slot[c]] = [id |-> c, left |-> TTL]]
      /\ pc' = [pc EXCEPT ![c] = "run"] /\ due' = [due EXCEPT ![c] = 0]
      /\ UNCHANGED <<slot, sess, lock>>
  BY DEF Insert, Leased, Goto
<1>4. Aside(c)
  BY <1>1, <1>2, <1>3 DEF IInv, TypeOK, Aside
<1>5. Own(c)
  BY <1>1, <1>2, <1>3, AccountsAssumption DEF IInv, TypeOK, Own
<1> QED
  BY <1>4, <1>5

\* A statement of try fails, with or without its effect.
LEMMA TryFaultKeeps ==
    ASSUME IInv, NEW c \in Calls, TryFault(c)
    PROVE  Aside(c) /\ Own(c)
<1>1. Leave(c) /\ UNCHANGED <<sess, lock>>
  BY DEF TryFault
<1>2. CASE UNCHANGED row
  BY <1>1, <1>2, LeaveAside DEF IInv, Aside, Own
<1>3. CASE /\ Statement(c, "insert")
           /\ row' = [row EXCEPT ![slot[c]] = [id |-> None, left |-> TTL]]
  <2>1. sess[c] /\ pc[c] = "insert" /\ slot[c] \in Slots
    BY <1>3 DEF Statement, At, IInv, TypeOK
  <2>2. lock[slot[c]] = c /\ row[slot[c]].left = 0
    BY <2>1, Excluded DEF IInv, CheckedFree
  <2>3. \A s \in Slots : s # slot[c] => row'[s] = row[s]
    BY <1>3 DEF IInv, TypeOK
  <2> QED
    BY <1>1, <2>1, <2>2, <2>3, LeaveAside DEF IInv, Aside, Own
<1> QED
  BY <1>2, <1>3 DEF TryFault

\* A renewal writes the row of its own call.
LEMMA RenewKeeps ==
    ASSUME IInv, NEW c \in Calls, Renew(c)
    PROVE  Aside(c) /\ Own(c)
<1>1. /\ sess[c] /\ pc[c] = "run" /\ slot[c] \in Slots
      /\ UNCHANGED <<pc, slot, sess, lock>>
  BY DEF Renew, Statement, At, IInv, TypeOK
<1>2. lock[slot[c]] = c
  BY <1>1, Excluded
<1>3. CASE row[slot[c]].id = c
  <2>1. row' = [row EXCEPT ![slot[c]].left = TTL] /\ due' = [due EXCEPT ![c] = 0]
    BY <1>3 DEF Renew, Renewed
  <2>2. Aside(c)
    BY <1>1, <1>2, <1>3, <2>1 DEF IInv, TypeOK, Aside
  <2>3. Own(c)
    BY <1>1, <1>2, <1>3, <2>1, AccountsAssumption DEF IInv, TypeOK, Own
  <2> QED
    BY <2>2, <2>3
<1>4. CASE row[slot[c]].id # c
  <2>1. UNCHANGED <<row, due>>
    BY <1>4 DEF Renew
  <2>2. Own(c)
    BY <1>1, <1>2, <2>1 DEF IInv, Backed, Live, Own
  <2> QED
    BY <1>1, <2>1, <2>2 DEF Aside
<1> QED
  BY <1>3, <1>4

\* A renewal fails, with or without its effect.
LEMMA RenewFaultKeeps ==
    ASSUME IInv, NEW c \in Calls, RenewFault(c)
    PROVE  Aside(c) /\ Own(c)
<1>1. /\ pc[c] = "run" /\ slot[c] \in Slots
      /\ UNCHANGED <<pc, slot, sess, due, lock>>
  BY DEF RenewFault, At, IInv, TypeOK
<1>2. sess[c] => lock[slot[c]] = c
  BY <1>1, Excluded
<1>3. CASE UNCHANGED row
  <2>1. Own(c)
    BY <1>1, <1>2, <1>3 DEF IInv, Backed, Live, Own
  <2> QED
    BY <1>1, <1>3, <2>1 DEF Aside
<1>4. CASE sess[c] /\ row[slot[c]].id = c /\ row' = Renewed(c)
  <2>1. row' = [row EXCEPT ![slot[c]].left = TTL]
    BY <1>4 DEF Renewed
  <2>2. Aside(c)
    BY <1>1, <1>2, <1>4, <2>1 DEF IInv, TypeOK, Aside
  <2>3. Own(c)
    BY <1>1, <1>2, <1>4, <2>1, AccountsAssumption DEF IInv, TypeOK, Own
  <2> QED
    BY <2>2, <2>3
<1> QED
  BY <1>3, <1>4 DEF RenewFault

\* The upstream call ends.
LEMMA FinishKeeps ==
    ASSUME IInv, NEW c \in Calls, Finish(c)
    PROVE  Aside(c) /\ Own(c)
<1>1. /\ pc[c] = "run" /\ pc' = [pc EXCEPT ![c] = "delete"]
      /\ UNCHANGED <<slot, sess, due, lock, row>>
  BY DEF Finish, At, Goto
<1>2. sess[c] => lock[slot[c]] = c
  BY <1>1, Excluded
<1> QED
  BY <1>1, <1>2 DEF IInv, TypeOK, Aside, Own

\* Deleting one call's row leaves the rows of the others.
LEMMA RowDeleted ==
    ASSUME TypeOK, NEW c \in Calls, row[slot[c]].id = c,
           row' = [row EXCEPT ![slot[c]] = NoRow], NEW s \in Slots
    PROVE  row'[s] = row[s] \/ (row[s].id = c /\ row'[s].left = 0)
<1>1. CASE s = slot[c]
  <2>1. row'[s] = NoRow
    BY <1>1 DEF TypeOK
  <2> QED
    BY <1>1, <2>1 DEF NoRow
<1>2. CASE s # slot[c]
  <2>1. row'[s] = row[s]
    BY <1>2 DEF TypeOK
  <2> QED
    BY <2>1
<1> QED
  BY <1>1, <1>2

\* release deletes its own row.
LEMMA DeleteKeeps ==
    ASSUME IInv, NEW c \in Calls, Delete(c)
    PROVE  Aside(c) /\ Own(c)
<1>1. /\ sess[c] /\ pc[c] = "delete" /\ slot[c] \in Slots
      /\ pc' = [pc EXCEPT ![c] = "free"]
      /\ UNCHANGED <<slot, sess, due, lock>>
  BY DEF Delete, Statement, At, Goto, IInv, TypeOK
<1>2. lock[slot[c]] = c
  BY <1>1, Excluded
<1>3. \A s \in Slots : row'[s] = row[s] \/ (row[s].id = c /\ row'[s].left = 0)
  <2>1. \/ row' = row
        \/ row[slot[c]].id = c /\ row' = [row EXCEPT ![slot[c]] = NoRow]
    BY DEF Delete
  <2> QED
    BY <2>1, RowDeleted, Zenon DEF IInv
<1>4. Aside(c)
  <2> SUFFICES ASSUME NEW d \in Calls \ {c}, NEW s \in Slots
               PROVE  /\ row[s].left = 0 => row'[s].left = 0
                      /\ row[s].id = d => row'[s] = row[s]
    BY <1>1 DEF IInv, TypeOK, Aside
  <2> QED
    BY <1>3
<1>5. Own(c)
  BY <1>1, <1>2 DEF IInv, TypeOK, Own
<1> QED
  BY <1>4, <1>5

\* release gives back its lock.
LEMMA FreeKeeps ==
    ASSUME IInv, NEW c \in Calls, Free(c)
    PROVE  Aside(c) /\ Own(c)
<1>1. sess[c] /\ pc[c] = "free" /\ slot[c] \in Slots
  BY DEF Free, Statement, At, IInv, TypeOK
<1>2. lock[slot[c]] = c
  BY <1>1, Excluded
<1>3. /\ Leave(c) /\ UNCHANGED row
      /\ lock' = [lock EXCEPT ![slot[c]] = None]
      /\ \A d \in Calls \ {c} : sess'[d] = sess[d]
  BY DEF Free, IInv, TypeOK
<1>4. \A s \in Slots, d \in Calls \ {c} : lock[s] = d => lock'[s] = d
  BY <1>1, <1>2, <1>3 DEF IInv, TypeOK
<1> QED
  BY <1>3, <1>4, LeaveAside DEF IInv, Aside, Own

\* A statement of release fails, with or without its effect.
LEMMA ReleaseFaultKeeps ==
    ASSUME IInv, NEW c \in Calls, ReleaseFault(c)
    PROVE  Aside(c) /\ Own(c)
<1>1. Leave(c) /\ UNCHANGED <<sess, lock>>
  BY DEF ReleaseFault
<1>2. CASE row' = Orphaned({c})
  <2>1. \A s \in Slots : /\ row'[s].left = row[s].left
                         /\ row[s].id # c => row'[s] = row[s]
    BY <1>2 DEF Orphaned, IInv, TypeOK
  <2> QED
    BY <1>1, <2>1, LeaveAside DEF IInv, Aside, Own
<1>3. CASE row[slot[c]].id = c /\ row' = [row EXCEPT ![slot[c]] = NoRow]
  <2>1. \A s \in Slots : row'[s] = row[s] \/ (row[s].id = c /\ row'[s].left = 0)
    BY <1>3, RowDeleted DEF IInv
  <2>2. \A s \in Slots, d \in Calls \ {c} :
           /\ row[s].left = 0 => row'[s].left = 0
           /\ row[s].id = d => row'[s] = row[s]
    BY <2>1
  <2> QED
    BY <1>1, <2>2, LeaveAside DEF IInv, Aside, Own
<1> QED
  BY <1>2, <1>3 DEF ReleaseFault

\* The server ends a session and frees its locks.
LEMMA SessionEndsKeeps ==
    ASSUME IInv, NEW c \in Calls, SessionEnds(c)
    PROVE  Aside(c) /\ Own(c)
<1>1. UNCHANGED <<pc, slot, due, row>> /\ ~sess'[c]
  BY DEF SessionEnds, IInv, TypeOK
<1>2. /\ \A d \in Calls \ {c} : sess'[d] = sess[d]
      /\ \A s \in Slots, d \in Calls \ {c} : lock[s] = d => lock'[s] = d
  BY DEF SessionEnds, Unlocked, IInv, TypeOK
<1> QED
  BY <1>1, <1>2 DEF IInv, Backed, Live, Aside, Own

-----------------------------------------------------------------------------
(* The invariant is inductive.                                             *)

\* The inductive invariant holds at the start.
LEMMA InitIInv == Init => IInv
<1> SUFFICES ASSUME Init
             PROVE  IInv
  OBVIOUS
<1>1. TypeOK
  BY InitType
<1>2. Locked /\ CheckedFree /\ Backed
  BY DEF Init, Locked, CheckedFree, Backed, Live
<1> QED
  BY <1>1, <1>2 DEF IInv

\* A process dies with its calls; its rows stay until they lapse.
LEMMA CrashKeeps ==
    ASSUME IInv, TypeOK', NEW n \in Nodes, Crash(n)
    PROVE  IInv'
<1>1. \A c \in Calls :
         \/ pc'[c] = "idle"
         \/ pc'[c] = pc[c] /\ slot'[c] = slot[c] /\ due'[c] = due[c] /\ NodeOf[c] # n
  BY DEF Crash
<1>2. \A s \in Slots :
         /\ row'[s].left = row[s].left
         /\ \A c \in Calls : NodeOf[c] # n /\ row[s].id = c => row'[s].id = c
  BY DEF Crash, Orphaned, IInv, TypeOK
<1>3. UNCHANGED <<sess, lock>>
  BY DEF Crash
<1>4. Locked'
  BY <1>1, <1>3 DEF IInv, Locked
<1>5. CheckedFree'
  BY <1>1, <1>2, <1>3 DEF IInv, CheckedFree, TypeOK
<1>6. Backed'
  <2> SUFFICES ASSUME NEW c \in Calls, pc'[c] = "run" /\ due'[c] < TTL
               PROVE  row'[slot'[c]].id = c /\ row'[slot'[c]].left + due'[c] >= TTL
    BY DEF Backed, Live
  <2>1. /\ pc[c] = "run" /\ due[c] < TTL /\ slot'[c] = slot[c] /\ due'[c] = due[c]
        /\ NodeOf[c] # n /\ slot[c] \in Slots
    BY <1>1 DEF IInv, TypeOK
  <2>2. row[slot[c]].id = c /\ row[slot[c]].left + due[c] >= TTL
    BY <2>1 DEF IInv, Backed, Live
  <2> QED
    BY <1>2, <2>1, <2>2
<1> QED
  BY <1>4, <1>5, <1>6 DEF IInv

\* A row loses what its owner has used up.
LEMMA TickKeeps ==
    ASSUME IInv, TypeOK', Tick
    PROVE  IInv'
<1>1. UNCHANGED <<pc, slot, sess, lock>>
  BY DEF Tick
<1>2. \A s \in Slots :
         /\ row'[s].id = row[s].id
         /\ row'[s].left = IF row[s].left > 0 THEN row[s].left - 1 ELSE 0
  BY DEF Tick, IInv, TypeOK
<1>3. \A c \in Calls : pc[c] = "run" /\ due[c] < TTL => due'[c] = due[c] + 1
  BY DEF Tick, Discarded
<1>4. \A c \in Calls : pc[c] = "run" /\ due'[c] < TTL => due[c] < TTL
  BY DEF Tick, IInv, TypeOK
<1>5. Locked'
  BY <1>1 DEF IInv, Locked
<1>6. CheckedFree'
  BY <1>1, <1>2 DEF IInv, CheckedFree, TypeOK
<1>7. Backed'
  <2> SUFFICES ASSUME NEW c \in Calls, pc'[c] = "run" /\ due'[c] < TTL
               PROVE  row'[slot'[c]].id = c /\ row'[slot'[c]].left + due'[c] >= TTL
    BY DEF Backed, Live
  <2>1. /\ pc[c] = "run" /\ due[c] < TTL /\ slot'[c] = slot[c] /\ due'[c] = due[c] + 1
        /\ slot[c] \in Slots
    BY <1>1, <1>3, <1>4 DEF IInv, TypeOK
  <2>2. row[slot[c]].id = c /\ row[slot[c]].left + due[c] >= TTL
    BY <2>1 DEF IInv, Backed, Live
  <2>3. row[slot[c]].left \in Nat /\ due[c] \in Nat
    BY <2>1, AccountsAssumption DEF IInv, TypeOK
  <2> QED
    BY <1>2, <2>1, <2>2, <2>3, AccountsAssumption
<1> QED
  BY <1>5, <1>6, <1>7 DEF IInv

\* Every step keeps the inductive invariant.
LEMMA NextIInv ==
    ASSUME IInv, [Next]_vars
    PROVE  IInv'
<1>1. TypeOK'
  BY NextType DEF IInv
<1>2. ASSUME NEW c \in Calls,
             Try(c) \/ CallStep(c) \/ Renew(c) \/ RenewFault(c) \/ SessionEnds(c)
      PROVE  IInv'
  <2>1. Aside(c) /\ Own(c)
    BY <1>2, TryKeeps, TryLockKeeps, CheckKeeps, UnlockKeeps, InsertKeeps, TryFaultKeeps,
       RenewKeeps, RenewFaultKeeps, FinishKeeps, DeleteKeeps, FreeKeeps,
       ReleaseFaultKeeps, SessionEndsKeeps
       DEF CallStep
  <2> QED
    BY <1>1, <2>1, CallKeeps
<1>3. ASSUME NEW n \in Nodes, Pause(n) \/ Resume(n)
      PROVE  IInv'
  BY <1>1, <1>3 DEF Pause, Resume, callVars, IInv, Locked, CheckedFree, Backed, Live
<1>4. CASE UNCHANGED vars
  BY <1>1, <1>4 DEF vars, callVars, IInv, Locked, CheckedFree, Backed, Live
<1> QED
  BY <1>1, <1>2, <1>3, <1>4, CrashKeeps, TickKeeps DEF Next

\* The inductive invariant holds throughout.
LEMMA Inductive == Spec => []IInv
  BY InitIInv, NextIInv, PTL DEF Spec

-----------------------------------------------------------------------------
(* The properties.                                                         *)

\* A call within its lease has the row of its slot.
LEMMA LiveRow ==
    ASSUME IInv, NEW c \in Calls, Live(c)
    PROVE  /\ slot[c] \in Slots
           /\ row[slot[c]].id = c
           /\ row[slot[c]].left > 0
  BY AccountsAssumption DEF IInv, TypeOK, Backed, Live

\* While a call is within its lease nobody's session takes its slot past the
\* check, for any number of nodes, calls and slots: the row that try found
\* expired under the lock is nobody's.
THEOREM NeverRecycledHolds == Spec => []NeverRecycled
<1>1. IInv => NeverRecycled
  <2> SUFFICES ASSUME IInv, NEW c \in Calls, NEW d \in Calls,
                      Live(c), pc[d] = "insert" /\ sess[d]
               PROVE  slot[d] # slot[c]
    BY DEF NeverRecycled
  <2>1. row[slot[d]].left = 0
    BY DEF IInv, CheckedFree
  <2> QED
    BY <2>1, LiveRow
<1> QED
  BY <1>1, Inductive, PTL

\* The account's ceiling holds across the cluster: the calls within their leases
\* have rows of their own, so there are no more of them than slots.
THEOREM SharedCeilingHolds == Spec => []SharedCeiling
<1>1. IInv => SharedCeiling
  <2> SUFFICES ASSUME IInv
               PROVE  SharedCeiling
    OBVIOUS
  <2> DEFINE L == {c \in Calls : Live(c)}
             f == [c \in L |-> slot[c]]
  <2>1. f \in Injection(L, 1 .. Limit)
    <3>1. \A c \in L : slot[c] \in 1 .. Limit /\ row[slot[c]].id = c
      BY LiveRow DEF Slots
    <3> QED
      BY <3>1 DEF Injection, IsInjective
  <2>2. IsFiniteSet(1 .. Limit) /\ Cardinality(1 .. Limit) = Limit
    BY FS_Interval, AccountsAssumption
  <2>3. Cardinality(L) <= Limit
    BY <2>1, <2>2, FS_Injection
  <2> QED
    BY <2>3 DEF SharedCeiling
<1> QED
  BY <1>1, Inductive, PTL
=============================================================================
