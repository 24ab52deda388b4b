---------------------------- MODULE LedgerProofs ----------------------------
(***************************************************************************)
(* Proofs about Ledger, for any number of nodes, requests and block        *)
(* objects, any limit, block size and lifetime: the state is well formed,  *)
(* the counter is ahead of what is spent and can be spent, the limit holds *)
(* up to what was reclaimed, no lease row is left without an owner, and an *)
(* orderly shutdown leaves the counter at what was spent.                  *)
(***************************************************************************)
EXTENDS Ledger, FiniteSetTheorems, TLAPS

-----------------------------------------------------------------------------
(* Facts about SumFunctionOnSet(f, S), the sum of f[x] over a finite set S. *)
(* The library defines the sum by recursion over subsets; the induction is  *)
(* carried out on a set of good subsets, through WFMin, because the         *)
(* library's induction theorems take an operator.                           *)

(* Induction over the subsets of a finite set. *)
LEMMA SubsetInduction ==
    ASSUME NEW S, IsFiniteSet(S), NEW Good,
           \A T \in SUBSET S : (\A U \in SUBSET T : U # T => U \in Good) => T \in Good
    PROVE  \A T \in SUBSET S : T \in Good
<1> DEFINE Bad == {T \in SUBSET S : T \notin Good}
<1> SUFFICES ASSUME Bad # {} PROVE FALSE
  OBVIOUS
<1>1. Bad \subseteq FiniteSubsetsOf(S)
  BY FS_FiniteSubsetsOfFinite
<1>2. PICK T \in Bad : \A U \in Bad : <<U, T>> \notin StrictSubsetOrdering(S)
  <2> HIDE DEF Bad
  <2> QED
    BY <1>1, FS_StrictSubsetOrderingWellFounded, WFMin
<1>3. \A U \in SUBSET T : U # T => U \in Good
  BY <1>2 DEF StrictSubsetOrdering
<1> QED
  BY <1>2, <1>3

-----------------------------------------------------------------------------
(* The recursion the sum is defined by has a solution.                     *)

First(s) == CHOOSE x \in s : TRUE

IsSum(g, f, S) ==
    g = [s \in SUBSET S |-> IF s = {} THEN 0 ELSE f[First(s)] + g[s \ {First(s)}]]

Table(f, S) == CHOOSE g : IsSum(g, f, S)

(* The library's sum is an entry of a table over the subsets. *)
LEMMA SumIsTable ==
    ASSUME NEW f, NEW S
    PROVE  SumFunctionOnSet(f, S) = Table(f, S)[S]
  BY DEF SumFunctionOnSet, FoldFunctionOnSet, MapThenFoldSet, Table, IsSum, First

(* The element the library's sum takes out first is one of the set. *)
LEMMA FirstIn ==
    ASSUME NEW s, s # {}
    PROVE  First(s) \in s
  BY DEF First

(* Two tables agree where both are defined. *)
LEMMA SumsAgree ==
    ASSUME NEW f, NEW S, NEW T, NEW g, NEW h, IsSum(g, f, S), IsSum(h, f, T),
           IsFiniteSet(S), T \subseteq S
    PROVE  \A U \in SUBSET T : g[U] = h[U]
<1> DEFINE Good == {U \in SUBSET T : g[U] = h[U]}
<1>1. ASSUME NEW U \in SUBSET T, \A V \in SUBSET U : V # U => V \in Good
      PROVE  U \in Good
  <2>1. CASE U = {}
    BY <2>1 DEF IsSum
  <2>2. CASE U # {}
    <3>1. First(U) \in U
      BY <2>2, FirstIn
    <3>2. U \ {First(U)} \in Good
      BY <1>1, <3>1
    <3>3. g[U] = f[First(U)] + g[U \ {First(U)}]
      BY <2>2 DEF IsSum
    <3>4. h[U] = f[First(U)] + h[U \ {First(U)}]
      BY <2>2 DEF IsSum
    <3> QED
      BY <3>2, <3>3, <3>4
  <2> QED
    BY <2>1, <2>2
<1>2. IsFiniteSet(T)
  BY FS_Subset
<1>3. \A U \in SUBSET T : U \in Good
  <2> HIDE DEF Good
  <2> QED
    BY <1>1, <1>2, SubsetInduction
<1> QED
  BY <1>3

(* A table exists over every finite set. *)
LEMMA SumExists ==
    ASSUME NEW f, NEW S, IsFiniteSet(S)
    PROVE  IsSum(Table(f, S), f, S)
<1> DEFINE Good == {T \in SUBSET S : \E g : IsSum(g, f, T)}
<1>1. ASSUME NEW T \in SUBSET S, \A U \in SUBSET T : U # T => U \in Good
      PROVE  T \in Good
  <2> DEFINE h == [s \in SUBSET T |-> IF s = {} THEN 0 ELSE
                      f[First(s)] + Table(f, s \ {First(s)})[s \ {First(s)}]]
  <2>1. \A U \in SUBSET T : U # T => IsSum(Table(f, U), f, U)
    BY <1>1 DEF Table
  <2>2. ASSUME NEW V \in SUBSET T, V # T
        PROVE  h[V] = Table(f, V)[V]
    <3>1. IsSum(Table(f, V), f, V)
      BY <2>1, <2>2
    <3>2. CASE V = {}
      BY <3>1, <3>2 DEF IsSum
    <3>3. CASE V # {}
      <4> DEFINE W == V \ {First(V)}
      <4>1. First(V) \in V /\ W \in SUBSET V /\ W \in SUBSET T /\ W # T
        BY <3>3, FirstIn
      <4>2. IsSum(Table(f, W), f, W)
        BY <4>1, <2>1
      <4>3. IsFiniteSet(V)
        BY FS_Subset
      <4>4. Table(f, V)[W] = Table(f, W)[W]
        BY <3>1, <4>1, <4>2, <4>3, SumsAgree
      <4>5. Table(f, V)[V] = f[First(V)] + Table(f, V)[W]
        BY <3>1, <3>3 DEF IsSum
      <4> QED
        BY <4>4, <4>5, <3>3
    <3> QED
      BY <3>2, <3>3
  <2>3. \A s \in SUBSET T : s # {} =>
            h[s \ {First(s)}] = Table(f, s \ {First(s)})[s \ {First(s)}]
    BY <2>2, FirstIn
  <2>4. IsSum(h, f, T)
    BY <2>3 DEF IsSum
  <2> QED
    BY <2>4
<1>2. \A T \in SUBSET S : T \in Good
  <2> HIDE DEF Good
  <2> QED
    BY <1>1, SubsetInduction
<1>3. \E g : IsSum(g, f, S)
  BY <1>2
<1> QED
  BY <1>3 DEF Table

-----------------------------------------------------------------------------
(* What the proofs cite.                                                   *)

(* The sum of no terms. *)
LEMMA SumEmpty ==
    ASSUME NEW f
    PROVE  SumFunctionOnSet(f, {}) = 0
<1>1. IsFiniteSet({})
  BY FS_EmptySet
<1>2. IsSum(Table(f, {}), f, {})
  BY <1>1, SumExists
<1>3. Table(f, {})[{}] = 0
  BY <1>2 DEF IsSum
<1> QED
  BY <1>3, SumIsTable

(* A sum is the term taken out first and the sum of the others. *)
LEMMA SumFirst ==
    ASSUME NEW f, NEW S, IsFiniteSet(S), S # {}
    PROVE  /\ First(S) \in S
           /\ IsFiniteSet(S \ {First(S)})
           /\ SumFunctionOnSet(f, S) = f[First(S)] + SumFunctionOnSet(f, S \ {First(S)})
<1> DEFINE T == S \ {First(S)}
<1>1. IsFiniteSet(T) /\ T \in SUBSET S
  BY FS_Subset
<1>2. IsSum(Table(f, S), f, S) /\ IsSum(Table(f, T), f, T)
  BY <1>1, SumExists
<1>3. Table(f, S)[T] = Table(f, T)[T]
  BY <1>1, <1>2, SumsAgree
<1>4. Table(f, S)[S] = f[First(S)] + Table(f, S)[T]
  BY <1>2 DEF IsSum
<1> QED
  BY <1>1, <1>3, <1>4, SumIsTable, FirstIn

(* The sum of integers is an integer. *)
LEMMA SumInt ==
    ASSUME NEW f, NEW S, IsFiniteSet(S), \A x \in S : f[x] \in Int
    PROVE  SumFunctionOnSet(f, S) \in Int
<1> DEFINE Good == {T \in SUBSET S : SumFunctionOnSet(f, T) \in Int}
<1>1. ASSUME NEW T \in SUBSET S, \A U \in SUBSET T : U # T => U \in Good
      PROVE  T \in Good
  <2>1. CASE T = {}
    BY <2>1, SumEmpty
  <2>2. CASE T # {}
    <3>1. IsFiniteSet(T)
      BY FS_Subset
    <3>2. /\ First(T) \in T
          /\ SumFunctionOnSet(f, T) = f[First(T)] + SumFunctionOnSet(f, T \ {First(T)})
      BY <3>1, <2>2, SumFirst
    <3>3. T \ {First(T)} \in Good
      BY <3>2, <1>1
    <3> QED
      BY <3>2, <3>3
  <2> QED
    BY <2>1, <2>2
<1>2. \A T \in SUBSET S : T \in Good
  <2> HIDE DEF Good
  <2> QED
    BY <1>1, SubsetInduction
<1> QED
  BY <1>2

(* Any element may be taken out of the sum first. *)
LEMMA SumTakeOut ==
    ASSUME NEW f, NEW S, IsFiniteSet(S), \A x \in S : f[x] \in Int, NEW x \in S
    PROVE  SumFunctionOnSet(f, S) = f[x] + SumFunctionOnSet(f, S \ {x})
<1> DEFINE Good == {T \in SUBSET S : \A y \in T :
                      SumFunctionOnSet(f, T) = f[y] + SumFunctionOnSet(f, T \ {y})}
<1>1. ASSUME NEW T \in SUBSET S, \A U \in SUBSET T : U # T => U \in Good
      PROVE  T \in Good
  <2> SUFFICES ASSUME NEW y \in T
               PROVE  SumFunctionOnSet(f, T) = f[y] + SumFunctionOnSet(f, T \ {y})
    OBVIOUS
  <2> DEFINE p == First(T)
             U == T \ {p}
             V == T \ {y}
  <2>1. IsFiniteSet(T) /\ IsFiniteSet(U) /\ IsFiniteSet(V)
    BY FS_Subset
  <2>2. p \in T /\ SumFunctionOnSet(f, T) = f[p] + SumFunctionOnSet(f, U)
    BY <2>1, SumFirst
  <2>3. CASE y = p
    BY <2>2, <2>3
  <2>4. CASE y # p
    <3>1. SumFunctionOnSet(f, U) = f[y] + SumFunctionOnSet(f, U \ {y})
      BY <1>1, <2>2, <2>4
    <3>2. SumFunctionOnSet(f, V) = f[p] + SumFunctionOnSet(f, V \ {p})
      BY <1>1, <2>2, <2>4
    <3>3. U \ {y} = V \ {p}
      OBVIOUS
    <3>4. SumFunctionOnSet(f, U \ {y}) \in Int
      <4>1. IsFiniteSet(U \ {y}) /\ U \ {y} \subseteq S
        <5>1. U \ {y} \in SUBSET S
          OBVIOUS
        <5> QED
          BY <5>1, FS_Subset
      <4> QED
        BY <4>1, SumInt
    <3>5. f[p] \in Int /\ f[y] \in Int
      BY <2>2
    <3>6. SumFunctionOnSet(f, T) = f[p] + (f[y] + SumFunctionOnSet(f, V \ {p}))
      BY <2>2, <3>1, <3>3
    <3> QED
      BY <3>2, <3>3, <3>4, <3>5, <3>6
  <2> QED
    BY <2>3, <2>4
<1>2. \A T \in SUBSET S : T \in Good
  <2> HIDE DEF Good
  <2> QED
    BY <1>1, SubsetInduction
<1> QED
  BY <1>2

(* Terms that are at most as large give a sum that is at most as large. *)
LEMMA SumMono ==
    ASSUME NEW f, NEW g, NEW S, IsFiniteSet(S),
           \A x \in S : f[x] \in Int /\ g[x] \in Int /\ f[x] <= g[x]
    PROVE  SumFunctionOnSet(f, S) <= SumFunctionOnSet(g, S)
<1> DEFINE Good == {T \in SUBSET S : SumFunctionOnSet(f, T) <= SumFunctionOnSet(g, T)}
<1>1. ASSUME NEW T \in SUBSET S, \A U \in SUBSET T : U # T => U \in Good
      PROVE  T \in Good
  <2>1. CASE T = {}
    BY <2>1, SumEmpty
  <2>2. CASE T # {}
    <3> DEFINE p == First(T)
               U == T \ {p}
    <3>1. IsFiniteSet(T) /\ IsFiniteSet(U)
      BY FS_Subset
    <3>2. /\ p \in T
          /\ SumFunctionOnSet(f, T) = f[p] + SumFunctionOnSet(f, U)
          /\ SumFunctionOnSet(g, T) = g[p] + SumFunctionOnSet(g, U)
      BY <3>1, <2>2, SumFirst
    <3>3. SumFunctionOnSet(f, U) <= SumFunctionOnSet(g, U)
      BY <3>2, <1>1
    <3>4. SumFunctionOnSet(f, U) \in Int /\ SumFunctionOnSet(g, U) \in Int
      BY <3>1, SumInt
    <3>5. f[p] \in Int /\ g[p] \in Int /\ f[p] <= g[p]
      BY <3>2
    <3> HIDE DEF p, U
    <3> QED
      BY <3>2, <3>3, <3>4, <3>5
  <2> QED
    BY <2>1, <2>2
<1>2. \A T \in SUBSET S : T \in Good
  <2> HIDE DEF Good
  <2> QED
    BY <1>1, SubsetInduction
<1> QED
  BY <1>2

(* Two sums added term by term. *)
LEMMA SumPlus ==
    ASSUME NEW f, NEW g, NEW h, NEW S, IsFiniteSet(S),
           \A x \in S : f[x] \in Int /\ g[x] \in Int /\ h[x] = f[x] + g[x]
    PROVE  SumFunctionOnSet(h, S) = SumFunctionOnSet(f, S) + SumFunctionOnSet(g, S)
<1> DEFINE Good == {T \in SUBSET S : SumFunctionOnSet(h, T) = SumFunctionOnSet(f, T) + SumFunctionOnSet(g, T)}
<1>1. ASSUME NEW T \in SUBSET S, \A U \in SUBSET T : U # T => U \in Good
      PROVE  T \in Good
  <2>1. CASE T = {}
    BY <2>1, SumEmpty
  <2>2. CASE T # {}
    <3> DEFINE p == First(T)
               U == T \ {p}
    <3>1. IsFiniteSet(T) /\ IsFiniteSet(U)
      BY FS_Subset
    <3>2. /\ p \in T
          /\ SumFunctionOnSet(f, T) = f[p] + SumFunctionOnSet(f, U)
          /\ SumFunctionOnSet(g, T) = g[p] + SumFunctionOnSet(g, U)
          /\ SumFunctionOnSet(h, T) = h[p] + SumFunctionOnSet(h, U)
      BY <3>1, <2>2, SumFirst
    <3>3. SumFunctionOnSet(h, U) = SumFunctionOnSet(f, U) + SumFunctionOnSet(g, U)
      BY <3>2, <1>1
    <3>4. SumFunctionOnSet(f, U) \in Int /\ SumFunctionOnSet(g, U) \in Int
      BY <3>1, SumInt
    <3>5. f[p] \in Int /\ g[p] \in Int /\ h[p] = f[p] + g[p]
      BY <3>2
    <3> HIDE DEF p, U
    <3>6. SumFunctionOnSet(h, T) = SumFunctionOnSet(f, T) + SumFunctionOnSet(g, T)
      BY <3>2, <3>3, <3>4, <3>5
    <3> QED
      BY <3>6
  <2> QED
    BY <2>1, <2>2
<1>2. \A T \in SUBSET S : T \in Good
  <2> HIDE DEF Good
  <2> QED
    BY <1>1, SubsetInduction
<1> QED
  BY <1>2

(* Equal terms give equal sums. *)
LEMMA SumEqual ==
    ASSUME NEW f, NEW g, NEW S, IsFiniteSet(S), \A x \in S : f[x] \in Int /\ f[x] = g[x]
    PROVE  SumFunctionOnSet(f, S) = SumFunctionOnSet(g, S)
<1>1. SumFunctionOnSet(f, S) <= SumFunctionOnSet(g, S)
  BY SumMono
<1>2. SumFunctionOnSet(g, S) <= SumFunctionOnSet(f, S)
  BY SumMono
<1> QED
  BY <1>1, <1>2, SumInt

(* Terms that are all zero. *)
LEMMA SumZero ==
    ASSUME NEW f, NEW S, IsFiniteSet(S), \A x \in S : f[x] = 0
    PROVE  SumFunctionOnSet(f, S) = 0
<1> DEFINE Good == {T \in SUBSET S : SumFunctionOnSet(f, T) = 0}
<1>1. ASSUME NEW T \in SUBSET S, \A U \in SUBSET T : U # T => U \in Good
      PROVE  T \in Good
  <2>1. CASE T = {}
    BY <2>1, SumEmpty
  <2>2. CASE T # {}
    <3>1. IsFiniteSet(T)
      BY FS_Subset
    <3>2. /\ First(T) \in T
          /\ SumFunctionOnSet(f, T) = f[First(T)] + SumFunctionOnSet(f, T \ {First(T)})
      BY <3>1, <2>2, SumFirst
    <3>3. T \ {First(T)} \in Good
      BY <3>2, <1>1
    <3> QED
      BY <3>2, <3>3
  <2> QED
    BY <2>1, <2>2
<1>2. \A T \in SUBSET S : T \in Good
  <2> HIDE DEF Good
  <2> QED
    BY <1>1, SubsetInduction
<1> QED
  BY <1>2

(* Terms that are not negative. *)
LEMMA SumNat ==
    ASSUME NEW f, NEW S, IsFiniteSet(S), \A x \in S : f[x] \in Nat
    PROVE  SumFunctionOnSet(f, S) \in Nat
<1> DEFINE z == [x \in S |-> 0]
<1>1. SumFunctionOnSet(z, S) = 0
  BY SumZero
<1>2. SumFunctionOnSet(z, S) <= SumFunctionOnSet(f, S)
  BY SumMono
<1>3. SumFunctionOnSet(f, S) \in Int
  BY SumInt
<1> QED
  BY <1>1, <1>2, <1>3

(* One term changes. *)
LEMMA SumChange ==
    ASSUME NEW f, NEW g, NEW S, IsFiniteSet(S), NEW x \in S,
           \A y \in S : f[y] \in Int /\ g[y] \in Int,
           \A y \in S : y # x => g[y] = f[y]
    PROVE  /\ SumFunctionOnSet(f, S) \in Int
           /\ SumFunctionOnSet(g, S) = SumFunctionOnSet(f, S) - f[x] + g[x]
<1> DEFINE T == S \ {x}
<1>1. IsFiniteSet(T)
  BY FS_Subset
<1>2. SumFunctionOnSet(f, T) = SumFunctionOnSet(g, T)
  BY <1>1, SumEqual
<1>3. SumFunctionOnSet(f, S) = f[x] + SumFunctionOnSet(f, T)
  BY SumTakeOut
<1>4. SumFunctionOnSet(g, S) = g[x] + SumFunctionOnSet(g, T)
  BY SumTakeOut
<1>5. SumFunctionOnSet(f, T) \in Int /\ SumFunctionOnSet(f, S) \in Int
  BY <1>1, SumInt
<1>6. f[x] \in Int /\ g[x] \in Int
  OBVIOUS
<1> HIDE DEF T
<1> QED
  BY <1>2, <1>3, <1>4, <1>5, <1>6

(* One term is among the terms the sum adds, when none is negative. *)
LEMMA SumAtLeast ==
    ASSUME NEW f, NEW S, IsFiniteSet(S), NEW x \in S, \A y \in S : f[y] \in Nat
    PROVE  f[x] <= SumFunctionOnSet(f, S)
<1>1. IsFiniteSet(S \ {x})
  BY FS_Subset
<1>2. SumFunctionOnSet(f, S) = f[x] + SumFunctionOnSet(f, S \ {x})
  BY SumTakeOut
<1>3. SumFunctionOnSet(f, S \ {x}) \in Nat
  BY <1>1, SumNat
<1> QED
  BY <1>2, <1>3

(* A sum over part of the set is the sum of the terms inside that part. *)
LEMMA SumPart ==
    ASSUME NEW f, NEW g, NEW S, IsFiniteSet(S), NEW P \in SUBSET S,
           \A x \in S : f[x] \in Int,
           \A x \in S : g[x] = IF x \in P THEN f[x] ELSE 0
    PROVE  SumFunctionOnSet(f, P) = SumFunctionOnSet(g, S)
<1> DEFINE Good == {T \in SUBSET S : SumFunctionOnSet(f, T \cap P) = SumFunctionOnSet(g, T)}
<1>1. ASSUME NEW T \in SUBSET S, \A U \in SUBSET T : U # T => U \in Good
      PROVE  T \in Good
  <2>1. CASE T = {}
    <3>1. T \cap P = {}
      BY <2>1
    <3> QED
      BY <2>1, <3>1, SumEmpty
  <2>2. CASE T # {}
    <3> DEFINE p == First(T)
               U == T \ {p}
    <3>1. IsFiniteSet(T) /\ IsFiniteSet(T \cap P)
      BY FS_Subset
    <3>2. p \in T /\ SumFunctionOnSet(g, T) = g[p] + SumFunctionOnSet(g, U)
      BY <3>1, <2>2, SumFirst
    <3>3. SumFunctionOnSet(f, U \cap P) = SumFunctionOnSet(g, U)
      BY <3>2, <1>1
    <3>4. CASE p \in P
      <4>1. U \cap P = (T \cap P) \ {p}
        OBVIOUS
      <4>2. SumFunctionOnSet(f, T \cap P) = f[p] + SumFunctionOnSet(f, (T \cap P) \ {p})
        BY <3>1, <3>2, <3>4, SumTakeOut
      <4> QED
        BY <3>2, <3>3, <3>4, <4>1, <4>2
    <3>5. CASE p \notin P
      <4>1. U \cap P = T \cap P
        BY <3>5
      <4>2. g[p] = 0
        BY <3>2, <3>5
      <4>3. SumFunctionOnSet(g, U) \in Int
        <5>1. IsFiniteSet(U)
          BY FS_Subset
        <5> QED
          BY <5>1, SumInt
      <4> QED
        BY <3>2, <3>3, <4>1, <4>2, <4>3
    <3> QED
      BY <3>4, <3>5
  <2> QED
    BY <2>1, <2>2
<1>2. \A T \in SUBSET S : T \in Good
  <2> HIDE DEF Good
  <2> QED
    BY <1>1, SubsetInduction
<1>3. S \cap P = P
  OBVIOUS
<1> QED
  BY <1>2, <1>3

-----------------------------------------------------------------------------
(* The inductive invariant.                                                *)

Placed == {"taking", "locking", "drawing", "holding", "held"}

\* Whoever works on a block names one.
Located ==
    /\ \A c \in Callers :
          /\ req[c].at \in Placed => req[c].node \in Nodes /\ req[c].gen \in Gens
          /\ req[c].at = "finding" => req[c].node \in Nodes
    /\ \A n \in Nodes : job[n].at # "idle" => job[n].gen \in Gens

HoldersOf(b) == {c \in Callers : req[c].at = "held" /\ BlockOf(c) = b}

\* A block's pending is the number of reservations not settled.
HoldsCounted == \A b \in Blocks : blk[b].pending = Cardinality(HoldersOf(b))

\* The store's figure is within the limit.
WithinLimit == Limit > 0 => counter <= Limit

Shape == TypeOK /\ Located /\ HoldsCounted /\ WithinLimit

\* No block owes units: what Settle returns is never negative.
NoDebt == \A b \in Blocks : blk[b].remaining >= 0

Covered == NoDebt /\ CounterAhead

\* The mutex of a block is held across the round trip of a draw and of a return.
Mutexed ==
    /\ \A c \in Callers : req[c].at = "drawing" =>
          mu[BlockOf(c)] = c /\ ~blk[BlockOf(c)].evicted
    /\ \A n \in Nodes : job[n].at = "stopped" => mu[JobBlock(n)] = n

\* On a node that is up: the job works on the block in the map, which carries the
\* mark from Evict to Unlink or Restore, and whose row is gone when it is unlinked; a
\* request works on the block in the map or on one that carries the mark.
Mapped(n) ==
    mode[n] = "up" =>
        /\ job[n].at # "idle" => job[n].gen = cur[n]
        /\ job[n].at \in {"returning", "stopped", "unlinking", "restoring"} =>
              blk[JobBlock(n)].evicted
        /\ \A c \in Callers : req[c].at \in Placed /\ req[c].node = n =>
              req[c].gen = cur[n] \/ blk[BlockOf(c)].evicted
        /\ job[n].at = "unlinking" => lease[n] = None

\* On a node that is not: the map is empty, and what still draws works on the block
\* that is about to be returned.
Closing(n) ==
    mode[n] # "up" =>
        /\ cur[n] = 0
        /\ job[n].at \in {"idle", "returning", "stopped", "unlinking", "restoring", "abandoning"}
        /\ \A c \in Callers : req[c].at = "drawing" /\ req[c].node = n =>
              job[n].at \in {"returning", "abandoning"} /\ job[n].gen = req[c].gen
        /\ mode[n] = "down" =>
              deaths > 0 /\ job[n].at = "idle" /\ \A c \in Callers : req[c].node # n

\* A block that may be taken from is the one in the map or the one being returned,
\* and its lease outlasts it.
LeaseAhead(n) ==
    /\ \A g \in Gens : blk[<<n, g>>].expires # 0 =>
          g = cur[n] \/ (job[n].at # "idle" /\ job[n].gen = g)
    /\ job[n].at \in {"stopped", "unlinking", "restoring"} => blk[JobBlock(n)].expires = 0
    /\ \A g \in Gens : clock < blk[<<n, g>>].expires =>
          lease[n] # None /\ lease[n].expires >= blk[<<n, g>>].expires
    /\ todo[n] # None => todo[n].cutoff <= clock

Ordered == Mutexed /\ NoOrphanLease /\ \A n \in Nodes : Mapped(n) /\ Closing(n)

Owned == Shape /\ Ordered

Backed == Owned /\ \A n \in Nodes : LeaseAhead(n)

\* What a request has taken and not settled.
Due(v) == IF v.at \in {"holding", "held"} THEN v.amount ELSE 0

-----------------------------------------------------------------------------
(* Type correctness.                                                       *)

\* drawAndTake: what it decides to draw covers the need and stays within the limit.
LEMMA GrantType ==
    ASSUME Shape, NEW c \in Callers, req[c].at = "drawing", ~Exhausted(c)
    PROVE  /\ Have(c) \in Nat /\ Have(c) <= req[c].held
           /\ Need(c) \in Int /\ Need(c) = req[c].amount - Have(c)
           /\ Grant(c) \in Nat /\ Grant(c) >= Need(c)
           /\ Limit > 0 => counter + Grant(c) <= Limit
           /\ Checkpointed(c) \in Nat
           /\ BlockOf(c) \in Blocks
           /\ Kept(c, blk[BlockOf(c)].drawn) \in Nat
           /\ DrawnLease(c) \in Leases
<1>1. /\ req[c] \in Calls /\ req[c].amount \in Nat /\ req[c].held \in Nat /\ req[c].stamp \in Nat
      /\ req[c].node \in Nodes /\ req[c].gen \in Gens /\ counter \in Nat
  BY DEF Shape, TypeOK, Located, Placed, Calls
<1>2. Have(c) \in Nat /\ Have(c) <= req[c].held
  BY <1>1 DEF Have, Kept
<1>3. Need(c) \in Int /\ Need(c) = req[c].amount - Have(c)
  BY <1>1, <1>2 DEF Need
<1>4. /\ Grant(c) \in Nat /\ Grant(c) >= Need(c)
      /\ Limit > 0 => counter + Grant(c) <= Limit
  BY <1>1, <1>3, LedgerAssumption DEF Grant, Exhausted, Larger, Smaller, Shape, WithinLimit
<1>5. BlockOf(c) \in Blocks
  BY <1>1 DEF BlockOf, Blocks
<1>6. Kept(c, blk[BlockOf(c)].drawn) \in Nat
  BY <1>5 DEF Kept, Shape, TypeOK, BlockRec
<1>7. Checkpointed(c) \in Nat
  BY <1>2, <1>6 DEF Checkpointed, AtLeastZero
<1>8. DrawnLease(c) \in Leases
  <2>1. lease[req[c].node] = None \/ lease[req[c].node] \in Leases
    BY <1>1 DEF Shape, TypeOK
  <2>2. (IF lease[req[c].node] = None THEN 0 ELSE lease[req[c].node].amount) \in Nat
    BY <2>1 DEF Leases
  <2> QED
    BY <1>1, <1>4, <1>7, <2>2, LedgerAssumption DEF DrawnLease, Leases
<1> QED
  BY <1>2, <1>3, <1>4, <1>5, <1>6, <1>7, <1>8

\* The initial state is well formed.
LEMMA InitShape ==
    ASSUME Init PROVE Shape
<1>1. TypeOK
  BY LedgerAssumption DEF Init, TypeOK, EmptyBlock, NoJob, NoCall, BlockRec, Jobs, Calls
<1>2. Located /\ WithinLimit
  BY LedgerAssumption DEF Init, Located, Placed, NoCall, NoJob, WithinLimit
<1>3. HoldsCounted
  <2>1. \A b \in Blocks : HoldersOf(b) = {}
    BY DEF Init, NoCall, HoldersOf
  <2> QED
    BY <2>1, FS_EmptySet DEF HoldsCounted, Init, EmptyBlock
<1> QED
  BY <1>1, <1>2, <1>3 DEF Shape

PlacedWell(v) ==
    /\ v \in Calls
    /\ v.at \in Placed => v.node \in Nodes /\ v.gen \in Gens
    /\ v.at = "finding" => v.node \in Nodes

\* A request's record is replaced.
LEMMA CallChange ==
    ASSUME Shape, NEW c \in Callers, NEW v, PlacedWell(v), req' = [req EXCEPT ![c] = v]
    PROVE  /\ req' \in [Callers -> Calls]
           /\ job' = job => Located'
  BY DEF Shape, TypeOK, Located, PlacedWell

\* A block is replaced.
LEMMA BlockChange ==
    ASSUME Shape, NEW b \in Blocks, NEW v \in BlockRec, blk' = [blk EXCEPT ![b] = v]
    PROVE  blk' \in [Blocks -> BlockRec]
  BY DEF Shape, TypeOK

\* The records a request goes through.
LEMMA CallType ==
    ASSUME Shape, NEW c \in Callers
    PROVE  /\ req[c] \in Calls /\ PlacedWell(req[c])
           /\ req[c].amount \in Nat /\ req[c].stamp \in Nat /\ req[c].held \in Nat
           /\ req[c].at \in Placed => BlockOf(c) \in Blocks /\ blk[BlockOf(c)] \in BlockRec
           /\ PlacedWell(NoCall)
<1>1. req[c] \in Calls /\ PlacedWell(req[c])
  BY DEF Shape, TypeOK, Located, PlacedWell
<1>2. req[c].at \in Placed => BlockOf(c) \in Blocks /\ blk[BlockOf(c)] \in BlockRec
  BY <1>1 DEF Shape, TypeOK, BlockOf, Blocks, PlacedWell
<1>3. PlacedWell(NoCall)
  BY DEF PlacedWell, NoCall, Calls, Placed
<1> QED
  BY <1>1, <1>2, <1>3 DEF Calls

Count(v) == IF v.at = "held" THEN 1 ELSE 0

\* What every step of a request that touches no block does ...
CallStep(c, v) ==
    /\ req' = [req EXCEPT ![c] = v] /\ PlacedWell(v)
    /\ UNCHANGED <<counter, blk, job, spent, reclaimed>>
    /\ req[c].at # "held" /\ v.at # "held"
    /\ Due(v) + v.held <= Due(req[c]) + req[c].held

\* ... and what one that works on block b does: it counts its hold, owes nothing, and
\* moves units without making any beyond those it draws.
BlockStep(c, v, b, w) ==
    /\ b \in Blocks
    /\ req' = [req EXCEPT ![c] = v] /\ PlacedWell(v)
    /\ blk' = [blk EXCEPT ![b] = w] /\ w \in BlockRec
    /\ UNCHANGED <<job, reclaimed>>
    /\ w.pending = blk[b].pending + Count(v) - Count(req[c])
    /\ req[c].at = "held" => BlockOf(c) = b
    /\ v.at = "held" => <<v.node, v.gen>> = b
    /\ Overrun = 0 /\ NoDebt =>
          /\ w.remaining >= 0
          /\ Due(v) + v.held + w.remaining + spent' - spent
             <= Due(req[c]) + req[c].held + blk[b].remaining + counter' - counter

\* Reserve starts a request.
LEMMA ReserveStep ==
    ASSUME Shape, NEW c \in Callers, NEW n \in Nodes, NEW a \in Amounts, Reserve(c, n, a)
    PROVE  TypeOK' /\ WithinLimit' /\ \E v : CallStep(c, v)
<1> DEFINE v == [NoCall EXCEPT !.at = "finding", !.node = n, !.amount = a, !.stamp = clock]
<1>0. req[c] \in Calls /\ req[c].held \in Nat /\ req[c].at = "idle"
  BY CallType DEF Reserve
<1>1. PlacedWell(v) /\ v.at = "finding" /\ v.held = 0
  BY LedgerAssumption DEF PlacedWell, NoCall, Calls, Placed, Shape, TypeOK
<1>2. req' = [req EXCEPT ![c] = v]
  BY DEF Reserve
<1>3. UNCHANGED <<counter, blk, job, spent, reclaimed>>
  BY DEF Reserve, storeVars
<1> HIDE DEF v
<1>4. CallStep(c, v)
  BY <1>0, <1>1, <1>2, <1>3 DEF CallStep, Due
<1>5. req' \in [Callers -> Calls]
  BY <1>1, <1>2, CallChange
<1> QED
  BY <1>4, <1>5 DEF Reserve, Shape, TypeOK, storeVars, WithinLimit

\* A request ends with the error of a retired block.
LEMMA ReportStep ==
    ASSUME Shape, NEW c \in Callers, Report(c)
    PROVE  TypeOK' /\ WithinLimit' /\ \E v : CallStep(c, v)
<1>0. req[c] \in Calls /\ req[c].held \in Nat /\ req[c].at = "evicted" /\ PlacedWell(NoCall)
  BY CallType DEF Report
<1>1. req' = [req EXCEPT ![c] = NoCall]
  BY DEF Report
<1>2. CallStep(c, NoCall)
  BY <1>0, <1>1 DEF CallStep, Report, storeVars, Due, NoCall
<1>3. req' \in [Callers -> Calls]
  BY <1>0, <1>1, CallChange
<1> QED
  BY <1>2, <1>3 DEF Report, Shape, TypeOK, storeVars, WithinLimit

\* blockFor finds a block or puts an empty one in the map.
LEMMA FindStep ==
    ASSUME Shape, NEW c \in Callers, Find(c)
    PROVE  /\ TypeOK' /\ WithinLimit'
           /\ \/ \E v : CallStep(c, v)
              \/ \E v, b, w : BlockStep(c, v, b, w)
<1> DEFINE n == req[c].node
           next == IF req[c].amount = 0 THEN "holding" ELSE "taking"
<1>0. /\ n \in Nodes /\ cur[n] \in Gens \cup {0} /\ req[c].at = "finding"
      /\ req[c] \in Calls /\ PlacedWell(req[c])
      /\ req[c].held \in Nat /\ req[c].amount \in Nat /\ PlacedWell(NoCall)
  BY CallType DEF Shape, TypeOK, Find, PlacedWell
<1>1. ASSUME NEW g \in Gens
      PROVE  LET v == [req[c] EXCEPT !.at = next, !.gen = g]
             IN  /\ PlacedWell(v) /\ v.at # "held" /\ v.held = req[c].held /\ Due(v) = 0
  BY <1>0 DEF PlacedWell, Calls, Placed, Due
<1>2. CASE req' = [req EXCEPT ![c] = NoCall] /\ blk' = blk /\ cur' = cur
  <2>2. CallStep(c, NoCall)
    BY <1>0, <1>2 DEF CallStep, Find, storeVars, Due, NoCall
  <2>3. req' \in [Callers -> Calls]
    BY <1>0, <1>2, CallChange
  <2> QED
    BY <1>2, <2>2, <2>3 DEF Find, Shape, TypeOK, storeVars, WithinLimit
<1>3. CASE cur[n] # 0 /\ req' = [req EXCEPT ![c].at = next, ![c].gen = cur[n]] /\ blk' = blk /\ cur' = cur
  <2> DEFINE v == [req[c] EXCEPT !.at = next, !.gen = cur[n]]
  <2>1. req' = [req EXCEPT ![c] = v]
    BY <1>3 DEF Shape, TypeOK, Calls
  <2>2. PlacedWell(v) /\ v.at # "held" /\ v.held = req[c].held /\ Due(v) = 0
    BY <1>0, <1>1, <1>3
  <2>a. UNCHANGED <<counter, blk, job, spent, reclaimed>>
    BY <1>3 DEF Find, storeVars
  <2> HIDE DEF v
  <2>3. CallStep(c, v)
    BY <1>0, <2>1, <2>2, <2>a DEF CallStep, Due
  <2>4. req' \in [Callers -> Calls]
    BY <2>1, <2>2, CallChange
  <2> QED
    BY <1>3, <2>3, <2>4 DEF Find, Shape, TypeOK, storeVars, WithinLimit
<1>4. ASSUME NEW g \in FreeGens(n), cur' = [cur EXCEPT ![n] = g],
             blk' = [blk EXCEPT ![<<n, g>>] = EmptyBlock],
             req' = [req EXCEPT ![c].at = next, ![c].gen = g]
      PROVE  TypeOK' /\ WithinLimit' /\ \E v, b, w : BlockStep(c, v, b, w)
  <2> DEFINE v == [req[c] EXCEPT !.at = next, !.gen = g]
             b == <<n, g>>
  <2>0. g \in Gens /\ b \in Blocks /\ blk[b] \in BlockRec
    BY <1>0 DEF FreeGens, Blocks, Shape, TypeOK
  <2>1. req' = [req EXCEPT ![c] = v]
    BY <1>4 DEF Shape, TypeOK, Calls
  <2>2. PlacedWell(v) /\ v.at # "held" /\ v.held = req[c].held /\ Due(v) = 0
    BY <2>0, <1>1
  <2>3. EmptyBlock \in BlockRec /\ EmptyBlock.remaining = 0 /\ EmptyBlock.pending = 0
    BY DEF EmptyBlock, BlockRec
  <2>4. blk' = [blk EXCEPT ![b] = EmptyBlock]
    BY <1>4
  <2>5. blk[b].pending = 0
    <3>1. HoldersOf(b) = {}
      BY <1>0 DEF HoldersOf, BlockOf, FreeGens
    <3> QED
      BY <3>1, <2>0, FS_EmptySet DEF Shape, HoldsCounted
  <2>6. blk[b].remaining \in Int
    BY <2>0 DEF BlockRec
  <2>7. /\ job' = job /\ spent' = spent /\ counter' = counter /\ reclaimed' = reclaimed
        /\ spent \in Nat /\ counter \in Nat
    BY DEF Find, storeVars, Shape, TypeOK
  <2>8. cur' \in [Nodes -> Gens \cup {0}]
    BY <1>0, <1>4, <2>0 DEF Shape, TypeOK
  <2> HIDE DEF v, b
  <2>9. BlockStep(c, v, b, EmptyBlock)
    BY <1>0, <2>0, <2>1, <2>2, <2>3, <2>4, <2>5, <2>6, <2>7 DEF BlockStep, Due, Count, NoDebt
  <2>10. req' \in [Callers -> Calls] /\ blk' \in [Blocks -> BlockRec]
    BY <2>0, <2>1, <2>2, <2>3, <2>4, CallChange, BlockChange
  <2>11. TypeOK' /\ WithinLimit'
    BY <2>8, <2>10 DEF Find, Shape, TypeOK, storeVars, WithinLimit
  <2> QED
    BY <2>9, <2>11
<1> QED
  BY <1>2, <1>3, <1>4 DEF Find

\* The types of a request that is at a block.
LEMMA PlacedType ==
    ASSUME Shape, NEW c \in Callers, req[c].at \in Placed
    PROVE  /\ BlockOf(c) \in Blocks /\ BlockOf(c) = <<req[c].node, req[c].gen>>
           /\ blk[BlockOf(c)] \in BlockRec
           /\ blk[BlockOf(c)].remaining \in Int /\ blk[BlockOf(c)].pending \in Nat
           /\ req[c].amount \in Nat /\ req[c].held \in Nat
           /\ spent \in Nat /\ counter \in Nat
  BY CallType DEF BlockRec, BlockOf, Shape, TypeOK

\* A request that changes only its place and what it has in custody.
Moved(c, p, h) == [req[c] EXCEPT !.at = p, !.held = h]

\* A request that moves on names the same block and the same amount.
LEMMA Relocated ==
    ASSUME Shape, NEW c \in Callers, req[c].at \in Placed,
           NEW p \in Placed, NEW h \in Nat
    PROVE  /\ PlacedWell(Moved(c, p, h)) /\ Moved(c, p, h).at = p /\ Moved(c, p, h).held = h
           /\ Moved(c, p, h).amount = req[c].amount
           /\ Moved(c, p, h).node = req[c].node /\ Moved(c, p, h).gen = req[c].gen
  BY CallType DEF PlacedWell, Calls, Placed, Moved

\* The step of a request in that form.
LEMMA SamePlace ==
    ASSUME Shape, NEW c \in Callers, req[c].at \in Placed, NEW p \in Placed
    PROVE  [req EXCEPT ![c].at = p] = [req EXCEPT ![c] = Moved(c, p, req[c].held)]
  BY DEF Shape, TypeOK, Calls, Moved

\* Units of a block change hands.
Holding(b, x) == [blk[b] EXCEPT !.remaining = x]

\* Units that change hands leave the count of holds.
LEMMA Recounted ==
    ASSUME Shape, NEW b \in Blocks, NEW x \in Int
    PROVE  /\ Holding(b, x) \in BlockRec /\ Holding(b, x).remaining = x
           /\ Holding(b, x).pending = blk[b].pending
  BY DEF Shape, TypeOK, BlockRec, Holding

\* The hot path moves units from the block to the request.
LEMMA TakeStep ==
    ASSUME Shape, NEW c \in Callers, Take(c)
    PROVE  TypeOK' /\ WithinLimit' /\ \E v, b, w : BlockStep(c, v, b, w)
<1> DEFINE b == BlockOf(c)
           u == Moved(c, "holding", req[c].held)
           v == Moved(c, "locking", req[c].held)
           w == Holding(b, blk[b].remaining - req[c].amount)
<1>0. req[c].at = "taking" /\ req[c].at \in Placed /\ "holding" \in Placed /\ "locking" \in Placed
  BY DEF Take, Placed
<1>1. /\ b \in Blocks /\ b = <<req[c].node, req[c].gen>> /\ blk[b] \in BlockRec
      /\ blk[b].remaining \in Int /\ blk[b].pending \in Nat
      /\ req[c].amount \in Nat /\ req[c].held \in Nat
      /\ spent \in Nat /\ counter \in Nat
  BY <1>0, PlacedType
<1>2. UNCHANGED <<counter, job, spent, reclaimed>>
  BY DEF Take, storeVars
<1>3. CASE CanTake(b, req[c].amount, req[c].stamp)
  <2>1. /\ PlacedWell(u) /\ u.at = "holding" /\ u.held = req[c].held /\ u.amount = req[c].amount
    BY <1>0, <1>1, Relocated
  <2>2. w \in BlockRec /\ w.remaining = blk[b].remaining - req[c].amount /\ w.pending = blk[b].pending
    BY <1>1, Recounted
  <2>3. req' = [req EXCEPT ![c] = u] /\ blk' = [blk EXCEPT ![b] = w]
    BY <1>0, <1>3, SamePlace DEF Take, Holding
  <2>4. blk[b].remaining >= req[c].amount
    BY <1>3 DEF CanTake
  <2> HIDE DEF u, w, b
  <2>5. BlockStep(c, u, b, w)
    BY <1>0, <1>1, <1>2, <2>1, <2>2, <2>3, <2>4 DEF BlockStep, Due, Count
  <2>6. req' \in [Callers -> Calls] /\ blk' \in [Blocks -> BlockRec]
    BY <1>1, <2>1, <2>2, <2>3, CallChange, BlockChange
  <2> QED
    BY <2>5, <2>6 DEF Take, Shape, TypeOK, storeVars, WithinLimit
<1>4. CASE ~CanTake(b, req[c].amount, req[c].stamp)
  <2>1. PlacedWell(v) /\ v.at = "locking" /\ v.held = req[c].held
    BY <1>0, <1>1, Relocated
  <2>2. blk' = blk
    BY <1>4 DEF Take
  <2>a. blk' = [blk EXCEPT ![b] = blk[b]]
    BY <2>2 DEF Shape, TypeOK
  <2>3. req' = [req EXCEPT ![c] = v]
    BY <1>0, <1>4, SamePlace DEF Take
  <2> HIDE DEF v, b
  <2>5. BlockStep(c, v, b, blk[b])
    BY <1>0, <1>1, <1>2, <2>1, <2>a, <2>3 DEF BlockStep, Due, Count, NoDebt
  <2>6. req' \in [Callers -> Calls]
    BY <1>1, <2>1, <2>3, CallChange
  <2> QED
    BY <2>2, <2>5, <2>6 DEF Take, Shape, TypeOK, storeVars, WithinLimit
<1> QED
  BY <1>3, <1>4

\* hold counts the reservation on its block.
LEMMA HoldStep ==
    ASSUME Shape, NEW c \in Callers, Hold(c)
    PROVE  TypeOK' /\ WithinLimit' /\ \E v, b, w : BlockStep(c, v, b, w)
<1> DEFINE b == BlockOf(c)
           v == Moved(c, "held", req[c].held)
           w == [blk[b] EXCEPT !.pending = @ + 1]
<1>0. req[c].at = "holding" /\ req[c].at \in Placed /\ "held" \in Placed
  BY DEF Hold, Placed
<1>1. /\ b \in Blocks /\ b = <<req[c].node, req[c].gen>> /\ blk[b] \in BlockRec
      /\ blk[b].remaining \in Int /\ blk[b].pending \in Nat
      /\ req[c].amount \in Nat /\ req[c].held \in Nat
      /\ spent \in Nat /\ counter \in Nat
  BY <1>0, PlacedType
<1>2. UNCHANGED <<counter, job, spent, reclaimed>>
  BY DEF Hold, storeVars
<1>3. /\ PlacedWell(v) /\ v.at = "held" /\ v.held = req[c].held /\ v.amount = req[c].amount
      /\ v.node = req[c].node /\ v.gen = req[c].gen
  BY <1>0, <1>1, Relocated
<1>4. w \in BlockRec /\ w.remaining = blk[b].remaining /\ w.pending = blk[b].pending + 1
  BY <1>1 DEF BlockRec
<1>5. req' = [req EXCEPT ![c] = v] /\ blk' = [blk EXCEPT ![b] = w]
  BY <1>0, SamePlace DEF Hold
<1> HIDE DEF v, w, b
<1>6. BlockStep(c, v, b, w)
  BY <1>0, <1>1, <1>2, <1>3, <1>4, <1>5 DEF BlockStep, Due, Count, NoDebt
<1>7. req' \in [Callers -> Calls] /\ blk' \in [Blocks -> BlockRec]
  BY <1>1, <1>3, <1>4, <1>5, CallChange, BlockChange
<1> QED
  BY <1>6, <1>7 DEF Hold, Shape, TypeOK, storeVars, WithinLimit

\* A request that is held is counted on its block.
LEMMA HolderCounted ==
    ASSUME Shape, NEW c \in Callers, req[c].at = "held"
    PROVE  blk[BlockOf(c)].pending >= 1
<1> DEFINE b == BlockOf(c)
<1>1. b \in Blocks /\ blk[b].pending \in Nat
  BY PlacedType DEF Placed
<1>2. c \in HoldersOf(b) /\ HoldersOf(b) \in SUBSET Callers
  BY DEF HoldersOf
<1>3. IsFiniteSet(HoldersOf(b))
  BY <1>2, FS_Subset, LedgerAssumption
<1>4. Cardinality(HoldersOf(b)) # 0
  BY <1>2, <1>3, FS_EmptySet
<1> QED
  BY <1>1, <1>4 DEF Shape, HoldsCounted

\* Settle moves the actual cost to spent and the rest to the block.
LEMMA SettleStep ==
    ASSUME Shape, NEW c \in Callers, NEW actual \in 0 .. req[c].amount + Overrun,
           Settle(c, actual)
    PROVE  TypeOK' /\ WithinLimit' /\ \E v, b, w : BlockStep(c, v, b, w)
<1> DEFINE b == BlockOf(c)
           w == [blk[b] EXCEPT !.remaining = @ + Refund(c, actual), !.pending = @ - 1]
<1>0. req[c].at = "held" /\ req[c].at \in Placed /\ PlacedWell(NoCall)
  BY CallType DEF Settle, Placed
<1>1. /\ b \in Blocks /\ b = <<req[c].node, req[c].gen>> /\ blk[b] \in BlockRec
      /\ blk[b].remaining \in Int /\ blk[b].pending \in Nat
      /\ req[c].amount \in Nat /\ req[c].held \in Nat
      /\ spent \in Nat /\ counter \in Nat
  BY <1>0, PlacedType
<1>2. UNCHANGED <<counter, job, reclaimed>> /\ spent' = spent + actual /\ actual \in Nat
  BY <1>1, LedgerAssumption DEF Settle, storeVars
<1>3. blk[b].pending >= 1
  BY <1>0, HolderCounted
<1>4. /\ w \in BlockRec /\ w.remaining = blk[b].remaining + (req[c].amount - actual)
      /\ w.pending = blk[b].pending - 1
  <2>1. Refund(c, actual) = req[c].amount - actual /\ Refund(c, actual) \in Int
    BY <1>1, <1>2 DEF Refund
  <2>2. blk[b].remaining + Refund(c, actual) \in Int /\ blk[b].pending - 1 \in Nat
    BY <1>1, <1>3, <2>1
  <2> QED
    BY <1>1, <2>1, <2>2 DEF BlockRec
<1>5. req' = [req EXCEPT ![c] = NoCall] /\ blk' = [blk EXCEPT ![b] = w]
  BY DEF Settle
<1>6. Overrun = 0 => actual <= req[c].amount
  BY <1>1
<1>7. NoCall.at = "idle" /\ NoCall.held = 0 /\ BlockOf(c) = b
  BY DEF NoCall
<1> HIDE DEF w, b
<1>8. BlockStep(c, NoCall, b, w)
  <2>1. Due(NoCall) = 0 /\ Count(NoCall) = 0 /\ Due(req[c]) = req[c].amount /\ Count(req[c]) = 1
    BY <1>0, <1>7 DEF Due, Count
  <2>2. Overrun = 0 /\ NoDebt => w.remaining >= 0
    BY <1>1, <1>2, <1>4, <1>6 DEF NoDebt
  <2>3. Due(NoCall) + NoCall.held + w.remaining + spent' - spent
        <= Due(req[c]) + req[c].held + blk[b].remaining + counter' - counter
    BY <1>1, <1>2, <1>4, <1>7, <2>1
  <2>4. w.pending = blk[b].pending + Count(NoCall) - Count(req[c])
    BY <1>1, <1>4, <2>1
  <2> QED
    BY <1>0, <1>1, <1>2, <1>4, <1>5, <1>7, <2>2, <2>3, <2>4 DEF BlockStep
<1>9. req' \in [Callers -> Calls] /\ blk' \in [Blocks -> BlockRec]
  BY <1>0, <1>1, <1>4, <1>5, CallChange, BlockChange
<1> QED
  BY <1>1, <1>2, <1>8, <1>9 DEF Settle, Shape, TypeOK, storeVars, WithinLimit

\* A request that leaves the block as it is.
LEMMA PassStep ==
    ASSUME Shape, NEW c \in Callers, req[c].at \in Placed \ {"holding", "held"},
           NEW v, PlacedWell(v), v.held \in Nat, v.held <= req[c].held,
           v.at \notin {"holding", "held"}, req' = [req EXCEPT ![c] = v],
           counter' = counter, blk' = blk, job' = job, spent' = spent, reclaimed' = reclaimed
    PROVE  /\ req' \in [Callers -> Calls]
           /\ \E u, b, w : BlockStep(c, u, b, w)
<1> DEFINE b == BlockOf(c)
           w == blk[b]
<1>1. /\ b \in Blocks /\ w \in BlockRec /\ w.remaining \in Int /\ w.pending \in Nat
      /\ req[c].held \in Nat /\ spent \in Nat /\ counter \in Nat
  BY PlacedType
<1>2. Due(v) = 0 /\ Count(v) = 0 /\ Due(req[c]) = 0 /\ Count(req[c]) = 0
  BY DEF Due, Count
<1>3. blk' = [blk EXCEPT ![b] = w]
  BY DEF Shape, TypeOK
<1>4. Due(v) + v.held + w.remaining + spent' - spent
      <= Due(req[c]) + req[c].held + w.remaining + counter' - counter
  BY <1>1, <1>2
<1>5. w.pending = w.pending + Count(v) - Count(req[c])
  BY <1>1, <1>2
<1>6. NoDebt => w.remaining >= 0
  BY <1>1 DEF NoDebt
<1>7. BlockStep(c, v, b, w)
  BY <1>1, <1>3, <1>4, <1>5, <1>6 DEF BlockStep
<1> QED
  BY <1>7, CallChange

\* drawAndTake takes the remainder into custody.
LEMMA LockStep ==
    ASSUME Shape, NEW c \in Callers, Lock(c)
    PROVE  TypeOK' /\ WithinLimit' /\ \E v, b, w : BlockStep(c, v, b, w)
<1> DEFINE b == BlockOf(c)
           h == AtLeastZero(blk[b].remaining)
<1>0. /\ req[c].at = "locking" /\ req[c].at \in Placed /\ "holding" \in Placed /\ "drawing" \in Placed
      /\ PlacedWell(NoCall) /\ NoCall.at = "idle" /\ NoCall.held = 0
  BY CallType DEF Lock, Placed, NoCall
<1>1. /\ b \in Blocks /\ b = <<req[c].node, req[c].gen>> /\ blk[b] \in BlockRec
      /\ blk[b].remaining \in Int /\ blk[b].pending \in Nat
      /\ req[c].amount \in Nat /\ req[c].held \in Nat
      /\ spent \in Nat /\ counter \in Nat
  BY <1>0, PlacedType
<1>2. UNCHANGED <<counter, job, spent, reclaimed>>
  BY DEF Lock, storeVars
<1>3. /\ h \in Nat
      /\ blk[b].remaining >= 0 => h = blk[b].remaining
      /\ NoDebt => blk[b].remaining >= 0
  BY <1>1 DEF AtLeastZero, NoDebt
<1>4. CASE CanTake(b, req[c].amount, clock)
  <2> DEFINE v == Moved(c, "holding", req[c].held)
             w == Holding(b, blk[b].remaining - req[c].amount)
  <2>1. PlacedWell(v) /\ v.at = "holding" /\ v.held = req[c].held /\ v.amount = req[c].amount
    BY <1>0, <1>1, Relocated
  <2>2. w \in BlockRec /\ w.remaining = blk[b].remaining - req[c].amount /\ w.pending = blk[b].pending
    BY <1>1, Recounted
  <2>3. req' = [req EXCEPT ![c] = v] /\ blk' = [blk EXCEPT ![b] = w] /\ mu' = mu
    BY <1>0, <1>4, SamePlace DEF Lock, Holding
  <2>4. blk[b].remaining >= req[c].amount
    BY <1>4 DEF CanTake
  <2> HIDE DEF v, w, b, h
  <2>5. BlockStep(c, v, b, w)
    BY <1>0, <1>1, <1>2, <2>1, <2>2, <2>3, <2>4 DEF BlockStep, Due, Count
  <2>6. req' \in [Callers -> Calls] /\ blk' \in [Blocks -> BlockRec]
    BY <1>1, <2>1, <2>2, <2>3, CallChange, BlockChange
  <2> QED
    BY <2>3, <2>5, <2>6 DEF Lock, Shape, TypeOK, storeVars, WithinLimit
<1>5. req[c].at \in Placed \ {"holding", "held"}
  BY <1>0
<1>6. CASE ~CanTake(b, req[c].amount, clock) /\ Unlinked(b)
  <2> DEFINE v == [req[c] EXCEPT !.at = "finding", !.gen = 0, !.tries = 1]
             u == [NoCall EXCEPT !.at = "evicted"]
  <2>1. blk' = blk /\ mu' = mu
    BY <1>6 DEF Lock
  <2>2. PlacedWell(v) /\ v.at \notin {"holding", "held"} /\ v.held = req[c].held
    BY <1>0, CallType DEF PlacedWell, Calls, Placed
  <2>3. PlacedWell(u) /\ u.at \notin {"holding", "held"} /\ u.held = 0
    BY DEF PlacedWell, Calls, Placed, NoCall
  <2>4. req' = [req EXCEPT ![c] = v] \/ req' = [req EXCEPT ![c] = u]
    BY <1>6 DEF Lock
  <2>5. req' \in [Callers -> Calls] /\ \E z, d, w : BlockStep(c, z, d, w)
    <3> HIDE DEF v, u
    <3>a. /\ v.held \in Nat /\ v.held <= req[c].held /\ u.held \in Nat /\ u.held <= req[c].held
          /\ counter' = counter /\ job' = job /\ spent' = spent /\ reclaimed' = reclaimed
      BY <1>1, <1>2, <2>2, <2>3
    <3>1. CASE req' = [req EXCEPT ![c] = v]
      BY <1>5, <2>1, <2>2, <3>a, <3>1, PassStep
    <3>2. CASE req' = [req EXCEPT ![c] = u]
      BY <1>5, <2>1, <2>3, <3>a, <3>2, PassStep
    <3> QED
      BY <2>4, <3>1, <3>2
  <2> QED
    BY <2>1, <2>5 DEF Lock, Shape, TypeOK, storeVars, WithinLimit
<1>7. CASE ~CanTake(b, req[c].amount, clock) /\ ~Unlinked(b) /\ mode[req[c].node] # "up"
  <2>1. blk' = blk /\ mu' = mu /\ req' = [req EXCEPT ![c] = NoCall]
    BY <1>7 DEF Lock
  <2>3. NoCall.held \in Nat /\ NoCall.held <= req[c].held /\ NoCall.at \notin {"holding", "held"}
    BY <1>0, <1>1
  <2>4. counter' = counter /\ job' = job /\ spent' = spent /\ reclaimed' = reclaimed
    BY <1>2
  <2>2. req' \in [Callers -> Calls] /\ \E u, d, w : BlockStep(c, u, d, w)
    BY <1>0, <1>5, <2>1, <2>3, <2>4, PassStep
  <2> QED
    BY <2>1, <2>2 DEF Lock, Shape, TypeOK, storeVars, WithinLimit
<1>8. CASE ~CanTake(b, req[c].amount, clock) /\ ~Unlinked(b) /\ mode[req[c].node] = "up"
  <2> DEFINE v == Moved(c, "drawing", h)
             w == Holding(b, 0)
  <2>1. PlacedWell(v) /\ v.at = "drawing" /\ v.held = h
    BY <1>0, <1>1, <1>3, Relocated
  <2>2. w \in BlockRec /\ w.remaining = 0 /\ w.pending = blk[b].pending
    BY <1>1, Recounted
  <2>a. req' = [req EXCEPT ![c].at = "drawing", ![c].held = h]
    BY <1>8 DEF Lock
  <2>b. req' = [req EXCEPT ![c] = v]
    BY <2>a DEF Moved, Shape, TypeOK
  <2>3. req' = [req EXCEPT ![c] = v] /\ blk' = [blk EXCEPT ![b] = w] /\ mu' = [mu EXCEPT ![b] = c]
    BY <1>8, <2>b DEF Lock, Holding, Custody
  <2>4. mu' \in [Blocks -> Nodes \cup Callers \cup {None}]
    BY <1>1, <2>3 DEF Shape, TypeOK
  <2> HIDE DEF v, w, b, h
  <2>5. BlockStep(c, v, b, w)
    BY <1>0, <1>1, <1>2, <1>3, <2>1, <2>2, <2>3 DEF BlockStep, Due, Count
  <2>6. req' \in [Callers -> Calls] /\ blk' \in [Blocks -> BlockRec]
    BY <1>1, <2>1, <2>2, <2>3, CallChange, BlockChange
  <2> QED
    BY <2>4, <2>5, <2>6 DEF Lock, Shape, TypeOK, storeVars, WithinLimit
<1> QED
  BY <1>4, <1>6, <1>7, <1>8

\* The transaction charges the counter by what the block gains.
LEMMA DrawStep ==
    ASSUME Shape, NEW c \in Callers, Draw(c)
    PROVE  TypeOK' /\ WithinLimit' /\ \E v, b, w : BlockStep(c, v, b, w)
<1> DEFINE b == BlockOf(c)
           v == Moved(c, "holding", 0)
           x == blk[b].remaining + Have(c) + Grant(c) - req[c].amount
           w == [blk[b] EXCEPT !.remaining = x, !.drawn = Kept(c, @) + Grant(c),
                               !.checked = Checkpointed(c), !.expires = req[c].stamp + TTL]
<1>0. req[c].at = "drawing" /\ req[c].at \in Placed /\ "holding" \in Placed /\ ~Exhausted(c)
  BY DEF Draw, Placed
<1>1. /\ b \in Blocks /\ b = <<req[c].node, req[c].gen>> /\ blk[b] \in BlockRec
      /\ blk[b].remaining \in Int /\ blk[b].pending \in Nat
      /\ req[c].amount \in Nat /\ req[c].held \in Nat /\ req[c].stamp \in Nat
      /\ spent \in Nat /\ counter \in Nat
  BY <1>0, PlacedType, CallType
<1>2. /\ Have(c) \in Nat /\ Have(c) <= req[c].held
      /\ Grant(c) \in Nat /\ Grant(c) >= req[c].amount - Have(c)
      /\ Limit > 0 => counter + Grant(c) <= Limit
      /\ Checkpointed(c) \in Nat
      /\ Kept(c, blk[b].drawn) \in Nat
      /\ DrawnLease(c) \in Leases
  BY <1>0, GrantType
<1>3. UNCHANGED <<job, spent, reclaimed>> /\ counter' = counter + Grant(c)
  BY DEF Draw, storeVars
<1>4. PlacedWell(v) /\ v.at = "holding" /\ v.held = 0 /\ v.amount = req[c].amount
  BY <1>0, Relocated
<1>5. w \in BlockRec /\ w.remaining = x /\ w.pending = blk[b].pending
  <2>1. x \in Int /\ Kept(c, blk[b].drawn) + Grant(c) \in Nat /\ req[c].stamp + TTL \in Nat
    BY <1>1, <1>2, LedgerAssumption
  <2> HIDE DEF x
  <2> QED
    BY <1>1, <1>2, <2>1 DEF BlockRec
<1>6. req' = [req EXCEPT ![c] = v] /\ blk' = [blk EXCEPT ![b] = w]
  <2>1. req' = [req EXCEPT ![c].at = "holding", ![c].held = 0]
    BY DEF Draw
  <2>2. req' = [req EXCEPT ![c] = v]
    BY <2>1 DEF Moved, Shape, TypeOK
  <2>3. blk' = [blk EXCEPT ![b] = w]
    BY <1>1 DEF Draw, Shape, TypeOK
  <2> QED
    BY <2>2, <2>3
<1>7. BlockStep(c, v, b, w)
  <2>1. Due(v) = req[c].amount /\ Count(v) = 0 /\ Due(req[c]) = 0 /\ Count(req[c]) = 0
    BY <1>0, <1>4 DEF Due, Count
  <2>2. NoDebt => x >= 0
    BY <1>1, <1>2 DEF NoDebt
  <2>3. Due(v) + v.held + x + spent' - spent
        <= Due(req[c]) + req[c].held + blk[b].remaining + counter' - counter
    BY <1>1, <1>2, <1>3, <1>4, <2>1
  <2> HIDE DEF v, w, b, x
  <2> QED
    BY <1>0, <1>1, <1>3, <1>4, <1>5, <1>6, <2>1, <2>2, <2>3 DEF BlockStep
<1>8. req' \in [Callers -> Calls] /\ blk' \in [Blocks -> BlockRec]
  <2> HIDE DEF v, w, b
  <2> QED
    BY <1>1, <1>4, <1>5, <1>6, CallChange, BlockChange
<1>9. /\ lease' \in [Nodes -> Leases \cup {None}]
      /\ mu' \in [Blocks -> Nodes \cup Callers \cup {None}]
      /\ counter' \in Nat
  BY <1>1, <1>2, <1>3 DEF Draw, Shape, TypeOK, storeVars, Blocks
<1> QED
  BY <1>2, <1>3, <1>7, <1>8, <1>9 DEF Draw, Shape, TypeOK, storeVars, WithinLimit

\* A draw that is refused or lost gives custody back.
LEMMA DrawRefusedStep ==
    ASSUME Shape, NEW c \in Callers, DrawRefused(c)
    PROVE  TypeOK' /\ WithinLimit' /\ \E v, b, w : BlockStep(c, v, b, w)
<1> DEFINE b == BlockOf(c)
           w == Holding(b, blk[b].remaining + req[c].held)
<1>0. /\ req[c].at = "drawing" /\ req[c].at \in Placed
      /\ PlacedWell(NoCall) /\ NoCall.at = "idle" /\ NoCall.held = 0
  BY CallType DEF DrawRefused, Placed, NoCall
<1>1. /\ b \in Blocks /\ b = <<req[c].node, req[c].gen>> /\ blk[b] \in BlockRec
      /\ blk[b].remaining \in Int /\ blk[b].pending \in Nat
      /\ req[c].amount \in Nat /\ req[c].held \in Nat /\ req[c].stamp \in Nat
      /\ spent \in Nat /\ counter \in Nat
  BY <1>0, PlacedType, CallType
<1>2. /\ counter' \in Nat /\ counter' >= counter
      /\ Limit > 0 => counter' <= Limit
      /\ lease' \in [Nodes -> Leases \cup {None}]
      /\ clean' \in BOOLEAN
  <2>1. CASE UNCHANGED <<storeVars, clean>>
    BY <2>1 DEF storeVars, Shape, TypeOK, WithinLimit
  <2>2. CASE ~Exhausted(c) /\ clean' = FALSE /\ counter' = counter + Grant(c)
             /\ lease' = [lease EXCEPT ![req[c].node] = DrawnLease(c)]
    <3>1. /\ Grant(c) \in Nat /\ DrawnLease(c) \in Leases
          /\ Limit > 0 => counter + Grant(c) <= Limit
      BY <1>0, <2>2, GrantType
    <3>2. lease' \in [Nodes -> Leases \cup {None}]
      BY <2>2, <3>1 DEF Shape, TypeOK
    <3>3. counter' \in Nat /\ counter' >= counter /\ (Limit > 0 => counter' <= Limit)
      BY <1>1, <2>2, <3>1
    <3> QED
      BY <2>2, <3>2, <3>3
  <2> QED
    BY <2>1, <2>2, <1>1 DEF DrawRefused
<1>3. UNCHANGED <<job, spent, reclaimed>>
  BY DEF DrawRefused
<1>4. w \in BlockRec /\ w.remaining = blk[b].remaining + req[c].held /\ w.pending = blk[b].pending
  BY <1>1, Recounted
<1>5. req' = [req EXCEPT ![c] = NoCall] /\ blk' = [blk EXCEPT ![b] = w]
  BY DEF DrawRefused, Holding
<1>6. mu' \in [Blocks -> Nodes \cup Callers \cup {None}]
  BY <1>1 DEF DrawRefused, Shape, TypeOK
<1> HIDE DEF w, b
<1>7. BlockStep(c, NoCall, b, w)
  <2>1. Due(NoCall) = 0 /\ Count(NoCall) = 0 /\ Due(req[c]) = 0 /\ Count(req[c]) = 0
    BY <1>0 DEF Due, Count
  <2>2. NoDebt => w.remaining >= 0
    BY <1>1, <1>4 DEF NoDebt
  <2>3. Due(NoCall) + NoCall.held + w.remaining + spent' - spent
        <= Due(req[c]) + req[c].held + blk[b].remaining + counter' - counter
    BY <1>0, <1>1, <1>2, <1>3, <1>4, <2>1
  <2> QED
    BY <1>0, <1>1, <1>3, <1>4, <1>5, <2>1, <2>2, <2>3 DEF BlockStep
<1>8. req' \in [Callers -> Calls] /\ blk' \in [Blocks -> BlockRec]
  BY <1>0, <1>1, <1>4, <1>5, CallChange, BlockChange
<1> QED
  BY <1>2, <1>6, <1>7, <1>8 DEF DrawRefused, Shape, TypeOK, WithinLimit

-----------------------------------------------------------------------------
(* The four sums: what requests have taken, what the blocks hold, what is   *)
(* in custody of a draw, what is about to be returned.                      *)

DuesOf(f)      == SumFunctionOnSet([c \in Callers |-> Due(f[c])], Callers)
CustodyOf(f)   == SumFunctionOnSet([c \in Callers |-> f[c].held], Callers)
RemainingOf(f) == SumFunctionOnSet([b \in Blocks |-> f[b].remaining], Blocks)
UnspentOf(f)   == SumFunctionOnSet([n \in Nodes |-> f[n].unspent], Nodes)

\* There are finitely many block objects.
LEMMA BlocksFinite == IsFiniteSet(Blocks)
  BY FS_Product, LedgerAssumption DEF Blocks

\* What a request has taken is a number of units.
LEMMA DueType ==
    ASSUME NEW v \in Calls
    PROVE  Due(v) \in Nat /\ v.held \in Nat /\ v.amount \in Nat
  BY DEF Due, Calls

\* Outstanding as a sum over all the requests.
LEMMA TakenIsDue ==
    ASSUME NEW f \in [Callers -> Calls]
    PROVE  SumFunctionOnSet([c \in Callers |-> f[c].amount],
                            {c \in Callers : f[c].at \in {"holding", "held"}}) = DuesOf(f)
<1> DEFINE a == [c \in Callers |-> f[c].amount]
           d == [c \in Callers |-> Due(f[c])]
           P == {c \in Callers : f[c].at \in {"holding", "held"}}
<1>1. \A c \in Callers : a[c] \in Int /\ d[c] = IF c \in P THEN a[c] ELSE 0
  BY DueType DEF Due
<1>2. P \in SUBSET Callers
  OBVIOUS
<1> HIDE DEF a, d, P
<1>3. SumFunctionOnSet(a, P) = SumFunctionOnSet(d, Callers)
  BY <1>1, <1>2, SumPart, LedgerAssumption
<1> QED
  BY <1>3 DEF DuesOf, a, d, P

\* One request changes: the sums over the requests change by its part.
LEMMA DuesChange ==
    ASSUME NEW f \in [Callers -> Calls], NEW g \in [Callers -> Calls], NEW c \in Callers,
           \A e \in Callers : e # c => g[e] = f[e]
    PROVE  /\ DuesOf(f) \in Nat /\ DuesOf(g) = DuesOf(f) - Due(f[c]) + Due(g[c])
           /\ CustodyOf(f) \in Nat /\ CustodyOf(g) = CustodyOf(f) - f[c].held + g[c].held
<1> DEFINE df == [e \in Callers |-> Due(f[e])]
           dg == [e \in Callers |-> Due(g[e])]
           hf == [e \in Callers |-> f[e].held]
           hg == [e \in Callers |-> g[e].held]
<1>1. \A e \in Callers : /\ df[e] \in Nat /\ dg[e] \in Nat /\ (e # c => dg[e] = df[e])
                         /\ hf[e] \in Nat /\ hg[e] \in Nat /\ (e # c => hg[e] = hf[e])
  BY DueType
<1>2. df[c] = Due(f[c]) /\ dg[c] = Due(g[c]) /\ hf[c] = f[c].held /\ hg[c] = g[c].held
  OBVIOUS
<1> HIDE DEF df, dg, hf, hg
<1>3. SumFunctionOnSet(dg, Callers) = SumFunctionOnSet(df, Callers) - df[c] + dg[c]
  BY <1>1, SumChange, LedgerAssumption
<1>4. SumFunctionOnSet(hg, Callers) = SumFunctionOnSet(hf, Callers) - hf[c] + hg[c]
  BY <1>1, SumChange, LedgerAssumption
<1>5. SumFunctionOnSet(df, Callers) \in Nat /\ SumFunctionOnSet(hf, Callers) \in Nat
  BY <1>1, SumNat, LedgerAssumption
<1> QED
  BY <1>2, <1>3, <1>4, <1>5 DEF DuesOf, CustodyOf, df, dg, hf, hg

\* One block changes: the sum of the remainders changes by its part.
LEMMA RemainingChange ==
    ASSUME NEW f \in [Blocks -> BlockRec], NEW g \in [Blocks -> BlockRec], NEW b \in Blocks,
           \A e \in Blocks : e # b => g[e] = f[e]
    PROVE  /\ RemainingOf(f) \in Int
           /\ RemainingOf(g) = RemainingOf(f) - f[b].remaining + g[b].remaining
<1> DEFINE rf == [e \in Blocks |-> f[e].remaining]
           rg == [e \in Blocks |-> g[e].remaining]
<1>1. \A e \in Blocks : rf[e] \in Int /\ rg[e] \in Int /\ (e # b => rg[e] = rf[e])
  BY DEF BlockRec
<1>2. rf[b] = f[b].remaining /\ rg[b] = g[b].remaining
  OBVIOUS
<1> HIDE DEF rf, rg
<1>3. /\ SumFunctionOnSet(rf, Blocks) \in Int
      /\ SumFunctionOnSet(rg, Blocks) = SumFunctionOnSet(rf, Blocks) - rf[b] + rg[b]
  BY <1>1, SumChange, BlocksFinite
<1> QED
  BY <1>2, <1>3 DEF RemainingOf, rf, rg

\* One job changes: the sum of what is being returned changes by its part.
LEMMA UnspentChange ==
    ASSUME NEW f \in [Nodes -> Jobs], NEW g \in [Nodes -> Jobs], NEW n \in Nodes,
           \A e \in Nodes : e # n => g[e] = f[e]
    PROVE  /\ UnspentOf(f) \in Nat
           /\ UnspentOf(g) = UnspentOf(f) - f[n].unspent + g[n].unspent
<1> DEFINE uf == [e \in Nodes |-> f[e].unspent]
           ug == [e \in Nodes |-> g[e].unspent]
<1>1. \A e \in Nodes : uf[e] \in Nat /\ ug[e] \in Nat /\ (e # n => ug[e] = uf[e])
  BY DEF Jobs
<1>2. uf[n] = f[n].unspent /\ ug[n] = g[n].unspent
  OBVIOUS
<1> HIDE DEF uf, ug
<1>3. SumFunctionOnSet(ug, Nodes) = SumFunctionOnSet(uf, Nodes) - uf[n] + ug[n]
  BY <1>1, SumChange, LedgerAssumption
<1>4. SumFunctionOnSet(uf, Nodes) \in Nat
  BY <1>1, SumNat, LedgerAssumption
<1> QED
  BY <1>2, <1>3, <1>4 DEF UnspentOf, uf, ug

\* The four sums are numbers.
LEMMA SumTypes ==
    ASSUME NEW f \in [Callers -> Calls], NEW g \in [Blocks -> BlockRec], NEW h \in [Nodes -> Jobs]
    PROVE  DuesOf(f) \in Nat /\ CustodyOf(f) \in Nat /\ RemainingOf(g) \in Int /\ UnspentOf(h) \in Nat
<1> DEFINE d == [e \in Callers |-> Due(f[e])]
           c == [e \in Callers |-> f[e].held]
           r == [e \in Blocks |-> g[e].remaining]
           u == [e \in Nodes |-> h[e].unspent]
<1>1. /\ \A e \in Callers : d[e] \in Nat /\ c[e] \in Nat
      /\ \A e \in Blocks : r[e] \in Int
      /\ \A e \in Nodes : u[e] \in Nat
  BY DueType DEF BlockRec, Jobs
<1> HIDE DEF d, c, r, u
<1>2. SumFunctionOnSet(d, Callers) \in Nat /\ SumFunctionOnSet(c, Callers) \in Nat
  BY <1>1, SumNat, LedgerAssumption
<1>3. SumFunctionOnSet(r, Blocks) \in Int /\ SumFunctionOnSet(u, Nodes) \in Nat
  BY <1>1, SumNat, SumInt, BlocksFinite, LedgerAssumption
<1> QED
  BY <1>2, <1>3 DEF DuesOf, CustodyOf, RemainingOf, UnspentOf, d, c, r, u

\* CounterAhead in terms of the four sums, before and after a step.
LEMMA AheadSums ==
    ASSUME TypeOK, TypeOK'
    PROVE  /\ CounterAhead <=> counter + reclaimed >=
                 spent + DuesOf(req) + (RemainingOf(blk) + CustodyOf(req) + UnspentOf(job))
           /\ CounterAhead' <=> counter' + reclaimed' >=
                 spent' + DuesOf(req') + (RemainingOf(blk') + CustodyOf(req') + UnspentOf(job'))
<1>1. Outstanding = DuesOf(req)
  BY TakenIsDue DEF Outstanding, AmountsOf, TypeOK
<1>2. Outstanding' = DuesOf(req')
  BY TakenIsDue DEF Outstanding, AmountsOf, TypeOK
<1>3. Afloat = RemainingOf(blk) + CustodyOf(req) + UnspentOf(job)
  BY DEF Afloat, RemainingOf, CustodyOf, UnspentOf
<1>4. Afloat' = RemainingOf(blk') + CustodyOf(req') + UnspentOf(job')
  BY DEF Afloat, RemainingOf, CustodyOf, UnspentOf
<1> QED
  BY <1>1, <1>2, <1>3, <1>4 DEF CounterAhead

-----------------------------------------------------------------------------
(* Every step of a request keeps the invariant.                            *)

\* Finitely many requests hold a block.
LEMMA HoldersFinite ==
    ASSUME NEW b PROVE IsFiniteSet(HoldersOf(b))
<1>1. HoldersOf(b) \in SUBSET Callers
  BY DEF HoldersOf
<1> QED
  BY <1>1, FS_Subset, LedgerAssumption

\* Nobody takes up or gives up a hold.
LEMMA SameHolders ==
    ASSUME HoldsCounted, \A b \in Blocks : blk'[b].pending = blk[b].pending,
           \A c \in Callers : req'[c] = req[c] \/ (req[c].at # "held" /\ req'[c].at # "held")
    PROVE  HoldsCounted'
<1>1. \A b \in Blocks : HoldersOf(b)' = HoldersOf(b)
  BY DEF HoldersOf, BlockOf
<1> QED
  BY <1>1 DEF HoldsCounted

\* A step of one request and one block keeps the counter ahead.
LEMMA BlockStepKeeps ==
    ASSUME Shape, TypeOK', WithinLimit', NEW c \in Callers, NEW v, NEW b, NEW w,
           BlockStep(c, v, b, w)
    PROVE  Shape' /\ (Overrun = 0 /\ Covered => Covered')
<1>0. /\ b \in Blocks /\ req' = [req EXCEPT ![c] = v] /\ PlacedWell(v) /\ v \in Calls
      /\ blk' = [blk EXCEPT ![b] = w] /\ w \in BlockRec
      /\ job' = job /\ reclaimed' = reclaimed
      /\ req \in [Callers -> Calls] /\ req' \in [Callers -> Calls]
      /\ blk \in [Blocks -> BlockRec] /\ blk' \in [Blocks -> BlockRec]
  BY DEF BlockStep, Shape, TypeOK, PlacedWell
<1>1. /\ req'[c] = v /\ \A e \in Callers : e # c => req'[e] = req[e]
      /\ blk'[b] = w /\ \A e \in Blocks : e # b => blk'[e] = blk[e]
  BY <1>0
<1>2. Located'
  BY <1>0, CallChange
<1>3. HoldsCounted'
  <2>1. ASSUME NEW e \in Blocks PROVE blk'[e].pending = Cardinality(HoldersOf(e)')
    <3> DEFINE H == HoldersOf(e)
    <3>0. /\ IsFiniteSet(H) /\ blk[e].pending = Cardinality(H) /\ Cardinality(H) \in Nat
      BY HoldersFinite, FS_CardinalityType DEF Shape, HoldsCounted
    <3>1. CASE e # b
      <4>1. HoldersOf(e)' = H
        BY <1>1, <3>1 DEF HoldersOf, BlockOf, BlockStep
      <4> QED
        BY <1>1, <3>0, <3>1, <4>1
    <3>2. CASE e = b
      <4>1. CASE v.at = "held"
        <5>1. HoldersOf(e)' = H \cup {c}
          BY <1>1, <3>2, <4>1 DEF HoldersOf, BlockOf, BlockStep
        <5>2. c \in H <=> req[c].at = "held"
          BY <3>2 DEF HoldersOf, BlockStep
        <5>3. Cardinality(H \cup {c}) = IF c \in H THEN Cardinality(H) ELSE Cardinality(H) + 1
          BY <3>0, FS_AddElement
        <5>4. w.pending = blk[b].pending + 1 - (IF req[c].at = "held" THEN 1 ELSE 0)
          BY <4>1 DEF BlockStep, Count
        <5> QED
          BY <1>1, <3>0, <3>2, <5>1, <5>2, <5>3, <5>4
      <4>2. CASE v.at # "held"
        <5>1. HoldersOf(e)' = H \ {c}
          BY <1>1, <3>2, <4>2 DEF HoldersOf, BlockOf, BlockStep
        <5>2. c \in H <=> req[c].at = "held"
          BY <3>2 DEF HoldersOf, BlockStep
        <5>3. Cardinality(H \ {c}) = IF c \in H THEN Cardinality(H) - 1 ELSE Cardinality(H)
          BY <3>0, FS_RemoveElement
        <5>4. w.pending = blk[b].pending + 0 - (IF req[c].at = "held" THEN 1 ELSE 0)
          BY <4>2 DEF BlockStep, Count
        <5> QED
          BY <1>1, <3>0, <3>2, <5>1, <5>2, <5>3, <5>4
      <4> QED
        BY <4>1, <4>2
    <3> QED
      BY <3>1, <3>2
  <2> QED
    BY <2>1 DEF HoldsCounted
<1>4. ASSUME Overrun = 0, Covered PROVE Covered'
  <2>0. NoDebt /\ CounterAhead /\ TypeOK /\ TypeOK'
    BY <1>4 DEF Covered, Shape
  <2>1. /\ w.remaining >= 0
        /\ Due(v) + v.held + w.remaining + spent' - spent
           <= Due(req[c]) + req[c].held + blk[b].remaining + counter' - counter
    BY <1>4, <2>0 DEF BlockStep
  <2>2. NoDebt'
    BY <1>1, <2>0, <2>1 DEF NoDebt
  <2>3. /\ DuesOf(req) \in Nat /\ DuesOf(req') = DuesOf(req) - Due(req[c]) + Due(v)
        /\ CustodyOf(req) \in Nat /\ CustodyOf(req') = CustodyOf(req) - req[c].held + v.held
    <3>1. /\ req \in [Callers -> Calls] /\ req' \in [Callers -> Calls]
          /\ \A e \in Callers : e # c => req'[e] = req[e]
      BY <1>0, <1>1
    <3>2. /\ DuesOf(req) \in Nat /\ DuesOf(req') = DuesOf(req) - Due(req[c]) + Due(req'[c])
          /\ CustodyOf(req) \in Nat
          /\ CustodyOf(req') = CustodyOf(req) - req[c].held + req'[c].held
      BY <3>1, DuesChange
    <3> QED
      BY <1>1, <3>2
  <2>4. /\ RemainingOf(blk) \in Int
        /\ RemainingOf(blk') = RemainingOf(blk) - blk[b].remaining + w.remaining
    BY <1>0, <1>1, RemainingChange
  <2>5. UnspentOf(job) \in Nat /\ UnspentOf(job') = UnspentOf(job)
    BY <1>0, SumTypes DEF Shape, TypeOK
  <2>6. /\ Due(v) \in Nat /\ v.held \in Nat /\ Due(req[c]) \in Nat /\ req[c].held \in Nat
        /\ w.remaining \in Int /\ blk[b].remaining \in Int
        /\ {spent, spent', counter, counter', reclaimed} \subseteq Nat
    BY <1>0, <2>0, DueType DEF BlockRec, TypeOK
  <2>7. CounterAhead'
    BY <1>0, <2>0, <2>1, <2>3, <2>4, <2>5, <2>6, AheadSums
  <2> QED
    BY <2>2, <2>7 DEF Covered
<1> QED
  BY <1>2, <1>3, <1>4 DEF Shape

\* A step of one request keeps the counter ahead.
LEMMA CallStepKeeps ==
    ASSUME Shape, TypeOK', WithinLimit', NEW c \in Callers, NEW v, CallStep(c, v)
    PROVE  Shape' /\ (Overrun = 0 /\ Covered => Covered')
<1>0. /\ req' = [req EXCEPT ![c] = v] /\ PlacedWell(v) /\ v \in Calls
      /\ blk' = blk /\ job' = job /\ reclaimed' = reclaimed /\ spent' = spent /\ counter' = counter
      /\ req \in [Callers -> Calls] /\ req' \in [Callers -> Calls]
  BY DEF CallStep, Shape, TypeOK, PlacedWell
<1>1. req'[c] = v /\ \A e \in Callers : e # c => req'[e] = req[e]
  BY <1>0
<1>2. Located'
  BY <1>0, CallChange
<1>3. HoldsCounted'
  BY <1>0, <1>1, SameHolders DEF Shape, CallStep
<1>4. ASSUME Covered PROVE Covered'
  <2>0. NoDebt /\ CounterAhead /\ TypeOK /\ TypeOK'
    BY <1>4 DEF Covered, Shape
  <2>1. Due(v) + v.held <= Due(req[c]) + req[c].held
    BY DEF CallStep
  <2>2. NoDebt'
    BY <1>0, <2>0 DEF NoDebt
  <2>3. /\ DuesOf(req) \in Nat /\ DuesOf(req') = DuesOf(req) - Due(req[c]) + Due(v)
        /\ CustodyOf(req) \in Nat /\ CustodyOf(req') = CustodyOf(req) - req[c].held + v.held
    BY <1>0, <1>1, DuesChange
  <2>4. RemainingOf(blk) \in Int /\ UnspentOf(job) \in Nat
    BY <1>0, SumTypes DEF Shape, TypeOK
  <2>5. RemainingOf(blk') = RemainingOf(blk) /\ UnspentOf(job') = UnspentOf(job)
    BY <1>0
  <2>6. /\ Due(v) \in Nat /\ v.held \in Nat /\ Due(req[c]) \in Nat /\ req[c].held \in Nat
        /\ {spent, counter, reclaimed} \subseteq Nat
    BY <1>0, <2>0, DueType DEF TypeOK
  <2>7. CounterAhead'
    BY <1>0, <2>0, <2>1, <2>3, <2>4, <2>5, <2>6, AheadSums
  <2> QED
    BY <2>2, <2>7 DEF Covered
<1> QED
  BY <1>2, <1>3, <1>4 DEF Shape

\* Every step of a request is one of these.
LEMMA RequestKeeps ==
    ASSUME Shape, NEW c \in Callers, Request(c)
    PROVE  Shape' /\ (Overrun = 0 /\ Covered => Covered')
<1>1. /\ TypeOK' /\ WithinLimit'
      /\ \/ \E v : CallStep(c, v)
         \/ \E v, b, w : BlockStep(c, v, b, w)
  BY ReserveStep, ReportStep, FindStep, TakeStep, LockStep, DrawStep, DrawRefusedStep,
     HoldStep, SettleStep DEF Request
<1> QED
  BY <1>1, CallStepKeeps, BlockStepKeeps

-----------------------------------------------------------------------------
(* Every step of a node keeps the invariant.                               *)

WellPlaced(j) == j \in Jobs /\ (j.at # "idle" => j.gen \in Gens)

\* A step of maintenance or of Close that leaves the blocks alone ...
JobStep(n, j) ==
    /\ job' = [job EXCEPT ![n] = j] /\ WellPlaced(j)
    /\ req' = req /\ blk' = blk /\ reclaimed' = reclaimed /\ spent' = spent
    /\ j.unspent + counter <= job[n].unspent + counter'

\* ... and one that changes one of them.
JobBlockStep(n, j, b, w) ==
    /\ b \in Blocks
    /\ job' = [job EXCEPT ![n] = j] /\ WellPlaced(j)
    /\ blk' = [blk EXCEPT ![b] = w] /\ w \in BlockRec
    /\ req' = req /\ reclaimed' = reclaimed /\ spent' = spent /\ counter' = counter
    /\ w.pending = blk[b].pending
    /\ NoDebt => w.remaining >= 0 /\ j.unspent + w.remaining <= job[n].unspent + blk[b].remaining

\* A step of maintenance that moves no units but those being returned.
LEMMA JobStepKeeps ==
    ASSUME Shape, TypeOK', WithinLimit', NEW n \in Nodes, NEW j, JobStep(n, j)
    PROVE  Shape' /\ (Covered => Covered')
<1>0. /\ job' = [job EXCEPT ![n] = j] /\ WellPlaced(j) /\ j \in Jobs
      /\ req' = req /\ blk' = blk /\ reclaimed' = reclaimed /\ spent' = spent
      /\ job \in [Nodes -> Jobs] /\ job' \in [Nodes -> Jobs]
  BY DEF JobStep, Shape, TypeOK, WellPlaced
<1>1. job'[n] = j /\ \A e \in Nodes : e # n => job'[e] = job[e]
  BY <1>0
<1>2. Located'
  BY <1>0, <1>1 DEF Located, Shape, WellPlaced
<1>3. HoldsCounted'
  BY <1>0, SameHolders DEF Shape
<1>4. ASSUME Covered PROVE Covered'
  <2>0. NoDebt /\ CounterAhead /\ TypeOK /\ TypeOK'
    BY <1>4 DEF Covered, Shape
  <2>1. j.unspent + counter <= job[n].unspent + counter'
    BY DEF JobStep
  <2>2. NoDebt'
    BY <1>0, <2>0 DEF NoDebt
  <2>3. UnspentOf(job) \in Nat /\ UnspentOf(job') = UnspentOf(job) - job[n].unspent + j.unspent
    BY <1>0, <1>1, UnspentChange
  <2>4. RemainingOf(blk) \in Int /\ DuesOf(req) \in Nat /\ CustodyOf(req) \in Nat
    BY SumTypes DEF Shape, TypeOK
  <2>5. RemainingOf(blk') = RemainingOf(blk) /\ DuesOf(req') = DuesOf(req) /\ CustodyOf(req') = CustodyOf(req)
    BY <1>0
  <2>6. j.unspent \in Nat /\ job[n].unspent \in Nat /\ {spent, counter, counter', reclaimed} \subseteq Nat
    BY <1>0, <2>0 DEF TypeOK, Jobs
  <2>7. CounterAhead'
    BY <1>0, <2>0, <2>1, <2>3, <2>4, <2>5, <2>6, AheadSums
  <2> QED
    BY <2>2, <2>7 DEF Covered
<1> QED
  BY <1>2, <1>3, <1>4 DEF Shape

\* A step of maintenance on one block.
LEMMA JobBlockStepKeeps ==
    ASSUME Shape, TypeOK', WithinLimit', NEW n \in Nodes, NEW j, NEW b, NEW w,
           JobBlockStep(n, j, b, w)
    PROVE  Shape' /\ (Covered => Covered')
<1>0. /\ job' = [job EXCEPT ![n] = j] /\ WellPlaced(j) /\ j \in Jobs
      /\ b \in Blocks /\ blk' = [blk EXCEPT ![b] = w] /\ w \in BlockRec
      /\ req' = req /\ reclaimed' = reclaimed /\ spent' = spent /\ counter' = counter
      /\ job \in [Nodes -> Jobs] /\ job' \in [Nodes -> Jobs]
      /\ blk \in [Blocks -> BlockRec] /\ blk' \in [Blocks -> BlockRec]
  BY DEF JobBlockStep, Shape, TypeOK, WellPlaced
<1>1. /\ job'[n] = j /\ \A e \in Nodes : e # n => job'[e] = job[e]
      /\ blk'[b] = w /\ \A e \in Blocks : e # b => blk'[e] = blk[e]
  BY <1>0
<1>2. Located'
  BY <1>0, <1>1 DEF Located, Shape, WellPlaced
<1>3. HoldsCounted'
  <2>1. \A e \in Blocks : blk'[e].pending = blk[e].pending
    BY <1>1 DEF JobBlockStep
  <2> QED
    BY <1>0, <2>1, SameHolders DEF Shape
<1>4. ASSUME Covered PROVE Covered'
  <2>0. NoDebt /\ CounterAhead /\ TypeOK /\ TypeOK'
    BY <1>4 DEF Covered, Shape
  <2>1. w.remaining >= 0 /\ j.unspent + w.remaining <= job[n].unspent + blk[b].remaining
    BY <2>0 DEF JobBlockStep
  <2>2. NoDebt'
    BY <1>1, <2>0, <2>1 DEF NoDebt
  <2>3. UnspentOf(job) \in Nat /\ UnspentOf(job') = UnspentOf(job) - job[n].unspent + j.unspent
    BY <1>0, <1>1, UnspentChange
  <2>4. /\ RemainingOf(blk) \in Int
        /\ RemainingOf(blk') = RemainingOf(blk) - blk[b].remaining + w.remaining
    BY <1>0, <1>1, RemainingChange
  <2>5. /\ DuesOf(req) \in Nat /\ CustodyOf(req) \in Nat
        /\ DuesOf(req') = DuesOf(req) /\ CustodyOf(req') = CustodyOf(req)
    BY <1>0, SumTypes DEF Shape, TypeOK
  <2>6. /\ j.unspent \in Nat /\ job[n].unspent \in Nat /\ {spent, counter, reclaimed} \subseteq Nat
        /\ w.remaining \in Int /\ blk[b].remaining \in Int
    BY <1>0, <2>0 DEF TypeOK, Jobs, BlockRec
  <2>7. CounterAhead'
    BY <1>0, <2>0, <2>1, <2>3, <2>4, <2>5, <2>6, AheadSums
  <2> QED
    BY <2>2, <2>7 DEF Covered
<1> QED
  BY <1>2, <1>3, <1>4 DEF Shape

\* A step that touches neither requests nor blocks nor jobs.
LEMMA QuietKeeps ==
    ASSUME Shape, TypeOK', WithinLimit', req' = req, blk' = blk, job' = job, spent' = spent,
           counter + reclaimed <= counter' + reclaimed'
    PROVE  Shape' /\ (Covered => Covered')
<1>1. Located' /\ HoldsCounted'
  <2>1. Located'
    BY DEF Located, Shape
  <2> QED
    BY <2>1, SameHolders DEF Shape
<1>2. ASSUME Covered PROVE Covered'
  <2>0. NoDebt /\ CounterAhead /\ TypeOK /\ TypeOK'
    BY <1>2 DEF Covered, Shape
  <2>1. NoDebt'
    BY <2>0 DEF NoDebt
  <2>2. /\ DuesOf(req) \in Nat /\ CustodyOf(req) \in Nat /\ RemainingOf(blk) \in Int
        /\ UnspentOf(job) \in Nat
    BY <2>0, SumTypes DEF TypeOK
  <2>3. /\ DuesOf(req') = DuesOf(req) /\ CustodyOf(req') = CustodyOf(req)
        /\ RemainingOf(blk') = RemainingOf(blk) /\ UnspentOf(job') = UnspentOf(job)
    OBVIOUS
  <2>4. {spent, counter, counter', reclaimed, reclaimed'} \subseteq Nat
    BY <2>0 DEF TypeOK
  <2>5. CounterAhead'
    BY <2>0, <2>2, <2>3, <2>4, AheadSums
  <2> QED
    BY <2>1, <2>5 DEF Covered
<1> QED
  BY <1>1, <1>2 DEF Shape

\* The records the node's steps leave in place of a block's.
LEMMA BlockForm ==
    ASSUME NEW v \in BlockRec, NEW x \in Int, NEW e \in Nat, NEW d \in Nat, NEW k \in Nat,
           NEW p \in Nat, NEW q \in BOOLEAN
    PROVE  /\ [v EXCEPT !.pending = p, !.evicted = q] \in BlockRec
           /\ [v EXCEPT !.remaining = x, !.expires = e] \in BlockRec
           /\ [v EXCEPT !.remaining = x, !.expires = e, !.drawn = d, !.checked = k] \in BlockRec
           /\ [v EXCEPT !.evicted = q] \in BlockRec
<1>1. [v EXCEPT !.pending = p, !.evicted = q] \in BlockRec
  BY DEF BlockRec
<1>2. [v EXCEPT !.remaining = x, !.expires = e] \in BlockRec
  BY DEF BlockRec
<1>3. [v EXCEPT !.remaining = x, !.expires = e, !.drawn = d, !.checked = k] \in BlockRec
  BY DEF BlockRec
<1>4. [v EXCEPT !.evicted = q] \in BlockRec
  BY DEF BlockRec
<1> QED
  BY <1>1, <1>2, <1>3, <1>4

\* The forms a block takes in maintenance.
LEMMA BlockForms ==
    ASSUME NEW v \in BlockRec
    PROVE  /\ [EmptyBlock EXCEPT !.pending = v.pending, !.evicted = v.evicted] \in BlockRec
           /\ [v EXCEPT !.remaining = 0, !.expires = 0] \in BlockRec
           /\ [v EXCEPT !.remaining = 0, !.expires = 0, !.drawn = 0, !.checked = 0] \in BlockRec
           /\ [v EXCEPT !.evicted = FALSE] \in BlockRec
<1>1. v.pending \in Nat /\ v.evicted \in BOOLEAN /\ 0 \in Nat /\ 0 \in Int /\ FALSE \in BOOLEAN
  BY DEF BlockRec
<1>2. [EmptyBlock EXCEPT !.pending = v.pending, !.evicted = v.evicted] \in BlockRec
  <2>1. EmptyBlock \in BlockRec
    BY DEF EmptyBlock, BlockRec
  <2>2. PICK w \in BlockRec, p \in Nat, q \in BOOLEAN :
           w = EmptyBlock /\ p = v.pending /\ q = v.evicted
    BY <1>1, <2>1
  <2>3. [w EXCEPT !.pending = p, !.evicted = q] \in BlockRec
    BY DEF BlockRec
  <2> QED
    BY <2>2, <2>3
<1>3. [v EXCEPT !.remaining = 0, !.expires = 0] \in BlockRec
  <2>1. PICK x \in Int, e \in Nat : x = 0 /\ e = 0
    BY <1>1
  <2>2. [v EXCEPT !.remaining = x, !.expires = e] \in BlockRec
    BY DEF BlockRec
  <2> QED
    BY <2>1, <2>2
<1>4. [v EXCEPT !.remaining = 0, !.expires = 0, !.drawn = 0, !.checked = 0] \in BlockRec
  BY <1>1, BlockForm
<1>5. [v EXCEPT !.evicted = FALSE] \in BlockRec
  BY <1>1, BlockForm
<1> QED
  BY <1>2, <1>3, <1>4, <1>5

\* The records a job goes through.
LEMMA JobType ==
    ASSUME Shape, NEW n \in Nodes
    PROVE  /\ job[n] \in Jobs /\ job[n].unspent \in Nat /\ job[n].stamp \in Nat
           /\ WellPlaced(NoJob) /\ NoJob.unspent = 0
           /\ counter \in Nat /\ cur[n] \in Gens \cup {0}
           /\ job[n].at # "idle" => /\ job[n].gen \in Gens /\ JobBlock(n) \in Blocks
                                    /\ blk[JobBlock(n)] \in BlockRec
                                    /\ blk[JobBlock(n)].remaining \in Int
<1>1. job[n] \in Jobs /\ (job[n].at # "idle" => job[n].gen \in Gens)
  BY DEF Shape, TypeOK, Located
<1>2. job[n].at # "idle" => JobBlock(n) \in Blocks
  BY <1>1 DEF JobBlock, Blocks
<1>3. WellPlaced(NoJob) /\ NoJob.unspent = 0
  BY DEF WellPlaced, NoJob, Jobs
<1> QED
  BY <1>1, <1>2, <1>3 DEF Shape, TypeOK, Jobs, BlockRec

\* How a node's job goes on.
Goes(n, p, u) == [job[n] EXCEPT !.at = p, !.unspent = u]

\* A job that moves on keeps its block.
LEMMA GoesType ==
    ASSUME Shape, NEW n \in Nodes, job[n].at # "idle", NEW u \in Nat,
           NEW p \in {"returning", "stopped", "unlinking", "restoring"}
    PROVE  WellPlaced(Goes(n, p, u)) /\ Goes(n, p, u).unspent = u
  BY JobType DEF WellPlaced, Goes, Jobs

\* Maintain picks what to do with the block.
LEMMA MaintainKeeps ==
    ASSUME Shape, NEW n \in Nodes, Maintain(n)
    PROVE  Shape' /\ (Covered => Covered')
<1> DEFINE b == <<n, cur[n]>>
           j == [NoJob EXCEPT !.at = IF Finished(b) THEN "evicting" ELSE "refreshing",
                              !.gen = cur[n], !.stamp = clock,
                              !.renew = clock + Renew >= blk[b].expires]
<1>1. WellPlaced(j) /\ j.unspent = 0
  <2>1. cur[n] \in Gens /\ clock \in Nat /\ (clock + Renew >= blk[b].expires) \in BOOLEAN
    BY DEF Maintain, Shape, TypeOK
  <2> QED
    BY <2>1 DEF WellPlaced, NoJob, Jobs
<1>2. job' = [job EXCEPT ![n] = j]
  BY DEF Maintain
<1>3. /\ req' = req /\ blk' = blk /\ reclaimed' = reclaimed /\ spent' = spent /\ counter' = counter
  BY DEF Maintain, storeVars
<1> HIDE DEF j
<1>4. JobStep(n, j)
  BY <1>1, <1>2, <1>3, JobType DEF JobStep
<1>5. job' \in [Nodes -> Jobs]
  BY <1>1, <1>2 DEF Shape, TypeOK, WellPlaced
<1>6. TypeOK' /\ WithinLimit'
  BY <1>5 DEF Maintain, Shape, TypeOK, WithinLimit, storeVars
<1> QED
  BY <1>4, <1>6, JobStepKeeps

\* The jobs that are over.
LEMMA Done ==
    ASSUME Shape, NEW n \in Nodes, job' = [job EXCEPT ![n] = NoJob]
    PROVE  job' \in [Nodes -> Jobs]
  BY JobType DEF Shape, TypeOK, WellPlaced

\* refreshBlock leaves a well-formed row.
LEMMA RefreshedType ==
    ASSUME Shape, NEW n \in Nodes, job[n].at = "refreshing"
    PROVE  /\ Used(JobBlock(n)) \in Nat
           /\ lease[n] # None => RefreshedLease(n, JobBlock(n)) \in Leases
<1>1. /\ JobBlock(n) \in Blocks /\ blk[JobBlock(n)] \in BlockRec /\ job[n].stamp \in Nat
      /\ blk[JobBlock(n)].drawn \in Nat /\ blk[JobBlock(n)].remaining \in Int
  BY JobType DEF BlockRec
<1>2. Used(JobBlock(n)) \in Nat
  BY <1>1 DEF Used, Smaller, AtLeastZero
<1>3. lease[n] # None => lease[n] \in Leases
  BY DEF Shape, TypeOK
<1>4. job[n].stamp + TTL \in Nat
  BY <1>1, LedgerAssumption
<1> QED
  BY <1>2, <1>3, <1>4 DEF RefreshedLease, Leases

\* refreshBlock writes the row, or empties a block whose row is gone.
LEMMA RefreshKeeps ==
    ASSUME Shape, NEW n \in Nodes, Refresh(n)
    PROVE  Shape' /\ (Covered => Covered')
<1> DEFINE b == JobBlock(n)
           e == [EmptyBlock EXCEPT !.pending = blk[b].pending, !.evicted = blk[b].evicted]
           w == [blk[b] EXCEPT !.checked = Used(b), !.expires = RefreshedLease(n, b).expires]
<1>0. /\ job[n].at = "refreshing" /\ b \in Blocks /\ blk[b] \in BlockRec
      /\ blk[b].remaining \in Int /\ Used(b) \in Nat
      /\ lease[n] # None => RefreshedLease(n, b) \in Leases
      /\ job[n].unspent \in Nat /\ WellPlaced(NoJob) /\ NoJob.unspent = 0
  BY JobType, RefreshedType DEF Refresh
<1>1. /\ job' = [job EXCEPT ![n] = NoJob] /\ req' = req /\ counter' = counter
      /\ reclaimed' = reclaimed /\ spent' = spent /\ counter \in Nat
  BY DEF Refresh, Shape, TypeOK
<1>2. CASE lease' = lease /\ blk' = blk
  <2>1. JobStep(n, NoJob)
    BY <1>0, <1>1, <1>2 DEF JobStep
  <2>2. TypeOK' /\ WithinLimit'
    BY <1>1, <1>2, Done DEF Refresh, Shape, TypeOK, WithinLimit
  <2> QED
    BY <2>1, <2>2, JobStepKeeps
<1>3. CASE lease' = lease /\ blk' = [blk EXCEPT ![b] = e]
  <2>0. blk[b].pending \in Nat /\ blk[b].evicted \in BOOLEAN
    BY <1>0 DEF BlockRec
  <2>1. e \in BlockRec /\ e.remaining = 0 /\ e.pending = blk[b].pending
    <3>1. e \in BlockRec
      BY <1>0, BlockForms
    <3> QED
      BY <3>1 DEF EmptyBlock
  <2> HIDE DEF e, b
  <2>2. JobBlockStep(n, NoJob, b, e)
    BY <1>0, <1>1, <1>3, <2>1 DEF JobBlockStep, NoDebt
  <2>3. blk' \in [Blocks -> BlockRec]
    BY <1>0, <1>3, <2>1, BlockChange
  <2>4. TypeOK' /\ WithinLimit'
    BY <1>1, <1>3, <2>3, Done DEF Refresh, Shape, TypeOK, WithinLimit
  <2> QED
    BY <2>2, <2>4, JobBlockStepKeeps
<1>4. CASE /\ lease[n] # None /\ lease' = [lease EXCEPT ![n] = RefreshedLease(n, b)]
           /\ blk' = [blk EXCEPT ![b].checked = Used(b), ![b].expires = RefreshedLease(n, b).expires]
  <2>1. w \in BlockRec /\ w.remaining = blk[b].remaining /\ w.pending = blk[b].pending
    BY <1>0, <1>4 DEF BlockRec, Leases
  <2>2. blk' = [blk EXCEPT ![b] = w]
    BY <1>0, <1>4 DEF Shape, TypeOK
  <2>3. lease' \in [Nodes -> Leases \cup {None}]
    BY <1>0, <1>4 DEF Shape, TypeOK
  <2> HIDE DEF w, b
  <2>4. JobBlockStep(n, NoJob, b, w)
    BY <1>0, <1>1, <2>1, <2>2 DEF JobBlockStep, NoDebt
  <2>5. blk' \in [Blocks -> BlockRec]
    BY <1>0, <2>1, <2>2, BlockChange
  <2>6. TypeOK' /\ WithinLimit'
    BY <1>1, <2>3, <2>5, Done DEF Refresh, Shape, TypeOK, WithinLimit
  <2> QED
    BY <2>4, <2>6, JobBlockStepKeeps
<1> QED
  BY <1>2, <1>3, <1>4 DEF Refresh

\* refreshBlock fails.
LEMMA RefreshFaultKeeps ==
    ASSUME Shape, NEW n \in Nodes, RefreshFault(n)
    PROVE  Shape' /\ (Covered => Covered')
<1>0. /\ job[n].at = "refreshing" /\ job[n].unspent \in Nat /\ WellPlaced(NoJob) /\ NoJob.unspent = 0
      /\ lease[n] # None => RefreshedLease(n, JobBlock(n)) \in Leases
  BY JobType, RefreshedType DEF RefreshFault
<1>1. /\ job' = [job EXCEPT ![n] = NoJob] /\ req' = req /\ counter' = counter /\ blk' = blk
      /\ reclaimed' = reclaimed /\ spent' = spent /\ counter \in Nat
  BY DEF RefreshFault, Shape, TypeOK
<1>2. lease' \in [Nodes -> Leases \cup {None}]
  <2>1. CASE lease' = lease
    BY <2>1 DEF Shape, TypeOK
  <2>2. CASE lease' = [lease EXCEPT ![n] = IF @ = None THEN None ELSE RefreshedLease(n, JobBlock(n))]
    BY <1>0, <2>2 DEF Shape, TypeOK
  <2> QED
    BY <2>1, <2>2 DEF RefreshFault
<1>3. JobStep(n, NoJob)
  BY <1>0, <1>1 DEF JobStep
<1>4. TypeOK' /\ WithinLimit'
  BY <1>1, <1>2, Done DEF RefreshFault, Shape, TypeOK, WithinLimit
<1> QED
  BY <1>3, <1>4, JobStepKeeps

\* Checkpoint forces a write.
LEMMA CheckpointKeeps ==
    ASSUME Shape, NEW n \in Nodes, Checkpoint(n)
    PROVE  Shape' /\ (Covered => Covered')
<1> DEFINE b == <<n, cur[n]>>
           j == [NoJob EXCEPT !.at = "refreshing", !.gen = cur[n], !.stamp = clock]
           w == [blk[b] EXCEPT !.checked = -1]
<1>0. cur[n] \in Gens /\ clock \in Nat /\ b \in Blocks /\ job[n].unspent \in Nat
  BY JobType DEF Checkpoint, Shape, TypeOK, Blocks
<1>1. WellPlaced(j) /\ j.unspent = 0
  BY <1>0 DEF WellPlaced, NoJob, Jobs
<1>2. blk[b] \in BlockRec /\ blk[b].remaining \in Int
  BY <1>0 DEF Shape, TypeOK, BlockRec
<1>3. w \in BlockRec /\ w.remaining = blk[b].remaining /\ w.pending = blk[b].pending
  BY <1>2 DEF BlockRec
<1>4. /\ job' = [job EXCEPT ![n] = j] /\ blk' = [blk EXCEPT ![b] = w]
      /\ req' = req /\ reclaimed' = reclaimed /\ spent' = spent /\ counter' = counter
  BY DEF Checkpoint, storeVars
<1> HIDE DEF j, w, b
<1>5. JobBlockStep(n, j, b, w)
  BY <1>0, <1>1, <1>2, <1>3, <1>4 DEF JobBlockStep, NoDebt
<1>6. job' \in [Nodes -> Jobs] /\ blk' \in [Blocks -> BlockRec]
  BY <1>0, <1>1, <1>3, <1>4, BlockChange DEF Shape, TypeOK, WellPlaced
<1>7. TypeOK' /\ WithinLimit'
  BY <1>6 DEF Checkpoint, Shape, TypeOK, WithinLimit, storeVars
<1> QED
  BY <1>5, <1>7, JobBlockStepKeeps

\* retire marks the block.
LEMMA EvictKeeps ==
    ASSUME Shape, NEW n \in Nodes, Evict(n)
    PROVE  Shape' /\ (Covered => Covered')
<1> DEFINE b == JobBlock(n)
           j == Goes(n, "returning", job[n].unspent)
           w == [blk[b] EXCEPT !.evicted = TRUE]
<1>0. /\ b \in Blocks /\ blk[b] \in BlockRec /\ blk[b].remaining \in Int /\ job[n].unspent \in Nat
      /\ job[n].at # "idle"
  BY JobType DEF Evict
<1>1. WellPlaced(j) /\ j.unspent = job[n].unspent
  BY <1>0, GoesType
<1>2. w \in BlockRec /\ w.remaining = blk[b].remaining /\ w.pending = blk[b].pending
  BY <1>0 DEF BlockRec
<1>3. job' = [job EXCEPT ![n] = j]
  BY DEF Evict, Goes, Shape, TypeOK, Jobs
<1>4. /\ blk' = [blk EXCEPT ![b] = w]
      /\ req' = req /\ reclaimed' = reclaimed /\ spent' = spent /\ counter' = counter
  BY DEF Evict, storeVars
<1> HIDE DEF j, w, b
<1>5. JobBlockStep(n, j, b, w)
  BY <1>0, <1>1, <1>2, <1>3, <1>4 DEF JobBlockStep, NoDebt
<1>6. job' \in [Nodes -> Jobs] /\ blk' \in [Blocks -> BlockRec]
  BY <1>0, <1>1, <1>2, <1>3, <1>4, BlockChange DEF Shape, TypeOK, WellPlaced
<1>7. TypeOK' /\ WithinLimit'
  BY <1>6 DEF Evict, Shape, TypeOK, WithinLimit, storeVars
<1> QED
  BY <1>5, <1>7, JobBlockStepKeeps

\* returnBlock takes the remainder out of the block.
LEMMA StopKeeps ==
    ASSUME Shape, NEW n \in Nodes, Stop(n)
    PROVE  Shape' /\ (Covered => Covered')
<1> DEFINE b == JobBlock(n)
           h == AtLeastZero(blk[b].remaining)
           j == Goes(n, "stopped", h)
           w == [blk[b] EXCEPT !.remaining = 0, !.expires = 0, !.drawn = 0, !.checked = 0]
<1>0. /\ b \in Blocks /\ blk[b] \in BlockRec /\ blk[b].remaining \in Int /\ job[n].unspent \in Nat
      /\ job[n].at # "idle"
  BY JobType DEF Stop
<1>a. h \in Nat /\ (blk[b].remaining >= 0 => h = blk[b].remaining)
  BY <1>0 DEF AtLeastZero
<1>1. WellPlaced(j) /\ j.unspent = h
  BY <1>0, <1>a, GoesType
<1>2. w \in BlockRec /\ w.remaining = 0 /\ w.pending = blk[b].pending
  <2>1. w \in BlockRec
    BY <1>0, BlockForms
  <2> QED
    BY <1>0, <2>1 DEF BlockRec
<1>3. job' = [job EXCEPT ![n] = j]
  BY DEF Stop, Goes, Shape, TypeOK
<1>4. /\ blk' = [blk EXCEPT ![b] = w]
  BY <1>0 DEF Stop, Shape, TypeOK
<1>5. req' = req /\ reclaimed' = reclaimed /\ spent' = spent /\ counter' = counter
  BY DEF Stop, storeVars
<1>6. mu' \in [Blocks -> Nodes \cup Callers \cup {None}] /\ clean' \in BOOLEAN
  BY <1>0 DEF Stop, Shape, TypeOK
<1> HIDE DEF j, w, b, h
<1>7. JobBlockStep(n, j, b, w)
  BY <1>0, <1>a, <1>1, <1>2, <1>3, <1>4, <1>5 DEF JobBlockStep, NoDebt
<1>8. job' \in [Nodes -> Jobs] /\ blk' \in [Blocks -> BlockRec]
  BY <1>0, <1>1, <1>2, <1>3, <1>4, BlockChange DEF Shape, TypeOK, WellPlaced
<1>9. TypeOK' /\ WithinLimit'
  BY <1>6, <1>8 DEF Stop, Shape, TypeOK, WithinLimit, storeVars
<1> QED
  BY <1>7, <1>9, JobBlockStepKeeps

\* What the transaction of a return does to the store.
LEMMA ReturnedType ==
    ASSUME Shape, NEW n \in Nodes
    PROVE  LET x == AtLeastZero(counter - Returned(n))
           IN  /\ x \in Nat /\ counter <= job[n].unspent + x
               /\ Limit > 0 => x <= Limit
               /\ [lease EXCEPT ![n] = None] \in [Nodes -> Leases \cup {None}]
<1>1. counter \in Nat /\ job[n].unspent \in Nat
  BY JobType
<1>2. Returned(n) \in Nat /\ Returned(n) <= job[n].unspent
  BY <1>1 DEF Returned
<1>3. Limit \in Nat /\ (Limit > 0 => counter <= Limit)
  BY LedgerAssumption DEF Shape, WithinLimit
<1>4. [lease EXCEPT ![n] = None] \in [Nodes -> Leases \cup {None}]
  BY DEF Shape, TypeOK
<1> QED
  BY <1>1, <1>2, <1>3, <1>4 DEF AtLeastZero

\* returnBlock gives at most the remainder back to the counter.
LEMMA ReturnKeeps ==
    ASSUME Shape, NEW n \in Nodes, ReturnBlock(n) \/ ReturnFault(n)
    PROVE  Shape' /\ (Covered => Covered')
<1>0. /\ job[n].at = "stopped" /\ job[n].unspent \in Nat /\ counter \in Nat /\ JobBlock(n) \in Blocks
  BY JobType DEF ReturnBlock, ReturnFault
<1>1. /\ WellPlaced(Goes(n, "unlinking", 0)) /\ Goes(n, "unlinking", 0).unspent = 0
      /\ WellPlaced(Goes(n, "restoring", 0)) /\ Goes(n, "restoring", 0).unspent = 0
  BY <1>0, GoesType
<1>2. PICK j : job' = [job EXCEPT ![n] = j] /\ WellPlaced(j) /\ j.unspent = 0
  <2>1. \/ job' = [job EXCEPT ![n] = Goes(n, "unlinking", 0)]
        \/ job' = [job EXCEPT ![n] = Goes(n, "restoring", 0)]
    BY DEF ReturnBlock, ReturnFault, Goes, Shape, TypeOK
  <2> QED
    BY <1>1, <2>1
<1>3. /\ counter' \in Nat /\ counter <= job[n].unspent + counter'
      /\ Limit > 0 => counter' <= Limit
      /\ lease' \in [Nodes -> Leases \cup {None}]
  <2>1. CASE UNCHANGED storeVars
    BY <1>0, <2>1 DEF storeVars, Shape, TypeOK, WithinLimit
  <2>2. CASE counter' = AtLeastZero(counter - Returned(n)) /\ lease' = [lease EXCEPT ![n] = None]
    BY <2>2, ReturnedType
  <2> QED
    BY <2>1, <2>2 DEF ReturnBlock, ReturnFault
<1>4. /\ req' = req /\ blk' = blk /\ reclaimed' = reclaimed /\ spent' = spent
  BY DEF ReturnBlock, ReturnFault
<1>5. /\ clean' \in BOOLEAN
      /\ mu' \in [Blocks -> Nodes \cup Callers \cup {None}]
  BY <1>0 DEF ReturnBlock, ReturnFault, Shape, TypeOK
<1>6. JobStep(n, j)
  BY <1>0, <1>2, <1>3, <1>4 DEF JobStep
<1>7. job' \in [Nodes -> Jobs]
  BY <1>2 DEF Shape, TypeOK, WellPlaced
<1>8. TypeOK' /\ WithinLimit'
  BY <1>3, <1>5, <1>7 DEF ReturnBlock, ReturnFault, Shape, TypeOK, WithinLimit
<1> QED
  BY <1>6, <1>8, JobStepKeeps

\* retire takes its mark back.
LEMMA RestoreKeeps ==
    ASSUME Shape, NEW n \in Nodes, Restore(n) \/ Forsake(n)
    PROVE  Shape' /\ (Covered => Covered')
<1> DEFINE b == JobBlock(n)
           v == [blk[b] EXCEPT !.evicted = FALSE]
           w == [blk[b] EXCEPT !.remaining = 0, !.expires = 0]
<1>0. /\ b \in Blocks /\ blk[b] \in BlockRec /\ blk[b].remaining \in Int /\ job[n].unspent \in Nat
      /\ WellPlaced(NoJob) /\ NoJob.unspent = 0
  BY JobType DEF Restore, Forsake
<1>1. /\ v \in BlockRec /\ v.remaining = blk[b].remaining /\ v.pending = blk[b].pending
      /\ w \in BlockRec /\ w.remaining = 0 /\ w.pending = blk[b].pending
  <2>1. v \in BlockRec /\ w \in BlockRec
    BY <1>0, BlockForms
  <2>2. v.remaining = blk[b].remaining /\ v.pending = blk[b].pending
    BY <1>0 DEF BlockRec
  <2>3. w.remaining = 0 /\ w.pending = blk[b].pending
    BY <1>0 DEF BlockRec
  <2> QED
    BY <2>1, <2>2, <2>3
<1>2. blk' = [blk EXCEPT ![b] = v] \/ blk' = [blk EXCEPT ![b] = w]
  BY <1>0 DEF Restore, Forsake, Shape, TypeOK
<1>3. /\ job' = [job EXCEPT ![n] = NoJob]
      /\ req' = req /\ reclaimed' = reclaimed /\ spent' = spent /\ counter' = counter
  BY DEF Restore, Forsake, storeVars
<1> HIDE DEF v, w, b
<1>4. JobBlockStep(n, NoJob, b, v) \/ JobBlockStep(n, NoJob, b, w)
  BY <1>0, <1>1, <1>2, <1>3 DEF JobBlockStep, NoDebt
<1>5. blk' \in [Blocks -> BlockRec] /\ job' \in [Nodes -> Jobs]
  BY <1>0, <1>1, <1>2, <1>3, BlockChange, Done
<1>6. TypeOK' /\ WithinLimit'
  BY <1>5 DEF Restore, Forsake, Shape, TypeOK, WithinLimit, storeVars
<1> QED
  BY <1>4, <1>6, JobBlockStepKeeps

\* retire unlinks the block.
LEMMA UnlinkKeeps ==
    ASSUME Shape, NEW n \in Nodes, Unlink(n)
    PROVE  Shape' /\ (Covered => Covered')
<1>1. /\ job' = [job EXCEPT ![n] = NoJob] /\ req' = req /\ blk' = blk /\ counter' = counter
      /\ reclaimed' = reclaimed /\ spent' = spent
  BY DEF Unlink, storeVars
<1>2. JobStep(n, NoJob)
  BY <1>1, JobType DEF JobStep
<1>3. cur' \in [Nodes -> Gens \cup {0}]
  BY DEF Unlink, Shape, TypeOK
<1>4. TypeOK' /\ WithinLimit'
  BY <1>1, <1>3, Done DEF Unlink, Shape, TypeOK, WithinLimit, storeVars
<1> QED
  BY <1>2, <1>4, JobStepKeeps

\* Close and Abandon empty the map.
LEMMA ShutdownKeeps ==
    ASSUME Shape, NEW n \in Nodes, Close(n) \/ Abandon(n)
    PROVE  Shape' /\ (Covered => Covered')
<1> DEFINE j(p) == IF cur[n] = 0 THEN NoJob ELSE [NoJob EXCEPT !.at = p, !.gen = cur[n]]
<1>1. \A p \in {"returning", "abandoning"} : WellPlaced(j(p)) /\ j(p).unspent = 0
  BY JobType DEF WellPlaced, NoJob, Jobs
<1>2. job' = [job EXCEPT ![n] = j("returning")] \/ job' = [job EXCEPT ![n] = j("abandoning")]
  BY DEF Close, Abandon, Shutdown
<1>3. PICK k : job' = [job EXCEPT ![n] = k] /\ WellPlaced(k) /\ k.unspent = 0
  <2> HIDE DEF j
  <2> QED
    BY <1>1, <1>2
<1>4. /\ req' = req /\ blk' = blk /\ counter' = counter
      /\ reclaimed' = reclaimed /\ spent' = spent
  BY DEF Close, Abandon, Shutdown, storeVars
<1>5. JobStep(n, k)
  BY <1>3, <1>4, JobType DEF JobStep
<1>6. /\ cur' \in [Nodes -> Gens \cup {0}] /\ job' \in [Nodes -> Jobs]
      /\ mode' \in [Nodes -> {"up", "closed", "abandoned", "down"}]
  BY <1>3 DEF Close, Abandon, Shutdown, Shape, TypeOK, WellPlaced
<1>7. TypeOK' /\ WithinLimit'
  BY <1>6 DEF Close, Abandon, Shutdown, Shape, TypeOK, WithinLimit, storeVars
<1> QED
  BY <1>5, <1>7, JobStepKeeps

\* ReclaimExpired gives back what it records as reclaimed.
LEMMA ReclaimKeeps ==
    ASSUME Shape, NEW n \in Nodes,
           (\E m \in Nodes : Select(n, m)) \/ Reclaim(n) \/ ReclaimRefused(n)
    PROVE  Shape' /\ (Covered => Covered')
<1>0. /\ counter \in Nat /\ reclaimed \in Nat /\ (Limit > 0 => counter <= Limit) /\ Limit \in Nat
      /\ todo[n] # None => todo[n] \in Reclaims /\ todo[n].unspent \in Nat /\ todo[n].of \in Nodes
  BY LedgerAssumption DEF Shape, TypeOK, WithinLimit, Reclaims
<1>1. /\ req' = req /\ blk' = blk /\ job' = job /\ spent' = spent /\ clock' = clock /\ mu' = mu
      /\ cur' = cur /\ mode' = mode /\ deaths' = deaths
  BY DEF Select, Reclaim, ReclaimRefused
<1>2. todo' \in [Nodes -> Reclaims \cup {None}]
  <2>1. ASSUME NEW m \in Nodes, Select(n, m) PROVE todo' \in [Nodes -> Reclaims \cup {None}]
    <3> DEFINE r == [of |-> m, unspent |-> AtLeastZero(lease[m].amount - lease[m].used), cutoff |-> clock]
    <3>1. lease[m].amount \in Nat /\ lease[m].used \in Nat /\ clock \in Nat
      BY <2>1 DEF Select, Shape, TypeOK, Leases
    <3>2. AtLeastZero(lease[m].amount - lease[m].used) \in Nat
      BY <3>1 DEF AtLeastZero
    <3>3. r \in Reclaims
      BY <3>1, <3>2 DEF Reclaims
    <3>4. todo' = [todo EXCEPT ![n] = r]
      BY <2>1 DEF Select
    <3> HIDE DEF r
    <3> QED
      BY <3>3, <3>4 DEF Shape, TypeOK
  <2>2. ASSUME Reclaim(n) \/ ReclaimRefused(n) PROVE todo' \in [Nodes -> Reclaims \cup {None}]
    BY <2>2 DEF Reclaim, ReclaimRefused, Shape, TypeOK
  <2> QED
    BY <2>1, <2>2
<1>3. /\ counter' \in Nat /\ reclaimed' \in Nat /\ clean' \in BOOLEAN
      /\ lease' \in [Nodes -> Leases \cup {None}]
      /\ counter + reclaimed <= counter' + reclaimed'
      /\ Limit > 0 => counter' <= Limit
  <2>1. CASE UNCHANGED <<storeVars, clean, reclaimed>>
    BY <1>0, <2>1 DEF storeVars, Shape, TypeOK
  <2>2. CASE /\ todo[n] # None /\ counter' = AtLeastZero(counter - todo[n].unspent)
             /\ lease' = [lease EXCEPT ![todo[n].of] = None] /\ clean' = FALSE
             /\ reclaimed' = reclaimed + todo[n].unspent
    <3>1. lease' \in [Nodes -> Leases \cup {None}]
      BY <2>2 DEF Shape, TypeOK
    <3>2. /\ counter' \in Nat /\ reclaimed' \in Nat /\ counter + reclaimed <= counter' + reclaimed'
          /\ Limit > 0 => counter' <= Limit
      BY <1>0, <2>2 DEF AtLeastZero
    <3> QED
      BY <2>2, <3>1, <3>2
  <2> QED
    BY <2>1, <2>2 DEF Select, Reclaim, ReclaimRefused
<1>4. TypeOK' /\ WithinLimit'
  BY <1>1, <1>2, <1>3 DEF Shape, TypeOK, WithinLimit
<1> QED
  BY <1>1, <1>3, <1>4, QuietKeeps

\* Time passes, or a process starts.
LEMMA TimeKeeps ==
    ASSUME Shape, Advance \/ \E n \in Nodes : Restart(n)
    PROVE  Shape' /\ (Covered => Covered')
<1>1. /\ req' = req /\ blk' = blk /\ job' = job /\ spent' = spent /\ counter' = counter
      /\ reclaimed' = reclaimed /\ lease' = lease /\ mu' = mu /\ cur' = cur
      /\ todo' = todo /\ clean' = clean /\ deaths' = deaths
  BY DEF Advance, Restart, storeVars
<1>2. clock' \in Nat /\ mode' \in [Nodes -> {"up", "closed", "abandoned", "down"}]
  BY DEF Advance, Restart, Shape, TypeOK
<1>3. TypeOK' /\ WithinLimit'
  BY <1>1, <1>2 DEF Shape, TypeOK, WithinLimit
<1>4. counter + reclaimed <= counter' + reclaimed'
  BY <1>1 DEF Shape, TypeOK
<1> QED
  BY <1>1, <1>3, <1>4, QuietKeeps

\* The requests of a node that dies cost at most what they had taken.
LEMMA LostDues ==
    ASSUME NEW f \in [Callers -> Calls], NEW g \in [Callers -> Calls], NEW n,
           NEW S \in SUBSET {c \in Callers : f[c].node = n /\ f[c].at = "held"},
           \A c \in Callers : g[c] = IF f[c].node = n THEN NoCall ELSE f[c]
    PROVE  LET a == SumFunctionOnSet([c \in Callers |-> f[c].amount], S)
           IN  /\ a \in Nat /\ a + DuesOf(g) <= DuesOf(f)
               /\ CustodyOf(g) <= CustodyOf(f)
<1> DEFINE m == [c \in Callers |-> f[c].amount]
           a == [c \in Callers |-> IF c \in S THEN f[c].amount ELSE 0]
           df == [c \in Callers |-> Due(f[c])]
           dg == [c \in Callers |-> Due(g[c])]
           h == [c \in Callers |-> a[c] + dg[c]]
           hf == [c \in Callers |-> f[c].held]
           hg == [c \in Callers |-> g[c].held]
<1>1. S \in SUBSET Callers
  OBVIOUS
<1>2. ASSUME NEW c \in Callers
      PROVE  /\ m[c] \in Nat /\ a[c] \in Nat /\ df[c] \in Nat /\ dg[c] \in Nat /\ h[c] \in Int
             /\ hf[c] \in Nat /\ hg[c] \in Nat
             /\ a[c] = (IF c \in S THEN m[c] ELSE 0) /\ h[c] = a[c] + dg[c]
             /\ h[c] <= df[c] /\ hg[c] <= hf[c]
  <2>1. /\ f[c].amount \in Nat /\ Due(f[c]) \in Nat /\ f[c].held \in Nat
        /\ g[c].amount \in Nat /\ Due(g[c]) \in Nat /\ g[c].held \in Nat
    BY DueType
  <2>2. CASE f[c].node = n
    <3>1. g[c] = NoCall /\ Due(g[c]) = 0 /\ g[c].held = 0
      BY <2>2 DEF Due, NoCall
    <3>2. c \in S => Due(f[c]) = f[c].amount
      BY DEF Due
    <3> QED
      BY <2>1, <3>1, <3>2
  <2>3. CASE f[c].node # n
    <3>1. g[c] = f[c] /\ c \notin S
      BY <2>3
    <3> QED
      BY <2>1, <3>1
  <2> QED
    BY <2>2, <2>3
<1>3. SumFunctionOnSet(m, S) = SumFunctionOnSet(a, Callers)
  <2> HIDE DEF m, a
  <2> QED
    BY <1>1, <1>2, SumPart, LedgerAssumption
<1>4. /\ SumFunctionOnSet(h, Callers) = SumFunctionOnSet(a, Callers) + SumFunctionOnSet(dg, Callers)
      /\ SumFunctionOnSet(h, Callers) <= SumFunctionOnSet(df, Callers)
      /\ SumFunctionOnSet(hg, Callers) <= SumFunctionOnSet(hf, Callers)
      /\ SumFunctionOnSet(a, Callers) \in Nat
  <2>1. \A c \in Callers : /\ a[c] \in Int /\ dg[c] \in Int /\ h[c] = a[c] + dg[c]
                           /\ h[c] \in Int /\ df[c] \in Int /\ h[c] <= df[c]
                           /\ hg[c] \in Int /\ hf[c] \in Int /\ hg[c] <= hf[c]
                           /\ a[c] \in Nat
    BY <1>2
  <2>2. IsFiniteSet(Callers)
    BY LedgerAssumption
  <2> HIDE DEF m, a, df, dg, h, hf, hg
  <2>3. SumFunctionOnSet(h, Callers) = SumFunctionOnSet(a, Callers) + SumFunctionOnSet(dg, Callers)
    BY <2>1, <2>2, SumPlus
  <2>4. SumFunctionOnSet(h, Callers) <= SumFunctionOnSet(df, Callers)
    BY <2>1, <2>2, SumMono
  <2>5. SumFunctionOnSet(hg, Callers) <= SumFunctionOnSet(hf, Callers)
    BY <2>1, <2>2, SumMono
  <2>6. SumFunctionOnSet(a, Callers) \in Nat
    BY <2>1, <2>2, SumNat
  <2> QED
    BY <2>3, <2>4, <2>5, <2>6
<1>5. /\ DuesOf(f) = SumFunctionOnSet(df, Callers) /\ DuesOf(g) = SumFunctionOnSet(dg, Callers)
      /\ CustodyOf(f) = SumFunctionOnSet(hf, Callers) /\ CustodyOf(g) = SumFunctionOnSet(hg, Callers)
  BY DEF DuesOf, CustodyOf
<1> HIDE DEF m, a, df, dg, h, hf, hg
<1>6. /\ SumFunctionOnSet(m, S) \in Nat /\ SumFunctionOnSet(m, S) + DuesOf(g) <= DuesOf(f)
      /\ CustodyOf(g) <= CustodyOf(f)
  BY <1>3, <1>4, <1>5
<1> QED
  BY <1>6 DEF m

\* What the process held in memory is gone, and the counter still covers it.
LEMMA CrashKeeps ==
    ASSUME Shape, NEW n \in Nodes, Crash(n)
    PROVE  Shape' /\ (Covered => Covered')
<1>0. PICK S \in SUBSET HeldBy(n) : spent' = spent + AmountsOf(S)
  BY DEF Crash
<1>1. /\ blk' = [b \in Blocks |-> IF b[1] = n THEN EmptyBlock ELSE blk[b]]
      /\ req' = [c \in Callers |-> IF req[c].node = n THEN NoCall ELSE req[c]]
      /\ job' = [job EXCEPT ![n] = NoJob]
      /\ counter' = counter /\ reclaimed' = reclaimed /\ clock' = clock /\ lease' = lease /\ clean' = clean
  BY DEF Crash, storeVars
<1>2. /\ EmptyBlock \in BlockRec /\ EmptyBlock.remaining = 0 /\ EmptyBlock.pending = 0
      /\ NoCall \in Calls /\ NoCall.at = "idle" /\ NoJob \in Jobs /\ NoJob.at = "idle" /\ NoJob.unspent = 0
  BY DEF EmptyBlock, BlockRec, NoCall, Calls, NoJob, Jobs
<1>3. req \in [Callers -> Calls] /\ blk \in [Blocks -> BlockRec] /\ job \in [Nodes -> Jobs]
  BY DEF Shape, TypeOK
<1>4. req' \in [Callers -> Calls] /\ blk' \in [Blocks -> BlockRec] /\ job' \in [Nodes -> Jobs]
  BY <1>1, <1>2, <1>3
<1>5. \A c \in Callers : req'[c] = IF req[c].node = n THEN NoCall ELSE req[c]
  BY <1>1
<1>6. /\ AmountsOf(S) \in Nat /\ AmountsOf(S) + DuesOf(req') <= DuesOf(req)
      /\ CustodyOf(req') <= CustodyOf(req)
  BY <1>3, <1>4, <1>5, LostDues DEF HeldBy, AmountsOf
<1>7. TypeOK' /\ WithinLimit'
  <2>1. /\ mu' \in [Blocks -> Nodes \cup Callers \cup {None}] /\ cur' \in [Nodes -> Gens \cup {0}]
        /\ mode' \in [Nodes -> {"up", "closed", "abandoned", "down"}]
        /\ todo' \in [Nodes -> Reclaims \cup {None}] /\ deaths' \in Nat
    BY DEF Crash, Shape, TypeOK
  <2>2. spent' \in Nat
    BY <1>0, <1>6 DEF Shape, TypeOK
  <2> QED
    BY <1>1, <1>4, <2>1, <2>2 DEF Shape, TypeOK, WithinLimit
<1>8. Located'
  <2>1. \A e \in Nodes : job'[e] = IF e = n THEN NoJob ELSE job[e]
    BY <1>1, <1>3
  <2> QED
    BY <1>2, <1>5, <2>1 DEF Located, Shape, Placed
<1>9. HoldsCounted'
  <2>1. ASSUME NEW b \in Blocks PROVE blk'[b].pending = Cardinality(HoldersOf(b)')
    <3>0. b = <<b[1], b[2]>>
      BY DEF Blocks
    <3>1. CASE b[1] = n
      <4>1. HoldersOf(b)' = {}
        BY <1>2, <1>5, <3>0, <3>1 DEF HoldersOf, BlockOf
      <4> QED
        BY <1>1, <1>2, <3>1, <4>1, FS_EmptySet
    <3>2. CASE b[1] # n
      <4>1. HoldersOf(b)' = HoldersOf(b)
        BY <1>2, <1>5, <3>0, <3>2 DEF HoldersOf, BlockOf
      <4> QED
        BY <1>1, <3>2, <4>1 DEF Shape, HoldsCounted
    <3> QED
      BY <3>1, <3>2
  <2> QED
    BY <2>1 DEF HoldsCounted
<1>10. ASSUME Covered PROVE Covered'
  <2>0. NoDebt /\ CounterAhead /\ TypeOK /\ TypeOK'
    BY <1>7, <1>10 DEF Covered, Shape
  <2>1. NoDebt'
    BY <1>1, <1>2, <2>0 DEF NoDebt
  <2>2. RemainingOf(blk') <= RemainingOf(blk)
    <3> DEFINE r == [b \in Blocks |-> blk[b].remaining]
               q == [b \in Blocks |-> blk'[b].remaining]
    <3>1. \A b \in Blocks : blk[b].remaining \in Int /\ blk'[b].remaining \in Int
      BY <1>3, <1>4 DEF BlockRec
    <3>2. \A b \in Blocks : q[b] \in Int /\ r[b] \in Int /\ q[b] <= r[b]
      BY <1>1, <1>2, <2>0, <3>1 DEF NoDebt
    <3> HIDE DEF r, q
    <3>3. SumFunctionOnSet(q, Blocks) <= SumFunctionOnSet(r, Blocks)
      BY <3>2, SumMono, BlocksFinite
    <3> QED
      BY <3>3 DEF RemainingOf, r, q
  <2>3. UnspentOf(job') = UnspentOf(job) - job[n].unspent + 0
    <3>1. job'[n] = NoJob /\ \A e \in Nodes : e # n => job'[e] = job[e]
      BY <1>1, <1>3
    <3> QED
      BY <1>2, <1>3, <1>4, <3>1, UnspentChange
  <2>4. /\ RemainingOf(blk) \in Int /\ UnspentOf(job) \in Nat /\ DuesOf(req) \in Nat /\ CustodyOf(req) \in Nat
        /\ RemainingOf(blk') \in Int /\ DuesOf(req') \in Nat /\ CustodyOf(req') \in Nat
        /\ UnspentOf(job') \in Nat
    BY <1>3, <1>4, SumTypes
  <2>5. {spent, counter, reclaimed} \subseteq Nat /\ job[n].unspent \in Nat
    BY <2>0, JobType DEF TypeOK
  <2>6. CounterAhead'
    BY <1>0, <1>1, <1>6, <2>0, <2>2, <2>3, <2>4, <2>5, AheadSums
  <2> QED
    BY <2>1, <2>6 DEF Covered
<1> QED
  BY <1>7, <1>8, <1>9, <1>10 DEF Shape

\* Every step of a node is one of these.
LEMMA NodeKeeps ==
    ASSUME Shape, NEW n \in Nodes, Node(n)
    PROVE  Shape' /\ (Covered => Covered')
  BY MaintainKeeps, RefreshKeeps, RefreshFaultKeeps, CheckpointKeeps, EvictKeeps, StopKeeps,
     ReturnKeeps, RestoreKeeps, UnlinkKeeps, ShutdownKeeps, ReclaimKeeps, CrashKeeps, TimeKeeps DEF Node

\* Every step keeps the shape, and the counter ahead.
LEMMA NextKeeps ==
    ASSUME Shape, [Next]_vars
    PROVE  Shape' /\ (Overrun = 0 /\ Covered => Covered')
<1>1. CASE Next
  BY <1>1, RequestKeeps, NodeKeeps, TimeKeeps DEF Next
<1>2. CASE UNCHANGED vars
  <2>1. Shape'
    BY <1>2 DEF vars, storeVars, Shape, TypeOK, Located, HoldsCounted, HoldersOf, BlockOf, WithinLimit
  <2>2. Covered => Covered'
    BY <1>2 DEF vars, storeVars, Covered, NoDebt, CounterAhead, Outstanding, AmountsOf, Afloat
  <2> QED
    BY <2>1, <2>2
<1> QED
  BY <1>1, <1>2

\* Nothing is spent and nothing drawn at the start.
LEMMA InitCovered ==
    ASSUME Init PROVE Covered
<1>0. Shape
  BY InitShape
<1>1. NoDebt
  BY DEF Init, NoDebt, EmptyBlock
<1>2. Outstanding = 0
  <2> DEFINE d == [c \in Callers |-> Due(req[c])]
  <2>1. \A c \in Callers : d[c] = 0
    BY DEF Init, Due, NoCall
  <2> HIDE DEF d
  <2>2. SumFunctionOnSet(d, Callers) = 0
    BY <2>1, SumZero, LedgerAssumption
  <2>3. Outstanding = DuesOf(req)
    BY <1>0, TakenIsDue DEF Outstanding, AmountsOf, Shape, TypeOK
  <2> QED
    BY <2>2, <2>3 DEF DuesOf, d
<1>3. Afloat = 0
  <2> DEFINE r == [b \in Blocks |-> blk[b].remaining]
             h == [c \in Callers |-> req[c].held]
             u == [n \in Nodes |-> job[n].unspent]
  <2>1. /\ \A b \in Blocks : r[b] = 0
        /\ \A c \in Callers : h[c] = 0
        /\ \A n \in Nodes : u[n] = 0
    BY DEF Init, EmptyBlock, NoCall, NoJob
  <2> HIDE DEF r, h, u
  <2>2. /\ SumFunctionOnSet(r, Blocks) = 0 /\ SumFunctionOnSet(h, Callers) = 0
        /\ SumFunctionOnSet(u, Nodes) = 0
    BY <2>1, SumZero, BlocksFinite, LedgerAssumption
  <2> QED
    BY <2>2 DEF Afloat, r, h, u
<1>4. CounterAhead
  BY <1>2, <1>3 DEF CounterAhead, Init
<1> QED
  BY <1>1, <1>4 DEF Covered

-----------------------------------------------------------------------------
(* The state is well formed in every reachable state: no negative figure in *)
(* the store, and a block's pending is the number of reservations not       *)
(* settled, whatever fails or crashes.                                      *)
THEOREM TypeCorrect == Spec => []TypeOK
<1>1. Init => Shape
  BY InitShape
<1>2. Shape /\ [Next]_vars => Shape'
  BY NextKeeps
<1>3. Shape => TypeOK
  BY DEF Shape
<1> QED
  BY <1>1, <1>2, <1>3, PTL DEF Spec

\* The invariant behind the next two theorems.
LEMMA CoveredAlways ==
    ASSUME Overrun = 0
    PROVE  Spec => [](Shape /\ Covered)
<1>1. Init => Shape /\ Covered
  BY InitShape, InitCovered
<1>2. Shape /\ Covered /\ [Next]_vars => Shape' /\ Covered'
  BY NextKeeps
<1> QED
  BY <1>1, <1>2, PTL DEF Spec

(* No request costs more than its estimate: then the counter is always at   *)
(* or ahead of what was spent, is held and could still be handed out, up to *)
(* what reclaims gave back: across refills, retirement, close, crashes and  *)
(* transactions that fail with or without their effect.                     *)
THEOREM CounterAheadHolds ==
    ASSUME Overrun = 0
    PROVE  Spec => []CounterAhead
<1>1. Shape /\ Covered => CounterAhead
  BY DEF Covered
<1> QED
  BY <1>1, CoveredAlways, PTL

(* Under the same assumption a live lease never over-grants: spending and   *)
(* everything that may still be spent exceed the limit by no more than what *)
(* was reclaimed.                                                           *)
THEOREM NeverOverGrantsHolds ==
    ASSUME Overrun = 0
    PROVE  Spec => []NeverOverGrants
<1>1. ASSUME Shape, Covered PROVE NeverOverGrants
  <2>0. /\ CounterAhead /\ counter \in Nat /\ reclaimed \in Nat /\ spent \in Nat /\ Limit \in Nat
        /\ Limit > 0 => counter <= Limit
    BY <1>1, LedgerAssumption DEF Covered, Shape, TypeOK, WithinLimit
  <2>1. Outstanding \in Nat /\ Afloat \in Int
    <3>1. Outstanding = DuesOf(req)
      BY <1>1, TakenIsDue DEF Outstanding, AmountsOf, Shape, TypeOK
    <3>2. Afloat = RemainingOf(blk) + CustodyOf(req) + UnspentOf(job)
      BY DEF Afloat, RemainingOf, CustodyOf, UnspentOf
    <3> QED
      BY <1>1, <3>1, <3>2, SumTypes DEF Shape, TypeOK
  <2> QED
    BY <2>0, <2>1 DEF CounterAhead, NeverOverGrants
<1>2. Shape /\ Covered => NeverOverGrants
  BY <1>1
<1> QED
  BY <1>2, CoveredAlways, PTL

-----------------------------------------------------------------------------
(* Who works on which block: every step keeps Ordered.                     *)

\* A request goes on with v, and no block changes hands.
LEMMA PassOrdered ==
    ASSUME Owned, NEW c \in Callers, NEW v, PlacedWell(v), req' = [req EXCEPT ![c] = v],
           \A b \in Blocks : blk'[b].evicted = blk[b].evicted,
           mu' = mu, cur' = cur, mode' = mode, job' = job, lease' = lease, deaths' = deaths,
           v.at # "drawing",
           v.node # req[c].node => v.node = None \/ mode[v.node] = "up",
           v.at \in Placed => /\ v.node = req[c].node
                              /\ v.gen = cur[v.node] \/ (req[c].at \in Placed /\ v.gen = req[c].gen)
    PROVE  Ordered'
<1>0. /\ req'[c] = v /\ \A e \in Callers : e # c => req'[e] = req[e]
      /\ Located /\ Mutexed /\ NoOrphanLease /\ \A n \in Nodes : Mapped(n) /\ Closing(n)
      /\ None \notin Nodes
  BY LedgerAssumption DEF Owned, Ordered, Shape, TypeOK
<1>1. Mutexed'
  BY <1>0 DEF Mutexed, BlockOf, JobBlock, Located, Placed, Blocks
<1>2. NoOrphanLease'
  BY <1>0 DEF NoOrphanLease
<1>3. ASSUME NEW n \in Nodes PROVE Mapped(n)'
  BY <1>0 DEF Mapped, BlockOf, JobBlock, Located, Placed, Blocks, PlacedWell
<1>4. ASSUME NEW n \in Nodes PROVE Closing(n)'
  BY <1>0 DEF Closing
<1> QED
  BY <1>1, <1>2, <1>3, <1>4 DEF Ordered

\* A request moves on without touching a block or a mutex.
LEMMA QuietRequestOrdered ==
    ASSUME Owned, NEW c \in Callers,
           \/ \E n \in Nodes, a \in Amounts : Reserve(c, n, a)
           \/ Take(c) \/ Hold(c) \/ Report(c)
           \/ \E actual \in 0 .. req[c].amount + Overrun : Settle(c, actual)
    PROVE  Ordered'
<1>0. Shape /\ PlacedWell(NoCall) /\ NoCall.at = "idle" /\ NoCall.node = None /\ "idle" \notin Placed
  BY CallType DEF Owned, NoCall, Placed
<1>1. mu' = mu /\ cur' = cur /\ mode' = mode /\ job' = job /\ lease' = lease /\ deaths' = deaths
  BY DEF Reserve, Take, Hold, Report, Settle, storeVars
<1>2. ASSUME NEW n \in Nodes, NEW a \in Amounts, Reserve(c, n, a) PROVE Ordered'
  <2> DEFINE v == [NoCall EXCEPT !.at = "finding", !.node = n, !.amount = a, !.stamp = clock]
  <2>1. PlacedWell(v) /\ v.at = "finding" /\ v.node = n
    BY <1>0, LedgerAssumption DEF PlacedWell, NoCall, Calls, Placed, Shape, TypeOK
  <2>2. req' = [req EXCEPT ![c] = v] /\ blk' = blk /\ mode[n] = "up"
    BY <1>2 DEF Reserve
  <2> HIDE DEF v
  <2>3. v.at \notin Placed
    BY <2>1 DEF Placed
  <2> QED
    BY <1>1, <2>1, <2>2, <2>3, PassOrdered
<1>3. ASSUME Take(c) PROVE Ordered'
  <2>0. req[c].at \in Placed /\ req[c].held \in Nat /\ "holding" \in Placed /\ "locking" \in Placed
    BY <1>0, <1>3, CallType DEF Take, Placed
  <2>1. PICK p \in {"holding", "locking"} : req' = [req EXCEPT ![c].at = p]
    BY <1>3 DEF Take
  <2>a. p \in Placed
    BY <2>0
  <2> DEFINE v == Moved(c, p, req[c].held)
  <2>2. PlacedWell(v) /\ v.at = p /\ v.node = req[c].node /\ v.gen = req[c].gen
    BY <1>0, <2>0, <2>a, Relocated
  <2>3. req' = [req EXCEPT ![c] = v]
    BY <1>0, <2>0, <2>1, <2>a, SamePlace
  <2>4. \A b \in Blocks : blk'[b].evicted = blk[b].evicted
    BY <1>0, <1>3 DEF Take, Shape, TypeOK, BlockRec
  <2> HIDE DEF v
  <2> QED
    BY <1>1, <2>0, <2>2, <2>3, <2>4, PassOrdered
<1>4. ASSUME Hold(c) PROVE Ordered'
  <2>0. req[c].at \in Placed /\ req[c].held \in Nat /\ "held" \in Placed
    BY <1>0, <1>4, CallType DEF Hold, Placed
  <2> DEFINE v == Moved(c, "held", req[c].held)
  <2>2. PlacedWell(v) /\ v.at = "held" /\ v.node = req[c].node /\ v.gen = req[c].gen
    BY <1>0, <2>0, Relocated
  <2>3. req' = [req EXCEPT ![c] = v]
    BY <1>0, <1>4, <2>0, SamePlace DEF Hold
  <2>4. \A b \in Blocks : blk'[b].evicted = blk[b].evicted
    BY <1>0, <1>4 DEF Hold, Shape, TypeOK, BlockRec
  <2> HIDE DEF v
  <2> QED
    BY <1>1, <2>0, <2>2, <2>3, <2>4, PassOrdered
<1>5. ASSUME Report(c) \/ \E actual \in 0 .. req[c].amount + Overrun : Settle(c, actual)
      PROVE  Ordered'
  <2>1. req' = [req EXCEPT ![c] = NoCall]
    BY <1>5 DEF Report, Settle
  <2>2. \A b \in Blocks : blk'[b].evicted = blk[b].evicted
    <3>1. ASSUME NEW actual, Settle(c, actual)
          PROVE  \A b \in Blocks : blk'[b].evicted = blk[b].evicted
      <4> DEFINE d == BlockOf(c)
                 w == [blk[d] EXCEPT !.remaining = @ + Refund(c, actual), !.pending = @ - 1]
      <4>1. blk' = [blk EXCEPT ![d] = w]
        BY <3>1 DEF Settle
      <4>2. d \in Blocks /\ blk[d] \in BlockRec
        BY <1>0, <3>1, CallType DEF Settle, Placed
      <4>3. w.evicted = blk[d].evicted
        BY <4>2 DEF BlockRec
      <4> HIDE DEF w, d
      <4> QED
        BY <1>0, <4>1, <4>2, <4>3 DEF Shape, TypeOK
    <3>2. Report(c) => \A b \in Blocks : blk'[b].evicted = blk[b].evicted
      BY DEF Report
    <3> QED
      BY <1>5, <3>1, <3>2
  <2> QED
    BY <1>0, <1>1, <2>1, <2>2, PassOrdered
<1> QED
  BY <1>2, <1>3, <1>4, <1>5

\* blockFor: a block is put into an empty map only.
LEMMA FindOrdered ==
    ASSUME Owned, NEW c \in Callers, Find(c)
    PROVE  Ordered'
<1> DEFINE n == req[c].node
           next == IF req[c].amount = 0 THEN "holding" ELSE "taking"
<1>0. /\ n \in Nodes /\ cur[n] \in Gens \cup {0} /\ req[c].at = "finding"
      /\ req[c] \in Calls /\ PlacedWell(req[c]) /\ PlacedWell(NoCall) /\ Shape
      /\ NoCall.at = "idle" /\ NoCall.node = None /\ "idle" \notin Placed
  BY CallType DEF Owned, Shape, TypeOK, Find, PlacedWell, NoCall, Placed
<1>1. mu' = mu /\ mode' = mode /\ job' = job /\ lease' = lease /\ deaths' = deaths
  BY DEF Find, storeVars
<1>2. ASSUME NEW g \in Gens
      PROVE  LET v == [req[c] EXCEPT !.at = next, !.gen = g]
             IN  PlacedWell(v) /\ v.at \in {"holding", "taking"} /\ v.node = n /\ v.gen = g
  BY <1>0 DEF PlacedWell, Calls, Placed
<1>3. CASE req' = [req EXCEPT ![c] = NoCall] /\ blk' = blk /\ cur' = cur
  BY <1>0, <1>1, <1>3, PassOrdered
<1>4. CASE cur[n] # 0 /\ req' = [req EXCEPT ![c].at = next, ![c].gen = cur[n]] /\ blk' = blk /\ cur' = cur
  <2> DEFINE v == [req[c] EXCEPT !.at = next, !.gen = cur[n]]
  <2>1. req' = [req EXCEPT ![c] = v]
    BY <1>0, <1>4 DEF Shape, TypeOK, Calls
  <2>2. PlacedWell(v) /\ v.at \in {"holding", "taking"} /\ v.node = n /\ v.gen = cur[n]
    BY <1>0, <1>2, <1>4
  <2> HIDE DEF v
  <2> QED
    BY <1>1, <1>4, <2>1, <2>2, PassOrdered
<1>5. ASSUME NEW g \in FreeGens(n), cur[n] = 0, mode[n] = "up", cur' = [cur EXCEPT ![n] = g],
             blk' = [blk EXCEPT ![<<n, g>>] = EmptyBlock],
             req' = [req EXCEPT ![c].at = next, ![c].gen = g]
      PROVE  Ordered'
  <2> DEFINE v == [req[c] EXCEPT !.at = next, !.gen = g]
             b == <<n, g>>
  <2>0. /\ g \in Gens /\ b \in Blocks /\ g # 0 /\ g # job[n].gen
        /\ \A e \in Callers : req[e].node = n => req[e].gen # g
    BY <1>0, LedgerAssumption DEF FreeGens, Blocks
  <2>1. req' = [req EXCEPT ![c] = v]
    BY <1>0, <1>5 DEF Shape, TypeOK, Calls
  <2>2. PlacedWell(v) /\ v.at \in {"holding", "taking"} /\ v.node = n /\ v.gen = g
    BY <1>2, <2>0
  <2> HIDE DEF v
  <2>3. /\ req'[c] = v /\ \A e \in Callers : e # c => req'[e] = req[e]
        /\ cur'[n] = g /\ \A m \in Nodes : m # n => cur'[m] = cur[m]
        /\ \A d \in Blocks : d # b => blk'[d] = blk[d]
    BY <1>0, <1>5, <2>0, <2>1 DEF Shape, TypeOK
  <2>a. n = req[c].node /\ n \in Nodes /\ mode[n] = "up" /\ cur[n] = 0
    BY <1>0, <1>5
  <2> HIDE DEF n, next
  <2>4. Located /\ Mutexed /\ NoOrphanLease /\ \A m \in Nodes : Mapped(m) /\ Closing(m)
    BY DEF Owned, Ordered, Shape
  <2>5. \A m \in Nodes : job[m].at # "idle" => JobBlock(m) # b /\ JobBlock(m) \in Blocks
    BY <1>0, <2>0, <2>4 DEF JobBlock, Located, Blocks
  <2>6. \A e \in Callers : req[e].at \in Placed => BlockOf(e) # b /\ BlockOf(e) \in Blocks
    BY <1>0, <2>0, <2>4 DEF BlockOf, Located, Blocks
  <2>7. Mutexed'
    BY <1>1, <2>2, <2>3, <2>4, <2>5, <2>6 DEF Mutexed, BlockOf, JobBlock, Placed
  <2>8. NoOrphanLease'
    BY <1>1, <2>0, <2>3, <2>4 DEF NoOrphanLease
  <2>9. ASSUME NEW m \in Nodes PROVE Mapped(m)'
    <3>1. CASE m = n
      <4>1. job[m].at = "idle"
        BY <1>5, <2>4, <3>1, LedgerAssumption DEF Mapped, Located
      <4>2. \A e \in Callers : req[e].at \in Placed /\ req[e].node = n => blk[BlockOf(e)].evicted
        <5>1. 0 \notin Gens
          BY LedgerAssumption
        <5>2. \A e \in Callers : req[e].at \in Placed => req[e].gen \in Gens
          BY <2>4 DEF Located
        <5> QED
          BY <2>a, <2>4, <5>1, <5>2 DEF Mapped
      <4>3. \A e \in Callers : e # c /\ req[e].at \in Placed /\ req[e].node = n => blk'[BlockOf(e)].evicted
        BY <2>3, <2>6, <4>2
      <4>4. \A e \in Callers : e # c => BlockOf(e)' = BlockOf(e)
        BY <2>3 DEF BlockOf
      <4> QED
        BY <1>1, <2>2, <2>3, <3>1, <4>1, <4>3, <4>4 DEF Mapped
    <3>2. CASE m # n
      BY <1>1, <2>2, <2>3, <2>4, <2>5, <2>6, <3>2 DEF Mapped, BlockOf, JobBlock, Placed
    <3> QED
      BY <3>1, <3>2
  <2>10. ASSUME NEW m \in Nodes PROVE Closing(m)'
    BY <1>1, <2>a, <2>2, <2>3, <2>4 DEF Closing
  <2> QED
    BY <2>7, <2>8, <2>9, <2>10 DEF Ordered
<1> QED
  BY <1>3, <1>4, <1>5 DEF Find

\* The parts of the invariant, and the blocks it is about.
LEMMA OrderedFacts ==
    ASSUME Owned
    PROVE  /\ Shape /\ Located /\ Mutexed /\ NoOrphanLease
           /\ \A n \in Nodes : Mapped(n) /\ Closing(n)
           /\ \A c \in Callers : req[c].at \in Placed =>
                 req[c].node \in Nodes /\ req[c].gen \in Gens /\ BlockOf(c) \in Blocks
           /\ \A n \in Nodes : job[n].at # "idle" => job[n].gen \in Gens /\ JobBlock(n) \in Blocks
           /\ 0 \notin Gens /\ None \notin Nodes /\ None \notin Callers /\ Nodes \cap Callers = {}
           /\ "drawing" \in Placed
<1>1. Shape /\ Located /\ Mutexed /\ NoOrphanLease /\ \A n \in Nodes : Mapped(n) /\ Closing(n)
  BY DEF Owned, Ordered, Shape
<1>2. \A c \in Callers : req[c].at \in Placed =>
         req[c].node \in Nodes /\ req[c].gen \in Gens /\ BlockOf(c) \in Blocks
  BY <1>1 DEF Located, BlockOf, Blocks
<1>3. \A n \in Nodes : job[n].at # "idle" => job[n].gen \in Gens /\ JobBlock(n) \in Blocks
  BY <1>1 DEF Located, JobBlock, Blocks
<1>4. 0 \notin Gens /\ None \notin Nodes /\ None \notin Callers /\ Nodes \cap Callers = {}
  BY LedgerAssumption
<1> QED
  BY <1>1, <1>2, <1>3, <1>4 DEF Placed

\* A request that gives up its block, or takes from it without a draw, changes no
\* hands; one that starts a draw takes the mutex of a block that is in the map.
LEMMA LockOrdered ==
    ASSUME Owned, NEW c \in Callers, Lock(c)
    PROVE  Ordered'
<1> DEFINE b == BlockOf(c)
<1>0. /\ req[c].at = "locking" /\ req[c].at \in Placed /\ "holding" \in Placed /\ "drawing" \in Placed
      /\ PlacedWell(NoCall) /\ NoCall.at = "idle" /\ NoCall.node = None /\ "idle" \notin Placed
      /\ Shape /\ b \in Blocks /\ req[c].held \in Nat /\ mu[b] = None
  BY CallType DEF Owned, Lock, Placed, NoCall
<1>1. cur' = cur /\ mode' = mode /\ job' = job /\ lease' = lease /\ deaths' = deaths
  BY DEF Lock, storeVars
<1>2. CASE CanTake(b, req[c].amount, clock)
  <2> DEFINE v == Moved(c, "holding", req[c].held)
  <2>1. PlacedWell(v) /\ v.at = "holding" /\ v.node = req[c].node /\ v.gen = req[c].gen
    BY <1>0, Relocated
  <2>2. req' = [req EXCEPT ![c] = v] /\ mu' = mu
    BY <1>0, <1>2, SamePlace DEF Lock
  <2>3. \A d \in Blocks : blk'[d].evicted = blk[d].evicted
    BY <1>0, <1>2 DEF Lock, Shape, TypeOK, BlockRec
  <2> HIDE DEF v
  <2> QED
    BY <1>0, <1>1, <2>1, <2>2, <2>3, PassOrdered
<1>3. CASE ~CanTake(b, req[c].amount, clock) /\ Unlinked(b)
  <2> DEFINE v == [req[c] EXCEPT !.at = "finding", !.gen = 0, !.tries = 1]
             u == [NoCall EXCEPT !.at = "evicted"]
  <2>1. blk' = blk /\ mu' = mu
    BY <1>3 DEF Lock
  <2>2. PlacedWell(v) /\ v.at \notin Placed /\ v.at # "drawing" /\ v.node = req[c].node
    BY <1>0, CallType DEF PlacedWell, Calls, Placed
  <2>3. PlacedWell(u) /\ u.at \notin Placed /\ u.at # "drawing" /\ u.node = None
    BY DEF PlacedWell, Calls, Placed, NoCall
  <2>4. req' = [req EXCEPT ![c] = v] \/ req' = [req EXCEPT ![c] = u]
    BY <1>3 DEF Lock
  <2> HIDE DEF v, u
  <2>5. CASE req' = [req EXCEPT ![c] = v]
    BY <1>1, <2>1, <2>2, <2>5, PassOrdered
  <2>6. CASE req' = [req EXCEPT ![c] = u]
    BY <1>1, <2>1, <2>3, <2>6, PassOrdered
  <2> QED
    BY <2>4, <2>5, <2>6
<1>4. CASE ~CanTake(b, req[c].amount, clock) /\ ~Unlinked(b) /\ mode[req[c].node] # "up"
  <2>1. blk' = blk /\ mu' = mu /\ req' = [req EXCEPT ![c] = NoCall]
    BY <1>4 DEF Lock
  <2> QED
    BY <1>0, <1>1, <2>1, PassOrdered
<1>5. CASE ~CanTake(b, req[c].amount, clock) /\ ~Unlinked(b) /\ mode[req[c].node] = "up"
  <2> DEFINE h == AtLeastZero(blk[b].remaining)
             v == Moved(c, "drawing", h)
  <2>1. req' = [req EXCEPT ![c].at = "drawing", ![c].held = h]
    BY <1>5 DEF Lock
  <2>2. req' = [req EXCEPT ![c] = v]
    BY <1>0, <2>1 DEF Moved, Shape, TypeOK
  <2>3. v.at = "drawing" /\ v.node = req[c].node /\ v.gen = req[c].gen
    BY <1>0, CallType DEF Moved, Calls
  <2> HIDE DEF v, h
  <2>4. /\ req'[c] = v /\ \A e \in Callers : e # c => req'[e] = req[e]
        /\ mu'[b] = c /\ \A d \in Blocks : d # b => mu'[d] = mu[d]
    BY <1>0, <1>5, <2>2 DEF Lock, Shape, TypeOK
  <2>5. \A d \in Blocks : blk'[d].evicted = blk[d].evicted
    BY <1>0, <1>5 DEF Lock, Custody, Shape, TypeOK, BlockRec
  <2>6. ~blk[b].evicted /\ mode[req[c].node] = "up"
    BY <1>5 DEF Unlinked
  <2>7. \A e \in Callers : BlockOf(e)' = BlockOf(e)
    BY <2>3, <2>4 DEF BlockOf
  <2>8. \A n \in Nodes : JobBlock(n)' = JobBlock(n)
    BY <1>1 DEF JobBlock
  <2> HIDE DEF b
  <2>9. BlockOf(c) = b
    BY DEF b
  <2>10. Mutexed'
    BY <1>0, <1>1, <2>3, <2>4, <2>5, <2>6, <2>7, <2>8, <2>9, OrderedFacts DEF Mutexed
  <2>11. NoOrphanLease'
    BY <1>1, OrderedFacts DEF NoOrphanLease
  <2>12. ASSUME NEW n \in Nodes PROVE Mapped(n)'
    BY <1>0, <1>1, <2>3, <2>4, <2>5, <2>7, <2>8, OrderedFacts DEF Mapped
  <2>13. ASSUME NEW n \in Nodes PROVE Closing(n)'
    BY <1>1, <2>3, <2>4, <2>6, OrderedFacts DEF Closing
  <2> QED
    BY <2>10, <2>11, <2>12, <2>13 DEF Ordered
<1> QED
  BY <1>2, <1>3, <1>4, <1>5

\* The end of a draw, whatever became of it: the mutex is free again, and a row it
\* wrote belongs to the block in the map or to the one being returned.
LEMMA DrawnOrdered ==
    ASSUME Owned, NEW c \in Callers, req[c].at = "drawing", NEW v, v.at # "drawing",
           v.at \in Placed => v.node = req[c].node /\ v.gen = req[c].gen,
           v.node = req[c].node \/ v.node = None,
           req' = [req EXCEPT ![c] = v],
           \A d \in Blocks : blk'[d].evicted = blk[d].evicted,
           mu' = [mu EXCEPT ![BlockOf(c)] = None],
           \A n \in Nodes : n # req[c].node => lease'[n] = lease[n],
           cur' = cur, mode' = mode, job' = job, deaths' = deaths
    PROVE  Ordered'
<1> DEFINE b == BlockOf(c)
           m == req[c].node
<1>0. /\ req[c].at \in Placed /\ b \in Blocks /\ m \in Nodes /\ req[c].gen \in Gens
      /\ mu[b] = c /\ ~blk[b].evicted
  BY OrderedFacts DEF Mutexed
<1>1. /\ req'[c] = v /\ \A e \in Callers : e # c => req'[e] = req[e]
      /\ mu'[b] = None /\ \A d \in Blocks : d # b => mu'[d] = mu[d]
  BY <1>0 DEF Owned, Shape, TypeOK
<1>2. \A e \in Callers : e # c => BlockOf(e)' = BlockOf(e)
  BY <1>1 DEF BlockOf
<1>3. v.at \in Placed => BlockOf(c)' = b
  BY <1>1 DEF BlockOf
<1>4. \A n \in Nodes : JobBlock(n)' = JobBlock(n)
  BY DEF JobBlock
<1>5. mode[m] = "up" => cur[m] = req[c].gen
  BY <1>0, OrderedFacts DEF Mapped
<1>6. mode[m] # "up" => job[m].at \in {"returning", "abandoning"}
  BY <1>0, OrderedFacts DEF Closing
<1>a. mode[m] = "up" => job[m].at # "unlinking"
  <2>1. mode[m] = "up" /\ job[m].at = "unlinking" => JobBlock(m) = b /\ blk[JobBlock(m)].evicted
    BY <1>0, <1>5, OrderedFacts DEF Mapped, JobBlock, BlockOf
  <2> QED
    BY <1>0, <2>1
<1>7. Mutexed'
  <2>1. \A e \in Callers : req'[e].at = "drawing" =>
           mu'[BlockOf(e)'] = e /\ ~blk'[BlockOf(e)'].evicted
    BY <1>0, <1>1, <1>2, OrderedFacts DEF Mutexed
  <2>2. \A n \in Nodes : job'[n].at = "stopped" => mu'[JobBlock(n)'] = n
    BY <1>0, <1>1, <1>4, OrderedFacts DEF Mutexed
  <2> QED
    BY <2>1, <2>2 DEF Mutexed
<1>8. NoOrphanLease'
  BY <1>0, <1>5, OrderedFacts DEF NoOrphanLease
<1>9. ASSUME NEW n \in Nodes PROVE Mapped(n)'
  <2>1. mode'[n] = "up" /\ job'[n].at = "unlinking" => lease'[n] = None
    BY <1>a, OrderedFacts DEF Mapped
  <2>2. mode'[n] = "up" => \A e \in Callers : req'[e].at \in Placed /\ req'[e].node = n =>
              req'[e].gen = cur'[n] \/ blk'[BlockOf(e)'].evicted
    BY <1>0, <1>1, <1>2, <1>5, OrderedFacts DEF Mapped
  <2>3. mode'[n] = "up" =>
           /\ job'[n].at # "idle" => job'[n].gen = cur'[n]
           /\ job'[n].at \in {"returning", "stopped", "unlinking", "restoring"} =>
                 blk'[JobBlock(n)'].evicted
    BY <1>4, OrderedFacts DEF Mapped
  <2> QED
    BY <2>1, <2>2, <2>3 DEF Mapped
<1>10. ASSUME NEW n \in Nodes PROVE Closing(n)'
  BY <1>1, OrderedFacts DEF Closing
<1> QED
  BY <1>7, <1>8, <1>9, <1>10 DEF Ordered

\* A draw ends and gives the mutex back.
LEMMA DrawOrdered ==
    ASSUME Owned, NEW c \in Callers, Draw(c) \/ DrawRefused(c)
    PROVE  Ordered'
<1>0. /\ Shape /\ req[c].at = "drawing" /\ req[c].at \in Placed /\ BlockOf(c) \in Blocks
      /\ "holding" \in Placed /\ 0 \in Nat
      /\ NoCall.at = "idle" /\ NoCall.node = None /\ "idle" \notin Placed
      /\ blk[BlockOf(c)] \in BlockRec /\ BlockOf(c)[1] = req[c].node
  BY OrderedFacts, CallType DEF Draw, DrawRefused, Placed, NoCall, BlockOf
<1>1. /\ mu' = [mu EXCEPT ![BlockOf(c)] = None]
      /\ cur' = cur /\ mode' = mode /\ job' = job /\ deaths' = deaths
  BY DEF Draw, DrawRefused
<1>2. \A n \in Nodes : n # req[c].node => lease'[n] = lease[n]
  BY <1>0 DEF Draw, DrawRefused, storeVars, Shape, TypeOK
<1>3. \A d \in Blocks : blk'[d].evicted = blk[d].evicted
  <2>1. CASE DrawRefused(c)
    BY <1>0, <2>1 DEF DrawRefused, Shape, TypeOK, BlockRec
  <2>2. CASE Draw(c)
    <3> DEFINE b == BlockOf(c)
               w == [blk[b] EXCEPT !.remaining = @ + Have(c) + Grant(c) - req[c].amount,
                                   !.drawn = Kept(c, @) + Grant(c),
                                   !.checked = Checkpointed(c), !.expires = req[c].stamp + TTL]
    <3>1. blk' = [blk EXCEPT ![b] = w]
      BY <1>0, <2>2 DEF Draw, Shape, TypeOK
    <3>2. w.evicted = blk[b].evicted
      BY <1>0 DEF BlockRec
    <3> HIDE DEF w, b
    <3>3. b \in Blocks
      BY <1>0 DEF b
    <3> QED
      BY <1>0, <3>1, <3>2, <3>3 DEF Shape, TypeOK
  <2> QED
    BY <2>1, <2>2
<1>4. CASE Draw(c)
  <2> DEFINE v == Moved(c, "holding", 0)
  <2>1. req' = [req EXCEPT ![c].at = "holding", ![c].held = 0]
    BY <1>4 DEF Draw
  <2>2. req' = [req EXCEPT ![c] = v]
    BY <1>0, <2>1 DEF Moved, Shape, TypeOK
  <2>3. v.at = "holding" /\ v.node = req[c].node /\ v.gen = req[c].gen
    BY <1>0, Relocated
  <2> HIDE DEF v
  <2> QED
    BY <1>0, <1>1, <1>2, <1>3, <2>2, <2>3, DrawnOrdered
<1>5. CASE DrawRefused(c)
  <2>1. req' = [req EXCEPT ![c] = NoCall]
    BY <1>5 DEF DrawRefused
  <2> QED
    BY <1>0, <1>1, <1>2, <1>3, <2>1, DrawnOrdered
<1> QED
  BY <1>4, <1>5

\* Every step of a request keeps the blocks in order.
LEMMA RequestOrdered ==
    ASSUME Owned, NEW c \in Callers, Request(c)
    PROVE  Ordered'
  BY QuietRequestOrdered, FindOrdered, LockOrdered, DrawOrdered DEF Request

\* A job that starts works on the block in the map.
LEMMA StartedJob ==
    ASSUME NEW n \in Nodes, Maintain(n) \/ Checkpoint(n)
    PROVE  \E j : job' = [job EXCEPT ![n] = j] /\ j.at \in {"evicting", "refreshing"} /\ j.gen = cur[n]
<1>1. CASE Maintain(n)
  <2> DEFINE b == <<n, cur[n]>>
             j == [NoJob EXCEPT !.at = IF Finished(b) THEN "evicting" ELSE "refreshing",
                                !.gen = cur[n], !.stamp = clock,
                                !.renew = clock + Renew >= blk[b].expires]
  <2>1. job' = [job EXCEPT ![n] = j]
    BY <1>1 DEF Maintain
  <2>2. j.at \in {"evicting", "refreshing"} /\ j.gen = cur[n]
    BY DEF NoJob
  <2> HIDE DEF j
  <2> QED
    BY <2>1, <2>2
<1>2. CASE Checkpoint(n)
  <2> DEFINE j == [NoJob EXCEPT !.at = "refreshing", !.gen = cur[n], !.stamp = clock]
  <2>1. job' = [job EXCEPT ![n] = j]
    BY <1>2 DEF Checkpoint
  <2>2. j.at \in {"evicting", "refreshing"} /\ j.gen = cur[n]
    BY DEF NoJob
  <2> HIDE DEF j
  <2> QED
    BY <2>1, <2>2
<1> QED
  BY <1>1, <1>2

\* Maintenance picks the block in the map.
LEMMA StartOrdered ==
    ASSUME Owned, NEW n \in Nodes, Maintain(n) \/ Checkpoint(n)
    PROVE  Ordered'
<1>1. /\ req' = req /\ mu' = mu /\ cur' = cur /\ mode' = mode /\ lease' = lease /\ deaths' = deaths
      /\ mode[n] = "up" /\ cur[n] # 0 /\ cur[n] \in Gens
  BY OrderedFacts DEF Maintain, Checkpoint, storeVars, Shape, TypeOK
<1>2. \A d \in Blocks : blk'[d].evicted = blk[d].evicted
  <2>1. <<n, cur[n]>> \in Blocks
    BY <1>1 DEF Blocks
  <2>2. CASE Maintain(n)
    BY <2>2 DEF Maintain
  <2>3. CASE Checkpoint(n)
    <3> DEFINE b == <<n, cur[n]>>
               w == [blk[b] EXCEPT !.checked = -1]
    <3>1. blk' = [blk EXCEPT ![b] = w]
      BY <2>3 DEF Checkpoint
    <3>2. blk \in [Blocks -> BlockRec]
      BY OrderedFacts DEF Shape, TypeOK
    <3>3. w.evicted = blk[b].evicted
      BY <2>1, <3>2 DEF BlockRec
    <3> HIDE DEF w
    <3> QED
      BY <2>1, <3>1, <3>2, <3>3
  <2> QED
    BY <2>2, <2>3
<1>3. /\ job'[n].at \in {"evicting", "refreshing"} /\ job'[n].gen = cur[n]
      /\ \A m \in Nodes : m # n => job'[m] = job[m]
  <2>1. job \in [Nodes -> Jobs]
    BY OrderedFacts DEF Shape, TypeOK
  <2>2. PICK j : job' = [job EXCEPT ![n] = j] /\ j.at \in {"evicting", "refreshing"} /\ j.gen = cur[n]
    BY StartedJob
  <2> QED
    BY <2>1, <2>2
<1>4. \A e \in Callers : BlockOf(e)' = BlockOf(e)
  BY <1>1 DEF BlockOf
<1>5. \A m \in Nodes : m # n => JobBlock(m)' = JobBlock(m)
  BY <1>3 DEF JobBlock
<1>6. Mutexed'
  BY <1>1, <1>2, <1>3, <1>4, <1>5, OrderedFacts DEF Mutexed
<1>7. NoOrphanLease'
  BY <1>1, <1>3, OrderedFacts DEF NoOrphanLease
<1>8. ASSUME NEW m \in Nodes PROVE Mapped(m)'
  BY <1>1, <1>2, <1>3, <1>4, <1>5, OrderedFacts DEF Mapped
<1>9. ASSUME NEW m \in Nodes PROVE Closing(m)'
  BY <1>1, <1>3, OrderedFacts DEF Closing
<1> QED
  BY <1>6, <1>7, <1>8, <1>9 DEF Ordered

\* A request drawing on the block a job works on holds its mutex.
LEMMA NobodyDraws ==
    ASSUME Owned, NEW n \in Nodes, job[n].at # "idle", mu[JobBlock(n)] \notin Callers
    PROVE  /\ \A c \in Callers : req[c].at = "drawing" => BlockOf(c) # JobBlock(n)
           /\ mode[n] # "up" => \A c \in Callers : req[c].at = "drawing" => req[c].node # n
<1>1. \A c \in Callers : req[c].at = "drawing" => BlockOf(c) # JobBlock(n)
  BY OrderedFacts DEF Mutexed
<1>2. ASSUME mode[n] # "up", NEW c \in Callers, req[c].at = "drawing", req[c].node = n PROVE FALSE
  <2>1. req[c].gen = job[n].gen
    BY <1>2, OrderedFacts DEF Closing
  <2> QED
    BY <1>1, <1>2, <2>1 DEF BlockOf, JobBlock
<1> QED
  BY <1>1, <1>2

\* A job that is done leaves the mark as it was, or takes it off the block in the
\* map (Restore), or takes a marked block out of it (Unlink).
LEMMA EndOrdered ==
    ASSUME Owned, NEW n \in Nodes, Refresh(n) \/ RefreshFault(n) \/ Restore(n) \/ Unlink(n) \/ Forsake(n)
    PROVE  Ordered'
<1> DEFINE b == JobBlock(n)
<1>0. /\ Shape /\ job[n].at \in {"refreshing", "restoring", "unlinking", "abandoning"}
      /\ job[n].at # "idle" /\ b \in Blocks /\ job[n].gen \in Gens
      /\ job[n].at # "unlinking" => mu[b] = None
  BY OrderedFacts DEF Refresh, RefreshFault, Restore, Unlink, Forsake
<1>1. req' = req /\ mu' = mu /\ mode' = mode /\ deaths' = deaths
  BY DEF Refresh, RefreshFault, Restore, Unlink, Forsake, storeVars
<1>2. job'[n].at = "idle" /\ \A m \in Nodes : m # n => job'[m] = job[m]
  BY <1>0 DEF Refresh, RefreshFault, Restore, Unlink, Forsake, Shape, TypeOK, NoJob
<1>3. \A m \in Nodes : lease[m] = None => lease'[m] = None
  BY <1>0 DEF Refresh, RefreshFault, Restore, Unlink, Forsake, storeVars, Shape, TypeOK
<1>4. /\ \A d \in Blocks : d # b => blk'[d].evicted = blk[d].evicted
      /\ blk'[b].evicted = blk[b].evicted \/ (job[n].at = "restoring" /\ ~blk'[b].evicted)
  <2>1. CASE Restore(n)
    BY <1>0, <2>1 DEF Restore, Shape, TypeOK, BlockRec
  <2>2. CASE Refresh(n)
    <3>1. CASE blk' = blk
      BY <3>1
    <3>2. CASE blk' = [blk EXCEPT ![b] = [EmptyBlock EXCEPT !.pending = blk[b].pending,
                                                            !.evicted = blk[b].evicted]]
      BY <1>0, <3>2 DEF Shape, TypeOK, EmptyBlock
    <3>3. CASE blk' = [blk EXCEPT ![b].checked = Used(b), ![b].expires = RefreshedLease(n, b).expires]
      BY <1>0, <3>3 DEF Shape, TypeOK, BlockRec
    <3> QED
      BY <2>2, <3>1, <3>2, <3>3 DEF Refresh
  <2>3. CASE RefreshFault(n) \/ Unlink(n)
    BY <2>3 DEF RefreshFault, Unlink
  <2>4. CASE Forsake(n)
    BY <1>0, <2>4 DEF Forsake, Shape, TypeOK, BlockRec
  <2> QED
    BY <2>1, <2>2, <2>3, <2>4
<1>5. /\ \A m \in Nodes : m # n => cur'[m] = cur[m]
      /\ job[n].at # "unlinking" => cur'[n] = cur[n]
      /\ job[n].at = "unlinking" => cur'[n] = IF cur[n] = job[n].gen THEN 0 ELSE cur[n]
  BY <1>0 DEF Refresh, RefreshFault, Restore, Unlink, Forsake, Shape, TypeOK
<1>6. \A e \in Callers : BlockOf(e)' = BlockOf(e)
  BY <1>1 DEF BlockOf
<1>7. \A m \in Nodes : m # n => JobBlock(m)' = JobBlock(m) /\ JobBlock(m) # b
  BY <1>2 DEF JobBlock
<1>8. mode[n] # "up" => \A c \in Callers : req[c].at = "drawing" => req[c].node # n
  <2>1. CASE job[n].at = "unlinking"
    BY <2>1, OrderedFacts DEF Closing
  <2>2. CASE job[n].at # "unlinking"
    BY <1>0, <2>2, NobodyDraws, OrderedFacts
  <2> QED
    BY <2>1, <2>2
<1>9. mode[n] = "up" => job[n].gen = cur[n] /\ cur[n] # 0
  BY <1>0, OrderedFacts DEF Mapped
<1> HIDE DEF b
<1>10. Mutexed'
  <2>1. \A e \in Callers : req'[e].at = "drawing" =>
           mu'[BlockOf(e)'] = e /\ ~blk'[BlockOf(e)'].evicted
    BY <1>1, <1>4, <1>6, OrderedFacts DEF Mutexed
  <2>2. \A m \in Nodes : job'[m].at = "stopped" => mu'[JobBlock(m)'] = m
    BY <1>1, <1>2, <1>7, OrderedFacts DEF Mutexed
  <2> QED
    BY <2>1, <2>2 DEF Mutexed
<1>11. NoOrphanLease'
  <2>1. mode[n] = "up" /\ job[n].at = "unlinking" => lease[n] = None
    BY OrderedFacts DEF Mapped
  <2> QED
    BY <1>1, <1>2, <1>3, <1>5, <1>9, <2>1, OrderedFacts DEF NoOrphanLease
<1>12. ASSUME NEW m \in Nodes PROVE Mapped(m)'
  <2>1. CASE m # n
    <3>1. \A e \in Callers : req[e].at \in Placed /\ req[e].node = m => BlockOf(e) # b
      BY <2>1 DEF BlockOf, JobBlock, b
    <3>2. mode'[m] = "up" => \A e \in Callers : req'[e].at \in Placed /\ req'[e].node = m =>
              req'[e].gen = cur'[m] \/ blk'[BlockOf(e)'].evicted
      BY <1>1, <1>4, <1>5, <1>6, <2>1, <3>1, OrderedFacts DEF Mapped
    <3>3. mode'[m] = "up" =>
           /\ job'[m].at # "idle" => job'[m].gen = cur'[m]
           /\ job'[m].at \in {"returning", "stopped", "unlinking", "restoring"} =>
                 blk'[JobBlock(m)'].evicted
           /\ job'[m].at = "unlinking" => lease'[m] = None
      BY <1>1, <1>2, <1>3, <1>4, <1>5, <1>7, <2>1, OrderedFacts DEF Mapped
    <3> QED
      BY <3>2, <3>3 DEF Mapped
  <2>2. CASE m = n
    <3>1. ASSUME mode[n] = "up", NEW e \in Callers, req[e].at \in Placed, req[e].node = n
          PROVE  req[e].gen = cur'[n] \/ blk'[BlockOf(e)].evicted
      <4>1. req[e].gen = cur[n] \/ blk[BlockOf(e)].evicted
        BY <3>1, OrderedFacts DEF Mapped
      <4>2. BlockOf(e) = b <=> req[e].gen = job[n].gen
        BY <3>1 DEF b, BlockOf, JobBlock
      <4>3. BlockOf(e) \in Blocks
        BY <3>1, OrderedFacts
      <4>4. job[n].at = "unlinking" => blk[b].evicted
        BY <3>1, OrderedFacts DEF Mapped, b
      <4> QED
        BY <1>4, <1>5, <1>9, <3>1, <4>1, <4>2, <4>3, <4>4
    <3> QED
      BY <1>1, <1>2, <1>6, <2>2, <3>1 DEF Mapped
  <2> QED
    BY <2>1, <2>2
<1>13. ASSUME NEW m \in Nodes PROVE Closing(m)'
  <2>1. mode[n] # "up" => cur'[n] = 0
    BY <1>0, <1>5, OrderedFacts DEF Closing
  <2> QED
    BY <1>0, <1>1, <1>2, <1>5, <1>8, <2>1, OrderedFacts DEF Closing
<1> QED
  BY <1>10, <1>11, <1>12, <1>13 DEF Ordered

\* The way of a block from the mark to its return.
LEMMA ReturnOrdered ==
    ASSUME Owned, NEW n \in Nodes, Evict(n) \/ Stop(n) \/ ReturnBlock(n) \/ ReturnFault(n)
    PROVE  Ordered'
<1> DEFINE b == JobBlock(n)
<1>0. /\ Shape /\ job[n].at \in {"evicting", "returning", "stopped"}
      /\ job[n].at # "idle" /\ b \in Blocks /\ job[n].gen \in Gens
      /\ job[n].at = "stopped" => mu[b] = n
      /\ job[n].at # "stopped" => mu[b] = None
  BY OrderedFacts DEF Evict, Stop, ReturnBlock, ReturnFault, Mutexed
<1>1. req' = req /\ cur' = cur /\ mode' = mode /\ deaths' = deaths
  BY DEF Evict, Stop, ReturnBlock, ReturnFault, storeVars
<1>2. /\ job'[n].gen = job[n].gen /\ \A m \in Nodes : m # n => job'[m] = job[m]
      /\ job[n].at = "evicting" => job'[n].at = "returning"
      /\ job[n].at = "returning" => job'[n].at = "stopped"
      /\ job[n].at = "stopped" => job'[n].at \in {"unlinking", "restoring"}
  BY <1>0 DEF Evict, Stop, ReturnBlock, ReturnFault, Shape, TypeOK, Jobs
<1>3. /\ \A m \in Nodes : lease[m] = None => lease'[m] = None
      /\ job'[n].at = "unlinking" => lease'[n] = None
  BY <1>0, <1>2 DEF Evict, Stop, ReturnBlock, ReturnFault, storeVars, Shape, TypeOK, Jobs
<1>4. /\ \A d \in Blocks : d # b => blk'[d].evicted = blk[d].evicted
      /\ blk'[b].evicted = IF job[n].at = "evicting" THEN TRUE ELSE blk[b].evicted
  <2>1. CASE Evict(n)
    BY <1>0, <2>1 DEF Evict, Shape, TypeOK, BlockRec
  <2>2. CASE Stop(n)
    <3> DEFINE w == [blk[b] EXCEPT !.remaining = 0, !.expires = 0, !.drawn = 0, !.checked = 0]
    <3>1. blk' = [blk EXCEPT ![b] = w] /\ job[n].at = "returning"
      BY <1>0, <2>2 DEF Stop, Shape, TypeOK
    <3>2. w.evicted = blk[b].evicted
      BY <1>0 DEF Shape, TypeOK, BlockRec
    <3> HIDE DEF w
    <3> QED
      BY <1>0, <3>1, <3>2 DEF Shape, TypeOK
  <2>3. CASE ReturnBlock(n) \/ ReturnFault(n)
    BY <2>3 DEF ReturnBlock, ReturnFault
  <2> QED
    BY <2>1, <2>2, <2>3
<1>5. /\ \A d \in Blocks : d # b => mu'[d] = mu[d]
      /\ job'[n].at = "stopped" => mu'[b] = n
  BY <1>0, <1>2 DEF Evict, Stop, ReturnBlock, ReturnFault, Shape, TypeOK
<1>6. \A e \in Callers : BlockOf(e)' = BlockOf(e)
  BY <1>1 DEF BlockOf
<1>7. /\ \A m \in Nodes : m # n => JobBlock(m)' = JobBlock(m) /\ JobBlock(m) # b
      /\ JobBlock(n)' = b
  BY <1>2 DEF JobBlock
<1>8. /\ \A c \in Callers : req[c].at = "drawing" => BlockOf(c) # b
      /\ mode[n] # "up" => \A c \in Callers : req[c].at = "drawing" => req[c].node # n
  BY <1>0, NobodyDraws, OrderedFacts
<1>9. mode[n] = "up" => job[n].gen = cur[n] /\ cur[n] # 0
  BY <1>0, OrderedFacts DEF Mapped
<1> HIDE DEF b
<1>10. Mutexed'
  <2>1. \A e \in Callers : req'[e].at = "drawing" =>
           mu'[BlockOf(e)'] = e /\ ~blk'[BlockOf(e)'].evicted
    BY <1>1, <1>4, <1>5, <1>6, <1>8, OrderedFacts DEF Mutexed
  <2>2. \A m \in Nodes : job'[m].at = "stopped" => mu'[JobBlock(m)'] = m
    BY <1>2, <1>5, <1>7, OrderedFacts DEF Mutexed
  <2> QED
    BY <2>1, <2>2 DEF Mutexed
<1>11. NoOrphanLease'
  BY <1>1, <1>2, <1>3, <1>9, OrderedFacts DEF NoOrphanLease
<1>12. ASSUME NEW m \in Nodes PROVE Mapped(m)'
  <2>1. mode'[m] = "up" => \A e \in Callers : req'[e].at \in Placed /\ req'[e].node = m =>
              req'[e].gen = cur'[m] \/ blk'[BlockOf(e)'].evicted
    <3> SUFFICES ASSUME mode'[m] = "up", NEW e \in Callers, req'[e].at \in Placed, req'[e].node = m
                 PROVE  req'[e].gen = cur'[m] \/ blk'[BlockOf(e)'].evicted
      OBVIOUS
    <3>1. mode[m] = "up" /\ req[e].at \in Placed /\ req[e].node = m
      BY <1>1
    <3>2. BlockOf(e) \in Blocks /\ (req[e].gen = cur[m] \/ blk[BlockOf(e)].evicted)
      BY <3>1, OrderedFacts DEF Mapped
    <3> QED
      BY <1>1, <1>4, <1>6, <3>2
  <2>2. mode'[m] = "up" =>
           /\ job'[m].at # "idle" => job'[m].gen = cur'[m]
           /\ job'[m].at = "unlinking" => lease'[m] = None
    BY <1>0, <1>1, <1>2, <1>3, OrderedFacts DEF Mapped
  <2>3. mode'[m] = "up" /\ job'[m].at \in {"returning", "stopped", "unlinking", "restoring"} =>
           blk'[JobBlock(m)'].evicted
    <3>1. CASE m # n
      BY <1>1, <1>2, <1>4, <1>7, <3>1, OrderedFacts DEF Mapped
    <3>2. CASE m = n
      BY <1>0, <1>1, <1>2, <1>4, <1>7, <3>2, OrderedFacts DEF Mapped, b
    <3> QED
      BY <3>1, <3>2
  <2> QED
    BY <2>1, <2>2, <2>3 DEF Mapped
<1>13. ASSUME NEW m \in Nodes PROVE Closing(m)'
  BY <1>0, <1>1, <1>2, <1>8, OrderedFacts DEF Closing
<1> QED
  BY <1>10, <1>11, <1>12, <1>13 DEF Ordered

\* Close and Abandon take the block out of the map and hand it to the job.
LEMMA ShutdownOrdered ==
    ASSUME Owned, NEW n \in Nodes, Close(n) \/ Abandon(n)
    PROVE  Ordered'
<1>1. /\ req' = req /\ mu' = mu /\ blk' = blk /\ lease' = lease /\ deaths' = deaths
      /\ mode[n] = "up" /\ job[n].at = "idle" /\ cur[n] \in Gens \cup {0}
  BY OrderedFacts DEF Close, Abandon, Shutdown, storeVars, Shape, TypeOK
<1>2. /\ mode'[n] \in {"closed", "abandoned"} /\ \A m \in Nodes : m # n => mode'[m] = mode[m]
      /\ cur'[n] = 0 /\ \A m \in Nodes : m # n => cur'[m] = cur[m]
      /\ \A m \in Nodes : m # n => job'[m] = job[m]
      /\ cur[n] = 0 => job'[n].at = "idle"
      /\ cur[n] # 0 => job'[n].at \in {"returning", "abandoning"} /\ job'[n].gen = cur[n]
  <2>1. /\ mode'[n] \in {"closed", "abandoned"} /\ \A m \in Nodes : m # n => mode'[m] = mode[m]
        /\ cur'[n] = 0 /\ \A m \in Nodes : m # n => cur'[m] = cur[m]
    BY OrderedFacts DEF Close, Abandon, Shutdown, Shape, TypeOK
  <2>2. PICK p \in {"returning", "abandoning"} : job' = [job EXCEPT ![n] =
            IF cur[n] = 0 THEN NoJob ELSE [NoJob EXCEPT !.at = p, !.gen = cur[n]]]
    BY DEF Close, Abandon, Shutdown
  <2>3. job \in [Nodes -> Jobs]
    BY OrderedFacts DEF Shape, TypeOK
  <2>4. /\ \A m \in Nodes : m # n => job'[m] = job[m]
        /\ job'[n] = IF cur[n] = 0 THEN NoJob ELSE [NoJob EXCEPT !.at = p, !.gen = cur[n]]
    BY <2>2, <2>3
  <2>5. cur[n] = 0 => job'[n].at = "idle"
    BY <2>4 DEF NoJob
  <2>6. cur[n] # 0 => job'[n].at = p /\ job'[n].gen = cur[n]
    BY <2>4 DEF NoJob
  <2> QED
    BY <2>1, <2>4, <2>5, <2>6
<1>3. \A e \in Callers : BlockOf(e)' = BlockOf(e)
  BY <1>1 DEF BlockOf
<1>4. \A m \in Nodes : m # n => JobBlock(m)' = JobBlock(m)
  BY <1>2 DEF JobBlock
<1>5. \A c \in Callers : req[c].at = "drawing" /\ req[c].node = n => req[c].gen = cur[n] /\ cur[n] # 0
  BY <1>1, OrderedFacts DEF Mapped, Mutexed
<1>6. Mutexed'
  BY <1>1, <1>2, <1>3, <1>4, OrderedFacts DEF Mutexed
<1>7. NoOrphanLease'
  BY <1>1, <1>2, OrderedFacts DEF NoOrphanLease
<1>8. ASSUME NEW m \in Nodes PROVE Mapped(m)'
  BY <1>1, <1>2, <1>3, <1>4, OrderedFacts DEF Mapped
<1>9. ASSUME NEW m \in Nodes PROVE Closing(m)'
  BY <1>1, <1>2, <1>5, OrderedFacts DEF Closing
<1> QED
  BY <1>6, <1>7, <1>8, <1>9 DEF Ordered

\* Rows are only ever taken away by the leader, and time changes no hands.
LEMMA ReclaimOrdered ==
    ASSUME Owned, NEW n \in Nodes,
           (\E m \in Nodes : Select(n, m)) \/ Reclaim(n) \/ ReclaimRefused(n) \/ Advance
    PROVE  Ordered'
<1>1. /\ req' = req /\ blk' = blk /\ job' = job /\ mu' = mu /\ cur' = cur /\ mode' = mode
      /\ deaths' = deaths
  BY DEF Select, Reclaim, ReclaimRefused, Advance
<1>2. \A m \in Nodes : lease[m] = None => lease'[m] = None
  BY OrderedFacts DEF Select, Reclaim, ReclaimRefused, Advance, storeVars, Shape, TypeOK, Reclaims
<1>3. \A e \in Callers : BlockOf(e)' = BlockOf(e)
  BY <1>1 DEF BlockOf
<1>4. \A m \in Nodes : JobBlock(m)' = JobBlock(m)
  BY <1>1 DEF JobBlock
<1>5. Mutexed'
  BY <1>1, <1>3, <1>4, OrderedFacts DEF Mutexed
<1>6. NoOrphanLease'
  BY <1>1, <1>2, OrderedFacts DEF NoOrphanLease
<1>7. ASSUME NEW m \in Nodes PROVE Mapped(m)'
  BY <1>1, <1>2, <1>3, <1>4, OrderedFacts DEF Mapped
<1>8. ASSUME NEW m \in Nodes PROVE Closing(m)'
  BY <1>1, OrderedFacts DEF Closing
<1> QED
  BY <1>5, <1>6, <1>7, <1>8 DEF Ordered

\* A process starts with an empty map.
LEMMA RestartOrdered ==
    ASSUME Owned, NEW n \in Nodes, Restart(n)
    PROVE  Ordered'
<1>1. /\ req' = req /\ blk' = blk /\ job' = job /\ mu' = mu /\ cur' = cur /\ lease' = lease
      /\ deaths' = deaths /\ mode[n] = "down" /\ mode'[n] = "up"
      /\ \A m \in Nodes : m # n => mode'[m] = mode[m]
  BY OrderedFacts DEF Restart, storeVars, Shape, TypeOK
<1>2. deaths > 0 /\ job[n].at = "idle" /\ \A c \in Callers : req[c].node # n
  BY <1>1, OrderedFacts DEF Closing
<1>3. \A e \in Callers : BlockOf(e)' = BlockOf(e)
  BY <1>1 DEF BlockOf
<1>4. \A m \in Nodes : JobBlock(m)' = JobBlock(m)
  BY <1>1 DEF JobBlock
<1>5. Mutexed'
  BY <1>1, <1>3, <1>4, OrderedFacts DEF Mutexed
<1>6. NoOrphanLease'
  BY <1>1, <1>2 DEF NoOrphanLease
<1>7. ASSUME NEW m \in Nodes PROVE Mapped(m)'
  BY <1>1, <1>2, <1>3, <1>4, OrderedFacts DEF Mapped
<1>8. ASSUME NEW m \in Nodes PROVE Closing(m)'
  BY <1>1, OrderedFacts DEF Closing
<1> QED
  BY <1>5, <1>6, <1>7, <1>8 DEF Ordered

\* A process dies and leaves nothing on its node.
LEMMA CrashOrdered ==
    ASSUME Owned, NEW n \in Nodes, Crash(n)
    PROVE  Ordered'
<1>1. /\ lease' = lease /\ deaths' = deaths + 1 /\ deaths \in Nat
      /\ mode'[n] = "down" /\ \A m \in Nodes : m # n => mode'[m] = mode[m]
      /\ cur'[n] = 0 /\ \A m \in Nodes : m # n => cur'[m] = cur[m]
      /\ job'[n].at = "idle" /\ \A m \in Nodes : m # n => job'[m] = job[m]
  BY OrderedFacts DEF Crash, storeVars, Shape, TypeOK, NoJob
<1>2. \A c \in Callers : /\ req[c].node = n => req'[c].at = "idle" /\ req'[c].node = None
                         /\ req[c].node # n => req'[c] = req[c]
  BY DEF Crash, NoCall
<1>3. \A b \in Blocks : b[1] # n => blk'[b] = blk[b] /\ mu'[b] = mu[b]
  BY DEF Crash
<1>4. \A e \in Callers : req[e].node # n => BlockOf(e)' = BlockOf(e) /\ BlockOf(e)[1] # n
  BY <1>2 DEF BlockOf
<1>5. \A m \in Nodes : m # n => JobBlock(m)' = JobBlock(m) /\ JobBlock(m)[1] # n
  BY <1>1 DEF JobBlock
<1>a. "idle" \notin Placed /\ None \notin Nodes
  BY OrderedFacts DEF Placed
<1>6. Mutexed'
  BY <1>1, <1>2, <1>3, <1>4, <1>5, OrderedFacts DEF Mutexed
<1>7. NoOrphanLease'
  <2>1. deaths' # 0
    BY <1>1
  <2> QED
    BY <2>1 DEF NoOrphanLease
<1>8. ASSUME NEW m \in Nodes PROVE Mapped(m)'
  BY <1>a, <1>1, <1>2, <1>3, <1>4, <1>5, OrderedFacts DEF Mapped
<1>9. ASSUME NEW m \in Nodes PROVE Closing(m)'
  <2>1. deaths' > 0
    BY <1>1
  <2>2. CASE m = n
    BY <1>a, <1>1, <1>2, <2>1, <2>2 DEF Closing
  <2>3. CASE m # n
    BY <1>a, <1>1, <1>2, <2>1, <2>3, OrderedFacts DEF Closing
  <2> QED
    BY <2>2, <2>3
<1> QED
  BY <1>6, <1>7, <1>8, <1>9 DEF Ordered

\* No row and no block at the start.
LEMMA InitOwned ==
    ASSUME Init PROVE Owned
<1>1. Mutexed
  BY DEF Init, Mutexed, NoCall, NoJob
<1>2. NoOrphanLease
  BY DEF Init, NoOrphanLease
<1>3. ASSUME NEW n \in Nodes PROVE Mapped(n) /\ Closing(n)
  BY DEF Init, Mapped, Closing, NoCall, NoJob, Placed
<1> QED
  BY <1>1, <1>2, <1>3, InitShape DEF Owned, Ordered

\* Every step keeps the blocks in order.
LEMMA NextOwned ==
    ASSUME Owned, [Next]_vars
    PROVE  Owned'
<1>0. Shape'
  BY NextKeeps DEF Owned
<1>1. ASSUME NEW n \in Nodes, Node(n) PROVE Ordered'
  BY <1>1, StartOrdered, EndOrdered, ReturnOrdered, ShutdownOrdered, ReclaimOrdered, RestartOrdered,
     CrashOrdered DEF Node
<1>2. ASSUME Advance PROVE Ordered'
  <2>1. CASE Nodes = {}
    <3>1. req' = req /\ blk' = blk /\ mu' = mu
      BY <1>2 DEF Advance
    <3>2. Mutexed'
      BY <2>1, <3>1, OrderedFacts DEF Mutexed, BlockOf
    <3> QED
      BY <2>1, <3>2 DEF Ordered, NoOrphanLease
  <2>2. CASE Nodes # {}
    BY <1>2, <2>2, ReclaimOrdered
  <2> QED
    BY <2>1, <2>2
<1>3. CASE UNCHANGED vars
  <2>1. /\ req' = req /\ blk' = blk /\ job' = job /\ mu' = mu /\ cur' = cur /\ mode' = mode
        /\ lease' = lease /\ deaths' = deaths
    BY <1>3 DEF vars, storeVars
  <2>2. Mutexed'
    BY <2>1, OrderedFacts DEF Mutexed, BlockOf, JobBlock
  <2>3. NoOrphanLease'
    BY <2>1, OrderedFacts DEF NoOrphanLease
  <2>4. ASSUME NEW n \in Nodes PROVE Mapped(n)' /\ Closing(n)'
    BY <2>1, OrderedFacts DEF Mapped, Closing, BlockOf, JobBlock
  <2> QED
    BY <1>0, <2>2, <2>3, <2>4 DEF Owned, Ordered
<1> QED
  BY <1>0, <1>1, <1>2, <1>3, RequestOrdered DEF Next, Owned

(* No draw that raced a retirement leaves a lease row behind on a node that *)
(* is up, with no block in the map and no job that returns it: transactions *)
(* that fail, with or without their effect, included.                       *)
THEOREM NoOrphanLeaseHolds == Spec => []NoOrphanLease
<1>1. Init => Owned
  BY InitOwned
<1>2. Owned /\ [Next]_vars => Owned'
  BY NextOwned
<1>3. Owned => NoOrphanLease
  BY DEF Owned, Ordered
<1> QED
  BY <1>1, <1>2, <1>3, PTL DEF Spec

-----------------------------------------------------------------------------
(* Leases outlast the blocks drawn under them.                             *)

Ahead == \A n \in Nodes : LeaseAhead(n)

\* The types this part of the proof works with.
LEMMA AheadFacts ==
    ASSUME Backed
    PROVE  /\ Owned /\ Shape /\ clock \in Nat
           /\ \A n \in Nodes : LeaseAhead(n) /\ (job[n].at # "idle" => JobBlock(n) \in Blocks)
           /\ \A n \in Nodes, g \in Gens : <<n, g>> \in Blocks /\ blk[<<n, g>>].expires \in Nat
           /\ \A n \in Nodes : lease[n] # None => lease[n].expires \in Nat
           /\ \A n \in Nodes : todo[n] # None => todo[n].cutoff \in Nat /\ todo[n].of \in Nodes
           /\ blk \in [Blocks -> BlockRec] /\ lease \in [Nodes -> Leases \cup {None}]
           /\ job \in [Nodes -> Jobs] /\ cur \in [Nodes -> Gens \cup {0}]
           /\ todo \in [Nodes -> Reclaims \cup {None}]
<1>1. Owned /\ Shape /\ clock \in Nat /\ \A n \in Nodes : LeaseAhead(n)
  BY DEF Backed, Owned, Shape, TypeOK
<1>2. /\ blk \in [Blocks -> BlockRec] /\ lease \in [Nodes -> Leases \cup {None}]
      /\ job \in [Nodes -> Jobs] /\ cur \in [Nodes -> Gens \cup {0}]
      /\ todo \in [Nodes -> Reclaims \cup {None}]
  BY <1>1 DEF Shape, TypeOK
<1>3. \A n \in Nodes, g \in Gens : <<n, g>> \in Blocks /\ blk[<<n, g>>].expires \in Nat
  BY <1>2 DEF Blocks, BlockRec
<1>4. \A n \in Nodes : lease[n] # None => lease[n].expires \in Nat
  BY <1>2 DEF Leases
<1>5. \A n \in Nodes : todo[n] # None => todo[n].cutoff \in Nat /\ todo[n].of \in Nodes
  BY <1>2 DEF Reclaims
<1>6. \A n \in Nodes : job[n].at # "idle" => JobBlock(n) \in Blocks
  BY <1>1, OrderedFacts
<1> QED
  BY <1>1, <1>2, <1>3, <1>4, <1>5, <1>6

\* At most one block of a node may be taken from: the one in the map, or the one the
\* job works on.
LEMMA OneLive ==
    ASSUME Backed, NEW n \in Nodes, NEW g \in Gens, NEW h \in Gens,
           blk[<<n, g>>].expires # 0, blk[<<n, h>>].expires # 0
    PROVE  /\ g = h
           /\ mode[n] = "up" => g = cur[n]
           /\ mode[n] # "up" => job[n].at # "idle" /\ job[n].gen = g
           /\ job[n].at # "idle" => job[n].gen = g
<1>0. Owned /\ LeaseAhead(n)
  BY AheadFacts
<1>1. /\ g = cur[n] \/ (job[n].at # "idle" /\ job[n].gen = g)
      /\ h = cur[n] \/ (job[n].at # "idle" /\ job[n].gen = h)
  BY <1>0 DEF LeaseAhead
<1>2. /\ mode[n] = "up" /\ job[n].at # "idle" => job[n].gen = cur[n]
      /\ mode[n] # "up" => cur[n] = 0
      /\ 0 \notin Gens
  BY <1>0, OrderedFacts DEF Mapped, Closing
<1> QED
  BY <1>1, <1>2

\* A step that touches neither row, block, map nor job.
LEMMA AheadSame ==
    ASSUME Backed, \A b \in Blocks : blk'[b].expires = blk[b].expires,
           lease' = lease, cur' = cur, job' = job, todo' = todo, clock' = clock
    PROVE  Ahead'
<1> SUFFICES ASSUME NEW n \in Nodes PROVE LeaseAhead(n)'
  BY DEF Ahead
<1>1. JobBlock(n)' = JobBlock(n)
  BY DEF JobBlock
<1> QED
  BY <1>1, AheadFacts DEF LeaseAhead

\* A request that draws nothing leaves expiries alone.
LEMMA RequestAhead ==
    ASSUME Backed, ~Faults, NEW c \in Callers,
           \/ \E n \in Nodes, a \in Amounts : Reserve(c, n, a)
           \/ Take(c) \/ Lock(c) \/ Hold(c) \/ Report(c) \/ DrawRefused(c)
           \/ \E actual \in 0 .. req[c].amount + Overrun : Settle(c, actual)
    PROVE  Ahead'
<1>0. Owned /\ Shape /\ blk \in [Blocks -> BlockRec]
  BY AheadFacts
<1>1. lease' = lease /\ cur' = cur /\ job' = job /\ todo' = todo /\ clock' = clock
  BY DEF Reserve, Take, Lock, Hold, Report, DrawRefused, Settle, storeVars
<1> DEFINE b == BlockOf(c)
<1>2. req[c].at \in Placed => b \in Blocks /\ blk[b] \in BlockRec
  BY <1>0, CallType
<1>3. ASSUME NEW w, blk' = [blk EXCEPT ![b] = w], w.expires = blk[b].expires, b \in Blocks
      PROVE  Ahead'
  <2> HIDE DEF b
  <2>1. \A d \in Blocks : blk'[d].expires = blk[d].expires
    BY <1>0, <1>3
  <2> QED
    BY <1>1, <2>1, AheadSame
<1>4. CASE blk' = blk
  BY <1>1, <1>4, AheadSame
<1>5. ASSUME NEW x, req[c].at \in Placed, blk' = [blk EXCEPT ![b].remaining = x] PROVE Ahead'
  <2> DEFINE w == [blk[b] EXCEPT !.remaining = x]
  <2>1. blk' = [blk EXCEPT ![b] = w]
    BY <1>5
  <2>2. w.expires = blk[b].expires
    BY <1>2, <1>5 DEF BlockRec
  <2> HIDE DEF w, b
  <2> QED
    BY <1>2, <1>3, <1>5, <2>1, <2>2
<1>6. CASE Hold(c)
  <2> DEFINE w == [blk[b] EXCEPT !.pending = @ + 1]
  <2>1. blk' = [blk EXCEPT ![b] = w] /\ req[c].at \in Placed
    BY <1>6 DEF Hold, Placed
  <2>2. w.expires = blk[b].expires
    BY <1>2, <2>1 DEF BlockRec
  <2> HIDE DEF w, b
  <2> QED
    BY <1>2, <1>3, <2>1, <2>2
<1>7. ASSUME NEW actual, Settle(c, actual) PROVE Ahead'
  <2> DEFINE w == [blk[b] EXCEPT !.remaining = @ + Refund(c, actual), !.pending = @ - 1]
  <2>1. blk' = [blk EXCEPT ![b] = w] /\ req[c].at \in Placed
    <3>1. req[c].at = "held" /\ blk' = [blk EXCEPT ![b].remaining = @ + Refund(c, actual),
                                                  ![b].pending = @ - 1]
      BY <1>7 DEF Settle
    <3>2. req[c].at \in Placed
      BY <3>1 DEF Placed
    <3> QED
      BY <1>0, <1>2, <3>1, <3>2
  <2>2. w.expires = blk[b].expires
    BY <1>2, <2>1 DEF BlockRec
  <2> HIDE DEF w, b
  <2> QED
    BY <1>2, <1>3, <2>1, <2>2
<1>8. CASE Take(c) \/ Lock(c) \/ DrawRefused(c)
  <2>1. req[c].at \in Placed
    BY <1>8 DEF Take, Lock, DrawRefused, Placed
  <2>2. blk' = blk \/ \E x : blk' = [blk EXCEPT ![b].remaining = x]
    BY <1>8 DEF Take, Lock, DrawRefused, Custody
  <2> HIDE DEF b
  <2> QED
    BY <1>4, <1>5, <2>1, <2>2
<1>9. CASE Report(c) \/ \E n \in Nodes, a \in Amounts : Reserve(c, n, a)
  BY <1>4, <1>9 DEF Report, Reserve
<1> QED
  BY <1>6, <1>7, <1>8, <1>9

\* A block that is put into the map has not been drawn for.
LEMMA FindAhead ==
    ASSUME Backed, NEW c \in Callers, Find(c)
    PROVE  Ahead'
<1> DEFINE n == req[c].node
<1>0. n \in Nodes /\ Owned /\ Shape
  BY AheadFacts, CallType DEF Find, PlacedWell
<1>1. lease' = lease /\ job' = job /\ todo' = todo /\ clock' = clock
  BY DEF Find, storeVars
<1>2. CASE blk' = blk /\ cur' = cur
  BY <1>1, <1>2, AheadSame
<1>3. ASSUME NEW g \in FreeGens(n), cur[n] = 0, mode[n] = "up", cur' = [cur EXCEPT ![n] = g],
             blk' = [blk EXCEPT ![<<n, g>>] = EmptyBlock]
      PROVE  Ahead'
  <2>0. g \in Gens
    BY DEF FreeGens
  <2>1. job[n].at = "idle"
    BY <1>0, <1>3, OrderedFacts DEF Mapped
  <2>2. /\ \A m \in Nodes : m # n => cur'[m] = cur[m]
        /\ \A m \in Nodes, h \in Gens :
              blk'[<<m, h>>].expires = IF m = n /\ h = g THEN 0 ELSE blk[<<m, h>>].expires
    BY <1>0, <1>3, <2>0, AheadFacts DEF EmptyBlock
  <2>3. \A h \in Gens : blk[<<n, h>>].expires = 0
    BY <1>0, <1>3, <2>1, AheadFacts, OrderedFacts DEF LeaseAhead
  <2>4. \A m \in Nodes : JobBlock(m)' = JobBlock(m)
    BY <1>1 DEF JobBlock
  <2>5. ASSUME NEW m \in Nodes PROVE LeaseAhead(m)'
    <3>1. CASE m # n
      <4>1. \A h \in Gens : blk'[<<m, h>>].expires = blk[<<m, h>>].expires
        BY <2>2, <3>1
      <4>2. job[m].at # "idle" => blk'[JobBlock(m)].expires = blk[JobBlock(m)].expires
        BY <1>0, <4>1, OrderedFacts DEF JobBlock
      <4> QED
        BY <1>1, <2>2, <2>4, <3>1, <4>1, <4>2, AheadFacts DEF LeaseAhead
    <3>2. CASE m = n
      <4>1. \A h \in Gens : blk'[<<m, h>>].expires = 0
        BY <2>2, <2>3, <3>2
      <4> QED
        BY <1>1, <2>1, <3>2, <4>1, AheadFacts DEF LeaseAhead
    <3> QED
      BY <3>1, <3>2
  <2> QED
    BY <2>5 DEF Ahead
<1> QED
  BY <1>2, <1>3 DEF Find

\* The row and the block of a draw get the same expiry.
LEMMA DrawAhead ==
    ASSUME Backed, NEW c \in Callers, Draw(c)
    PROVE  Ahead'
<1> DEFINE b == BlockOf(c)
           n == req[c].node
           x == req[c].stamp + TTL
           w == [blk[b] EXCEPT !.remaining = @ + Have(c) + Grant(c) - req[c].amount,
                               !.drawn = Kept(c, @) + Grant(c),
                               !.checked = Checkpointed(c), !.expires = x]
<1>0. /\ Owned /\ Shape /\ req[c].at = "drawing" /\ req[c].at \in Placed /\ b \in Blocks /\ n \in Nodes
      /\ req[c].gen \in Gens /\ b = <<n, req[c].gen>> /\ mu[b] = c /\ ~blk[b].evicted
      /\ blk[b] \in BlockRec /\ x \in Nat /\ DrawnLease(c) \in Leases
  <2>1. Owned /\ Shape /\ req[c].at = "drawing" /\ ~Exhausted(c)
    BY AheadFacts DEF Draw
  <2> QED
    BY <2>1, OrderedFacts, CallType, GrantType, LedgerAssumption DEF Mutexed, BlockOf
<1>1. cur' = cur /\ job' = job /\ todo' = todo /\ clock' = clock
  BY DEF Draw
<1>2. blk' = [blk EXCEPT ![b] = w]
  BY <1>0 DEF Draw, Shape, TypeOK
<1>3. w.expires = x
  BY <1>0 DEF BlockRec
<1>4. /\ lease'[n] # None /\ lease'[n].expires = x
      /\ \A m \in Nodes : m # n => lease'[m] = lease[m]
  <2>1. lease' = [lease EXCEPT ![n] = DrawnLease(c)]
    <3>1. lease' = [lease EXCEPT ![b[1]] = DrawnLease(c)]
      BY DEF Draw
    <3>2. b[1] = n
      BY <1>0
    <3> QED
      BY <3>1, <3>2
  <2>2. DrawnLease(c) # None
    BY <1>0, LedgerAssumption
  <2>3. DrawnLease(c).expires = x
    BY DEF DrawnLease
  <2>4. lease'[n] = DrawnLease(c) /\ \A m \in Nodes : m # n => lease'[m] = lease[m]
    BY <1>0, <2>1, AheadFacts
  <2> QED
    BY <2>2, <2>3, <2>4
<1> HIDE DEF w
<1>5. \A m \in Nodes, h \in Gens :
         blk'[<<m, h>>].expires = IF m = n /\ h = req[c].gen THEN x ELSE blk[<<m, h>>].expires
  <2>1. \A d \in Blocks : blk'[d].expires = IF d = b THEN x ELSE blk[d].expires
    <3> HIDE DEF b, x
    <3> QED
      BY <1>0, <1>2, <1>3, AheadFacts
  <2>2. \A m \in Nodes, h \in Gens : <<m, h>> \in Blocks /\ (<<m, h>> = b <=> m = n /\ h = req[c].gen)
    <3>1. b = <<n, req[c].gen>>
      BY <1>0
    <3> HIDE DEF b, n
    <3> QED
      BY <3>1 DEF Blocks
  <2> HIDE DEF b, x, n
  <2> QED
    BY <2>1, <2>2
<1>6. /\ mode[n] = "up" => req[c].gen = cur[n]
      /\ mode[n] # "up" => job[n].at \in {"returning", "abandoning"} /\ job[n].gen = req[c].gen
  BY <1>0, OrderedFacts DEF Mapped, Closing
<1>7. job[n].at \notin {"stopped", "unlinking", "restoring"}
  BY <1>0, <1>6, OrderedFacts DEF Mapped, JobBlock, BlockOf
<1>8. \A h \in Gens : h # req[c].gen => blk[<<n, h>>].expires = 0
  <2> SUFFICES ASSUME NEW h \in Gens, blk[<<n, h>>].expires # 0 PROVE h = req[c].gen
    OBVIOUS
  <2>1. /\ mode[n] = "up" => h = cur[n]
        /\ mode[n] # "up" => job[n].gen = h
    BY <1>0, OneLive
  <2> QED
    BY <1>6, <2>1
<1>9. ASSUME NEW m \in Nodes PROVE LeaseAhead(m)'
  <2>0. JobBlock(m)' = JobBlock(m)
    BY <1>1 DEF JobBlock
  <2>1. CASE m # n
    <3>1. \A h \in Gens : blk'[<<m, h>>].expires = blk[<<m, h>>].expires
      BY <1>5, <2>1
    <3>2. job[m].at # "idle" => blk'[JobBlock(m)].expires = blk[JobBlock(m)].expires
      BY <1>0, <3>1, OrderedFacts DEF JobBlock
    <3> QED
      BY <1>1, <1>4, <2>0, <2>1, <3>1, <3>2, AheadFacts DEF LeaseAhead
  <2>2. CASE m = n
    <3>1. \A h \in Gens : blk'[<<m, h>>].expires = IF h = req[c].gen THEN x ELSE 0
      BY <1>5, <1>8, <2>2
    <3>2. \A h \in Gens : blk'[<<m, h>>].expires # 0 =>
             h = cur'[m] \/ (job'[m].at # "idle" /\ job'[m].gen = h)
      BY <1>1, <1>6, <2>2, <3>1
    <3>3. job'[m].at \notin {"stopped", "unlinking", "restoring"}
      BY <1>1, <1>7, <2>2
    <3>4. \A h \in Gens : clock' < blk'[<<m, h>>].expires =>
             lease'[m] # None /\ lease'[m].expires >= blk'[<<m, h>>].expires
      BY <1>0, <1>1, <1>4, <2>2, <3>1, AheadFacts
    <3>5. todo'[m] # None => todo'[m].cutoff <= clock'
      BY <1>1, AheadFacts DEF LeaseAhead
    <3> QED
      BY <3>2, <3>3, <3>4, <3>5 DEF LeaseAhead
  <2> QED
    BY <2>1, <2>2
<1> QED
  BY <1>9 DEF Ahead

\* A job that is begun or goes on, with the row and the blocks' expiries as they were.
LEMMA JobAhead ==
    ASSUME Backed, NEW n \in Nodes, Maintain(n) \/ Checkpoint(n) \/ Evict(n)
    PROVE  Ahead'
<1>0. Owned /\ Shape /\ blk \in [Blocks -> BlockRec] /\ job \in [Nodes -> Jobs]
  BY AheadFacts
<1>1. lease' = lease /\ cur' = cur /\ todo' = todo /\ clock' = clock
  BY DEF Maintain, Checkpoint, Evict, storeVars
<1>2. \A b \in Blocks : blk'[b].expires = blk[b].expires
  <2>1. ASSUME NEW b \in Blocks, NEW w, blk' = [blk EXCEPT ![b] = w], w.expires = blk[b].expires
        PROVE  \A d \in Blocks : blk'[d].expires = blk[d].expires
    BY <1>0, <2>1
  <2>2. CASE Maintain(n)
    BY <2>2 DEF Maintain
  <2>3. CASE Checkpoint(n)
    <3> DEFINE b == <<n, cur[n]>>
               w == [blk[b] EXCEPT !.checked = -1]
    <3>1. b \in Blocks /\ blk' = [blk EXCEPT ![b] = w]
      BY <1>0, <2>3 DEF Checkpoint, Blocks, Shape, TypeOK
    <3>2. w.expires = blk[b].expires
      BY <1>0, <3>1 DEF BlockRec
    <3> HIDE DEF w, b
    <3> QED
      BY <2>1, <3>1, <3>2
  <2>4. CASE Evict(n)
    <3> DEFINE b == JobBlock(n)
               w == [blk[b] EXCEPT !.evicted = TRUE]
    <3>1. b \in Blocks /\ blk' = [blk EXCEPT ![b] = w]
      BY <1>0, <2>4, OrderedFacts DEF Evict
    <3>2. w.expires = blk[b].expires
      BY <1>0, <3>1 DEF BlockRec
    <3> HIDE DEF w, b
    <3> QED
      BY <2>1, <3>1, <3>2
  <2> QED
    BY <2>2, <2>3, <2>4
<1>3. /\ \A m \in Nodes : m # n => job'[m] = job[m]
      /\ job[n].at # "idle" => job'[n].at # "idle" /\ job'[n].gen = job[n].gen
      /\ job'[n].at \notin {"stopped", "unlinking", "restoring"}
  <2>1. CASE Maintain(n) \/ Checkpoint(n)
    <3>1. PICK j : job' = [job EXCEPT ![n] = j] /\ j.at \in {"evicting", "refreshing"}
      BY <2>1, StartedJob
    <3>2. job[n].at = "idle"
      BY <2>1 DEF Maintain, Checkpoint
    <3> QED
      BY <1>0, <3>1, <3>2
  <2>2. CASE Evict(n)
    BY <1>0, <2>2 DEF Evict, Jobs
  <2> QED
    BY <2>1, <2>2
<1>4. ASSUME NEW m \in Nodes PROVE LeaseAhead(m)'
  <2>1. \A h \in Gens : blk'[<<m, h>>].expires = blk[<<m, h>>].expires
    BY <1>2, AheadFacts
  <2>2. CASE m = n
    BY <1>1, <1>3, <2>1, <2>2, AheadFacts DEF LeaseAhead
  <2>3. CASE m # n
    <3>1. JobBlock(m)' = JobBlock(m) /\ job'[m] = job[m]
      BY <1>3, <2>3 DEF JobBlock
    <3> QED
      BY <1>1, <1>2, <2>1, <2>3, <3>1, AheadFacts DEF LeaseAhead
  <2> QED
    BY <2>2, <2>3
<1> QED
  BY <1>4 DEF Ahead

\* What a step on node n leaves alone: the other nodes.
LEMMA ElsewhereAhead ==
    ASSUME Backed, NEW n \in Nodes, clock' = clock,
           \A m \in Nodes : m # n => lease'[m] = lease[m] /\ cur'[m] = cur[m] /\ job'[m] = job[m]
                                     /\ todo'[m] = todo[m],
           \A b \in Blocks : b[1] # n => blk'[b].expires = blk[b].expires,
           LeaseAhead(n)'
    PROVE  Ahead'
<1> SUFFICES ASSUME NEW m \in Nodes, m # n PROVE LeaseAhead(m)'
  BY DEF Ahead
<1>1. JobBlock(m)' = JobBlock(m) /\ job'[m] = job[m] /\ JobBlock(m)[1] = m
  BY DEF JobBlock
<1>2. /\ \A h \in Gens : blk'[<<m, h>>].expires = blk[<<m, h>>].expires
      /\ job[m].at # "idle" => blk'[JobBlock(m)].expires = blk[JobBlock(m)].expires
  BY <1>1, AheadFacts
<1> QED
  BY <1>1, <1>2, AheadFacts DEF LeaseAhead

\* refreshBlock gives block and row the same expiry.
LEMMA RefreshAhead ==
    ASSUME Backed, NEW n \in Nodes, Refresh(n)
    PROVE  Ahead'
<1> DEFINE b == JobBlock(n)
           e == [EmptyBlock EXCEPT !.pending = blk[b].pending, !.evicted = blk[b].evicted]
           x == RefreshedLease(n, b).expires
           w == [blk[b] EXCEPT !.checked = Used(b), !.expires = x]
<1>0. /\ Owned /\ Shape /\ blk \in [Blocks -> BlockRec] /\ job \in [Nodes -> Jobs]
      /\ lease \in [Nodes -> Leases \cup {None}]
      /\ job[n].at = "refreshing" /\ b \in Blocks /\ b[1] = n /\ job[n].gen \in Gens
      /\ b = <<n, job[n].gen>>
  BY AheadFacts, OrderedFacts DEF Refresh, JobBlock
<1>1. /\ clock' = clock /\ todo' = todo /\ cur' = cur
      /\ job'[n].at = "idle" /\ \A m \in Nodes : m # n => job'[m] = job[m]
  BY <1>0 DEF Refresh, NoJob
<1>2. mode[n] = "up" /\ job[n].gen = cur[n]
  BY <1>0, OrderedFacts DEF Mapped, Closing
<1>3. \A g \in Gens : g # cur[n] => blk[<<n, g>>].expires = 0
  <2> SUFFICES ASSUME NEW g \in Gens, blk[<<n, g>>].expires # 0 PROVE g = cur[n]
    OBVIOUS
  <2> QED
    BY <1>2, OneLive
<1>4. /\ \A m \in Nodes : m # n => lease'[m] = lease[m]
      /\ \A d \in Blocks : d # b => blk'[d].expires = blk[d].expires
      /\ \/ lease'[n] = lease[n] /\ blk'[b].expires = blk[b].expires
         \/ blk'[b].expires = 0
         \/ lease'[n] # None /\ lease'[n].expires = x /\ blk'[b].expires = x /\ x \in Nat
  <2>1. CASE lease' = lease /\ blk' = blk
    BY <2>1
  <2>2. CASE lease' = lease /\ blk' = [blk EXCEPT ![b] = e]
    <3>1. e.expires = 0
      BY DEF EmptyBlock
    <3> HIDE DEF e, b
    <3> QED
      BY <1>0, <2>2, <3>1
  <2>3. CASE /\ lease[n] # None /\ lease' = [lease EXCEPT ![n] = RefreshedLease(n, b)]
             /\ blk' = [blk EXCEPT ![b].checked = Used(b), ![b].expires = RefreshedLease(n, b).expires]
    <3>1. blk' = [blk EXCEPT ![b] = w]
      BY <1>0, <2>3
    <3>2. w.expires = x
      BY <1>0 DEF BlockRec
    <3>3. RefreshedLease(n, b) \in Leases
      BY <1>0, <2>3, RefreshedType
    <3>4. RefreshedLease(n, b) # None /\ x \in Nat
      BY <3>3, LedgerAssumption DEF Leases
    <3>5. lease'[n] = RefreshedLease(n, b) /\ \A m \in Nodes : m # n => lease'[m] = lease[m]
      BY <1>0, <2>3
    <3>6. blk'[b].expires = x /\ \A d \in Blocks : d # b => blk'[d].expires = blk[d].expires
      <4> HIDE DEF w, b, x
      <4> QED
        BY <1>0, <3>1, <3>2
    <3> QED
      BY <3>4, <3>5, <3>6
  <2> QED
    BY <2>1, <2>2, <2>3 DEF Refresh
<1> HIDE DEF x, w, e, b
<1>5. LeaseAhead(n)'
  <2>1. \A g \in Gens : <<n, g>> \in Blocks /\ (<<n, g>> = b <=> g = cur[n])
    BY <1>0, <1>2 DEF Blocks
  <2>2. \A g \in Gens : g # cur[n] => blk'[<<n, g>>].expires = 0
    BY <1>3, <1>4, <2>1
  <2>3. \A g \in Gens : clock < blk'[<<n, g>>].expires =>
             lease'[n] # None /\ lease'[n].expires >= blk'[<<n, g>>].expires
    <3>1. \A g \in Gens : g # cur[n] => ~(clock < blk'[<<n, g>>].expires)
      BY <2>2, AheadFacts
    <3>2. CASE lease'[n] = lease[n] /\ blk'[b].expires = blk[b].expires
      BY <1>0, <2>1, <3>1, <3>2, AheadFacts DEF LeaseAhead
    <3>3. CASE blk'[b].expires = 0
      BY <1>0, <2>1, <3>1, <3>3, AheadFacts
    <3>4. CASE lease'[n] # None /\ lease'[n].expires = x /\ blk'[b].expires = x /\ x \in Nat
      BY <2>1, <3>1, <3>4
    <3> QED
      BY <1>4, <3>2, <3>3, <3>4
  <2>4. todo'[n] # None => todo'[n].cutoff <= clock'
    BY <1>1, AheadFacts DEF LeaseAhead
  <2> QED
    BY <1>1, <2>2, <2>3, <2>4 DEF LeaseAhead
<1>6. \A d \in Blocks : d[1] # n => blk'[d].expires = blk[d].expires
  BY <1>0, <1>4
<1> QED
  BY <1>1, <1>4, <1>5, <1>6, ElsewhereAhead

\* Once the hot path is stopped, nothing of the block can be taken.
LEMMA StoppedAhead ==
    ASSUME Backed, NEW n \in Nodes, job[n].at \in {"stopped", "unlinking", "restoring"}
    PROVE  \A g \in Gens : blk[<<n, g>>].expires = 0
<1>0. /\ job[n].at # "idle" /\ JobBlock(n) = <<n, job[n].gen>> /\ blk[JobBlock(n)].expires = 0
  BY AheadFacts DEF LeaseAhead, JobBlock
<1> SUFFICES ASSUME NEW g \in Gens, blk[<<n, g>>].expires # 0 PROVE FALSE
  OBVIOUS
<1>1. job[n].gen = g
  BY <1>0, OneLive
<1> QED
  BY <1>0, <1>1

\* returnBlock has stopped the block before its row goes.
LEMMA ReturnAhead ==
    ASSUME Backed, ~Faults, NEW n \in Nodes,
           Stop(n) \/ ReturnBlock(n) \/ ReturnFault(n) \/ Restore(n) \/ Unlink(n) \/ Forsake(n)
    PROVE  Ahead'
<1> DEFINE b == JobBlock(n)
<1>0. /\ Owned /\ Shape /\ blk \in [Blocks -> BlockRec] /\ job \in [Nodes -> Jobs]
      /\ lease \in [Nodes -> Leases \cup {None}] /\ cur \in [Nodes -> Gens \cup {0}]
      /\ job[n].at \in {"returning", "stopped", "unlinking", "restoring", "abandoning"}
      /\ job[n].at # "idle" /\ b \in Blocks /\ b[1] = n
      /\ job[n].gen \in Gens /\ b = <<n, job[n].gen>>
  BY AheadFacts, OrderedFacts DEF Stop, ReturnBlock, ReturnFault, Restore, Unlink, Forsake, JobBlock
<1>1. /\ clock' = clock /\ todo' = todo
  BY DEF Stop, ReturnBlock, ReturnFault, Restore, Unlink, Forsake
<1>2. \A m \in Nodes : m # n => lease'[m] = lease[m] /\ cur'[m] = cur[m] /\ job'[m] = job[m]
  BY <1>0 DEF Stop, ReturnBlock, ReturnFault, Restore, Unlink, Forsake, storeVars
<1>3. \A g \in Gens : blk[<<n, g>>].expires # 0 => <<n, g>> = b
  <2> SUFFICES ASSUME NEW g \in Gens, blk[<<n, g>>].expires # 0 PROVE job[n].gen = g
    BY <1>0
  <2> QED
    BY <1>0, OneLive
<1>4. (\A d \in Blocks : d # b => blk'[d].expires = blk[d].expires) /\ blk'[b].expires = 0
  <2>1. CASE Stop(n)
    <3> DEFINE w == [blk[b] EXCEPT !.remaining = 0, !.expires = 0, !.drawn = 0, !.checked = 0]
    <3>1. blk' = [blk EXCEPT ![b] = w]
      BY <1>0, <2>1 DEF Stop
    <3>2. w.expires = 0
      BY <1>0 DEF BlockRec
    <3> HIDE DEF w, b
    <3> QED
      BY <1>0, <3>1, <3>2
  <2>2. CASE Forsake(n)
    <3> DEFINE w == [blk[b] EXCEPT !.remaining = 0, !.expires = 0]
    <3>1. blk' = [blk EXCEPT ![b] = w]
      BY <1>0, <2>2 DEF Forsake
    <3>2. w.expires = 0
      BY <1>0 DEF BlockRec
    <3> HIDE DEF w, b
    <3> QED
      BY <1>0, <3>1, <3>2
  <2>3. CASE Restore(n)
    <3> DEFINE w == [blk[b] EXCEPT !.evicted = FALSE]
    <3>1. blk' = [blk EXCEPT ![b] = w] /\ job[n].at = "restoring"
      BY <1>0, <2>3 DEF Restore
    <3>2. w.expires = blk[b].expires
      BY <1>0 DEF BlockRec
    <3>3. blk[b].expires = 0
      BY <1>0, <3>1, StoppedAhead
    <3> HIDE DEF w, b
    <3> QED
      BY <1>0, <3>1, <3>2, <3>3
  <2>4. CASE ReturnBlock(n) \/ ReturnFault(n) \/ Unlink(n)
    <3>1. blk' = blk /\ job[n].at \in {"stopped", "unlinking", "restoring"}
      BY <2>4 DEF ReturnBlock, ReturnFault, Unlink
    <3> QED
      BY <1>0, <3>1, StoppedAhead
  <2> QED
    BY <2>1, <2>2, <2>3, <2>4
<1>5. \A g \in Gens : blk'[<<n, g>>].expires = 0
  <2> HIDE DEF b
  <2> QED
    BY <1>3, <1>4, AheadFacts
<1>6. job'[n].at \in {"stopped", "unlinking", "restoring"} => job'[n].gen \in Gens
  BY <1>0 DEF Stop, ReturnBlock, ReturnFault, Restore, Unlink, Forsake, NoJob, Jobs
<1>7. LeaseAhead(n)'
  <2>1. job'[n].at \in {"stopped", "unlinking", "restoring"} => blk'[JobBlock(n)'].expires = 0
    BY <1>5, <1>6 DEF JobBlock
  <2>2. \A g \in Gens : ~(clock' < blk'[<<n, g>>].expires)
    BY <1>1, <1>5, AheadFacts
  <2> QED
    BY <1>1, <1>5, <2>1, <2>2, AheadFacts DEF LeaseAhead
<1>8. \A d \in Blocks : d[1] # n => blk'[d].expires = blk[d].expires
  BY <1>0, <1>4
<1> QED
  BY <1>1, <1>2, <1>7, <1>8, ElsewhereAhead

\* Close and Abandon hand the block over to a job.
LEMMA ShutdownAhead ==
    ASSUME Backed, NEW n \in Nodes, Close(n) \/ Abandon(n)
    PROVE  Ahead'
<1>0. Owned /\ cur \in [Nodes -> Gens \cup {0}] /\ job \in [Nodes -> Jobs]
  BY AheadFacts
<1>1. /\ blk' = blk /\ lease' = lease /\ todo' = todo /\ clock' = clock /\ job[n].at = "idle"
  BY DEF Close, Abandon, Shutdown, storeVars
<1>2. /\ \A m \in Nodes : m # n => cur'[m] = cur[m] /\ job'[m] = job[m]
      /\ cur[n] # 0 => job'[n].at \in {"returning", "abandoning"} /\ job'[n].gen = cur[n]
      /\ cur[n] = 0 => job'[n].at = "idle"
  <2>2. PICK p \in {"returning", "abandoning"} : job' = [job EXCEPT ![n] =
            IF cur[n] = 0 THEN NoJob ELSE [NoJob EXCEPT !.at = p, !.gen = cur[n]]]
    BY DEF Close, Abandon, Shutdown
  <2>3. /\ \A m \in Nodes : m # n => job'[m] = job[m]
        /\ job'[n] = IF cur[n] = 0 THEN NoJob ELSE [NoJob EXCEPT !.at = p, !.gen = cur[n]]
    BY <1>0, <2>2
  <2>4. cur[n] = 0 => job'[n].at = "idle"
    BY <2>3 DEF NoJob
  <2>5. cur[n] # 0 => job'[n].at = p /\ job'[n].gen = cur[n]
    BY <2>3 DEF NoJob
  <2>6. \A m \in Nodes : m # n => cur'[m] = cur[m]
    BY <1>0 DEF Close, Abandon, Shutdown
  <2> QED
    BY <2>3, <2>4, <2>5, <2>6
<1>3. \A g \in Gens : blk[<<n, g>>].expires # 0 => g = cur[n]
  BY <1>1, AheadFacts DEF LeaseAhead
<1>4. LeaseAhead(n)'
  BY <1>0, <1>1, <1>2, <1>3, AheadFacts, OrderedFacts DEF LeaseAhead
<1> QED
  BY <1>1, <1>2, <1>4, ElsewhereAhead

\* A row is reclaimed only when no block drawn under it may be taken from.
LEMMA ReclaimAhead ==
    ASSUME Backed, NEW n \in Nodes,
           (\E m \in Nodes : Select(n, m)) \/ Reclaim(n) \/ ReclaimRefused(n)
    PROVE  Ahead'
<1>1. /\ blk' = blk /\ job' = job /\ cur' = cur /\ clock' = clock
  BY DEF Select, Reclaim, ReclaimRefused
<1>2. /\ todo'[n] # None => todo'[n].cutoff = clock
      /\ \A m \in Nodes : m # n => todo'[m] = todo[m]
  BY AheadFacts DEF Select, Reclaim, ReclaimRefused
<1>3. \A m \in Nodes : lease'[m] = lease[m] \/ (lease[m] # None /\ lease[m].expires <= clock)
  <2>1. CASE lease' = lease
    BY <2>1
  <2>2. CASE Reclaim(n) /\ Lapsed(n)
    <3>1. /\ todo[n] # None /\ lease[todo[n].of] # None
          /\ lease[todo[n].of].expires <= todo[n].cutoff
          /\ lease' = [lease EXCEPT ![todo[n].of] = None]
      BY <2>2 DEF Reclaim, Lapsed
    <3>2. todo[n].cutoff <= clock /\ todo[n].of \in Nodes /\ todo[n].cutoff \in Nat
      BY <3>1, AheadFacts DEF LeaseAhead
    <3>3. lease[todo[n].of].expires \in Nat /\ clock \in Nat
      BY <3>1, <3>2, AheadFacts
    <3>4. lease[todo[n].of].expires <= clock
      BY <3>1, <3>2, <3>3
    <3> QED
      BY <3>1, <3>4, AheadFacts
  <2> QED
    BY <2>1, <2>2 DEF Select, Reclaim, ReclaimRefused, storeVars
<1>4. ASSUME NEW m \in Nodes PROVE LeaseAhead(m)'
  <2>0. JobBlock(m)' = JobBlock(m)
    BY <1>1 DEF JobBlock
  <2>1. \A g \in Gens : clock < blk[<<m, g>>].expires =>
           lease'[m] # None /\ lease'[m].expires >= blk[<<m, g>>].expires
    BY <1>3, AheadFacts DEF LeaseAhead
  <2>2. todo'[m] # None => todo'[m].cutoff <= clock
    BY <1>2, AheadFacts DEF LeaseAhead
  <2> QED
    BY <1>1, <2>0, <2>1, <2>2, AheadFacts DEF LeaseAhead
<1> QED
  BY <1>4 DEF Ahead

\* Time only makes more expiries pass.
LEMMA TimeAhead ==
    ASSUME Backed, Advance \/ \E n \in Nodes : Restart(n)
    PROVE  Ahead'
<1>1. /\ blk' = blk /\ job' = job /\ cur' = cur /\ lease' = lease /\ todo' = todo
      /\ clock' \in {clock, clock + 1}
  BY DEF Advance, Restart, storeVars
<1> SUFFICES ASSUME NEW m \in Nodes PROVE LeaseAhead(m)'
  BY DEF Ahead
<1>0. JobBlock(m)' = JobBlock(m)
  BY <1>1 DEF JobBlock
<1>2. \A g \in Gens : clock' < blk[<<m, g>>].expires => clock < blk[<<m, g>>].expires
  BY <1>1, AheadFacts
<1>3. todo[m] # None => todo[m].cutoff <= clock'
  BY <1>1, AheadFacts DEF LeaseAhead
<1> QED
  BY <1>0, <1>1, <1>2, <1>3, AheadFacts DEF LeaseAhead

\* A process that died may take from nothing.
LEMMA CrashAhead ==
    ASSUME Backed, NEW n \in Nodes, Crash(n)
    PROVE  Ahead'
<1>1. /\ lease' = lease /\ clock' = clock /\ job'[n].at = "idle" /\ todo'[n] = None
      /\ \A m \in Nodes : m # n => cur'[m] = cur[m] /\ job'[m] = job[m] /\ todo'[m] = todo[m]
  BY AheadFacts DEF Crash, storeVars, NoJob
<1>2. /\ \A b \in Blocks : b[1] # n => blk'[b] = blk[b]
      /\ \A b \in Blocks : b[1] = n => blk'[b].expires = 0
  BY DEF Crash, EmptyBlock
<1>3. \A g \in Gens : blk'[<<n, g>>].expires = 0
  BY <1>2, AheadFacts
<1>4. LeaseAhead(n)'
  BY <1>1, <1>3, AheadFacts DEF LeaseAhead
<1> QED
  BY <1>1, <1>2, <1>4, ElsewhereAhead

\* Without failing transactions, every step keeps the row behind a block that may be
\* taken from.
LEMMA NextBacked ==
    ASSUME Backed, ~Faults, [Next]_vars
    PROVE  Backed'
<1>0. Owned'
  BY NextOwned DEF Backed
<1>1. ASSUME NEW c \in Callers, Request(c) PROVE Ahead'
  BY <1>1, RequestAhead, FindAhead, DrawAhead DEF Request
<1>2. ASSUME NEW n \in Nodes, Node(n) PROVE Ahead'
  <2>1. ~RefreshFault(n)
    BY DEF RefreshFault
  <2> QED
    BY <1>2, <2>1, JobAhead, RefreshAhead, ReturnAhead, ShutdownAhead, ReclaimAhead, TimeAhead, CrashAhead
       DEF Node
<1>3. CASE UNCHANGED vars
  <2>1. /\ blk' = blk /\ lease' = lease /\ cur' = cur /\ job' = job /\ todo' = todo /\ clock' = clock
    BY <1>3 DEF vars, storeVars
  <2>2. Ahead'
    BY <2>1, AheadSame
  <2> QED
    BY <1>0, <2>2 DEF Backed, Ahead
<1>4. CASE Next
  <2>1. Ahead'
    BY <1>1, <1>2, <1>4, TimeAhead DEF Next
  <2> QED
    BY <1>0, <2>1 DEF Backed, Ahead
<1> QED
  BY <1>3, <1>4

\* No block may be taken from at the start.
LEMMA InitBacked ==
    ASSUME Init PROVE Backed
<1>1. ASSUME NEW n \in Nodes PROVE LeaseAhead(n)
  <2>1. \A g \in Gens : blk[<<n, g>>].expires = 0
    BY DEF Init, Blocks, EmptyBlock
  <2> QED
    BY <2>1 DEF Init, LeaseAhead, NoJob
<1> QED
  BY <1>1, InitOwned DEF Backed

\* Only the hot path takes a request from taking to holding.
LEMMA OnlyTake ==
    ASSUME Shape, [Next]_vars, NEW c \in Callers, req[c].at = "taking", req'[c].at = "holding"
    PROVE  Take(c)
<1>0. req \in [Callers -> Calls] /\ req'[c] # req[c]
  BY DEF Shape, TypeOK
<1>1. ASSUME NEW e \in Callers, Request(e), e # c PROVE FALSE
  <2>1. req'[c] = req[c]
    <3>1. \E v : req' = [req EXCEPT ![e] = v]
      <4>1. \/ \E v : CallStep(e, v)
            \/ \E v, b, w : BlockStep(e, v, b, w)
        BY <1>1, ReserveStep, ReportStep, FindStep, TakeStep, LockStep, DrawStep, DrawRefusedStep,
           HoldStep, SettleStep DEF Request
      <4> QED
        BY <4>1 DEF CallStep, BlockStep
    <3> QED
      BY <1>0, <1>1, <3>1
  <2> QED
    BY <1>0, <2>1
<1>2. ASSUME NEW n \in Nodes, Node(n) PROVE FALSE
  <2>1. CASE Crash(n)
    BY <1>0, <2>1 DEF Crash, NoCall
  <2>2. CASE ~Crash(n)
    <3>1. req' = req
      BY <1>2, <2>2 DEF Node, Maintain, Refresh, RefreshFault, Checkpoint, Evict, Stop, ReturnBlock,
         ReturnFault, Restore, Unlink, Close, Abandon, Shutdown, Forsake, Select, Reclaim,
         ReclaimRefused, Restart
    <3> QED
      BY <1>0, <3>1
  <2> QED
    BY <2>1, <2>2
<1>3. ASSUME Request(c) PROVE Take(c)
  BY <1>3 DEF Request, Reserve, Find, Lock, Draw, DrawRefused, Hold, Report, Settle
<1>4. ~Advance /\ ~UNCHANGED vars
  BY <1>0 DEF Advance, vars
<1> QED
  BY <1>1, <1>2, <1>3, <1>4 DEF Next

(* As long as no store transaction fails, a unit is taken with a current    *)
(* clock reading only while the node's lease row is in the store: expiry,   *)
(* renewal, reclaim, retirement, shutdown and crashes of any number of      *)
(* nodes included.                                                          *)
THEOREM SpentUnderLeaseHolds ==
    ASSUME ~Faults
    PROVE  Spec => SpentUnderLease
<1>1. Init => Backed
  BY InitBacked
<1>2. Backed /\ [Next]_vars => Backed'
  BY NextBacked
<1>3. ASSUME Backed, [Next]_vars, NEW c \in Callers,
             req[c].at = "taking", req'[c].at = "holding", req[c].stamp = clock
      PROVE  lease[req[c].node] # None
  <2>0. Shape /\ Owned
    BY <1>3, AheadFacts
  <2>1. Take(c)
    BY <1>3, <2>0, OnlyTake
  <2>2. req[c].node \in Nodes /\ req[c].gen \in Gens
    BY <1>3, <2>0, OrderedFacts DEF Placed
  <2>3. CanTake(BlockOf(c), req[c].amount, clock)
    <3>1. CASE ~CanTake(BlockOf(c), req[c].amount, req[c].stamp)
      <4>1. req' = [req EXCEPT ![c].at = "locking"]
        BY <2>1, <3>1 DEF Take
      <4>2. req'[c].at = "locking"
        BY <2>0, <4>1 DEF Shape, TypeOK, Calls
      <4> QED
        BY <1>3, <4>2
    <3> QED
      BY <1>3, <3>1
  <2>4. clock < blk[<<req[c].node, req[c].gen>>].expires
    BY <2>3 DEF CanTake, BlockOf
  <2> QED
    BY <1>3, <2>2, <2>4, AheadFacts DEF LeaseAhead
<1>4. Backed /\ [Next]_vars =>
        [\A c \in Callers : req[c].at = "taking" /\ req'[c].at = "holding" /\ req[c].stamp = clock
                            => lease[req[c].node] # None]_vars
  BY <1>3
<1> QED
  BY <1>1, <1>2, <1>4, PTL DEF Spec, SpentUnderLease

-----------------------------------------------------------------------------
(* The counter holds no more than what is spent and can be spent, as long   *)
(* as no node crashed or was abandoned, nothing was reclaimed and no        *)
(* transaction was lost.                                                    *)

Orderly == clean /\ deaths = 0 /\ \A n \in Nodes : mode[n] # "abandoned"

\* Units wait in custody only during a draw or a return; a reclaim is no orderly step.
Tidy ==
    /\ \A c \in Callers : req[c].at # "drawing" => req[c].held = 0
    /\ \A n \in Nodes : job[n].at # "stopped" => job[n].unspent = 0
    /\ \A n \in Nodes : job[n].at = "abandoning" => mode[n] = "abandoned"
    /\ clean => reclaimed = 0

\* A block that is in the map or about to be returned and has not been stopped.
Usable(n, g) ==
    /\ g = cur[n] \/ (job[n].at # "idle" /\ job[n].gen = g)
    /\ ~(job[n].at \in {"stopped", "unlinking", "restoring"} /\ job[n].gen = g)

\* What a request has taken came from a usable block, and what it has in custody is
\* under a lease.
CallKempt(c) ==
    /\ Due(req[c]) # 0 => Usable(req[c].node, req[c].gen) /\ lease[req[c].node] # None
    /\ req[c].held # 0 => lease[req[c].node] # None

\* Units are in usable blocks, and under a lease.
Kempt(n) ==
    /\ \A g \in Gens : blk[<<n, g>>].remaining # 0 => Usable(n, g) /\ lease[n] # None
    /\ \A c \in Callers : req[c].node = n => CallKempt(c)
    /\ job[n].unspent # 0 => lease[n] # None

\* The counter is not ahead of what is spent and can be spent.
CounterBehind == counter <= spent + Outstanding + Afloat

Exact == Tidy /\ (Orderly => CounterBehind /\ \A n \in Nodes : Kempt(n))

\* CounterBehind in terms of the four sums.
LEMMA BehindSums ==
    ASSUME TypeOK, TypeOK'
    PROVE  /\ CounterBehind <=> counter <=
                 spent + DuesOf(req) + (RemainingOf(blk) + CustodyOf(req) + UnspentOf(job))
           /\ CounterBehind' <=> counter' <=
                 spent' + DuesOf(req') + (RemainingOf(blk') + CustodyOf(req') + UnspentOf(job'))
<1>1. Outstanding = DuesOf(req)
  BY TakenIsDue DEF Outstanding, AmountsOf, TypeOK
<1>2. Outstanding' = DuesOf(req')
  BY TakenIsDue DEF Outstanding, AmountsOf, TypeOK
<1>3. Afloat = RemainingOf(blk) + CustodyOf(req) + UnspentOf(job)
  BY DEF Afloat, RemainingOf, CustodyOf, UnspentOf
<1>4. Afloat' = RemainingOf(blk') + CustodyOf(req') + UnspentOf(job')
  BY DEF Afloat, RemainingOf, CustodyOf, UnspentOf
<1> QED
  BY <1>1, <1>2, <1>3, <1>4 DEF CounterBehind

\* A request that moves no units keeps the counter behind.
LEMMA CallBehind ==
    ASSUME TypeOK, TypeOK', CounterBehind, NEW c \in Callers,
           \A e \in Callers : e # c => req'[e] = req[e],
           Due(req'[c]) = Due(req[c]), req'[c].held = req[c].held,
           blk' = blk, job' = job, counter' = counter, spent' = spent
    PROVE  CounterBehind'
<1>1. req \in [Callers -> Calls] /\ req' \in [Callers -> Calls]
  BY DEF TypeOK
<1>2. /\ DuesOf(req) \in Nat /\ DuesOf(req') = DuesOf(req) - Due(req[c]) + Due(req'[c])
      /\ CustodyOf(req) \in Nat /\ CustodyOf(req') = CustodyOf(req) - req[c].held + req'[c].held
  BY <1>1, DuesChange
<1>3. Due(req[c]) \in Nat /\ req[c].held \in Nat
  BY <1>1, DueType
<1>4. DuesOf(req') = DuesOf(req) /\ CustodyOf(req') = CustodyOf(req)
  BY <1>2, <1>3
<1> QED
  BY <1>4, BehindSums

\* A request that moves units between a block, itself, the counter and what is spent.
LEMMA CallBlockBehind ==
    ASSUME TypeOK, TypeOK', CounterBehind, NEW c \in Callers, NEW b \in Blocks,
           \A e \in Callers : e # c => req'[e] = req[e],
           \A e \in Blocks : e # b => blk'[e] = blk[e], job' = job,
           counter' + (spent + Due(req[c]) + req[c].held + blk[b].remaining)
           = counter + (spent' + Due(req'[c]) + req'[c].held + blk'[b].remaining)
    PROVE  CounterBehind'
<1>1. /\ req \in [Callers -> Calls] /\ req' \in [Callers -> Calls]
      /\ blk \in [Blocks -> BlockRec] /\ blk' \in [Blocks -> BlockRec]
      /\ {counter, counter', spent, spent'} \subseteq Nat
  BY DEF TypeOK
<1>2. /\ DuesOf(req) \in Nat /\ DuesOf(req') = DuesOf(req) - Due(req[c]) + Due(req'[c])
      /\ CustodyOf(req) \in Nat /\ CustodyOf(req') = CustodyOf(req) - req[c].held + req'[c].held
  BY <1>1, DuesChange
<1>3. /\ RemainingOf(blk) \in Int
      /\ RemainingOf(blk') = RemainingOf(blk) - blk[b].remaining + blk'[b].remaining
  BY <1>1, RemainingChange
<1>4. /\ Due(req[c]) \in Nat /\ req[c].held \in Nat /\ Due(req'[c]) \in Nat /\ req'[c].held \in Nat
      /\ blk[b].remaining \in Int /\ blk'[b].remaining \in Int
  BY <1>1, DueType DEF BlockRec
<1>5. UnspentOf(job) \in Nat /\ UnspentOf(job') = UnspentOf(job)
  BY <1>1, SumTypes DEF TypeOK
<1>6. counter <= spent + DuesOf(req) + (RemainingOf(blk) + CustodyOf(req) + UnspentOf(job))
  BY BehindSums
<1>7. counter' <= spent' + DuesOf(req') + (RemainingOf(blk') + CustodyOf(req') + UnspentOf(job'))
  BY <1>1, <1>2, <1>3, <1>4, <1>5, <1>6
<1> QED
  BY <1>7, BehindSums

\* Maintenance that moves units from a block to what is being returned, or none.
LEMMA JobBehind ==
    ASSUME TypeOK, TypeOK', CounterBehind, NEW n \in Nodes, NEW b \in Blocks,
           \A e \in Nodes : e # n => job'[e] = job[e],
           \A e \in Blocks : e # b => blk'[e] = blk[e],
           req' = req, counter' = counter, spent' = spent,
           job[n].unspent + blk[b].remaining = job'[n].unspent + blk'[b].remaining
    PROVE  CounterBehind'
<1>1. /\ job \in [Nodes -> Jobs] /\ job' \in [Nodes -> Jobs]
      /\ blk \in [Blocks -> BlockRec] /\ blk' \in [Blocks -> BlockRec]
      /\ {counter, spent} \subseteq Nat
  BY DEF TypeOK
<1>2. UnspentOf(job) \in Nat /\ UnspentOf(job') = UnspentOf(job) - job[n].unspent + job'[n].unspent
  BY <1>1, UnspentChange
<1>3. /\ RemainingOf(blk) \in Int
      /\ RemainingOf(blk') = RemainingOf(blk) - blk[b].remaining + blk'[b].remaining
  BY <1>1, RemainingChange
<1>4. /\ job[n].unspent \in Nat /\ job'[n].unspent \in Nat
      /\ blk[b].remaining \in Int /\ blk'[b].remaining \in Int
  BY <1>1 DEF Jobs, BlockRec
<1>5. /\ DuesOf(req) \in Nat /\ DuesOf(req') = DuesOf(req)
      /\ CustodyOf(req) \in Nat /\ CustodyOf(req') = CustodyOf(req)
  BY SumTypes DEF TypeOK
<1>6. counter <= spent + DuesOf(req) + (RemainingOf(blk) + CustodyOf(req) + UnspentOf(job))
  BY BehindSums
<1>7. counter' <= spent' + DuesOf(req') + (RemainingOf(blk') + CustodyOf(req') + UnspentOf(job'))
  BY <1>1, <1>2, <1>3, <1>4, <1>5, <1>6
<1> QED
  BY <1>7, BehindSums

\* A return that gives the counter what it takes out of custody.
LEMMA ReturnBehind ==
    ASSUME TypeOK, TypeOK', NoDebt, CounterBehind, NEW n \in Nodes,
           \A e \in Nodes : e # n => job'[e] = job[e], job'[n].unspent = 0,
           blk' = blk, req' = req, spent' = spent, counter' = AtLeastZero(counter - job[n].unspent)
    PROVE  CounterBehind'
<1>1. /\ job \in [Nodes -> Jobs] /\ job' \in [Nodes -> Jobs]
      /\ {counter, spent} \subseteq Nat /\ job[n].unspent \in Nat
  BY DEF TypeOK, Jobs
<1>2. UnspentOf(job) \in Nat /\ UnspentOf(job') = UnspentOf(job) - job[n].unspent
  BY <1>1, UnspentChange
<1>3. UnspentOf(job') \in Nat
  BY SumTypes DEF TypeOK
<1>4. RemainingOf(blk) \in Nat /\ RemainingOf(blk') = RemainingOf(blk)
  <2> DEFINE r == [b \in Blocks |-> blk[b].remaining]
  <2>1. \A b \in Blocks : r[b] \in Nat
    BY DEF NoDebt, TypeOK, BlockRec
  <2> HIDE DEF r
  <2>2. SumFunctionOnSet(r, Blocks) \in Nat
    BY <2>1, SumNat, BlocksFinite
  <2> QED
    BY <2>2 DEF RemainingOf, r
<1>5. /\ DuesOf(req) \in Nat /\ DuesOf(req') = DuesOf(req)
      /\ CustodyOf(req) \in Nat /\ CustodyOf(req') = CustodyOf(req)
  BY SumTypes DEF TypeOK
<1>6. counter <= spent + DuesOf(req) + (RemainingOf(blk) + CustodyOf(req) + UnspentOf(job))
  BY BehindSums
<1>7. counter' <= spent' + DuesOf(req') + (RemainingOf(blk') + CustodyOf(req') + UnspentOf(job'))
  BY <1>1, <1>2, <1>3, <1>4, <1>5, <1>6 DEF AtLeastZero
<1> QED
  BY <1>7, BehindSums

\* A step that makes no row go and no usable block unusable keeps units where they
\* may be, if those it moves are.
LEMMA KemptStep ==
    ASSUME \A n \in Nodes : Kempt(n),
           \A n \in Nodes : lease[n] # None => lease'[n] # None,
           \A n \in Nodes, g \in Gens : Usable(n, g) => Usable(n, g)',
           \A n \in Nodes, g \in Gens : blk'[<<n, g>>].remaining # 0 =>
              blk[<<n, g>>].remaining # 0 \/ (Usable(n, g)' /\ lease'[n] # None),
           \A c \in Callers : Due(req[c]) # 0 => req[c].gen \in Gens,
           \A c \in Callers : req'[c] = req[c] \/ CallKempt(c)',
           \A n \in Nodes : job'[n].unspent # 0 => job[n].unspent # 0 \/ lease'[n] # None
    PROVE  \A n \in Nodes : Kempt(n)'
<1> SUFFICES ASSUME NEW n \in Nodes PROVE Kempt(n)'
  OBVIOUS
<1>1. ASSUME NEW g \in Gens, blk'[<<n, g>>].remaining # 0
      PROVE  Usable(n, g)' /\ lease'[n] # None
  BY <1>1 DEF Kempt
<1>2. ASSUME NEW c \in Callers, req'[c].node = n
      PROVE  CallKempt(c)'
  <2>1. CASE req'[c] = req[c]
    <3>1. req[c].node = n /\ CallKempt(c)
      BY <1>2, <2>1 DEF Kempt
    <3>2. ASSUME Due(req[c]) # 0 PROVE Usable(n, req[c].gen)'
      <4>1. PICK g \in Gens : g = req[c].gen /\ Usable(n, g)
        BY <3>1, <3>2 DEF CallKempt
      <4>2. Usable(n, g)'
        BY <4>1
      <4> QED
        BY <2>1, <4>1, <4>2 DEF Usable
    <3> QED
      BY <2>1, <3>1, <3>2 DEF CallKempt
  <2> QED
    BY <1>2, <2>1
<1>3. job'[n].unspent # 0 => lease'[n] # None
  BY DEF Kempt
<1> QED
  BY <1>1, <1>2, <1>3 DEF Kempt

-----------------------------------------------------------------------------
(* Every step of a request keeps it so.                                    *)

\* Custody is only with a draw after a request's step.
LEMMA RequestTidy ==
    ASSUME Tidy, NEW c \in Callers, \A e \in Callers : e # c => req'[e] = req[e],
           req'[c].at # "drawing" => req'[c].held = 0,
           job' = job, mode' = mode, clean' => clean, reclaimed' = reclaimed
    PROVE  Tidy'
  BY DEF Tidy

\* What is due came from a block that is placed.
LEMMA DuePlaced ==
    ASSUME Owned
    PROVE  \A c \in Callers : Due(req[c]) # 0 => req[c].node \in Nodes /\ req[c].gen \in Gens
<1>1. \A c \in Callers : Due(req[c]) # 0 => req[c].at \in Placed
  BY DEF Due, Placed
<1> QED
  BY <1>1, OrderedFacts

\* A request that moves no units.
LEMMA CallExact ==
    ASSUME Owned, Owned', Exact, NEW c \in Callers, \A e \in Callers : e # c => req'[e] = req[e],
           Due(req[c]) = 0, req[c].at # "drawing",
           Due(req'[c]) = 0, req'[c].at # "drawing", req'[c].held = 0,
           UNCHANGED <<counter, lease, blk, cur, mode, job, spent, clean, reclaimed, deaths>>
    PROVE  Exact'
<1>1. Tidy /\ Tidy' /\ TypeOK /\ TypeOK'
  BY RequestTidy DEF Exact, Owned, Shape
<1>2. ASSUME Orderly' PROVE CounterBehind' /\ \A n \in Nodes : Kempt(n)'
  <2>1. CounterBehind /\ \A n \in Nodes : Kempt(n)
    BY <1>2 DEF Orderly, Exact
  <2>2. CounterBehind'
    BY <1>1, <2>1, CallBehind DEF Tidy
  <2>3. \A n \in Nodes, g \in Gens : Usable(n, g) => Usable(n, g)'
    BY DEF Usable
  <2>4. CallKempt(c)'
    BY DEF CallKempt
  <2> QED
    BY <2>1, <2>2, <2>3, <2>4, DuePlaced, KemptStep
<1> QED
  BY <1>1, <1>2 DEF Exact

\* A request that moves units from or to its block.
LEMMA BlockExact ==
    ASSUME Owned, Owned', Exact, NEW c \in Callers, req[c].at \in Placed,
           \A e \in Callers : e # c => req'[e] = req[e],
           \A e \in Blocks : e # BlockOf(c) => blk'[e] = blk[e],
           UNCHANGED <<cur, mode, job, reclaimed, deaths>>, clean' => clean,
           req'[c].at # "drawing" => req'[c].held = 0,
           Orderly' =>
              /\ \A n \in Nodes : lease[n] # None => lease'[n] # None
              /\ counter' + (spent + Due(req[c]) + req[c].held + blk[BlockOf(c)].remaining)
                 = counter + (spent' + Due(req'[c]) + req'[c].held + blk'[BlockOf(c)].remaining)
              /\ \/ blk'[BlockOf(c)].remaining = 0
                 \/ blk[BlockOf(c)].remaining # 0
                 \/ Usable(req[c].node, req[c].gen) /\ lease'[req[c].node] # None
              /\ CallKempt(c)'
    PROVE  Exact'
<1> DEFINE b == BlockOf(c)
<1>0. b \in Blocks /\ req[c].node \in Nodes /\ req[c].gen \in Gens
  BY OrderedFacts
<1>1. Tidy /\ Tidy' /\ TypeOK /\ TypeOK'
  BY RequestTidy DEF Exact, Owned, Shape
<1>2. ASSUME Orderly' PROVE CounterBehind' /\ \A n \in Nodes : Kempt(n)'
  <2>1. CounterBehind /\ \A n \in Nodes : Kempt(n)
    BY <1>2 DEF Orderly, Exact
  <2>2. CounterBehind'
    BY <1>0, <1>1, <1>2, <2>1, CallBlockBehind
  <2>3. \A n \in Nodes, g \in Gens : Usable(n, g) => Usable(n, g)'
    BY DEF Usable
  <2>4. \A n \in Nodes, g \in Gens : blk'[<<n, g>>].remaining # 0 =>
           blk[<<n, g>>].remaining # 0 \/ (Usable(n, g)' /\ lease'[n] # None)
    <3> SUFFICES ASSUME NEW n \in Nodes, NEW g \in Gens, blk'[<<n, g>>].remaining # 0,
                        blk[<<n, g>>].remaining = 0
                 PROVE  Usable(n, g)' /\ lease'[n] # None
      OBVIOUS
    <3>1. <<n, g>> = b
      BY <1>0 DEF Blocks
    <3>2. n = req[c].node /\ g = req[c].gen
      BY <3>1 DEF BlockOf
    <3>3. Usable(n, g) /\ lease'[n] # None
      BY <1>2, <3>1, <3>2
    <3> QED
      BY <2>3, <3>3
  <2>5. \A n \in Nodes : lease[n] # None => lease'[n] # None
    BY <1>2
  <2>6. \A e \in Callers : req'[e] = req[e] \/ CallKempt(e)'
    BY <1>2
  <2>7. \A n \in Nodes : job'[n].unspent # 0 => job[n].unspent # 0
    OBVIOUS
  <2> QED
    BY <2>1, <2>2, <2>3, <2>4, <2>5, <2>6, <2>7, DuePlaced, KemptStep
<1> QED
  BY <1>1, <1>2 DEF Exact

\* Reserve and the end of a request that failed move nothing.
LEMMA QuietExact ==
    ASSUME Owned, Owned', Exact, NEW c \in Callers,
           Report(c) \/ \E n \in Nodes, a \in Amounts : Reserve(c, n, a)
    PROVE  Exact'
<1>0. req \in [Callers -> Calls]
  BY DEF Owned, Shape, TypeOK
<1>1. UNCHANGED <<counter, lease, blk, cur, mode, job, spent, clean, reclaimed, deaths>>
  BY DEF Report, Reserve, storeVars
<1>2. req[c].at \in {"evicted", "idle"}
  BY DEF Report, Reserve
<1>3. /\ \A e \in Callers : e # c => req'[e] = req[e]
      /\ req'[c].at \in {"idle", "finding"} /\ req'[c].held = 0
  <2>1. CASE Report(c)
    BY <1>0, <2>1 DEF Report, NoCall
  <2>2. CASE \E n \in Nodes, a \in Amounts : Reserve(c, n, a)
    <3>1. PICK n \in Nodes, a \in Amounts : Reserve(c, n, a)
      BY <2>2
    <3> DEFINE v == [NoCall EXCEPT !.at = "finding", !.node = n, !.amount = a, !.stamp = clock]
    <3>2. v.at = "finding" /\ v.held = 0
      BY DEF NoCall
    <3>3. req' = [req EXCEPT ![c] = v]
      BY <3>1 DEF Reserve
    <3> HIDE DEF v
    <3> QED
      BY <1>0, <3>2, <3>3
  <2> QED
    BY <2>1, <2>2
<1>4. Due(req[c]) = 0 /\ Due(req'[c]) = 0
  BY <1>2, <1>3 DEF Due
<1> QED
  BY <1>1, <1>2, <1>3, <1>4, CallExact

\* The types of a request at a block, which has units in custody only during a draw.
LEMMA PlacedExact ==
    ASSUME Owned, Exact, NEW c \in Callers, req[c].at \in Placed
    PROVE  /\ BlockOf(c) \in Blocks /\ req[c].node \in Nodes /\ req[c].gen \in Gens
           /\ req \in [Callers -> Calls] /\ blk \in [Blocks -> BlockRec]
           /\ req[c].amount \in Nat /\ req[c].held \in Nat /\ blk[BlockOf(c)].remaining \in Int
           /\ spent \in Nat /\ counter \in Nat
           /\ req[c].at # "drawing" => req[c].held = 0
  BY OrderedFacts DEF Exact, Tidy, Shape, TypeOK, Calls, BlockRec

\* What is taken was in a usable block.
LEMMA TakenExact ==
    ASSUME Owned, Owned', Exact, NEW c \in Callers, req[c].at \in {"taking", "locking"},
           blk[BlockOf(c)].remaining >= req[c].amount,
           req' = [req EXCEPT ![c].at = "holding"],
           blk' = [blk EXCEPT ![BlockOf(c)].remaining = @ - req[c].amount],
           UNCHANGED <<counter, lease, cur, mode, job, spent, clean, reclaimed, deaths>>
    PROVE  Exact'
<1> DEFINE b == BlockOf(c)
<1>0. req[c].at \in Placed /\ req[c].at # "drawing"
  BY DEF Placed
<1>1. /\ b \in Blocks /\ req[c].node \in Nodes /\ req[c].gen \in Gens
      /\ req \in [Callers -> Calls] /\ blk \in [Blocks -> BlockRec]
      /\ req[c].amount \in Nat /\ req[c].held = 0 /\ blk[b].remaining \in Int
      /\ spent \in Nat /\ counter \in Nat
  BY <1>0, PlacedExact
<1>2. /\ \A e \in Callers : e # c => req'[e] = req[e]
      /\ \A e \in Blocks : e # b => blk'[e] = blk[e]
      /\ req'[c] = [req[c] EXCEPT !.at = "holding"]
      /\ blk'[b].remaining = blk[b].remaining - req[c].amount
  BY <1>1 DEF BlockRec
<1>3. /\ req'[c].at = "holding" /\ req'[c].held = 0 /\ req'[c].amount = req[c].amount
      /\ req'[c].node = req[c].node /\ req'[c].gen = req[c].gen
      /\ Due(req'[c]) = req[c].amount /\ Due(req[c]) = 0
  BY <1>1, <1>2 DEF Calls, Due
<1>4. blk'[b].remaining # 0 \/ req[c].amount # 0 => blk[b].remaining # 0
  BY <1>1, <1>2
<1>5. ASSUME Orderly' PROVE CallKempt(c)'
  <2>1. Kempt(req[c].node)
    BY <1>1, <1>5 DEF Orderly, Exact
  <2>2. req[c].amount # 0 => Usable(req[c].node, req[c].gen) /\ lease[req[c].node] # None
    BY <1>1, <1>4, <2>1 DEF Kempt, BlockOf
  <2> QED
    BY <1>3, <2>2 DEF CallKempt, Usable
<1>6. counter' + (spent + Due(req[c]) + req[c].held + blk[b].remaining)
      = counter + (spent' + Due(req'[c]) + req'[c].held + blk'[b].remaining)
  BY <1>1, <1>2, <1>3
<1> QED
  BY <1>0, <1>2, <1>3, <1>4, <1>5, <1>6, BlockExact

\* The hot path takes, or goes on to the mutex.
LEMMA TakeExact ==
    ASSUME Owned, Owned', Exact, NEW c \in Callers, Take(c)
    PROVE  Exact'
<1>0. req[c].at = "taking" /\ req[c].at \in Placed
  BY DEF Take, Placed
<1>1. UNCHANGED <<counter, lease, cur, mode, job, spent, clean, reclaimed, deaths>>
  BY DEF Take, storeVars
<1>2. CASE CanTake(BlockOf(c), req[c].amount, req[c].stamp)
  BY <1>0, <1>1, <1>2, TakenExact DEF Take, CanTake
<1>3. CASE ~CanTake(BlockOf(c), req[c].amount, req[c].stamp)
  <2>1. req' = [req EXCEPT ![c].at = "locking"] /\ blk' = blk
    BY <1>3 DEF Take
  <2>2. /\ \A e \in Callers : e # c => req'[e] = req[e]
        /\ req'[c].at = "locking" /\ req'[c].held = 0
    BY <1>0, <2>1, PlacedExact DEF Calls
  <2>3. Due(req'[c]) = 0 /\ Due(req[c]) = 0
    BY <1>0, <2>2 DEF Due
  <2> QED
    BY <1>0, <1>1, <2>1, <2>2, <2>3, CallExact
<1> QED
  BY <1>2, <1>3

\* drawAndTake takes, gives up, or moves the block's units into custody.
LEMMA LockExact ==
    ASSUME Owned, Owned', NoDebt, Exact, NEW c \in Callers, Lock(c)
    PROVE  Exact'
<1> DEFINE b == BlockOf(c)
<1>0. req[c].at = "locking" /\ req[c].at \in Placed /\ req[c].at # "drawing" /\ Due(req[c]) = 0
  BY DEF Lock, Placed, Due
<1>1. UNCHANGED <<counter, lease, cur, mode, job, spent, clean, reclaimed, deaths>>
  BY DEF Lock, storeVars
<1>2. /\ b \in Blocks /\ req[c].node \in Nodes /\ req[c].gen \in Gens
      /\ req \in [Callers -> Calls] /\ blk \in [Blocks -> BlockRec]
      /\ req[c].held = 0 /\ blk[b].remaining \in Nat /\ spent \in Nat /\ counter \in Nat
  BY <1>0, PlacedExact DEF NoDebt
<1>3. CASE CanTake(b, req[c].amount, clock)
  BY <1>0, <1>1, <1>3, TakenExact DEF Lock, CanTake
<1>4. CASE ~CanTake(b, req[c].amount, clock) /\ Unlinked(b)
  <2>1. /\ blk' = blk
        /\ req' = [req EXCEPT ![c] = IF @.tries = 0
                      THEN [@ EXCEPT !.at = "finding", !.gen = 0, !.tries = 1]
                      ELSE [NoCall EXCEPT !.at = "evicted"]]
    BY <1>4 DEF Lock
  <2>2. /\ \A e \in Callers : e # c => req'[e] = req[e]
        /\ req'[c].at \in {"finding", "evicted"} /\ req'[c].held = 0
    BY <1>2, <2>1 DEF Calls, NoCall
  <2>3. Due(req'[c]) = 0
    BY <2>2 DEF Due
  <2> QED
    BY <1>0, <1>1, <2>1, <2>2, <2>3, CallExact
<1>5. CASE ~CanTake(b, req[c].amount, clock) /\ ~Unlinked(b) /\ mode[req[c].node] # "up"
  <2>1. blk' = blk /\ req' = [req EXCEPT ![c] = NoCall]
    BY <1>5 DEF Lock
  <2>2. /\ \A e \in Callers : e # c => req'[e] = req[e]
        /\ req'[c].at = "idle" /\ req'[c].held = 0 /\ Due(req'[c]) = 0
    BY <1>2, <2>1 DEF NoCall, Due
  <2> QED
    BY <1>0, <1>1, <2>1, <2>2, CallExact
<1>6. CASE ~CanTake(b, req[c].amount, clock) /\ ~Unlinked(b) /\ mode[req[c].node] = "up"
  <2>1. /\ blk' = [blk EXCEPT ![b] = Custody(b)]
        /\ req' = [req EXCEPT ![c].at = "drawing", ![c].held = AtLeastZero(blk[b].remaining)]
    BY <1>6 DEF Lock
  <2>2. /\ \A e \in Callers : e # c => req'[e] = req[e]
        /\ req'[c].at = "drawing" /\ req'[c].held = blk[b].remaining /\ Due(req'[c]) = 0
        /\ req'[c].node = req[c].node
    BY <1>2, <2>1 DEF Calls, Due, AtLeastZero
  <2>3. /\ \A e \in Blocks : e # b => blk'[e] = blk[e]
        /\ blk'[b].remaining = 0
    BY <1>2, <2>1 DEF Custody, BlockRec
  <2>4. ASSUME Orderly' PROVE CallKempt(c)'
    <3>1. Kempt(req[c].node)
      BY <1>1, <1>2, <2>4 DEF Orderly, Exact
    <3>2. blk[b].remaining # 0 => lease[req[c].node] # None
      BY <1>2, <3>1 DEF Kempt, BlockOf
    <3> QED
      BY <1>1, <2>2, <3>2 DEF CallKempt
  <2>5. counter' + (spent + Due(req[c]) + req[c].held + blk[b].remaining)
        = counter + (spent' + Due(req'[c]) + req'[c].held + blk'[b].remaining)
    BY <1>0, <1>1, <1>2, <2>2, <2>3
  <2> QED
    BY <1>0, <1>1, <2>2, <2>3, <2>4, <2>5, BlockExact
<1> QED
  BY <1>3, <1>4, <1>5, <1>6

\* A draw works on a usable block.
LEMMA DrawUsable ==
    ASSUME Owned, NEW c \in Callers, req[c].at = "drawing"
    PROVE  Usable(req[c].node, req[c].gen)
<1> DEFINE n == req[c].node
<1>1. /\ n \in Nodes /\ ~blk[BlockOf(c)].evicted /\ Mapped(n) /\ Closing(n)
  BY OrderedFacts DEF Mutexed
<1>2. CASE mode[n] = "up"
  <2>1. req[c].gen = cur[n]
    BY <1>1, <1>2 DEF Mapped, Placed
  <2>2. job[n].at \in {"stopped", "unlinking", "restoring"} => job[n].gen # req[c].gen
    BY <1>1, <1>2 DEF Mapped, JobBlock, BlockOf
  <2> QED
    BY <2>1, <2>2 DEF Usable
<1>3. CASE mode[n] # "up"
  BY <1>1, <1>3 DEF Closing, Usable
<1> QED
  BY <1>2, <1>3

\* The row of a draw that has units in custody is there, so none is voided.
LEMMA DrawExact ==
    ASSUME Owned, Owned', Exact, NEW c \in Callers, Draw(c)
    PROVE  Exact'
<1> DEFINE b == BlockOf(c)
           n == req[c].node
<1>0. req[c].at = "drawing" /\ req[c].at \in Placed /\ ~Exhausted(c) /\ Due(req[c]) = 0
  BY DEF Draw, Placed, Due
<1>1. UNCHANGED <<cur, mode, job, spent, clean, reclaimed, deaths>>
  BY DEF Draw
<1>2. /\ b \in Blocks /\ n \in Nodes /\ req[c].gen \in Gens
      /\ req \in [Callers -> Calls] /\ blk \in [Blocks -> BlockRec]
      /\ req[c].amount \in Nat /\ req[c].held \in Nat /\ blk[b].remaining \in Int
      /\ spent \in Nat /\ counter \in Nat
  BY <1>0, PlacedExact
<1>3. /\ Have(c) \in Nat /\ Grant(c) \in Nat /\ DrawnLease(c) \in Leases /\ Shape
  BY <1>0, GrantType DEF Owned
<1>4. lease' = [lease EXCEPT ![n] = DrawnLease(c)] /\ counter' = counter + Grant(c)
  BY DEF Draw, BlockOf
<1>5. lease'[n] # None /\ \A m \in Nodes : lease[m] # None => lease'[m] # None
  BY <1>2, <1>3, <1>4, LedgerAssumption DEF Shape, TypeOK
<1>6. /\ \A e \in Callers : e # c => req'[e] = req[e]
      /\ req'[c].at = "holding" /\ req'[c].held = 0 /\ req'[c].amount = req[c].amount
      /\ req'[c].node = n /\ req'[c].gen = req[c].gen
  BY <1>2 DEF Draw, Calls
<1>7. Due(req'[c]) = req[c].amount
  BY <1>6 DEF Due
<1>8. /\ \A e \in Blocks : e # b => blk'[e] = blk[e]
      /\ blk'[b].remaining = blk[b].remaining + Have(c) + Grant(c) - req[c].amount
  BY <1>2 DEF Draw, BlockRec
<1>9. Usable(n, req[c].gen)
  BY <1>0, DrawUsable
<1>10. CallKempt(c)'
  BY <1>1, <1>5, <1>6, <1>9 DEF CallKempt, Usable
<1>11. ASSUME Orderly'
       PROVE  counter' + (spent + Due(req[c]) + req[c].held + blk[b].remaining)
              = counter + (spent' + Due(req'[c]) + req'[c].held + blk'[b].remaining)
  <2>1. Kempt(n)
    BY <1>1, <1>2, <1>11 DEF Orderly, Exact
  <2>2. req[c].held # 0 => lease[n] # None
    BY <2>1 DEF Kempt, CallKempt
  <2>3. Have(c) = req[c].held
    BY <2>2 DEF Have, Kept
  <2> QED
    BY <1>0, <1>1, <1>2, <1>3, <1>4, <1>6, <1>7, <1>8, <2>3
<1> QED
  BY <1>0, <1>1, <1>5, <1>6, <1>8, <1>9, <1>10, <1>11, BlockExact

\* A draw that is refused puts custody back.
LEMMA DrawRefusedExact ==
    ASSUME Owned, Owned', Exact, NEW c \in Callers, DrawRefused(c)
    PROVE  Exact'
<1> DEFINE b == BlockOf(c)
           n == req[c].node
<1>0. req[c].at = "drawing" /\ req[c].at \in Placed /\ Due(req[c]) = 0
  BY DEF DrawRefused, Placed, Due
<1>1. UNCHANGED <<cur, mode, job, spent, reclaimed, deaths>> /\ (clean' => clean)
  BY DEF DrawRefused
<1>2. /\ b \in Blocks /\ n \in Nodes /\ req[c].gen \in Gens
      /\ req \in [Callers -> Calls] /\ blk \in [Blocks -> BlockRec]
      /\ req[c].held \in Nat /\ blk[b].remaining \in Int /\ spent \in Nat /\ counter \in Nat
  BY <1>0, PlacedExact
<1>3. /\ \A e \in Callers : e # c => req'[e] = req[e]
      /\ req'[c].at = "idle" /\ req'[c].held = 0 /\ Due(req'[c]) = 0
  BY <1>2 DEF DrawRefused, NoCall, Due
<1>4. /\ \A e \in Blocks : e # b => blk'[e] = blk[e]
      /\ blk'[b].remaining = blk[b].remaining + req[c].held
  BY <1>2 DEF DrawRefused, BlockRec
<1>5. Usable(n, req[c].gen)
  BY <1>0, DrawUsable
<1>6. CallKempt(c)'
  BY <1>3 DEF CallKempt
<1>7. ASSUME Orderly'
      PROVE  /\ lease' = lease /\ counter' = counter
             /\ req[c].held # 0 => lease[n] # None
  <2>1. lease' = lease /\ counter' = counter
    BY <1>7 DEF Orderly, DrawRefused, storeVars
  <2>2. Kempt(n)
    BY <1>1, <1>2, <1>7 DEF Orderly, Exact
  <2> QED
    BY <2>1, <2>2 DEF Kempt, CallKempt
<1>8. blk'[b].remaining # 0 => blk[b].remaining # 0 \/ req[c].held # 0
  BY <1>2, <1>4
<1>9. ASSUME Orderly'
      PROVE  counter' + (spent + Due(req[c]) + req[c].held + blk[b].remaining)
             = counter + (spent' + Due(req'[c]) + req'[c].held + blk'[b].remaining)
  BY <1>0, <1>1, <1>2, <1>3, <1>4, <1>7, <1>9
<1> QED
  BY <1>0, <1>1, <1>3, <1>4, <1>5, <1>6, <1>7, <1>8, <1>9, BlockExact

\* hold moves no units.
LEMMA HoldExact ==
    ASSUME Owned, Owned', Exact, NEW c \in Callers, Hold(c)
    PROVE  Exact'
<1> DEFINE b == BlockOf(c)
<1>0. req[c].at = "holding" /\ req[c].at \in Placed /\ req[c].at # "drawing"
  BY DEF Hold, Placed
<1>1. UNCHANGED <<counter, lease, cur, mode, job, spent, clean, reclaimed, deaths>>
  BY DEF Hold, storeVars
<1>2. /\ b \in Blocks /\ req[c].node \in Nodes /\ req[c].gen \in Gens
      /\ req \in [Callers -> Calls] /\ blk \in [Blocks -> BlockRec]
      /\ req[c].amount \in Nat /\ req[c].held = 0 /\ blk[b].remaining \in Int
      /\ spent \in Nat /\ counter \in Nat
  BY <1>0, PlacedExact
<1>3. /\ \A e \in Callers : e # c => req'[e] = req[e]
      /\ req'[c].at = "held" /\ req'[c].held = 0 /\ req'[c].amount = req[c].amount
      /\ req'[c].node = req[c].node /\ req'[c].gen = req[c].gen
  BY <1>2 DEF Hold, Calls
<1>4. Due(req'[c]) = req[c].amount /\ Due(req[c]) = req[c].amount
  BY <1>0, <1>3 DEF Due
<1>5. /\ \A e \in Blocks : e # b => blk'[e] = blk[e]
      /\ blk'[b].remaining = blk[b].remaining
  BY <1>2 DEF Hold, BlockRec
<1>6. ASSUME Orderly' PROVE CallKempt(c)'
  <2>1. CallKempt(c)
    BY <1>1, <1>2, <1>6 DEF Orderly, Exact, Kempt
  <2> QED
    BY <1>1, <1>2, <1>3, <1>4, <2>1 DEF CallKempt, Usable
<1>7. counter' + (spent + Due(req[c]) + req[c].held + blk[b].remaining)
      = counter + (spent' + Due(req'[c]) + req'[c].held + blk'[b].remaining)
  BY <1>1, <1>2, <1>3, <1>4, <1>5
<1> QED
  BY <1>0, <1>1, <1>3, <1>5, <1>6, <1>7, BlockExact

\* Settle returns what a request did not cost to a block that is usable.
LEMMA SettleExact ==
    ASSUME Overrun = 0, Owned, Owned', NoDebt, Exact, NEW c \in Callers,
           NEW actual \in 0 .. req[c].amount + Overrun, Settle(c, actual)
    PROVE  Exact'
<1> DEFINE b == BlockOf(c)
<1>0. req[c].at = "held" /\ req[c].at \in Placed /\ req[c].at # "drawing"
  BY DEF Settle, Placed
<1>1. UNCHANGED <<counter, lease, cur, mode, job, clean, reclaimed, deaths>> /\ spent' = spent + actual
  BY DEF Settle, storeVars
<1>2. /\ b \in Blocks /\ req[c].node \in Nodes /\ req[c].gen \in Gens
      /\ req \in [Callers -> Calls] /\ blk \in [Blocks -> BlockRec]
      /\ req[c].amount \in Nat /\ req[c].held = 0 /\ blk[b].remaining \in Int
      /\ spent \in Nat /\ counter \in Nat /\ actual \in Nat /\ actual <= req[c].amount
  BY <1>0, PlacedExact
<1>3. /\ \A e \in Callers : e # c => req'[e] = req[e]
      /\ req'[c].at = "idle" /\ req'[c].held = 0 /\ Due(req'[c]) = 0
  BY <1>2 DEF Settle, NoCall, Due
<1>4. Due(req[c]) = req[c].amount
  BY <1>0 DEF Due
<1>5. /\ \A e \in Blocks : e # b => blk'[e] = blk[e]
      /\ blk'[b].remaining = blk[b].remaining + (req[c].amount - actual)
  BY <1>2 DEF Settle, Refund, BlockRec
<1>6. CallKempt(c)'
  BY <1>3 DEF CallKempt
<1>7. ASSUME Orderly'
      PROVE  Due(req[c]) # 0 => Usable(req[c].node, req[c].gen) /\ lease[req[c].node] # None
  <2>1. CallKempt(c)
    BY <1>1, <1>2, <1>7 DEF Orderly, Exact, Kempt
  <2> QED
    BY <2>1 DEF CallKempt
<1>8. ASSUME blk[b].remaining = 0, Due(req[c]) = 0 PROVE blk'[b].remaining = 0
  <2>1. req[c].amount = 0 /\ actual = 0
    BY <1>2, <1>4, <1>8
  <2> QED
    BY <1>5, <1>8, <2>1
<1>9. counter' + (spent + Due(req[c]) + req[c].held + blk[b].remaining)
      = counter + (spent' + Due(req'[c]) + req'[c].held + blk'[b].remaining)
  BY <1>1, <1>2, <1>3, <1>4, <1>5
<1> QED
  BY <1>0, <1>1, <1>3, <1>5, <1>6, <1>7, <1>8, <1>9, BlockExact

\* blockFor reuses an object that holds no units.
LEMMA FindExact ==
    ASSUME Owned, Owned', Exact, NEW c \in Callers, Find(c)
    PROVE  Exact'
<1> DEFINE n == req[c].node
<1>0. req[c].at = "finding" /\ req[c].at # "drawing" /\ Due(req[c]) = 0
  BY DEF Find, Due
<1>1. UNCHANGED <<counter, lease, mode, job, spent, clean, reclaimed, deaths>>
  BY DEF Find, storeVars
<1>2. /\ n \in Nodes /\ req \in [Callers -> Calls] /\ blk \in [Blocks -> BlockRec]
      /\ req[c].held = 0 /\ cur \in [Nodes -> Gens \cup {0}] /\ TypeOK /\ TypeOK'
  BY <1>0, OrderedFacts DEF Exact, Tidy, Shape, TypeOK, Located, Owned
<1>3. /\ \A e \in Callers : e # c => req'[e] = req[e]
      /\ req'[c].at # "drawing" /\ req'[c].held = 0 /\ Due(req'[c]) = 0
  <2>1. CASE mode[n] # "up"
    BY <1>2, <2>1 DEF Find, NoCall, Due
  <2>2. CASE mode[n] = "up"
    <3>1. PICK g : req' = [req EXCEPT ![c].at = IF req[c].amount = 0 THEN "holding" ELSE "taking",
                                       ![c].gen = g]
      BY <2>2 DEF Find
    <3>2. /\ \A e \in Callers : e # c => req'[e] = req[e]
          /\ req'[c].at = IF req[c].amount = 0 THEN "holding" ELSE "taking"
          /\ req'[c].held = req[c].held /\ req'[c].amount = req[c].amount
      BY <1>2, <3>1 DEF Calls
    <3> QED
      BY <1>2, <3>2 DEF Due
  <2> QED
    BY <2>1, <2>2
<1>4. CASE UNCHANGED <<blk, cur>>
  BY <1>0, <1>1, <1>3, <1>4, CallExact
<1>5. CASE ~UNCHANGED <<blk, cur>>
  <2>1. PICK g \in FreeGens(n) : /\ cur' = [cur EXCEPT ![n] = g]
                                 /\ blk' = [blk EXCEPT ![<<n, g>>] = EmptyBlock]
    BY <1>5 DEF Find
  <2>2. cur[n] = 0
    BY <1>5 DEF Find
  <2>3. /\ g \in Gens /\ g # 0 /\ g # cur[n] /\ g # job[n].gen /\ <<n, g>> \in Blocks
    BY <1>2, OrderedFacts DEF FreeGens, Blocks
  <2>4. /\ \A e \in Blocks : e # <<n, g>> => blk'[e] = blk[e]
        /\ blk'[<<n, g>>].remaining = 0
    BY <1>2, <2>1, <2>3 DEF EmptyBlock
  <2>5. Tidy'
    BY <1>1, <1>3, RequestTidy DEF Exact
  <2>6. ASSUME Orderly' PROVE CounterBehind' /\ \A m \in Nodes : Kempt(m)'
    <3>1. CounterBehind /\ \A m \in Nodes : Kempt(m)
      BY <1>1, <2>6 DEF Orderly, Exact
    <3>2. blk[<<n, g>>].remaining = 0
      BY <1>2, <2>3, <3>1 DEF Kempt, Usable
    <3>3. counter' + (spent + Due(req[c]) + req[c].held + blk[<<n, g>>].remaining)
          = counter + (spent' + Due(req'[c]) + req'[c].held + blk'[<<n, g>>].remaining)
      BY <1>0, <1>1, <1>2, <1>3, <2>4, <3>2
    <3>4. CounterBehind'
      BY <1>1, <1>2, <1>3, <2>3, <2>4, <3>1, <3>3, CallBlockBehind
    <3>5. \A m \in Nodes, h \in Gens : Usable(m, h) => Usable(m, h)'
      <4> SUFFICES ASSUME NEW m \in Nodes, NEW h \in Gens, Usable(m, h) PROVE Usable(m, h)'
        OBVIOUS
      <4>1. cur'[m] = cur[m] \/ (job[m].at # "idle" /\ job[m].gen = h)
        BY <1>2, <2>1, <2>2, OrderedFacts DEF Usable
      <4> QED
        BY <1>1, <4>1 DEF Usable
    <3>6. \A m \in Nodes, h \in Gens : blk'[<<m, h>>].remaining # 0 => blk[<<m, h>>].remaining # 0
      BY <2>4 DEF Blocks
    <3>7. CallKempt(c)'
      BY <1>3 DEF CallKempt
    <3> QED
      BY <1>1, <1>3, <3>1, <3>4, <3>5, <3>6, <3>7, DuePlaced, KemptStep
  <2> QED
    BY <2>5, <2>6 DEF Exact
<1> QED
  BY <1>4, <1>5

\* Every step of a request is one of these.
LEMMA RequestExact ==
    ASSUME Overrun = 0, Owned, Owned', NoDebt, Exact, NEW c \in Callers, Request(c)
    PROVE  Exact'
  BY QuietExact, FindExact, TakeExact, LockExact, DrawExact, DrawRefusedExact, HoldExact,
     SettleExact DEF Request

-----------------------------------------------------------------------------
(* Every step of a node keeps it so.                                       *)

\* A step that moves no units.
LEMMA StillExact ==
    ASSUME Owned, Owned', Exact, req' = req, spent' = spent,
           \A n \in Nodes : /\ job'[n].unspent = job[n].unspent
                            /\ job'[n].at # "stopped" => job'[n].unspent = 0
                            /\ job'[n].at = "abandoning" => mode'[n] = "abandoned",
           clean' => clean /\ reclaimed' = reclaimed,
           Orderly' => /\ Orderly /\ counter' = counter
                       /\ \A n \in Nodes : lease[n] # None => lease'[n] # None
                       /\ \A b \in Blocks : blk'[b].remaining = blk[b].remaining
                       /\ \A n \in Nodes, g \in Gens : Usable(n, g) => Usable(n, g)'
    PROVE  Exact'
<1>1. Tidy' /\ TypeOK /\ TypeOK'
  BY DEF Exact, Tidy, Owned, Shape
<1>2. ASSUME Orderly' PROVE CounterBehind' /\ \A n \in Nodes : Kempt(n)'
  <2>1. CounterBehind /\ \A n \in Nodes : Kempt(n)
    BY <1>2 DEF Exact
  <2>2. RemainingOf(blk') = RemainingOf(blk)
    <3> DEFINE f == [b \in Blocks |-> blk[b].remaining]
               g == [b \in Blocks |-> blk'[b].remaining]
    <3>1. \A b \in Blocks : f[b] \in Int /\ f[b] = g[b]
      BY <1>1, <1>2 DEF TypeOK, BlockRec
    <3> HIDE DEF f, g
    <3>2. SumFunctionOnSet(f, Blocks) = SumFunctionOnSet(g, Blocks)
      BY <3>1, SumEqual, BlocksFinite
    <3> QED
      BY <3>2 DEF RemainingOf, f, g
  <2>3. UnspentOf(job') = UnspentOf(job)
    <3> DEFINE f == [n \in Nodes |-> job[n].unspent]
               g == [n \in Nodes |-> job'[n].unspent]
    <3>1. \A n \in Nodes : f[n] \in Int /\ f[n] = g[n]
      BY <1>1 DEF TypeOK, Jobs
    <3> HIDE DEF f, g
    <3>2. SumFunctionOnSet(f, Nodes) = SumFunctionOnSet(g, Nodes)
      BY <3>1, SumEqual, LedgerAssumption
    <3> QED
      BY <3>2 DEF UnspentOf, f, g
  <2>4. CounterBehind'
    BY <1>1, <1>2, <2>1, <2>2, <2>3, BehindSums
  <2>5. \A n \in Nodes, g \in Gens : blk'[<<n, g>>].remaining = blk[<<n, g>>].remaining
    BY <1>2 DEF Blocks
  <2> QED
    BY <1>2, <2>1, <2>4, <2>5, DuePlaced, KemptStep
<1> QED
  BY <1>1, <1>2 DEF Exact

\* The facts about a node's job that the steps of the node need.
LEMMA JobFacts ==
    ASSUME Owned, Exact
    PROVE  /\ TypeOK /\ job \in [Nodes -> Jobs] /\ blk \in [Blocks -> BlockRec]
           /\ cur \in [Nodes -> Gens \cup {0}] /\ 0 \notin Gens
           /\ \A n \in Nodes : /\ job[n].at # "stopped" => job[n].unspent = 0
                               /\ job[n].at = "abandoning" => mode[n] = "abandoned"
                               /\ job[n].at # "idle" => job[n].gen \in Gens /\ JobBlock(n) \in Blocks
                               /\ mode[n] = "up" /\ job[n].at # "idle" => job[n].gen = cur[n]
                               /\ mode[n] # "up" => cur[n] = 0 /\ job[n].at \notin {"refreshing", "evicting"}
  BY OrderedFacts DEF Exact, Tidy, Mapped, Closing, Shape, TypeOK

\* Maintenance that starts or goes on touches no units.
LEMMA StartExact ==
    ASSUME Owned, Owned', Exact, NEW n \in Nodes, Maintain(n) \/ Checkpoint(n) \/ Evict(n)
    PROVE  Exact'
<1>1. UNCHANGED <<counter, lease, cur, mode, req, spent, clean, reclaimed, deaths>>
  BY DEF Maintain, Checkpoint, Evict, storeVars
<1>2. /\ \A m \in Nodes : m # n => job'[m] = job[m]
      /\ job'[n].at \in {"evicting", "refreshing", "returning"} /\ job'[n].unspent = 0
      /\ job[n].at \notin {"stopped", "unlinking", "restoring"} /\ job[n].unspent = 0
      /\ job[n].at # "idle" => job'[n].gen = job[n].gen
  <2>0. job \in [Nodes -> Jobs] /\ (job[n].at # "stopped" => job[n].unspent = 0)
    BY JobFacts
  <2>1. CASE Maintain(n)
    BY <2>0, <2>1 DEF Maintain, NoJob
  <2>2. CASE Checkpoint(n)
    BY <2>0, <2>2 DEF Checkpoint, NoJob
  <2>3. CASE Evict(n)
    BY <2>0, <2>3 DEF Evict, Jobs
  <2> QED
    BY <2>1, <2>2, <2>3
<1>3. \A b \in Blocks : blk'[b].remaining = blk[b].remaining
  <2>0. blk \in [Blocks -> BlockRec] /\ \A b \in Blocks : blk[b] \in BlockRec
    BY JobFacts
  <2>1. CASE Maintain(n)
    BY <2>1 DEF Maintain
  <2>2. CASE Checkpoint(n)
    BY <2>0, <2>2 DEF Checkpoint, BlockRec
  <2>3. CASE Evict(n)
    BY <2>0, <2>3 DEF Evict, BlockRec
  <2> QED
    BY <2>1, <2>2, <2>3
<1>4. \A m \in Nodes, g \in Gens : Usable(m, g) => Usable(m, g)'
  <2> SUFFICES ASSUME NEW m \in Nodes, NEW g \in Gens, Usable(m, g) PROVE Usable(m, g)'
    OBVIOUS
  <2>1. CASE m = n
    BY <1>1, <1>2, <2>1 DEF Usable
  <2>2. CASE m # n
    BY <1>1, <1>2, <2>2 DEF Usable
  <2> QED
    BY <2>1, <2>2
<1>5. \A m \in Nodes : /\ job'[m].unspent = job[m].unspent
                       /\ job'[m].at # "stopped" => job'[m].unspent = 0
                       /\ job'[m].at = "abandoning" => mode'[m] = "abandoned"
  BY <1>1, <1>2, JobFacts
<1>6. Orderly' => Orderly
  BY <1>1 DEF Orderly
<1> QED
  BY <1>1, <1>3, <1>4, <1>5, <1>6, StillExact

\* A job that ends leaves usable what was: a block it dropped because its row was gone
\* held no units.
LEMMA EndExact ==
    ASSUME Owned, Owned', Exact, NEW n \in Nodes,
           Refresh(n) \/ RefreshFault(n) \/ Restore(n) \/ Unlink(n)
    PROVE  Exact'
<1>1. UNCHANGED <<counter, mode, req, spent, clean, reclaimed, deaths>>
  BY DEF Refresh, RefreshFault, Restore, Unlink, storeVars
<1>2. /\ \A m \in Nodes : m # n => job'[m] = job[m]
      /\ job'[n] = NoJob
      /\ job[n].at \in {"refreshing", "restoring", "unlinking"} /\ job[n].unspent = 0
  BY JobFacts DEF Refresh, RefreshFault, Restore, Unlink
<1>3. \A m \in Nodes : cur'[m] = cur[m] \/ (m = n /\ job[n].at = "unlinking" /\ job[n].gen = cur[n])
  BY JobFacts DEF Refresh, RefreshFault, Restore, Unlink
<1>4. \A m \in Nodes, g \in Gens : Usable(m, g) => Usable(m, g)'
  <2> SUFFICES ASSUME NEW m \in Nodes, NEW g \in Gens, Usable(m, g) PROVE Usable(m, g)'
    OBVIOUS
  <2>1. CASE m = n
    <3>1. g = cur[n]
      BY <1>2, <2>1, JobFacts DEF Usable
    <3>2. cur'[n] = g
      BY <1>3, <2>1, <3>1 DEF Usable
    <3> QED
      BY <1>2, <2>1, <3>2 DEF Usable, NoJob
  <2>2. CASE m # n
    BY <1>2, <1>3, <2>2 DEF Usable
  <2> QED
    BY <2>1, <2>2
<1>5. \A m \in Nodes : /\ job'[m].unspent = job[m].unspent
                       /\ job'[m].at # "stopped" => job'[m].unspent = 0
                       /\ job'[m].at = "abandoning" => mode'[m] = "abandoned"
  BY <1>1, <1>2, JobFacts DEF NoJob
<1>6. Orderly' => Orderly
  BY <1>1 DEF Orderly
<1>7. \A m \in Nodes : lease[m] # None => lease'[m] # None
  <2>1. CASE lease' = lease
    BY <2>1
  <2>2. CASE lease' # lease
    <3>1. /\ job[n].at = "refreshing"
          /\ lease' = [lease EXCEPT ![n] = IF @ = None THEN None
                                           ELSE RefreshedLease(n, JobBlock(n))]
      BY <2>2 DEF Refresh, RefreshFault, Restore, Unlink, storeVars
    <3>2. lease[n] # None => RefreshedLease(n, JobBlock(n)) # None
      BY <3>1, OrderedFacts, RefreshedType, LedgerAssumption
    <3> QED
      BY <3>1, <3>2, JobFacts DEF TypeOK
  <2> QED
    BY <2>1, <2>2
<1>8. ASSUME Orderly' PROVE \A b \in Blocks : blk'[b].remaining = blk[b].remaining
  <2>1. Kempt(n)
    BY <1>6, <1>8 DEF Exact
  <2>2. lease[n] = None => blk[JobBlock(n)].remaining = 0
    BY <1>2, <2>1, JobFacts DEF Kempt, JobBlock
  <2>3. blk \in [Blocks -> BlockRec] /\ JobBlock(n) \in Blocks /\ \A b \in Blocks : blk[b] \in BlockRec
    BY <1>2, JobFacts
  <2>4. CASE Refresh(n)
    <3>1. CASE lease[n] = None
      BY <2>2, <2>3, <2>4, <3>1 DEF Refresh, EmptyBlock
    <3>2. CASE lease[n] # None
      BY <2>3, <2>4, <3>2 DEF Refresh, BlockRec
    <3> QED
      BY <3>1, <3>2
  <2>5. CASE RefreshFault(n) \/ Unlink(n)
    BY <2>5 DEF RefreshFault, Unlink
  <2>6. CASE Restore(n)
    BY <2>3, <2>6 DEF Restore, BlockRec
  <2> QED
    BY <2>4, <2>5, <2>6
<1> QED
  BY <1>1, <1>4, <1>5, <1>6, <1>7, <1>8, StillExact

\* Close keeps the block usable; Abandon and Forsake are no orderly steps.
LEMMA ShutdownExact ==
    ASSUME Owned, Owned', Exact, NEW n \in Nodes, Close(n) \/ Abandon(n) \/ Forsake(n)
    PROVE  Exact'
<1>1. UNCHANGED <<counter, lease, req, spent, clean, reclaimed, deaths>>
  BY DEF Close, Abandon, Shutdown, Forsake, storeVars
<1>2. CASE Forsake(n)
  <2>1. mode' = mode /\ mode[n] = "abandoned"
    BY <1>2, JobFacts DEF Forsake
  <2>2. ~Orderly'
    BY <2>1 DEF Orderly
  <2>3. \A m \in Nodes : /\ job'[m].unspent = job[m].unspent
                         /\ job'[m].at # "stopped" => job'[m].unspent = 0
                         /\ job'[m].at = "abandoning" => mode'[m] = "abandoned"
    BY <1>2, <2>1, JobFacts DEF Forsake, NoJob
  <2> QED
    BY <1>1, <2>2, <2>3, StillExact
<1>3. ASSUME NEW how, NEW next, Shutdown(n, how, next),
             \/ how = "closed" /\ next = "returning"
             \/ how = "abandoned" /\ next = "abandoning"
      PROVE  Exact'
  <2>1. /\ \A m \in Nodes : m # n => job'[m] = job[m] /\ mode'[m] = mode[m] /\ cur'[m] = cur[m]
        /\ job[n].at = "idle" /\ job[n].unspent = 0 /\ mode[n] = "up" /\ mode'[n] = how /\ cur'[n] = 0
        /\ blk' = blk
    BY <1>3, JobFacts DEF Shutdown, TypeOK
  <2>2. job'[n] = IF cur[n] = 0 THEN NoJob ELSE [NoJob EXCEPT !.at = next, !.gen = cur[n]]
    BY <1>3, JobFacts DEF Shutdown
  <2>3. /\ job'[n].unspent = 0 /\ job'[n].at \in {"idle", next}
        /\ cur[n] # 0 => job'[n].at = next /\ job'[n].gen = cur[n]
    BY <2>2 DEF NoJob
  <2>4. \A m \in Nodes : /\ job'[m].unspent = job[m].unspent
                         /\ job'[m].at # "stopped" => job'[m].unspent = 0
                         /\ job'[m].at = "abandoning" => mode'[m] = "abandoned"
    BY <1>3, <2>1, <2>3, JobFacts
  <2>5. \A m \in Nodes, g \in Gens : Usable(m, g) => Usable(m, g)'
    <3> SUFFICES ASSUME NEW m \in Nodes, NEW g \in Gens, Usable(m, g) PROVE Usable(m, g)'
      OBVIOUS
    <3>1. CASE m = n
      <4>1. g = cur[n] /\ cur[n] # 0
        BY <2>1, <3>1, JobFacts DEF Usable
      <4> QED
        BY <1>3, <2>3, <3>1, <4>1 DEF Usable
    <3>2. CASE m # n
      BY <2>1, <3>2 DEF Usable
    <3> QED
      BY <3>1, <3>2
  <2>6. Orderly' => Orderly
    BY <1>1, <2>1 DEF Orderly
  <2> QED
    BY <1>1, <2>1, <2>4, <2>5, <2>6, StillExact
<1> QED
  BY <1>2, <1>3 DEF Close, Abandon

\* A reclaim that finds a lapsed row is no orderly step; the others move nothing.
LEMMA ReclaimExact ==
    ASSUME Owned, Owned', Exact, NEW n,
           (\E m \in Nodes : Select(n, m)) \/ Reclaim(n) \/ ReclaimRefused(n) \/ Restart(n) \/ Advance
    PROVE  Exact'
<1>1. /\ UNCHANGED <<blk, cur, job, req, spent, deaths>>
      /\ clean' => clean /\ UNCHANGED <<counter, lease, reclaimed>>
  BY DEF Select, Reclaim, ReclaimRefused, Restart, Advance, storeVars
<1>2. \A m \in Nodes : mode'[m] = mode[m] \/ (mode[m] = "down" /\ mode'[m] = "up")
  BY JobFacts DEF Select, Reclaim, ReclaimRefused, Restart, Advance, TypeOK
<1>3. \A m \in Nodes, g \in Gens : Usable(m, g) => Usable(m, g)'
  BY <1>1 DEF Usable
<1>4. Orderly' => Orderly
  BY <1>1, <1>2 DEF Orderly
<1>5. \A m \in Nodes : job[m].at = "abandoning" => mode'[m] = "abandoned"
  BY <1>2, JobFacts
<1> QED
  BY <1>1, <1>3, <1>4, <1>5, JobFacts, StillExact DEF Orderly

\* A crash is no orderly step.
LEMMA CrashExact ==
    ASSUME Owned, Owned', Exact, NEW n \in Nodes, Crash(n)
    PROVE  Exact'
<1>1. ~Orderly'
  BY JobFacts DEF Crash, Orderly, TypeOK
<1>2. Tidy'
  <2>1. \A c \in Callers : req'[c] = NoCall \/ req'[c] = req[c]
    BY DEF Crash
  <2>2. \A m \in Nodes : job'[m] = NoJob \/ (job'[m] = job[m] /\ mode'[m] = mode[m])
    BY JobFacts DEF Crash, TypeOK
  <2>3. clean' = clean /\ reclaimed' = reclaimed
    BY DEF Crash
  <2> QED
    BY <2>1, <2>2, <2>3 DEF Exact, Tidy, NoCall, NoJob
<1> QED
  BY <1>1, <1>2 DEF Exact

\* A return is orderly if it stops a block that no request works on: its units are
\* all that is left at the node.
LEMMA StopExact ==
    ASSUME Owned, Owned', NoDebt, Exact, NEW n \in Nodes, Stop(n)
    PROVE  Exact'
<1> DEFINE b == JobBlock(n)
<1>0. /\ job[n].at = "returning" /\ job[n].unspent = 0 /\ b \in Blocks /\ job[n].gen \in Gens
      /\ job \in [Nodes -> Jobs] /\ blk \in [Blocks -> BlockRec] /\ blk[b].remaining \in Nat
      /\ TypeOK /\ TypeOK'
  BY JobFacts DEF Stop, NoDebt, BlockRec, Owned, Shape
<1>1. /\ UNCHANGED <<counter, lease, cur, mode, req, spent, reclaimed, deaths>> /\ (clean' => clean)
      /\ clean' => \A c \in Callers : req[c].node # n
  BY DEF Stop, storeVars
<1>2. /\ \A m \in Nodes : m # n => job'[m] = job[m]
      /\ job'[n].at = "stopped" /\ job'[n].unspent = blk[b].remaining /\ job'[n].gen = job[n].gen
  BY <1>0 DEF Stop, Jobs, AtLeastZero
<1>3. /\ \A e \in Blocks : e # b => blk'[e] = blk[e]
      /\ blk'[b].remaining = 0
  BY <1>0 DEF Stop, BlockRec
<1>4. Tidy'
  BY <1>1, <1>2 DEF Exact, Tidy
<1>5. ASSUME Orderly' PROVE CounterBehind' /\ \A m \in Nodes : Kempt(m)'
  <2>1. CounterBehind /\ \A m \in Nodes : Kempt(m)
    BY <1>1, <1>5 DEF Orderly, Exact
  <2>2. CounterBehind'
    BY <1>0, <1>1, <1>2, <1>3, <2>1, JobBehind
  <2>3. ASSUME NEW m \in Nodes, m # n PROVE Kempt(m)'
    <3>1. \A g \in Gens : blk'[<<m, g>>] = blk[<<m, g>>]
      BY <1>3, <2>3 DEF Blocks, JobBlock
    <3>2. \A g : Usable(m, g)' <=> Usable(m, g)
      BY <1>1, <1>2, <2>3 DEF Usable
    <3>3. \A c \in Callers : req[c].node = m => CallKempt(c)'
      <4> SUFFICES ASSUME NEW c \in Callers, req[c].node = m PROVE CallKempt(c)'
        OBVIOUS
      <4>1. CallKempt(c)
        BY <2>1 DEF Kempt
      <4> QED
        BY <1>1, <1>2, <2>3, <4>1 DEF CallKempt, Usable
    <3> QED
      BY <1>1, <1>2, <2>1, <2>3, <3>1, <3>2, <3>3 DEF Kempt
  <2>4. Kempt(n)'
    <3>1. ASSUME NEW g \in Gens, g # job[n].gen PROVE blk'[<<n, g>>].remaining = 0
      <4>1. ~Usable(n, g)
        BY <1>0, <3>1, JobFacts DEF Usable
      <4>2. blk[<<n, g>>].remaining = 0
        BY <2>1, <4>1 DEF Kempt
      <4> QED
        BY <1>3, <3>1, <4>2 DEF Blocks, JobBlock
    <3>2. \A g \in Gens : blk'[<<n, g>>].remaining = 0
      BY <1>3, <3>1 DEF JobBlock
    <3>3. blk[b].remaining # 0 => lease[n] # None
      BY <1>0, <2>1 DEF Kempt, JobBlock
    <3>4. \A c \in Callers : req'[c].node # n
      BY <1>1, <1>5 DEF Orderly
    <3> QED
      BY <1>1, <1>2, <3>2, <3>3, <3>4 DEF Kempt
  <2> QED
    BY <2>2, <2>3, <2>4
<1> QED
  BY <1>4, <1>5 DEF Exact

\* The transaction gives back what was in custody, under a row that is there, and
\* leaves no units at the node.
LEMMA ReturnExact ==
    ASSUME Owned, Owned', NoDebt, Exact, NEW n \in Nodes, ReturnBlock(n) \/ ReturnFault(n)
    PROVE  Exact'
<1>0. /\ job[n].at = "stopped" /\ job \in [Nodes -> Jobs] /\ TypeOK /\ TypeOK' /\ job[n].gen \in Gens
  BY JobFacts DEF ReturnBlock, ReturnFault, Owned, Shape
<1>1. UNCHANGED <<blk, cur, mode, req, spent, reclaimed, deaths>> /\ (clean' => clean)
  BY DEF ReturnBlock, ReturnFault
<1>2. /\ \A m \in Nodes : m # n => job'[m] = job[m]
      /\ job'[n].at \in {"unlinking", "restoring"} /\ job'[n].unspent = 0
  BY <1>0 DEF ReturnBlock, ReturnFault, Jobs
<1>3. clean' => /\ counter' = AtLeastZero(counter - Returned(n))
                /\ lease' = [lease EXCEPT ![n] = None]
  BY DEF ReturnBlock, ReturnFault
<1>4. Tidy'
  BY <1>1, <1>2 DEF Exact, Tidy
<1>5. ASSUME Orderly' PROVE CounterBehind' /\ \A m \in Nodes : Kempt(m)'
  <2>1. CounterBehind /\ \A m \in Nodes : Kempt(m)
    BY <1>1, <1>5 DEF Orderly, Exact
  <2>2. Returned(n) = job[n].unspent
    BY <2>1 DEF Kempt, Returned
  <2>3. CounterBehind'
    BY <1>0, <1>1, <1>2, <1>3, <1>5, <2>1, <2>2, ReturnBehind DEF Orderly
  <2>4. ASSUME NEW m \in Nodes, m # n PROVE Kempt(m)'
    <3>1. lease'[m] = lease[m] /\ job'[m] = job[m]
      BY <1>0, <1>2, <1>3, <1>5, <2>4 DEF Orderly, TypeOK
    <3>2. \A g : Usable(m, g)' <=> Usable(m, g)
      BY <1>1, <3>1 DEF Usable
    <3>3. ASSUME NEW c \in Callers, req[c].node = m PROVE CallKempt(c)'
      <4>1. CallKempt(c)
        BY <2>1, <3>3 DEF Kempt
      <4> QED
        BY <1>1, <3>1, <3>3, <4>1 DEF CallKempt, Usable
    <3> QED
      BY <1>1, <2>1, <3>1, <3>2, <3>3 DEF Kempt
  <2>5. Kempt(n)'
    <3>1. \A g \in Gens : ~Usable(n, g)
      BY <1>0, JobFacts DEF Usable
    <3>2. \A g \in Gens : blk'[<<n, g>>].remaining = 0
      BY <1>1, <2>1, <3>1 DEF Kempt
    <3>3. ASSUME NEW c \in Callers, req[c].node = n PROVE CallKempt(c)'
      <4>1. CallKempt(c)
        BY <2>1, <3>3 DEF Kempt
      <4>2. Due(req[c]) = 0
        BY <3>1, <3>3, <4>1, DuePlaced DEF CallKempt
      <4>3. req[c].at # "drawing"
        <5> SUFFICES ASSUME req[c].at = "drawing" PROVE FALSE
          OBVIOUS
        <5>1. Usable(n, req[c].gen) /\ req[c].gen \in Gens
          BY <3>3, DrawUsable, OrderedFacts
        <5> QED
          BY <3>1, <5>1
      <4>4. req[c].held = 0
        BY <4>3 DEF Exact, Tidy
      <4> QED
        BY <1>1, <4>2, <4>4 DEF CallKempt
    <3> QED
      BY <1>1, <1>2, <3>2, <3>3 DEF Kempt
  <2> QED
    BY <2>3, <2>4, <2>5
<1> QED
  BY <1>4, <1>5 DEF Exact

\* Every step keeps the counter exact.
LEMMA NextExact ==
    ASSUME Overrun = 0, Owned, Owned', NoDebt, Exact, [Next]_vars
    PROVE  Exact'
<1>1. ASSUME NEW n \in Nodes, Node(n) PROVE Exact'
  BY <1>1, StartExact, EndExact, StopExact, ReturnExact, ShutdownExact, ReclaimExact, CrashExact DEF Node
<1>2. ASSUME Advance PROVE Exact'
  BY <1>2, ReclaimExact
<1>3. CASE UNCHANGED vars
  <2>1. /\ req' = req /\ blk' = blk /\ job' = job /\ cur' = cur /\ mode' = mode /\ lease' = lease
        /\ deaths' = deaths /\ spent' = spent /\ counter' = counter /\ clean' = clean
        /\ reclaimed' = reclaimed
    BY <1>3 DEF vars, storeVars
  <2>2. Orderly' => Orderly
    BY <2>1 DEF Orderly
  <2>3. \A n \in Nodes, g \in Gens : Usable(n, g) => Usable(n, g)'
    BY <2>1 DEF Usable
  <2> QED
    BY <2>1, <2>2, <2>3, JobFacts, StillExact
<1> QED
  BY <1>1, <1>2, <1>3, RequestExact DEF Next

\* At the start there are no units.
LEMMA InitExact ==
    ASSUME Init PROVE Exact
<1>1. Tidy
  BY DEF Init, Tidy, NoCall, NoJob
<1>2. ASSUME NEW n \in Nodes PROVE Kempt(n)
  <2>1. \A g \in Gens : blk[<<n, g>>].remaining = 0
    BY DEF Init, Blocks, EmptyBlock
  <2>2. \A c \in Callers : req[c].node # n
    BY LedgerAssumption DEF Init, NoCall
  <2> QED
    BY <2>1, <2>2 DEF Init, Kempt, NoJob
<1>3. CounterBehind
  <2>1. TypeOK /\ NoDebt
    BY InitShape, InitCovered DEF Shape, Covered
  <2>2. DuesOf(req) \in Nat /\ CustodyOf(req) \in Nat /\ UnspentOf(job) \in Nat
    BY <2>1, SumTypes DEF TypeOK
  <2>3. RemainingOf(blk) = 0
    <3> DEFINE f == [b \in Blocks |-> blk[b].remaining]
    <3>1. \A b \in Blocks : f[b] = 0
      BY DEF Init, EmptyBlock
    <3> HIDE DEF f
    <3>2. SumFunctionOnSet(f, Blocks) = 0
      BY <3>1, SumZero, BlocksFinite
    <3> QED
      BY <3>2 DEF RemainingOf, f
  <2>4. Outstanding = DuesOf(req)
    BY <2>1, TakenIsDue DEF Outstanding, AmountsOf, TypeOK
  <2>5. Afloat = RemainingOf(blk) + CustodyOf(req) + UnspentOf(job)
    BY DEF Afloat, RemainingOf, CustodyOf, UnspentOf
  <2> QED
    BY <2>2, <2>3, <2>4, <2>5 DEF CounterBehind, Init
<1> QED
  BY <1>1, <1>2, <1>3 DEF Exact

\* When every node is closed and has nothing left to return there are no units: the
\* counter, neither ahead nor behind, is what was spent.
LEMMA ClosedExact ==
    ASSUME Owned, Covered, Exact
    PROVE  ExactOnClose
<1> SUFFICES ASSUME \A n \in Nodes : mode[n] = "closed" /\ job[n] = NoJob, clean, deaths = 0
             PROVE  counter = spent
  BY DEF ExactOnClose
<1>0. TypeOK /\ CounterAhead /\ counter \in Nat /\ spent \in Nat /\ reclaimed = 0
  BY DEF Owned, Shape, TypeOK, Covered, Exact, Tidy
<1>1. CounterBehind /\ \A n \in Nodes : Kempt(n)
  BY DEF Exact, Orderly
<1>2. \A n \in Nodes, g \in Gens : ~Usable(n, g)
  <2>1. \A n \in Nodes : cur[n] = 0 /\ job[n].at = "idle" /\ 0 \notin Gens
    BY JobFacts DEF NoJob
  <2> QED
    BY <2>1 DEF Usable
<1>3. RemainingOf(blk) = 0
  <2> DEFINE f == [b \in Blocks |-> blk[b].remaining]
  <2>1. ASSUME NEW b \in Blocks PROVE f[b] = 0
    <3>1. PICK n \in Nodes, g \in Gens : b = <<n, g>>
      BY <2>1 DEF Blocks
    <3> QED
      BY <1>1, <1>2, <3>1 DEF Kempt
  <2> HIDE DEF f
  <2>2. SumFunctionOnSet(f, Blocks) = 0
    BY <2>1, SumZero, BlocksFinite
  <2> QED
    BY <2>2 DEF RemainingOf, f
<1>4. ASSUME NEW c \in Callers PROVE Due(req[c]) = 0 /\ req[c].held = 0
  <2>1. CASE req[c].at \in Placed
    <3>1. req[c].node \in Nodes /\ req[c].gen \in Gens
      BY <2>1, OrderedFacts
    <3>2. CallKempt(c)
      BY <1>1, <3>1 DEF Kempt
    <3>3. req[c].at # "drawing"
      BY <1>2, <3>1, DrawUsable
    <3> QED
      BY <1>2, <3>1, <3>2, <3>3 DEF CallKempt, Exact, Tidy
  <2>2. CASE req[c].at \notin Placed
    BY <2>2 DEF Placed, Due, Exact, Tidy
  <2> QED
    BY <2>1, <2>2
<1>5. DuesOf(req) = 0 /\ CustodyOf(req) = 0
  <2> DEFINE d == [c \in Callers |-> Due(req[c])]
             h == [c \in Callers |-> req[c].held]
  <2>1. \A c \in Callers : d[c] = 0 /\ h[c] = 0
    BY <1>4
  <2> HIDE DEF d, h
  <2>2. SumFunctionOnSet(d, Callers) = 0 /\ SumFunctionOnSet(h, Callers) = 0
    BY <2>1, SumZero, LedgerAssumption
  <2> QED
    BY <2>2 DEF DuesOf, CustodyOf, d, h
<1>6. UnspentOf(job) = 0
  <2> DEFINE u == [n \in Nodes |-> job[n].unspent]
  <2>1. \A n \in Nodes : u[n] = 0
    BY DEF NoJob
  <2> HIDE DEF u
  <2>2. SumFunctionOnSet(u, Nodes) = 0
    BY <2>1, SumZero, LedgerAssumption
  <2> QED
    BY <2>2 DEF UnspentOf, u
<1>7. Outstanding = DuesOf(req)
  BY <1>0, TakenIsDue DEF Outstanding, AmountsOf, TypeOK
<1>8. Afloat = RemainingOf(blk) + CustodyOf(req) + UnspentOf(job)
  BY DEF Afloat, RemainingOf, CustodyOf, UnspentOf
<1> QED
  BY <1>0, <1>1, <1>3, <1>5, <1>6, <1>7, <1>8 DEF CounterAhead, CounterBehind

(* No request costs more than its estimate: then, after a planned shutdown  *)
(* of every node, the counter holds precisely what was spent, if no node    *)
(* crashed, nothing was reclaimed, no transaction was lost and no block was *)
(* given back under a request.                                              *)
THEOREM ExactOnCloseHolds ==
    ASSUME Overrun = 0
    PROVE  Spec => []ExactOnClose
<1> DEFINE Inv == Owned /\ Covered /\ Exact
<1>1. Init => Inv
  BY InitOwned, InitCovered, InitExact
<1>2. Inv /\ [Next]_vars => Inv'
  <2> SUFFICES ASSUME Inv, [Next]_vars PROVE Inv'
    OBVIOUS
  <2>1. Owned'
    BY NextOwned
  <2>2. Covered'
    BY NextKeeps DEF Owned
  <2>3. Exact'
    BY <2>1, NextExact DEF Covered
  <2> QED
    BY <2>1, <2>2, <2>3
<1>3. Inv => ExactOnClose
  BY ClosedExact
<1> QED
  BY <1>1, <1>2, <1>3, PTL DEF Spec
=============================================================================
