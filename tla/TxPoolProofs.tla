---------------------------- MODULE TxPoolProofs ----------------------------
(***************************************************************************)
(* The transaction pool of a node (node.c, lines 203-341 and 465-573): for *)
(* every size of the pool, of the blocks and of the queues, every number   *)
(* of nodes and every order of their steps, the counter in shared memory   *)
(* counts the used slots and the slots of a block under way stay its own.  *)
(*                                                                         *)
(* The first half is about the operators alone: the circular search of     *)
(* find_tp_trans, the positions create_block collects with it, and the     *)
(* reading of a message queue by type.  The second half is the inductive   *)
(* invariant PoolInv and its preservation by every action of TxFlow.       *)
(***************************************************************************)
EXTENDS TxFlow, FoldLemmas, FiniteSetTheorems, SequenceTheorems, TLAPS

\* The index of a circular array: % over at most two turns.
LEMMA Wraps ==
    ASSUME NEW x \in Nat, NEW T \in Nat \ {0}
    PROVE  /\ x < T => x % T = x
           /\ T <= x /\ x < T + T => x % T = x - T
OBVIOUS

\* The positions of create_block are well defined: Collected(n) satisfies its
\* recursive definition.  A shortest walk that does not exist would extend one
\* that does.
LEMMA CollectedStep ==
    ASSUME NEW n \in Node
    PROVE  Collected(n) = [k \in BlockPos |->
                find_tp_trans(n, (IF k = 0 THEN idx_last_tp_used[n]
                                           ELSE Collected(n)[k - 1]) + 1)]
<1> DEFINE start == idx_last_tp_used[n]
           Walk(g, m) == g = [k \in 0 .. m - 1 |->
                find_tp_trans(n, (IF k = 0 THEN start ELSE g[k - 1]) + 1)]
           Short == {m \in Nat : ~ \E g : Walk(g, m)}
<1>1. Short = {}
    <2> SUFFICES ASSUME Short # {} PROVE FALSE
        OBVIOUS
    <2>1. PICK m \in Short : \A x \in Short : m <= x
        BY MinOfNats
    <2>2. m # 0
        <3>1. Walk([k \in 0 .. 0 - 1 |-> 0], 0)
            OBVIOUS
        <3> QED BY <3>1
    <2>3. m - 1 \in Nat /\ m - 1 \notin Short
        BY <2>1, <2>2
    <2>4. PICK g : Walk(g, m - 1)
        BY <2>3
    <2> DEFINE h == [k \in 0 .. m - 1 |-> IF k < m - 1 THEN g[k]
                        ELSE find_tp_trans(n, (IF k = 0 THEN start ELSE g[k - 1]) + 1)]
    <2>5. Walk(h, m)
        BY <2>4, <2>3
    <2> QED BY <2>5, <2>1
<1>2. PICK g : Walk(g, BlockTx)
    BY <1>1, TxFlowAssumption
<1>3. \E at : at = [k \in BlockPos |->
                find_tp_trans(n, (IF k = 0 THEN idx_last_tp_used[n] ELSE at[k - 1]) + 1)]
    BY <1>2 DEF BlockPos
<1> QED BY <1>3 DEF Collected

\* What the assumptions say of the slots of a pool.
LEMMA SlotFacts ==
    /\ TpSize \in Nat \ {0} /\ BlockTx \in Nat \ {0}
    /\ IsFiniteSet(Slot) /\ Cardinality(Slot) = TpSize
    /\ \A n : Used(n) \subseteq Slot /\ IsFiniteSet(Used(n))
              /\ Cardinality(Used(n)) \in 0 .. TpSize
<1>1. TpSize \in Nat \ {0} /\ BlockTx \in Nat \ {0}
    BY TxFlowAssumption
<1>2. IsFiniteSet(Slot) /\ Cardinality(Slot) = TpSize
    BY <1>1, FS_Interval DEF Slot
<1>3. ASSUME NEW n
      PROVE  Used(n) \subseteq Slot /\ IsFiniteSet(Used(n))
             /\ Cardinality(Used(n)) \in 0 .. TpSize
    <2>1. Used(n) \subseteq Slot
        BY DEF Used
    <2> QED BY <1>1, <1>2, <2>1, FS_Subset, FS_CardinalityType
<1> QED BY <1>1, <1>2, <1>3

\* find_tp_trans (node.c:545): in a pool that is not empty the search stops at a
\* used slot, and every slot it passed is free.
LEMMA FindsUsed ==
    ASSUME NEW n, Used(n) # {}, NEW off \in 0 .. TpSize
    PROVE  /\ find_tp_trans(n, off) \in Used(n)
           /\ \E m \in Slot :
                /\ find_tp_trans(n, off) = (off + m) % TpSize
                /\ \A d \in Slot : d < m => (off + d) % TpSize \notin Used(n)
<1> DEFINE ahead == {d \in Slot : (off + d) % TpSize \in Used(n)}
<1>1. PICK u \in Used(n) : TRUE
    OBVIOUS
<1>2. u \in 0 .. TpSize - 1 /\ off \in 0 .. TpSize /\ TpSize \in Nat \ {0}
    BY SlotFacts DEF Slot
<1> DEFINE e == IF off <= u THEN u - off ELSE u - off + TpSize
<1>3. e \in 0 .. TpSize - 1 /\ off + e \in Nat /\ (off + e = u \/ off + e = u + TpSize)
    BY <1>2
<1>4. (off + e) % TpSize = u
  <2> HIDE DEF e
  <2> QED BY <1>2, <1>3, Wraps
<1>5. e \in ahead
    BY <1>1, <1>3, <1>4 DEF Slot
<1>6. ahead \subseteq Nat
    BY SlotFacts DEF Slot
<1>7. Min(ahead) \in ahead /\ \A x \in ahead : Min(ahead) <= x
  <2> HIDE DEF ahead
  <2> QED BY <1>5, <1>6, MinOfNats
<1>8. find_tp_trans(n, off) = (off + Min(ahead)) % TpSize
    BY <1>5 DEF find_tp_trans
<1>9. \A d \in Slot : d < Min(ahead) => d \notin ahead
  <2> HIDE DEF ahead
  <2>1. ASSUME NEW d \in Slot, d < Min(ahead), d \in ahead PROVE FALSE
    <3>1. d \in Nat /\ Min(ahead) \in Nat /\ Min(ahead) <= d
        BY <1>6, <1>7, <2>1
    <3> QED BY <2>1, <3>1
  <2> QED BY <2>1
<1> QED BY <1>7, <1>8, <1>9

\* A set of used slots that the search never leaves holds every used slot: of
\* the slots before a missing one, the nearest would be followed by a nearer one.
LEMMA WalkVisitsAll ==
    ASSUME NEW n, NEW V \in SUBSET Used(n), V # {},
           \A v \in V : find_tp_trans(n, v + 1) \in V
    PROVE  V = Used(n)
<1> SUFFICES ASSUME NEW u \in Used(n), u \notin V PROVE FALSE
    OBVIOUS
<1> DEFINE Gap(v) == IF v <= u THEN u - v ELSE u - v + TpSize
           Gaps == {Gap(v) : v \in V}
<1>1. /\ TpSize \in Nat \ {0}
      /\ u \in 0 .. TpSize - 1
      /\ \A v \in V : v \in 0 .. TpSize - 1
    BY SlotFacts DEF Slot
<1>2. Gaps \subseteq Nat /\ Gaps # {}
    BY <1>1
<1>3. PICK v \in V : \A w \in V : Gap(v) <= Gap(w)
  <2>1. PICK g \in Gaps : \A h \in Gaps : g <= h
    <3> HIDE DEF Gaps
    <3> QED BY <1>2, MinOfNats
  <2> QED BY <2>1
<1> DEFINE r == find_tp_trans(n, v + 1)
<1>4. v + 1 \in 0 .. TpSize /\ Used(n) # {}
    BY <1>1
<1>5. PICK m \in Slot :
            /\ r = (v + 1 + m) % TpSize
            /\ \A d \in Slot : d < m => (v + 1 + d) % TpSize \notin Used(n)
    BY <1>4, FindsUsed
<1>6. r \in V
    OBVIOUS
<1> HIDE DEF r
<1>7. v # u /\ r # u /\ v \in 0 .. TpSize - 1 /\ m \in 0 .. TpSize - 1 /\ r \in 0 .. TpSize - 1
    BY <1>1, <1>5, <1>6 DEF Slot
<1>8. Gap(v) - 1 \in Slot /\ (v + 1 + (Gap(v) - 1)) % TpSize = u
  <2>1. Gap(v) - 1 \in 0 .. TpSize - 1
    BY <1>1, <1>7
  <2>2. v + 1 + (Gap(v) - 1) = u \/ v + 1 + (Gap(v) - 1) = u + TpSize
    BY <1>1, <1>7
  <2>3. ASSUME NEW x, x = u \/ x = u + TpSize PROVE x % TpSize = u
    BY <1>1, <2>3, Wraps
  <2> QED BY <2>1, <2>2, <2>3 DEF Slot
<1>9. m <= Gap(v) - 1
    BY <1>1, <1>5, <1>7, <1>8
<1>10. r = IF v + 1 + m < TpSize THEN v + 1 + m ELSE v + 1 + m - TpSize
  <2>1. PICK x : x = v + 1 + m
    OBVIOUS
  <2>2. x \in Nat /\ x < TpSize + TpSize
    BY <1>1, <1>7, <2>1
  <2>3. r = x % TpSize
    BY <1>5, <2>1, Zenon
  <2>4. x < TpSize => r = x
    BY <1>1, <2>2, <2>3, Wraps
  <2>5. TpSize <= x => r = x - TpSize
    BY <1>1, <2>2, <2>3, Wraps
  <2> QED BY <1>1, <1>7, <2>1, <2>2, <2>4, <2>5
<1>11. Gap(r) < Gap(v)
    BY <1>1, <1>7, <1>9, <1>10
<1> QED BY <1>1, <1>3, <1>6, <1>11

\* create_block (node.c:502): with SO_BLOCK_SIZE - 1 used slots at least, the walk
\* collects used slots and never the same one twice; a walk that came back to a
\* slot would have seen all of them, and they are too many.
LEMMA CollectedInjective ==
    ASSUME NEW n \in Node, idx_last_tp_used[n] \in Slot \cup {-1},
           BlockTx <= Cardinality(Used(n))
    PROVE  /\ Collected(n) \in [BlockPos -> Slot]
           /\ IsInjective(Collected(n))
           /\ \A k \in BlockPos : Collected(n)[k] \in Used(n)
<1> DEFINE at == Collected(n)
           start == idx_last_tp_used[n]
<1>1. /\ at = [k \in BlockPos |-> at[k]]
      /\ at[0] = find_tp_trans(n, start + 1)
      /\ \A k \in BlockPos : k # 0 => at[k] = find_tp_trans(n, at[k - 1] + 1)
  <2>1. at = [k \in BlockPos |-> find_tp_trans(n, (IF k = 0 THEN start ELSE at[k - 1]) + 1)]
    BY CollectedStep
  <2>2. 0 \in BlockPos
    BY SlotFacts DEF BlockPos
  <2> HIDE DEF at, start
  <2> QED BY <2>1, <2>2
<1> HIDE DEF at
<1>2. BlockPos \subseteq Nat /\ 0 \in BlockPos /\ \A k \in BlockPos : k # 0 => k - 1 \in BlockPos
    BY SlotFacts DEF BlockPos
<1>3. Used(n) # {}
    BY SlotFacts, FS_EmptySet
<1>4. ASSUME NEW off \in Slot \cup {-1} PROVE find_tp_trans(n, off + 1) \in Used(n)
  <2>1. off + 1 \in 0 .. TpSize
    BY SlotFacts DEF Slot
  <2> QED BY <1>3, <2>1, FindsUsed
<1>5. \A k \in BlockPos : at[k] \in Used(n)
  <2> DEFINE Wrong == {k \in BlockPos : at[k] \notin Used(n)}
  <2> SUFFICES ASSUME Wrong # {} PROVE FALSE
    OBVIOUS
  <2>1. PICK k \in Wrong : \A j \in Wrong : k <= j
    <3>1. Wrong \subseteq Nat
        BY <1>2
    <3> HIDE DEF Wrong
    <3> QED BY <3>1, MinOfNats
  <2>2. k # 0
    BY <1>1, <1>4
  <2>3. k - 1 \in BlockPos /\ ~ k <= k - 1
    BY <1>2, <2>2
  <2>4. at[k - 1] \in Slot
    BY <2>1, <2>3, SlotFacts
  <2> QED BY <1>1, <1>4, <2>2, <2>4
<1>6. ASSUME NEW j \in BlockPos, NEW k \in BlockPos, j < k, at[j] = at[k]
      PROVE  FALSE
  <2> DEFINE V == {at[i] : i \in j .. k - 1}
  <2>1. j .. k - 1 \subseteq BlockPos /\ j \in j .. k - 1
    BY <1>6, SlotFacts DEF BlockPos
  <2>2. V \subseteq Used(n) /\ V # {}
    BY <1>5, <2>1
  <2>3. ASSUME NEW v \in V PROVE find_tp_trans(n, v + 1) \in V
    <3>1. PICK i \in j .. k - 1 : v = at[i]
        OBVIOUS
    <3>2. i + 1 \in BlockPos /\ i + 1 # 0 /\ (i + 1) - 1 = i
        BY <1>2, <1>6, SlotFacts DEF BlockPos
    <3>3. at[i + 1] = find_tp_trans(n, v + 1)
        BY <1>1, <3>1, <3>2
    <3>4. i + 1 \in j .. k - 1 \/ i + 1 = k
        BY <1>2
    <3> QED BY <1>6, <2>1, <3>3, <3>4
  <2>4. V = Used(n)
    <3> HIDE DEF V
    <3> QED BY <2>2, <2>3, WalkVisitsAll
  <2>5. Cardinality(V) <= Cardinality(j .. k - 1)
    <3>1. [i \in j .. k - 1 |-> at[i]] \in Surjection(j .. k - 1, V)
        BY DEF Surjection
    <3>2. IsFiniteSet(j .. k - 1)
        BY <1>2, FS_Interval
    <3> HIDE DEF V
    <3> QED BY <3>1, <3>2, FS_Surjection
  <2>6. Cardinality(j .. k - 1) = k - j /\ k - j < BlockTx
    <3>1. j \in Int /\ k - 1 \in Int /\ j <= k - 1 /\ k < BlockTx /\ j >= 0
        BY <1>6, SlotFacts DEF BlockPos
    <3>2. Cardinality(j .. k - 1) = IF j > k - 1 THEN 0 ELSE (k - 1) - j + 1
        BY <3>1, FS_Interval
    <3> QED BY <1>2, <3>1, <3>2, SlotFacts
  <2>7. Cardinality(Used(n)) < BlockTx
    <3> HIDE DEF V
    <3>1. Cardinality(V) = Cardinality(Used(n)) /\ Cardinality(V) \in Nat /\ k - j \in Int
        BY <1>2, <2>4, SlotFacts
    <3> QED BY <3>1, <2>5, <2>6, SlotFacts
  <2> QED BY <2>7, SlotFacts
<1>7. \A j, k \in BlockPos : at[j] = at[k] => j = k
  <2> SUFFICES ASSUME NEW j \in BlockPos, NEW k \in BlockPos, at[j] = at[k], j # k PROVE FALSE
    OBVIOUS
  <2>1. j < k \/ k < j
    BY <1>2
  <2> QED BY <1>6, <2>1
<1>8. at \in [BlockPos -> Slot] /\ IsInjective(at)
    BY <1>1, <1>5, <1>7, SlotFacts DEF IsInjective
<1> QED BY <1>5, <1>8 DEF at

\* A message taken from the middle of a queue: the others keep their order.
LEMMA RemovesOne ==
    ASSUME NEW S, NEW s \in Seq(S), NEW i \in 1 .. Len(s)
    PROVE  /\ RemoveAt(s, i) \in Seq(S)
           /\ Len(RemoveAt(s, i)) = Len(s) - 1
           /\ \A j \in 1 .. Len(s) - 1 :
                RemoveAt(s, i)[j] = IF j < i THEN s[j] ELSE s[j + 1]
<1> DEFINE a == SubSeq(s, 1, i - 1)
           b == SubSeq(s, i + 1, Len(s))
<1>1. /\ a \in Seq(S) /\ Len(a) = i - 1
      /\ \A j \in 1 .. i - 1 : a[j] = s[j]
    OBVIOUS
<1>2. /\ b \in Seq(S) /\ Len(b) = Len(s) - i
      /\ \A j \in 1 .. Len(s) - i : b[j] = s[j + i]
    OBVIOUS
<1>3. RemoveAt(s, i) = a \o b
    BY DEF RemoveAt
<1> HIDE DEF a, b
<1>4. a \o b \in Seq(S) /\ Len(a \o b) = Len(s) - 1
  <2>1. a \o b \in Seq(S) /\ Len(a \o b) = Len(a) + Len(b)
    BY <1>1, <1>2, ConcatProperties
  <2> QED BY <1>1, <1>2, <2>1
<1>5. ASSUME NEW j \in 1 .. Len(s) - 1
      PROVE  (a \o b)[j] = IF j < i THEN s[j] ELSE s[j + 1]
  <2>1. CASE j < i
    BY <1>1, <1>2, <2>1
  <2>2. CASE ~ j < i
    <3>1. (a \o b)[j] = b[j - (i - 1)]
        BY <1>1, <1>2, <2>2
    <3>2. j - (i - 1) \in 1 .. Len(s) - i /\ j - (i - 1) + i = j + 1
        BY <2>2
    <3> QED BY <1>2, <2>2, <3>1, <3>2
  <2> QED BY <2>1, <2>2
<1> QED BY <1>3, <1>4, <1>5

\* msgrcv by type finds a message for p exactly when there is one, and then the
\* first in the queue.
LEMMA FindsOldest ==
    ASSUME NEW S, NEW q \in Seq(S), NEW p
    PROVE  /\ IndexFor(q, p) \in Nat
           /\ IndexFor(q, p) > 0 => IndexFor(q, p) \in 1 .. Len(q) /\ q[IndexFor(q, p)].to = p
           /\ IndexFor(q, p) = 0 <=> \A i \in 1 .. Len(q) : q[i].to # p
           /\ \A i \in 1 .. Len(q) : i < IndexFor(q, p) => q[i].to # p
<1> DEFINE I == {i \in 1 .. Len(q) : q[i].to = p}
<1>1. IndexFor(q, p) = IF I # {} THEN Min(I) ELSE 0
    BY DEF IndexFor, SelectInSeq
<1>2. I # {} => Min(I) \in I /\ \A i \in I : Min(I) <= i
  <2>1. I \subseteq Nat
    OBVIOUS
  <2> HIDE DEF I
  <2> QED BY <2>1, MinOfNats
<1>3. CASE I = {}
    BY <1>1, <1>3
<1>4. CASE I # {}
  <2>1. PICK k \in I : IndexFor(q, p) = k /\ \A i \in I : k <= i
    BY <1>1, <1>2, <1>4
  <2>2. ASSUME NEW i \in 1 .. Len(q), i < k PROVE q[i].to # p
    <3>1. i \notin I
      BY <2>1, <2>2
    <3> QED BY <3>1
  <2> QED BY <2>1, <2>2
<1> QED BY <1>3, <1>4

-----------------------------------------------------------------------------
\* A node that does not exist, or waits for its first message, has an empty pool.
NewEmpty == \A n \in Node : pc[n] \in {"off", "wait"} => Used(n) = {}

\* Between the send of the cron and the release, the slot is still used.
SentStillUsed == \A n \in Node : pc[n] = "cronFree" => idx_last_tp_used[n] \in Used(n)

\* A node has a transaction in hand when it is about to place it, and only
\* then; the master when it serves a request.
HandFull ==
    /\ \A n \in Node : mex[n].tx # NoTx <=> pc[n] = "held"
    /\ mmex # NoTx <=> mpc # "poll"

\* The inductive invariant of the pools.
PoolInv ==
    /\ TypeOK
    /\ PoolCountExact
    /\ BlockSlotsStay
    /\ NewEmpty
    /\ SentStillUsed
    /\ HandFull

\* The initial states satisfy PoolInv.
LEMMA InitPool == Init => PoolInv
<1> SUFFICES ASSUME Init PROVE PoolInv
    OBVIOUS
<1> USE SlotFacts, TxFlowAssumption
<1>1. \A n \in Node : Used(n) = {}
    BY DEF Init, Used
<1>2. TypeOK
  <2>1. 0 \in 0 .. Hops /\ 0 \in 0 .. TpSize /\ 0 \in Slot
    BY DEF Slot
  <2>2. /\ queue \in Seq([tx : Tx, to : Node, hops : 0 .. Hops]) /\ Len(queue) <= QCap
        /\ priority \in Seq([tx : Tx, to : Node \cup {Master}]) /\ Len(priority) <= PCap
        /\ rejected \in Seq(Tx) /\ Len(rejected) <= RCap
    BY DEF Init
  <2>3. mex \in [Node -> [tx : Tx \cup {NoTx}, hops : 0 .. Hops]]
    BY <2>1 DEF Init, NoMsg
  <2>4. /\ transaction_pool \in [Node -> [Slot -> Tx \cup {NoTx}]]
        /\ trans_pool_size \in [Node -> 0 .. TpSize]
        /\ idx_last_tp_used \in [Node -> Slot \cup {-1}]
        /\ clear_pos \in [Node -> [BlockPos -> Slot]]
    BY <2>1 DEF Init
  <2>5. pc \in [Node -> NodePc]
    BY DEF Init, NodePc
  <2> QED BY <2>2, <2>3, <2>4, <2>5 DEF Init, TypeOK, Node
<1>3. PoolCountExact
    BY <1>1, FS_EmptySet DEF Init, PoolCountExact
<1> QED BY <1>1, <1>2, <1>3 DEF Init, PoolInv, BlockSlotsStay, NewEmpty, SentStillUsed,
        HandFull, NoMsg

\* msg_pool_deposit (node.c:465): the first free slot becomes used, the other
\* pools are left alone and the counter follows.
LEMMA FillsOneSlot ==
    ASSUME PoolInv, NEW n \in Node, NEW t \in Tx, Used(n) # Slot, PutInPool(n, t)
    PROVE  LET off == Min(Slot \ Used(n)) IN
           /\ off \in Slot \ Used(n)
           /\ transaction_pool' = [transaction_pool EXCEPT ![n][off] = t]
           /\ Used(n)' = Used(n) \cup {off}
           /\ \A m \in Node \ {n} : Used(m)' = Used(m)
           /\ transaction_pool' \in [Node -> [Slot -> Tx \cup {NoTx}]]
           /\ trans_pool_size' \in [Node -> 0 .. TpSize]
           /\ PoolCountExact'
<1> DEFINE off == Min(Slot \ Used(n))
<1>1. off \in Slot \ Used(n)
  <2>1. Slot \ Used(n) # {}
    BY SlotFacts
  <2>2. Slot \ Used(n) \subseteq Nat
    BY SlotFacts DEF Slot
  <2> QED BY <2>1, <2>2, MinOfNats
<1>2. transaction_pool' = [transaction_pool EXCEPT ![n][off] = t]
    BY DEF PutInPool
<1>3. trans_pool_size' = [trans_pool_size EXCEPT ![n] = @ + 1]
    BY DEF PutInPool
<1> HIDE DEF off
<1>4. t # NoTx
    BY TxFlowAssumption
<1>5. Used(n)' = Used(n) \cup {off} /\ \A m \in Node \ {n} : Used(m)' = Used(m)
    BY <1>1, <1>2, <1>4 DEF Used, PoolInv, TypeOK
<1>6. Cardinality(Used(n)') = Cardinality(Used(n)) + 1 /\ Cardinality(Used(n)') <= TpSize
  <2>1. Used(n)' \subseteq Slot
    BY <1>1, <1>5, SlotFacts
  <2> QED BY <1>1, <1>5, <2>1, SlotFacts, FS_AddElement, FS_Subset
<1>7. PoolCountExact'
    BY <1>3, <1>5, <1>6 DEF PoolCountExact, PoolInv, TypeOK
<1>8. trans_pool_size' \in [Node -> 0 .. TpSize]
    BY <1>3, <1>5, <1>6, SlotFacts DEF PoolCountExact, PoolInv, TypeOK
<1>9. transaction_pool' \in [Node -> [Slot -> Tx \cup {NoTx}]]
    BY <1>1, <1>2 DEF PoolInv, TypeOK
<1> QED BY <1>1, <1>2, <1>5, <1>7, <1>8, <1>9 DEF off

\* A refund leaves the rejected queue within its bound.
LEMMA RefundTyped ==
    ASSUME PoolInv, NEW t \in Tx, Reject(t)
    PROVE  rejected' \in Seq(Tx) /\ Len(rejected') <= RCap /\ dropped' \in SUBSET Tx
<1>1. rejected \in Seq(Tx) /\ Len(rejected) <= RCap /\ dropped \in SUBSET Tx /\ RCap \in Nat
    BY TxFlowAssumption DEF PoolInv, TypeOK
<1>2. CASE Len(rejected) < RCap
    BY <1>1, <1>2 DEF Reject
<1>3. CASE ~ Len(rejected) < RCap
    BY <1>1, <1>3 DEF Reject
<1> QED BY <1>2, <1>3

\* Reading a message by type leaves a queue of messages within its bound.
LEMMA MessageRemoved ==
    ASSUME PoolInv, NEW p
    PROVE  /\ IndexFor(queue, p) > 0 =>
                /\ IndexFor(queue, p) \in 1 .. Len(queue)
                /\ queue[IndexFor(queue, p)] \in [tx : Tx, to : Node, hops : 0 .. Hops]
                /\ RemoveAt(queue, IndexFor(queue, p))
                        \in Seq([tx : Tx, to : Node, hops : 0 .. Hops])
                /\ Len(RemoveAt(queue, IndexFor(queue, p))) <= QCap
           /\ IndexFor(priority, p) > 0 =>
                /\ IndexFor(priority, p) \in 1 .. Len(priority)
                /\ priority[IndexFor(priority, p)] \in [tx : Tx, to : Node \cup {Master}]
                /\ RemoveAt(priority, IndexFor(priority, p))
                        \in Seq([tx : Tx, to : Node \cup {Master}])
                /\ Len(RemoveAt(priority, IndexFor(priority, p))) <= PCap
<1>1. queue \in Seq([tx : Tx, to : Node, hops : 0 .. Hops]) /\ Len(queue) <= QCap
    BY DEF PoolInv, TypeOK
<1>2. priority \in Seq([tx : Tx, to : Node \cup {Master}]) /\ Len(priority) <= PCap
    BY DEF PoolInv, TypeOK
<1>3. QCap \in Nat /\ PCap \in Nat
    BY TxFlowAssumption
<1>4. ASSUME IndexFor(queue, p) > 0
      PROVE  /\ IndexFor(queue, p) \in 1 .. Len(queue)
             /\ queue[IndexFor(queue, p)] \in [tx : Tx, to : Node, hops : 0 .. Hops]
             /\ RemoveAt(queue, IndexFor(queue, p)) \in Seq([tx : Tx, to : Node, hops : 0 .. Hops])
             /\ Len(RemoveAt(queue, IndexFor(queue, p))) <= QCap
  <2>1. IndexFor(queue, p) \in 1 .. Len(queue)
    BY <1>1, <1>4, FindsOldest
  <2>2. /\ RemoveAt(queue, IndexFor(queue, p)) \in Seq([tx : Tx, to : Node, hops : 0 .. Hops])
        /\ Len(RemoveAt(queue, IndexFor(queue, p))) = Len(queue) - 1
    BY <1>1, <2>1, RemovesOne
  <2>3. queue[IndexFor(queue, p)] \in [tx : Tx, to : Node, hops : 0 .. Hops]
    BY <1>1, <2>1, ElementOfSeq
  <2> QED BY <1>1, <1>3, <2>1, <2>2, <2>3
<1>5. ASSUME IndexFor(priority, p) > 0
      PROVE  /\ IndexFor(priority, p) \in 1 .. Len(priority)
             /\ priority[IndexFor(priority, p)] \in [tx : Tx, to : Node \cup {Master}]
             /\ RemoveAt(priority, IndexFor(priority, p))
                \in Seq([tx : Tx, to : Node \cup {Master}])
             /\ Len(RemoveAt(priority, IndexFor(priority, p))) <= PCap
  <2>1. IndexFor(priority, p) \in 1 .. Len(priority)
    BY <1>2, <1>5, FindsOldest
  <2>2. /\ RemoveAt(priority, IndexFor(priority, p)) \in Seq([tx : Tx, to : Node \cup {Master}])
        /\ Len(RemoveAt(priority, IndexFor(priority, p))) = Len(priority) - 1
    BY <1>2, <2>1, RemovesOne
  <2>3. priority[IndexFor(priority, p)] \in [tx : Tx, to : Node \cup {Master}]
    BY <1>2, <2>1, ElementOfSeq
  <2> QED BY <1>2, <1>3, <2>1, <2>2, <2>3
<1> QED BY <1>4, <1>5

\* A step that leaves the pools alone leaves the used slots and the counters.
LEMMA CalmPool ==
    ASSUME PoolInv, UNCHANGED <<transaction_pool, trans_pool_size>>
    PROVE  /\ \A n : Used(n)' = Used(n)
           /\ PoolCountExact'
<1>1. \A n : Used(n)' = Used(n)
    BY DEF Used
<1> QED BY <1>1 DEF PoolInv, PoolCountExact

\* The steps of the users preserve PoolInv.
LEMMA UserPool == ASSUME PoolInv, (\E t \in Tx : Send(t)) \/ Collect PROVE PoolInv'
<1>1. ASSUME NEW t \in Tx, Send(t) PROVE PoolInv'
  <2>1. queue' \in Seq([tx : Tx, to : Node, hops : 0 .. Hops]) /\ Len(queue') <= QCap
    <3>1. PICK n \in created : queue' = Append(queue, [tx |-> t, to |-> n, hops |-> 0])
        BY <1>1 DEF Send
    <3>2. [tx |-> t, to |-> n, hops |-> 0] \in [tx : Tx, to : Node, hops : 0 .. Hops]
        BY TxFlowAssumption DEF PoolInv, TypeOK
    <3>3. /\ queue \in Seq([tx : Tx, to : Node, hops : 0 .. Hops])
          /\ Len(queue) < QCap /\ QCap \in Nat
        BY <1>1, TxFlowAssumption DEF PoolInv, TypeOK, Send
    <3> QED BY <3>1, <3>2, <3>3
  <2>2. TypeOK'
    BY <1>1, <2>1 DEF PoolInv, TypeOK, Send, poolVars, masterVars
  <2>3. PoolCountExact' /\ \A n : Used(n)' = Used(n)
    BY <1>1, CalmPool DEF Send, poolVars
  <2>4. BlockSlotsStay' /\ NewEmpty' /\ SentStillUsed' /\ HandFull'
    BY <1>1, <2>3 DEF PoolInv, BlockSlotsStay, NewEmpty, SentStillUsed, HandFull, Send,
        poolVars, masterVars
  <2> QED BY <2>2, <2>3, <2>4 DEF PoolInv
<1>2. ASSUME Collect PROVE PoolInv'
  <2>1. PICK i \in DOMAIN rejected : /\ refunded' = refunded \cup {rejected[i]}
                                     /\ rejected' = RemoveAt(rejected, i)
    BY <1>2 DEF Collect
  <2>2. rejected' \in Seq(Tx) /\ Len(rejected') <= RCap /\ refunded' \in SUBSET Tx
    <3>1. rejected \in Seq(Tx) /\ Len(rejected) <= RCap /\ RCap \in Nat /\ refunded \in SUBSET Tx
        BY TxFlowAssumption DEF PoolInv, TypeOK
    <3>2. i \in 1 .. Len(rejected) /\ rejected[i] \in Tx
        BY <3>1
    <3>3. rejected' \in Seq(Tx) /\ Len(rejected') = Len(rejected) - 1
        BY <2>1, <3>1, <3>2, RemovesOne
    <3> QED BY <2>1, <3>1, <3>2, <3>3
  <2>3. TypeOK'
    BY <1>2, <2>2 DEF PoolInv, TypeOK, Collect, poolVars, masterVars
  <2>4. PoolCountExact' /\ \A n : Used(n)' = Used(n)
    BY <1>2, CalmPool DEF Collect, poolVars
  <2>5. BlockSlotsStay' /\ NewEmpty' /\ SentStillUsed' /\ HandFull'
    BY <1>2, <2>4 DEF PoolInv, BlockSlotsStay, NewEmpty, SentStillUsed, HandFull, Collect,
        poolVars, masterVars
  <2> QED BY <2>3, <2>4, <2>5 DEF PoolInv
<1> QED BY <1>1, <1>2

\* The steps of the master preserve PoolInv.
LEMMA MasterPool == ASSUME PoolInv, MasterStep \/ ForkFails PROVE PoolInv'
<1>1. ASSUME UNCHANGED <<poolVars, pc, mex>>, mmex' # NoTx <=> mpc' # "poll"
      PROVE  PoolCountExact' /\ BlockSlotsStay' /\ NewEmpty' /\ SentStillUsed' /\ HandFull'
  <2>1. PoolCountExact' /\ \A n : Used(n)' = Used(n)
    BY <1>1, CalmPool DEF poolVars
  <2> QED BY <1>1, <2>1 DEF PoolInv, BlockSlotsStay, NewEmpty, SentStillUsed, HandFull, poolVars
<1>2. ASSUME TakeRequest PROVE PoolInv'
  <2> DEFINE i == IndexFor(priority, Master)
  <2>1. /\ i > 0 /\ mmex' = priority[i].tx /\ priority' = RemoveAt(priority, i)
        /\ mpc' = "limit"
    BY <1>2 DEF TakeRequest
  <2> HIDE DEF i
  <2>2. i \in 1 .. Len(priority)
    BY <2>1, MessageRemoved DEF i
  <2>3. priority' \in Seq([tx : Tx, to : Node \cup {Master}]) /\ Len(priority') <= PCap
    BY <2>1, MessageRemoved DEF i
  <2>4. mmex' \in Tx /\ mmex' # NoTx
    <3>1. priority[i] \in [tx : Tx, to : Node \cup {Master}]
        BY <2>1, MessageRemoved DEF i
    <3> QED BY <2>1, <3>1, TxFlowAssumption
  <2>5. TypeOK'
    BY <1>2, <2>3, <2>4 DEF PoolInv, TypeOK, TakeRequest, poolVars, histVars
  <2>6. UNCHANGED <<poolVars, pc, mex>>
    BY <1>2 DEF TakeRequest
  <2> QED BY <1>1, <2>1, <2>4, <2>5, <2>6 DEF PoolInv
<1>3. ASSUME LimitReached \/ ForkFails \/ SendToNewFails PROVE PoolInv'
  <2>1. mpc # "poll" /\ mmex \in Tx
    BY <1>3 DEF PoolInv, TypeOK, HandFull, LimitReached, ForkFails, SendToNewFails
  <2>2. rejected' \in Seq(Tx) /\ Len(rejected') <= RCap /\ dropped' \in SUBSET Tx
    BY <1>3, <2>1, RefundTyped DEF LimitReached, ForkFails, SendToNewFails
  <2>3. TypeOK'
    BY <1>3, <2>2 DEF PoolInv, TypeOK, LimitReached, ForkFails, SendToNewFails, poolVars
  <2>4. UNCHANGED <<poolVars, pc, mex>> /\ mmex' = NoTx /\ mpc' = "poll"
    BY <1>3 DEF LimitReached, ForkFails, SendToNewFails
  <2> QED BY <1>1, <2>3, <2>4 DEF PoolInv
<1>4. ASSUME SendToNew PROVE PoolInv'
  <2>1. mpc = "send" /\ mmex \in Tx
    BY <1>4 DEF PoolInv, TypeOK, HandFull, SendToNew
  <2>2. priority' \in Seq([tx : Tx, to : Node \cup {Master}]) /\ Len(priority') <= PCap
    <3>1. [tx |-> mmex, to |-> newNode] \in [tx : Tx, to : Node \cup {Master}]
        BY <2>1 DEF PoolInv, TypeOK
    <3>2. /\ priority \in Seq([tx : Tx, to : Node \cup {Master}])
          /\ Len(priority) < PCap /\ PCap \in Nat
          /\ priority' = Append(priority, [tx |-> mmex, to |-> newNode])
        BY <1>4, TxFlowAssumption DEF PoolInv, TypeOK, SendToNew
    <3> QED BY <3>1, <3>2
  <2>3. TypeOK'
    BY <1>4, <2>2 DEF PoolInv, TypeOK, SendToNew, poolVars, histVars
  <2>4. UNCHANGED <<poolVars, pc, mex>> /\ mmex' = NoTx /\ mpc' = "poll"
    BY <1>4 DEF SendToNew
  <2> QED BY <1>1, <2>3, <2>4 DEF PoolInv
<1>5. ASSUME CreateNode PROVE PoolInv'
  <2>1. PICK p \in Node \ created : /\ created' = created \cup {p}
                                    /\ newNode' = p
                                    /\ pc[p] = "off" /\ pc' = [pc EXCEPT ![p] = "wait"]
    BY <1>5 DEF CreateNode, Goto
  <2>2. TypeOK'
    <3>1. pc' \in [Node -> NodePc]
        BY <2>1 DEF PoolInv, TypeOK, NodePc
    <3> QED BY <1>5, <2>1, <3>1 DEF PoolInv, TypeOK, CreateNode, queueVars, poolVars, histVars
  <2>3. PoolCountExact' /\ \A n : Used(n)' = Used(n)
    BY <1>5, CalmPool DEF CreateNode, poolVars
  <2>4. BlockSlotsStay'
    BY <1>5, <2>1, <2>3 DEF PoolInv, TypeOK, BlockSlotsStay, CreateNode, poolVars
  <2>5. NewEmpty' /\ SentStillUsed'
    BY <1>5, <2>1, <2>3 DEF PoolInv, TypeOK, NewEmpty, SentStillUsed, CreateNode, poolVars
  <2>6. HandFull'
    BY <1>5, <2>1 DEF PoolInv, TypeOK, HandFull, CreateNode
  <2> QED BY <2>2, <2>3, <2>4, <2>5, <2>6 DEF PoolInv
<1> QED BY <1>2, <1>3, <1>4, <1>5 DEF MasterStep

\* A step that moves one node, and changes the slots, the hand and the positions
\* of that node only, preserves what PoolInv says of control.
LEMMA NodeTurn ==
    ASSUME PoolInv, NEW n \in Node, NEW b \in NodePc,
           pc' = [pc EXCEPT ![n] = b],
           \A m \in Node \ {n} : /\ Used(m)' = Used(m)
                                 /\ mex'[m] = mex[m]
                                 /\ idx_last_tp_used'[m] = idx_last_tp_used[m]
                                 /\ clear_pos'[m] = clear_pos[m],
           b \in {"publish", "clear"} =>
                /\ IsInjective(clear_pos'[n])
                /\ \A k \in BlockPos : clear_pos'[n][k] \in Used(n)',
           b \notin {"off", "wait"},
           b = "cronFree" => idx_last_tp_used'[n] \in Used(n)',
           mex'[n].tx # NoTx <=> b = "held",
           UNCHANGED <<mmex, mpc>>
    PROVE  pc' \in [Node -> NodePc] /\ BlockSlotsStay' /\ NewEmpty' /\ SentStillUsed' /\ HandFull'
<1>1. pc \in [Node -> NodePc]
    BY DEF PoolInv, TypeOK
<1>2. /\ pc' \in [Node -> NodePc] /\ pc'[n] = b
      /\ \A m \in Node \ {n} : pc'[m] = pc[m]
    BY <1>1
<1>3. BlockSlotsStay'
    BY <1>2 DEF PoolInv, BlockSlotsStay
<1>4. NewEmpty'
    BY <1>2 DEF PoolInv, NewEmpty
<1>5. SentStillUsed'
    BY <1>2 DEF PoolInv, SentStillUsed
<1>6. HandFull'
    BY <1>2 DEF PoolInv, HandFull
<1> QED BY <1>2, <1>3, <1>4, <1>5, <1>6

\* Reading, passing on, refusing and escalating a message preserve PoolInv.
LEMMA MessagePool ==
    ASSUME PoolInv, NEW n \in Node,
           \/ Receive(n) \/ StopDrain(n) \/ CronNothing(n) \/ SkipBlock(n)
           \/ Forward(n) \/ Refuse(n) \/ Escalate(n)
    PROVE  PoolInv'
<1>1. ASSUME Receive(n) PROVE PoolInv'
  <2> DEFINE i == IndexFor(queue, n)
  <2>1. /\ i > 0 /\ queue' = RemoveAt(queue, i)
        /\ mex' = [mex EXCEPT ![n] = [tx |-> queue[i].tx, hops |-> queue[i].hops]]
        /\ pc' = [pc EXCEPT ![n] = "held"]
    BY <1>1 DEF Receive, Goto
  <2> HIDE DEF i
  <2>2. i \in 1 .. Len(queue)
    BY <2>1, MessageRemoved DEF i
  <2>3. queue' \in Seq([tx : Tx, to : Node, hops : 0 .. Hops]) /\ Len(queue') <= QCap
    BY <2>1, MessageRemoved DEF i
  <2>4. queue[i].tx \in Tx /\ queue[i].tx # NoTx /\ queue[i].hops \in 0 .. Hops
    <3>1. queue[i] \in [tx : Tx, to : Node, hops : 0 .. Hops]
        BY <2>1, MessageRemoved DEF i
    <3> QED BY <3>1, TxFlowAssumption
  <2>5. /\ mex' \in [Node -> [tx : Tx \cup {NoTx}, hops : 0 .. Hops]]
        /\ mex'[n].tx # NoTx
        /\ \A m \in Node \ {n} : mex'[m] = mex[m]
    BY <2>1, <2>4 DEF PoolInv, TypeOK
  <2>6. PoolCountExact' /\ \A m : Used(m)' = Used(m)
    BY <1>1, CalmPool DEF Receive, poolVars
  <2>7. pc' \in [Node -> NodePc] /\ BlockSlotsStay' /\ NewEmpty' /\ SentStillUsed' /\ HandFull'
    BY <1>1, <2>1, <2>5, <2>6, NodeTurn DEF Receive, poolVars, masterVars, NodePc
  <2>8. TypeOK'
    BY <1>1, <2>3, <2>5, <2>7 DEF PoolInv, TypeOK, Receive, poolVars, masterVars, histVars
  <2> QED BY <2>6, <2>7, <2>8 DEF PoolInv
<1>2. ASSUME StopDrain(n) \/ CronNothing(n) \/ SkipBlock(n) PROVE PoolInv'
  <2>1. PICK b \in {"cron", "block", "drain"} : pc' = [pc EXCEPT ![n] = b]
    BY <1>2 DEF StopDrain, CronNothing, SkipBlock, Goto
  <2>2. UNCHANGED <<queueVars, mex, poolVars, masterVars, histVars>> /\ pc[n] # "held"
    BY <1>2 DEF StopDrain, CronNothing, SkipBlock, Goto
  <2>3. PoolCountExact' /\ \A m : Used(m)' = Used(m)
    BY <2>2, CalmPool DEF poolVars
  <2>4. mex[n].tx = NoTx
    BY <2>2 DEF PoolInv, HandFull
  <2>5. pc' \in [Node -> NodePc] /\ BlockSlotsStay' /\ NewEmpty' /\ SentStillUsed' /\ HandFull'
    BY <2>1, <2>2, <2>3, <2>4, NodeTurn DEF poolVars, masterVars, NodePc
  <2>6. TypeOK'
    BY <2>2, <2>5 DEF PoolInv, TypeOK, queueVars, poolVars, masterVars, histVars
  <2> QED BY <2>3, <2>5, <2>6 DEF PoolInv
<1>3. ASSUME Forward(n) \/ Refuse(n) \/ Escalate(n) PROVE PoolInv'
  <2>1. pc[n] = "held" /\ pc' = [pc EXCEPT ![n] = "drain"] /\ mex' = [mex EXCEPT ![n] = NoMsg]
    BY <1>3 DEF Forward, Refuse, Escalate, Goto
  <2>2. UNCHANGED <<poolVars, masterVars>>
    BY <1>3 DEF Forward, Refuse, Escalate
  <2>3. mex[n].tx \in Tx /\ mex[n].hops \in 0 .. Hops
    BY <2>1 DEF PoolInv, TypeOK, HandFull
  <2>4. /\ mex' \in [Node -> [tx : Tx \cup {NoTx}, hops : 0 .. Hops]]
        /\ mex'[n].tx = NoTx
        /\ \A m \in Node \ {n} : mex'[m] = mex[m]
    BY <2>1, TxFlowAssumption DEF PoolInv, TypeOK, NoMsg
  <2>5. PoolCountExact' /\ \A m : Used(m)' = Used(m)
    BY <2>2, CalmPool DEF poolVars
  <2>6. pc' \in [Node -> NodePc] /\ BlockSlotsStay' /\ NewEmpty' /\ SentStillUsed' /\ HandFull'
    BY <2>1, <2>2, <2>4, <2>5, NodeTurn DEF poolVars, masterVars, NodePc
  <2>7. CASE Forward(n)
    <3>1. PICK m \in created : queue' = Append(queue,
                [tx |-> mex[n].tx, to |-> m, hops |-> mex[n].hops + 1])
        BY <2>7 DEF Forward
    <3>2. [tx |-> mex[n].tx, to |-> m, hops |-> mex[n].hops + 1]
                \in [tx : Tx, to : Node, hops : 0 .. Hops]
      <4>1. m \in Node
        BY DEF PoolInv, TypeOK
      <4>2. mex[n].hops < Hops /\ Hops \in Nat
        BY <2>7, TxFlowAssumption DEF Forward
      <4>3. mex[n].hops + 1 \in 0 .. Hops
        BY <2>3, <4>2
      <4> QED BY <2>3, <4>1, <4>3
    <3>3. /\ queue \in Seq([tx : Tx, to : Node, hops : 0 .. Hops])
          /\ Len(queue) < QCap /\ QCap \in Nat
        BY <2>7, TxFlowAssumption DEF PoolInv, TypeOK, Forward
    <3>4. queue' \in Seq([tx : Tx, to : Node, hops : 0 .. Hops]) /\ Len(queue') <= QCap
        BY <3>1, <3>2, <3>3
    <3> QED BY <2>2, <2>4, <2>5, <2>6, <2>7, <3>4
            DEF PoolInv, TypeOK, Forward, poolVars, masterVars, histVars
  <2>8. CASE Refuse(n)
    <3>1. rejected' \in Seq(Tx) /\ Len(rejected') <= RCap /\ dropped' \in SUBSET Tx
        BY <2>3, <2>8, RefundTyped DEF Refuse
    <3> QED BY <2>2, <2>4, <2>5, <2>6, <2>8, <3>1
            DEF PoolInv, TypeOK, Refuse, poolVars, masterVars
  <2>9. CASE Escalate(n)
    <3>1. [tx |-> mex[n].tx, to |-> Master] \in [tx : Tx, to : Node \cup {Master}]
        BY <2>3
    <3>2. /\ priority \in Seq([tx : Tx, to : Node \cup {Master}])
          /\ Len(priority) < PCap /\ PCap \in Nat
          /\ priority' = Append(priority, [tx |-> mex[n].tx, to |-> Master])
        BY <2>9, TxFlowAssumption DEF PoolInv, TypeOK, Escalate
    <3>3. priority' \in Seq([tx : Tx, to : Node \cup {Master}]) /\ Len(priority') <= PCap
        BY <3>1, <3>2
    <3> QED BY <2>2, <2>4, <2>5, <2>6, <2>9, <3>3
            DEF PoolInv, TypeOK, Escalate, poolVars, masterVars, histVars
  <2> QED BY <1>3, <2>7, <2>8, <2>9
<1> QED BY <1>1, <1>2, <1>3

\* Both deposits, of a message and of a first message, preserve PoolInv.
LEMMA DepositPool ==
    ASSUME PoolInv, NEW n \in Node, Deposit(n) \/ ReceiveFirst(n)
    PROVE  PoolInv'
<1>1. ASSUME NEW t \in Tx, Used(n) # Slot, PutInPool(n, t), pc' = [pc EXCEPT ![n] = "drain"],
             \A m \in Node \ {n} : mex'[m] = mex[m], mex'[n].tx = NoTx, UNCHANGED masterVars
      PROVE  /\ transaction_pool' \in [Node -> [Slot -> Tx \cup {NoTx}]]
             /\ trans_pool_size' \in [Node -> 0 .. TpSize]
             /\ UNCHANGED <<idx_last_tp_used, clear_pos>>
             /\ PoolCountExact' /\ pc' \in [Node -> NodePc] /\ BlockSlotsStay' /\ NewEmpty'
             /\ SentStillUsed' /\ HandFull'
  <2>1. /\ \A m \in Node \ {n} : Used(m)' = Used(m)
        /\ transaction_pool' \in [Node -> [Slot -> Tx \cup {NoTx}]]
        /\ trans_pool_size' \in [Node -> 0 .. TpSize]
        /\ PoolCountExact'
    BY <1>1, FillsOneSlot
  <2>2. UNCHANGED <<idx_last_tp_used, clear_pos>>
    BY <1>1 DEF PutInPool
  <2>3. pc' \in [Node -> NodePc] /\ BlockSlotsStay' /\ NewEmpty' /\ SentStillUsed' /\ HandFull'
    BY <1>1, <2>1, <2>2, NodeTurn DEF masterVars, NodePc
  <2> QED BY <2>1, <2>2, <2>3
<1>2. ASSUME Deposit(n) PROVE PoolInv'
  <2>1. /\ pc[n] = "held" /\ pc' = [pc EXCEPT ![n] = "drain"]
        /\ mex' = [mex EXCEPT ![n] = NoMsg]
        /\ Used(n) # Slot /\ PutInPool(n, mex[n].tx) /\ UNCHANGED masterVars
    BY <1>2 DEF Deposit, Goto, HasRoom
  <2>2. mex[n].tx \in Tx
    BY <2>1 DEF PoolInv, TypeOK, HandFull
  <2>3. /\ mex' \in [Node -> [tx : Tx \cup {NoTx}, hops : 0 .. Hops]]
        /\ mex'[n].tx = NoTx
        /\ \A m \in Node \ {n} : mex'[m] = mex[m]
    BY <2>1, TxFlowAssumption DEF PoolInv, TypeOK, NoMsg
  <2>4. /\ transaction_pool' \in [Node -> [Slot -> Tx \cup {NoTx}]]
        /\ trans_pool_size' \in [Node -> 0 .. TpSize]
        /\ UNCHANGED <<idx_last_tp_used, clear_pos>>
        /\ PoolCountExact' /\ pc' \in [Node -> NodePc] /\ BlockSlotsStay' /\ NewEmpty'
        /\ SentStillUsed' /\ HandFull'
    BY <1>1, <2>1, <2>2, <2>3
  <2>5. TypeOK'
    BY <1>2, <2>3, <2>4 DEF PoolInv, TypeOK, Deposit, queueVars, masterVars, histVars
  <2> QED BY <2>4, <2>5 DEF PoolInv
<1>3. ASSUME ReceiveFirst(n) PROVE PoolInv'
  <2> DEFINE i == IndexFor(priority, n)
  <2>1. /\ pc[n] = "wait" /\ pc' = [pc EXCEPT ![n] = "drain"] /\ i > 0
        /\ PutInPool(n, priority[i].tx)
        /\ priority' = RemoveAt(priority, i)
        /\ UNCHANGED <<mex, masterVars>>
    BY <1>3 DEF ReceiveFirst, Goto
  <2> HIDE DEF i
  <2>2. /\ priority[i].tx \in Tx
        /\ priority' \in Seq([tx : Tx, to : Node \cup {Master}]) /\ Len(priority') <= PCap
    BY <2>1, MessageRemoved DEF i
  <2>3. Used(n) # Slot /\ mex'[n].tx = NoTx /\ \A m \in Node \ {n} : mex'[m] = mex[m]
    <3>1. Used(n) = {} /\ mex[n].tx = NoTx
        BY <2>1 DEF PoolInv, NewEmpty, HandFull
    <3>2. 0 \in Slot
        BY SlotFacts DEF Slot
    <3> QED BY <2>1, <3>1, <3>2
  <2>4. /\ transaction_pool' \in [Node -> [Slot -> Tx \cup {NoTx}]]
        /\ trans_pool_size' \in [Node -> 0 .. TpSize]
        /\ UNCHANGED <<idx_last_tp_used, clear_pos>>
        /\ PoolCountExact' /\ pc' \in [Node -> NodePc] /\ BlockSlotsStay' /\ NewEmpty'
        /\ SentStillUsed' /\ HandFull'
    BY <1>1, <2>1, <2>2, <2>3
  <2>5. TypeOK'
    BY <1>3, <2>2, <2>4 DEF PoolInv, TypeOK, ReceiveFirst, masterVars, histVars
  <2> QED BY <2>4, <2>5 DEF PoolInv
<1> QED BY <1>2, <1>3

\* The cron works on a used slot when the counter is not zero.
LEMMA CronTarget ==
    ASSUME PoolInv, NEW n \in Node, trans_pool_size[n] > 0
    PROVE  LET i == find_tp_trans(n, idx_last_tp_used[n] + 1) IN
           i \in Used(n) /\ i \in Slot /\ transaction_pool[n][i] \in Tx
<1>1. Used(n) # {}
    BY FS_EmptySet DEF PoolInv, PoolCountExact
<1>2. idx_last_tp_used[n] + 1 \in 0 .. TpSize
  <2>1. idx_last_tp_used[n] \in Slot \cup {-1}
    BY DEF PoolInv, TypeOK
  <2> QED BY <2>1, SlotFacts DEF Slot
<1> DEFINE i == find_tp_trans(n, idx_last_tp_used[n] + 1)
<1>3. i \in Used(n)
    BY <1>1, <1>2, FindsUsed
<1> HIDE DEF i
<1>4. i \in Slot /\ transaction_pool[n][i] \in Tx
    BY <1>3 DEF Used, PoolInv, TypeOK
<1> QED BY <1>3, <1>4 DEF i

\* The steps of the cron preserve PoolInv.
LEMMA CronPool ==
    ASSUME PoolInv, NEW n \in Node, CronSend(n) \/ CronFree(n) \/ CronRefuse(n)
    PROVE  PoolInv'
<1>1. mex[n].tx = NoTx
    BY DEF PoolInv, HandFull, CronSend, CronFree, CronRefuse, Goto
<1>2. ASSUME CronSend(n) PROVE PoolInv'
  <2> DEFINE i == find_tp_trans(n, idx_last_tp_used[n] + 1)
  <2>1. i \in Used(n) /\ i \in Slot /\ transaction_pool[n][i] \in Tx
    BY <1>2, CronTarget DEF CronSend
  <2>2. /\ pc' = [pc EXCEPT ![n] = "cronFree"]
        /\ idx_last_tp_used' = [idx_last_tp_used EXCEPT ![n] = i]
        /\ \E m \in created : queue' = Append(queue,
                [tx |-> transaction_pool[n][i], to |-> m, hops |-> 1])
        /\ UNCHANGED <<mex, clear_pos, transaction_pool, trans_pool_size, masterVars>>
    BY <1>2 DEF CronSend, Goto
  <2> HIDE DEF i
  <2>3. queue' \in Seq([tx : Tx, to : Node, hops : 0 .. Hops]) /\ Len(queue') <= QCap
    <3>1. PICK m \in created :
            queue' = Append(queue, [tx |-> transaction_pool[n][i], to |-> m, hops |-> 1])
        BY <2>2
    <3>2. m \in Node /\ 1 \in 0 .. Hops
        BY TxFlowAssumption DEF PoolInv, TypeOK
    <3>3. /\ queue \in Seq([tx : Tx, to : Node, hops : 0 .. Hops])
          /\ Len(queue) < QCap /\ QCap \in Nat
        BY <1>2, TxFlowAssumption DEF PoolInv, TypeOK, CronSend
    <3>4. [tx |-> transaction_pool[n][i], to |-> m, hops |-> 1]
                \in [tx : Tx, to : Node, hops : 0 .. Hops]
        BY <2>1, <3>2
    <3> QED BY <3>1, <3>3, <3>4
  <2>4. /\ idx_last_tp_used' \in [Node -> Slot \cup {-1}]
        /\ idx_last_tp_used'[n] = i
        /\ \A m \in Node \ {n} : idx_last_tp_used'[m] = idx_last_tp_used[m]
    BY <2>1, <2>2 DEF PoolInv, TypeOK
  <2>5. PoolCountExact' /\ \A m : Used(m)' = Used(m)
    BY <2>2, CalmPool
  <2>6. pc' \in [Node -> NodePc] /\ BlockSlotsStay' /\ NewEmpty' /\ SentStillUsed' /\ HandFull'
    BY <1>1, <2>1, <2>2, <2>4, <2>5, NodeTurn DEF masterVars, NodePc
  <2>7. TypeOK'
    BY <1>2, <2>2, <2>3, <2>4, <2>6 DEF PoolInv, TypeOK, CronSend, masterVars, histVars
  <2> QED BY <2>5, <2>6, <2>7 DEF PoolInv
<1>3. ASSUME CronRefuse(n) PROVE PoolInv'
  <2> DEFINE i == find_tp_trans(n, idx_last_tp_used[n] + 1)
  <2>1. i \in Used(n) /\ i \in Slot /\ transaction_pool[n][i] \in Tx
    BY <1>3, CronTarget DEF CronRefuse
  <2>2. /\ pc' = [pc EXCEPT ![n] = "block"]
        /\ idx_last_tp_used' = [idx_last_tp_used EXCEPT ![n] = i]
        /\ cronRefused' = cronRefused \cup {transaction_pool[n][i]}
        /\ Reject(transaction_pool[n][i])
        /\ UNCHANGED <<mex, clear_pos, transaction_pool, trans_pool_size, masterVars>>
    BY <1>3 DEF CronRefuse, Goto
  <2> HIDE DEF i
  <2>3. rejected' \in Seq(Tx) /\ Len(rejected') <= RCap /\ dropped' \in SUBSET Tx
    BY <2>1, <2>2, RefundTyped
  <2>4. /\ idx_last_tp_used' \in [Node -> Slot \cup {-1}]
        /\ \A m \in Node \ {n} : idx_last_tp_used'[m] = idx_last_tp_used[m]
        /\ cronRefused' \in SUBSET Tx
    BY <2>1, <2>2 DEF PoolInv, TypeOK
  <2>5. PoolCountExact' /\ \A m : Used(m)' = Used(m)
    BY <2>2, CalmPool
  <2>6. pc' \in [Node -> NodePc] /\ BlockSlotsStay' /\ NewEmpty' /\ SentStillUsed' /\ HandFull'
    BY <1>1, <2>2, <2>4, <2>5, NodeTurn DEF masterVars, NodePc
  <2>7. TypeOK'
    BY <1>3, <2>2, <2>3, <2>4, <2>6 DEF PoolInv, TypeOK, CronRefuse, masterVars
  <2> QED BY <2>5, <2>6, <2>7 DEF PoolInv
<1>4. ASSUME CronFree(n) PROVE PoolInv'
  <2> DEFINE i == idx_last_tp_used[n]
  <2>1. /\ pc[n] = "cronFree" /\ pc' = [pc EXCEPT ![n] = "block"]
        /\ transaction_pool' = [transaction_pool EXCEPT ![n][i] = NoTx]
        /\ trans_pool_size' = [trans_pool_size EXCEPT ![n] = @ - 1]
        /\ UNCHANGED <<mex, idx_last_tp_used, clear_pos, masterVars>>
    BY <1>4 DEF CronFree, Goto
  <2>2. i \in Used(n) /\ i \in Slot
    BY <2>1, SlotFacts DEF PoolInv, SentStillUsed
  <2> HIDE DEF i
  <2>3. /\ Used(n)' = Used(n) \ {i}
        /\ \A m \in Node \ {n} : Used(m)' = Used(m)
        /\ transaction_pool' \in [Node -> [Slot -> Tx \cup {NoTx}]]
    BY <2>1, <2>2 DEF Used, PoolInv, TypeOK
  <2>4. Cardinality(Used(n)') = Cardinality(Used(n)) - 1 /\ Cardinality(Used(n)') \in Nat
    <3>1. IsFiniteSet(Used(n)')
        BY <2>2, <2>3, SlotFacts, FS_RemoveElement
    <3> QED BY <2>2, <2>3, <3>1, SlotFacts, FS_RemoveElement, FS_CardinalityType
  <2>5. PoolCountExact'
    BY <2>1, <2>3, <2>4 DEF PoolCountExact, PoolInv, TypeOK
  <2>6. trans_pool_size' \in [Node -> 0 .. TpSize]
    BY <2>1, <2>4, SlotFacts DEF PoolCountExact, PoolInv, TypeOK
  <2>7. pc' \in [Node -> NodePc] /\ BlockSlotsStay' /\ NewEmpty' /\ SentStillUsed' /\ HandFull'
    BY <1>1, <2>1, <2>3, NodeTurn DEF masterVars, NodePc
  <2>8. TypeOK'
    BY <1>4, <2>1, <2>3, <2>6, <2>7
        DEF PoolInv, TypeOK, CronFree, queueVars, masterVars, histVars
  <2> QED BY <2>5, <2>7, <2>8 DEF PoolInv
<1> QED BY <1>2, <1>3, <1>4

\* The positions of a block are SO_BLOCK_SIZE - 1.
LEMMA BlockPosFinite ==
    /\ IsFiniteSet(BlockPos) /\ Cardinality(BlockPos) = BlockTx
    /\ \A S \in SUBSET BlockPos : Cardinality(S) \in Nat
<1>1. IsFiniteSet(BlockPos) /\ Cardinality(BlockPos) = BlockTx
    BY SlotFacts, FS_Interval DEF BlockPos
<1>2. \A S \in SUBSET BlockPos : Cardinality(S) \in Nat
    BY <1>1, FS_Subset, FS_CardinalityType
<1> QED BY <1>1, <1>2

\* The life of a block preserves PoolInv: clear_block takes SO_BLOCK_SIZE - 1 from
\* the counter, which is right because the positions are distinct and used.
LEMMA BlockPool ==
    ASSUME PoolInv, NEW n \in Node, CreateBlock(n) \/ Publish(n) \/ ClearBlock(n)
    PROVE  PoolInv'
<1>1. mex[n].tx = NoTx
    BY DEF PoolInv, HandFull, CreateBlock, Publish, ClearBlock, Goto
<1>2. ASSUME CreateBlock(n) PROVE PoolInv'
  <2>1. /\ Collected(n) \in [BlockPos -> Slot]
        /\ IsInjective(Collected(n))
        /\ \A k \in BlockPos : Collected(n)[k] \in Used(n)
    <3>1. idx_last_tp_used[n] \in Slot \cup {-1} /\ BlockTx <= Cardinality(Used(n))
        BY <1>2 DEF PoolInv, TypeOK, PoolCountExact, CreateBlock
    <3> QED BY <3>1, CollectedInjective
  <2>2. /\ pc' = [pc EXCEPT ![n] = "publish"]
        /\ clear_pos' = [clear_pos EXCEPT ![n] = Collected(n)]
        /\ idx_last_tp_used' = [idx_last_tp_used EXCEPT ![n] = Collected(n)[BlockTx - 1]]
        /\ UNCHANGED <<mex, transaction_pool, trans_pool_size, masterVars>>
    BY <1>2 DEF CreateBlock, Goto
  <2>3. /\ clear_pos' \in [Node -> [BlockPos -> Slot]] /\ clear_pos'[n] = Collected(n)
        /\ \A m \in Node \ {n} : clear_pos'[m] = clear_pos[m]
    BY <2>1, <2>2 DEF PoolInv, TypeOK
  <2>4. /\ idx_last_tp_used' \in [Node -> Slot \cup {-1}]
        /\ \A m \in Node \ {n} : idx_last_tp_used'[m] = idx_last_tp_used[m]
    <3>1. Collected(n)[BlockTx - 1] \in Slot
        BY <2>1, SlotFacts DEF BlockPos
    <3> QED BY <2>2, <3>1 DEF PoolInv, TypeOK
  <2>5. PoolCountExact' /\ \A m : Used(m)' = Used(m)
    BY <2>2, CalmPool
  <2>6. pc' \in [Node -> NodePc] /\ BlockSlotsStay' /\ NewEmpty' /\ SentStillUsed' /\ HandFull'
    BY <1>1, <2>1, <2>2, <2>3, <2>4, <2>5, NodeTurn DEF masterVars, NodePc
  <2>7. TypeOK'
    BY <1>2, <2>2, <2>3, <2>4, <2>6 DEF PoolInv, TypeOK, CreateBlock, queueVars,
        masterVars, histVars
  <2> QED BY <2>5, <2>6, <2>7 DEF PoolInv
<1>3. ASSUME Publish(n) PROVE PoolInv'
  <2>1. /\ pc[n] = "publish" /\ pc' = [pc EXCEPT ![n] = "clear"]
        /\ UNCHANGED <<queueVars, mex, poolVars, masterVars, sent, refunded, dropped,
                       cronRefused>>
    BY <1>3 DEF Publish, Goto
  <2>2. PoolCountExact' /\ \A m : Used(m)' = Used(m)
    BY <2>1, CalmPool DEF poolVars
  <2>3. IsInjective(clear_pos[n]) /\ \A k \in BlockPos : clear_pos[n][k] \in Used(n)
    BY <2>1 DEF PoolInv, BlockSlotsStay
  <2>4. pc' \in [Node -> NodePc] /\ BlockSlotsStay' /\ NewEmpty' /\ SentStillUsed' /\ HandFull'
    BY <1>1, <2>1, <2>2, <2>3, NodeTurn DEF masterVars, poolVars, NodePc
  <2>5. ledger' \in [Tx -> Nat]
    <3>1. ASSUME NEW t \in Tx
          PROVE  ledger[t] + Cardinality({k \in BlockPos :
                    transaction_pool[n][clear_pos[n][k]] = t}) \in Nat
      <4> DEFINE Copies == {k \in BlockPos : transaction_pool[n][clear_pos[n][k]] = t}
      <4>1. Copies \in SUBSET BlockPos
        OBVIOUS
      <4> HIDE DEF Copies
      <4>2. Cardinality(Copies) \in Nat /\ ledger[t] \in Nat
        BY <4>1, BlockPosFinite DEF PoolInv, TypeOK
      <4>3. ledger[t] + Cardinality(Copies) \in Nat
        BY <4>2
      <4> QED BY <4>3 DEF Copies
    <3> QED BY <1>3, <3>1 DEF Publish
  <2>6. TypeOK'
    BY <2>1, <2>4, <2>5 DEF PoolInv, TypeOK, queueVars, poolVars, masterVars
  <2> QED BY <2>2, <2>4, <2>6 DEF PoolInv
<1>4. ASSUME ClearBlock(n) PROVE PoolInv'
  <2> DEFINE Slots == {clear_pos[n][k] : k \in BlockPos}
  <2>1. /\ pc[n] = "clear" /\ pc' = [pc EXCEPT ![n] = "drain"]
        /\ transaction_pool' = [transaction_pool EXCEPT ![n] =
                [i \in Slot |-> IF \E k \in BlockPos : clear_pos[n][k] = i THEN NoTx
                                                                        ELSE @[i]]]
        /\ trans_pool_size' = [trans_pool_size EXCEPT ![n] = @ - BlockTx]
        /\ UNCHANGED <<mex, idx_last_tp_used, clear_pos, masterVars>>
    BY <1>4 DEF ClearBlock, Goto
  <2>2. Slots \subseteq Used(n) /\ Cardinality(Slots) = BlockTx /\ IsFiniteSet(Slots)
    <3>1. IsInjective(clear_pos[n]) /\ \A k \in BlockPos : clear_pos[n][k] \in Used(n)
        BY <2>1 DEF PoolInv, BlockSlotsStay
    <3>2. clear_pos[n] \in [BlockPos -> Slot]
        BY DEF PoolInv, TypeOK
    <3>3. clear_pos[n] \in Bijection(BlockPos, Slots)
        BY <3>1, <3>2 DEF IsInjective, Bijection, Injection, Surjection
    <3>4. clear_pos[n] \in Surjection(BlockPos, Slots) \cap Injection(BlockPos, Slots)
        BY <3>3 DEF Bijection
    <3> QED BY <3>1, <3>4, BlockPosFinite, FS_Surjection
  <2>3. /\ Used(n)' = Used(n) \ Slots
        /\ \A m \in Node \ {n} : Used(m)' = Used(m)
        /\ transaction_pool' \in [Node -> [Slot -> Tx \cup {NoTx}]]
    BY <2>1 DEF Used, PoolInv, TypeOK
  <2> HIDE DEF Slots
  <2>4. Cardinality(Used(n)') = Cardinality(Used(n)) - BlockTx /\ Cardinality(Used(n)') \in Nat
    <3>1. IsFiniteSet(Used(n) \ Slots) /\ Cardinality(Used(n) \ Slots) \in Nat
        BY SlotFacts, FS_Difference, FS_CardinalityType
    <3>2. Used(n) \cap Slots = Slots
        BY <2>2
    <3>3. Cardinality(Used(n) \ Slots) = Cardinality(Used(n)) - Cardinality(Used(n) \cap Slots)
        BY SlotFacts, FS_Difference
    <3> QED BY <2>2, <2>3, <3>1, <3>2, <3>3
  <2>5. PoolCountExact'
    BY <2>1, <2>3, <2>4 DEF PoolCountExact, PoolInv, TypeOK
  <2>6. trans_pool_size' \in [Node -> 0 .. TpSize]
    BY <2>1, <2>4, SlotFacts DEF PoolCountExact, PoolInv, TypeOK
  <2>7. pc' \in [Node -> NodePc] /\ BlockSlotsStay' /\ NewEmpty' /\ SentStillUsed' /\ HandFull'
    BY <1>1, <2>1, <2>3, NodeTurn DEF masterVars, NodePc
  <2>8. TypeOK'
    BY <1>4, <2>1, <2>3, <2>6, <2>7 DEF PoolInv, TypeOK, ClearBlock, queueVars, masterVars,
        histVars
  <2> QED BY <2>5, <2>7, <2>8 DEF PoolInv
<1> QED BY <1>2, <1>3, <1>4

-----------------------------------------------------------------------------
\* PoolInv is inductive.
LEMMA NextPool == PoolInv /\ [Next]_vars => PoolInv'
<1> SUFFICES ASSUME PoolInv, [Next]_vars PROVE PoolInv'
    OBVIOUS
<1>1. CASE UNCHANGED vars
    BY <1>1 DEF PoolInv, TypeOK, PoolCountExact, BlockSlotsStay, NewEmpty, SentStillUsed,
        HandFull, Used, vars, queueVars, poolVars, masterVars, histVars
<1>2. CASE Next
    BY <1>2, UserPool, MasterPool, MessagePool, DepositPool, CronPool, BlockPool
        DEF Next, NodeStep
<1> QED BY <1>1, <1>2

\* Every reachable state satisfies PoolInv.
THEOREM PoolInvariant == Spec => []PoolInv
BY InitPool, NextPool, PTL DEF Spec

\* Queues, pools, hands and counters keep their types and their bounds: no
\* message is deposited beyond SO_TP_SIZE and no hop is counted beyond SO_HOPS.
THEOREM FlowTypesCorrect == Spec => []TypeOK
<1>1. PoolInv => TypeOK
    BY DEF PoolInv
<1> QED BY <1>1, PoolInvariant, PTL

\* The counter a node decides by always counts the used slots of its pool
\* (node.c: increment_tp 603, the release by the cron 277, clear_block 558).
THEOREM PoolCounted == Spec => []PoolCountExact
<1>1. PoolInv => PoolCountExact
    BY DEF PoolInv
<1> QED BY <1>1, PoolInvariant, PTL

\* From create_block to clear_block the remembered positions are distinct and
\* used, so that what is published is what is cleared.
THEOREM SlotsStay == Spec => []BlockSlotsStay
<1>1. PoolInv => BlockSlotsStay
    BY DEF PoolInv
<1> QED BY <1>1, PoolInvariant, PTL

=============================================================================
