---------------------------- MODULE TxFlowProofs ----------------------------
(***************************************************************************)
(* The way of a transaction, for every number of transactions, nodes, hops *)
(* and every size of pools and queues: it waits in one place at most, it   *)
(* is published once at most, it never vanishes, and only a refund by the  *)
(* cron leaves it alive.                                                   *)
(*                                                                         *)
(* A transaction is At a place: a queue, the hand of a process, a slot of  *)
(* a pool.  Each action of TxFlow moves one transaction from one place to  *)
(* another (Moved), brings in a new one (Entered), ends one by a refund    *)
(* (Refunded) or a block of them by publication (PublishedBlock), refunds  *)
(* one that stays (RefundedAlive), or leaves all where they are (Stayed).  *)
(* The six lemmas of these names say that Account is preserved; the rest   *)
(* of the module shows which of the six an action is.                      *)
(***************************************************************************)
EXTENDS TxPoolProofs, FunctionTheorems

\* A message queue holds a message about t.
Has(s, t) == \E i \in 1 .. Len(s) : s[i].tx = t

\* No two messages of a queue are about the same transaction.
Distinct(s) == \A i, j \in 1 .. Len(s) : s[i].tx = s[j].tx => i = j

\* Where a transaction can wait; the position in a queue is left out, so that a
\* place does not change when an earlier message is read.
Place == {"queue", "priority", "master", "hand", "pool"} \X (Node \cup {Master}) \X Slot

\* Slot i of the pool of n holds t, which has not just left it.
InPool(n, i, t) == i \notin Gone(n) /\ transaction_pool[n][i] = t

\* Transaction t waits at place p.
At(p, t) ==
    \/ p = <<"queue", Master, 0>> /\ Has(queue, t)
    \/ p = <<"priority", Master, 0>> /\ Has(priority, t)
    \/ p = <<"master", Master, 0>> /\ mmex = t
    \/ \E n \in Node : p = <<"hand", n, 0>> /\ mex[n].tx = t
    \/ \E n \in Node, i \in Slot : p = <<"pool", n, i>> /\ InPool(n, i, t)

\* Transaction t waits somewhere.
Waits(t) == \E p \in Place : At(p, t)

\* The transactions a refund was sent for, read, dropped or on its way.
Refunds == Promised \cup dropped

\* Stage of TxFlow, told by the places of At.
Phase(t) ==
    IF ledger[t] > 0 THEN "published"
    ELSE IF t \notin sent THEN "new"
    ELSE IF Waits(t) THEN "waiting" ELSE "refused"

\* A transaction waits in one place at most.
OnePlace == \A t \in Tx : \A p, q \in Place : At(p, t) /\ At(q, t) => p = q

\* What waits was sent and is not in the ledger.
Unpublished == \A t \in Tx : Waits(t) => t \in sent /\ ledger[t] = 0

\* What is refunded or published was sent.
SentFirst == Refunds \subseteq sent /\ \A t \in Tx : ledger[t] > 0 => t \in sent

\* What is refunded and waits, or was published, was refunded by the cron.
CronOnly == \A t \in Tx : t \in Refunds /\ (Waits(t) \/ ledger[t] > 0) => t \in cronRefused

\* What was sent waits, is published or is refunded.
Kept == \A t \in Tx : t \in sent => Waits(t) \/ ledger[t] > 0 \/ t \in Refunds

\* What every step must preserve about the places of transactions.
Account == OnePlace /\ Unpublished /\ PublishedOnce /\ SentFirst /\ CronOnly /\ Kept

\* The inductive invariant.
FlowInv == PoolInv /\ Distinct(queue) /\ Distinct(priority) /\ Account

\* What a step does to the phases: nothing, or one transaction goes on.
Still == \A u \in Tx : Phase(u)' = Phase(u)

Turns(t, a, b) ==
    Phase(t) = a /\ Phase(t)' = b /\ \A u \in Tx \ {t} : Phase(u)' = Phase(u)

\* What a step does to the refunds: nothing, one is read, one is sent or lost.
Quiet == UNCHANGED <<Promised, dropped, refunded>>
Paying ==
    \E t \in Tx : t \in Promised /\ refunded' = refunded \cup {t} /\ UNCHANGED <<Promised, dropped>>
Refunding(t) == Life!Promise(t) /\ UNCHANGED refunded

\* A step of TxLife or a stutter, in terms of phases.
Advance ==
    \/ Still /\ (Quiet \/ Paying)
    \/ \E t \in Tx : Turns(t, "new", "waiting") /\ Quiet
    \/ \E t \in Tx : Turns(t, "waiting", "refused") /\ Refunding(t)
    \/ \E t \in Tx : Phase(t) = "waiting" /\ Still /\ Refunding(t)
    \/ \E B \in SUBSET Tx :
          /\ Cardinality(B) = BlockTx /\ Quiet
          /\ \A t \in B : Phase(t) = "waiting" /\ Phase(t)' = "published"
          /\ \A u \in Tx \ B : Phase(u)' = Phase(u)

-----------------------------------------------------------------------------
\* A message at the end of a queue adds its transaction to the queue.
LEMMA Appended ==
    ASSUME NEW S, NEW s \in Seq(S), NEW e \in S, NEW t, e.tx = t
    PROVE  /\ \A u : Has(Append(s, e), u) <=> Has(s, u) \/ t = u
           /\ Distinct(s) /\ ~ Has(s, t) => Distinct(Append(s, e))
<1>1. /\ Len(Append(s, e)) = Len(s) + 1 /\ Len(s) \in Nat
      /\ Append(s, e)[Len(s) + 1] = e
      /\ \A i \in 1 .. Len(s) : Append(s, e)[i] = s[i]
    OBVIOUS
<1>2. \A i \in 1 .. Len(s) + 1 : i = Len(s) + 1 \/ i \in 1 .. Len(s)
    BY <1>1
<1>3. 1 .. Len(s) \subseteq 1 .. Len(s) + 1 /\ Len(s) + 1 \in 1 .. Len(s) + 1
    BY <1>1
<1> DEFINE b == Append(s, e)
<1>4. /\ Len(b) = Len(s) + 1
      /\ b[Len(s) + 1] = e
      /\ \A i \in 1 .. Len(s) : b[i] = s[i]
    BY <1>1
<1> HIDE DEF b
<1>5. \A u : Has(b, u) <=> Has(s, u) \/ t = u
    BY <1>2, <1>3, <1>4 DEF Has
<1>6. Distinct(s) /\ ~ Has(s, t) => Distinct(b)
    BY <1>2, <1>3, <1>4 DEF Has, Distinct
<1> QED BY <1>5, <1>6 DEF b

\* A message read from a queue takes its transaction from the queue.
LEMMA Removed ==
    ASSUME NEW S, NEW s \in Seq(S), NEW i \in 1 .. Len(s), Distinct(s)
    PROVE  /\ \A u : Has(RemoveAt(s, i), u) <=> Has(s, u) /\ s[i].tx # u
           /\ Distinct(RemoveAt(s, i))
<1> DEFINE b == RemoveAt(s, i)
           Old(j) == IF j < i THEN j ELSE j + 1
<1>1. /\ Len(b) = Len(s) - 1 /\ Len(s) \in Nat
      /\ \A j \in 1 .. Len(s) - 1 : b[j] = IF j < i THEN s[j] ELSE s[j + 1]
    BY RemovesOne
<1> HIDE DEF b
<1>2. \A j \in 1 .. Len(b) : Old(j) \in 1 .. Len(s) /\ Old(j) # i /\ b[j] = s[Old(j)]
    BY <1>1
<1>3. \A j, k \in 1 .. Len(b) : Old(j) = Old(k) => j = k
    BY <1>1
<1>4. \A k \in 1 .. Len(s) : k # i => \E j \in 1 .. Len(b) : Old(j) = k
  <2> SUFFICES ASSUME NEW k \in 1 .. Len(s), k # i PROVE \E j \in 1 .. Len(b) : Old(j) = k
    OBVIOUS
  <2> DEFINE j == IF k < i THEN k ELSE k - 1
  <2>1. j \in 1 .. Len(b) /\ Old(j) = k
    BY <1>1
  <2> QED BY <2>1
<1> HIDE DEF Old
<1>5. \A u : Has(b, u) <=> Has(s, u) /\ s[i].tx # u
  <2> SUFFICES ASSUME NEW u PROVE Has(b, u) <=> Has(s, u) /\ s[i].tx # u
    OBVIOUS
  <2>1. ASSUME Has(b, u) PROVE Has(s, u) /\ s[i].tx # u
    <3>1. PICK j \in 1 .. Len(b) : b[j].tx = u
        BY <2>1 DEF Has
    <3>2. Old(j) \in 1 .. Len(s) /\ Old(j) # i /\ s[Old(j)].tx = u
        BY <1>2, <3>1
    <3> QED BY <3>2 DEF Has, Distinct
  <2>2. ASSUME Has(s, u), s[i].tx # u PROVE Has(b, u)
    <3>1. PICK k \in 1 .. Len(s) : s[k].tx = u
        BY <2>2 DEF Has
    <3>2. PICK j \in 1 .. Len(b) : Old(j) = k
        BY <1>4, <2>2, <3>1
    <3> QED BY <1>2, <3>1, <3>2 DEF Has
  <2> QED BY <2>1, <2>2
<1>6. Distinct(b)
    BY <1>2, <1>3 DEF Distinct
<1> QED BY <1>5, <1>6 DEF b

\* A refund is recorded, in the rejected queue or among the dropped.
LEMMA RefundRecorded ==
    ASSUME PoolInv, NEW t \in Tx, Reject(t), UNCHANGED refunded
    PROVE  Refunding(t)
<1>1. rejected \in Seq(Tx)
    BY DEF PoolInv, TypeOK
<1>2. CASE Len(rejected) < RCap
  <2>1. rejected' = Append(rejected, t) /\ UNCHANGED dropped
    BY <1>2 DEF Reject
  <2>2. /\ Len(rejected') = Len(rejected) + 1 /\ Len(rejected) \in Nat
        /\ rejected'[Len(rejected) + 1] = t
        /\ \A i \in 1 .. Len(rejected) : rejected'[i] = rejected[i]
        /\ DOMAIN rejected' = 1 .. Len(rejected) + 1
    BY <1>1, <2>1
  <2>3. ToSet(rejected') = ToSet(rejected) \cup {t}
    <3>1. \A i \in 1 .. Len(rejected) + 1 : i = Len(rejected) + 1 \/ i \in 1 .. Len(rejected)
        BY <2>2
    <3>2. DOMAIN rejected = 1 .. Len(rejected)
        BY <1>1
    <3>3. 1 .. Len(rejected) \subseteq DOMAIN rejected' /\ Len(rejected) + 1 \in DOMAIN rejected'
        BY <2>2
    <3> QED BY <2>2, <3>1, <3>2, <3>3 DEF ToSet
  <2> QED BY <2>1, <2>3 DEF Refunding, Life!Promise, Promised
<1>3. CASE ~ Len(rejected) < RCap
    BY <1>3 DEF Reject, Refunding, Life!Promise, Promised
<1> QED BY <1>2, <1>3

\* What a refund adds to the refunds.
LEMMA RefundAdds ==
    ASSUME NEW t, Refunding(t)
    PROVE  Refunds' = Refunds \cup {t}
BY DEF Refunding, Life!Promise, Refunds

\* Transactions wait in places, before and after a step.
LEMMA AtPlace == \A p, t : (At(p, t) => p \in Place) /\ (At(p, t)' => p \in Place)
<1>1. 0 \in Slot
    BY SlotFacts DEF Slot
<1> QED BY <1>1 DEF At, Place

\* When a slot of a pool counts as left.
LEMMA GoneFacts ==
    /\ \A n \in Node : pc[n] \notin {"cronFree", "clear"} => Gone(n) = {}
    /\ \A n \in Node : pc'[n] \notin {"cronFree", "clear"} => Gone(n)' = {}
    /\ \A n \in Node : pc'[n] = pc[n] /\ idx_last_tp_used'[n] = idx_last_tp_used[n]
                       /\ clear_pos'[n] = clear_pos[n] => Gone(n)' = Gone(n)
BY DEF Gone

-----------------------------------------------------------------------------
\* All transactions stay where they are.
LEMMA Stayed ==
    ASSUME Account, \A u \in Tx : \A p : At(p, u)' <=> At(p, u),
           Quiet \/ Paying, UNCHANGED <<sent, ledger, cronRefused>>
    PROVE  Account' /\ Advance
<1>1. Refunds' = Refunds
    BY DEF Quiet, Paying, Refunds
<1>2. \A u \in Tx : Waits(u)' <=> Waits(u)
    BY DEF Waits
<1>3. OnePlace'
    BY DEF Account, OnePlace
<1>4. Account'
    BY <1>1, <1>2, <1>3 DEF Account, Unpublished, PublishedOnce, SentFirst, CronOnly, Kept
<1>5. Still
    BY <1>2 DEF Still, Phase
<1> QED BY <1>4, <1>5 DEF Advance

\* One transaction moves from place a to place b.
LEMMA Moved ==
    ASSUME Account, NEW t \in Tx, NEW a, NEW b, At(a, t), At(b, t)',
           \A p : At(p, t)' => p = b \/ (p # a /\ At(p, t)),
           \A u \in Tx \ {t} : \A p : At(p, u)' <=> At(p, u),
           UNCHANGED <<rejected, histVars>>
    PROVE  Account' /\ Advance
<1>1. a \in Place /\ b \in Place
    BY AtPlace
<1>2. \A p \in Place : At(p, t)' => p = b
    BY <1>1 DEF Account, OnePlace
<1>3. Waits(t) /\ Waits(t)' /\ \A u \in Tx : Waits(u)' <=> Waits(u)
    BY <1>1 DEF Waits
<1>4. OnePlace'
    BY <1>2 DEF Account, OnePlace
<1>5. Quiet /\ UNCHANGED <<sent, ledger, cronRefused>> /\ Refunds' = Refunds
    BY DEF histVars, Quiet, Promised, Refunds
<1>6. Account'
    BY <1>3, <1>4, <1>5 DEF Account, Unpublished, PublishedOnce, SentFirst, CronOnly, Kept
<1>7. Still
    BY <1>3, <1>5 DEF Still, Phase
<1> QED BY <1>5, <1>6, <1>7 DEF Advance

\* The transaction at place a is refunded and leaves.
LEMMA Refunded ==
    ASSUME Account, NEW t \in Tx, NEW a, At(a, t),
           \A p : At(p, t)' => p # a /\ At(p, t),
           \A u \in Tx \ {t} : \A p : At(p, u)' <=> At(p, u),
           Refunding(t), UNCHANGED <<sent, ledger, cronRefused>>
    PROVE  Account' /\ Advance
<1>1. a \in Place
    BY AtPlace
<1>2. ~ Waits(t)' /\ Waits(t) /\ t \in sent /\ ledger[t] = 0
    BY <1>1 DEF Account, OnePlace, Waits, Unpublished
<1>3. \A u \in Tx \ {t} : Waits(u)' <=> Waits(u)
    BY DEF Waits
<1>4. OnePlace'
    BY <1>2 DEF Account, OnePlace, Waits
<1>5. Account'
    BY <1>2, <1>3, <1>4, RefundAdds DEF Account, Unpublished, PublishedOnce, SentFirst,
        CronOnly, Kept
<1>6. Turns(t, "waiting", "refused")
    BY <1>2, <1>3 DEF Turns, Phase
<1> QED BY <1>5, <1>6 DEF Advance

\* A waiting transaction is refunded and stays: the cron did it.
LEMMA RefundedAlive ==
    ASSUME Account, NEW t \in Tx, Waits(t), \A u \in Tx : \A p : At(p, u)' <=> At(p, u),
           Refunding(t), cronRefused' = cronRefused \cup {t},
           UNCHANGED <<sent, ledger>>
    PROVE  Account' /\ Advance
<1>1. \A u \in Tx : Waits(u)' <=> Waits(u)
    BY DEF Waits
<1>2. OnePlace'
    BY DEF Account, OnePlace
<1>3. Account'
    BY <1>1, <1>2, RefundAdds DEF Account, Unpublished, PublishedOnce, SentFirst,
        CronOnly, Kept
<1>4. Phase(t) = "waiting"
    BY DEF Account, Unpublished, Phase
<1>5. Still
    BY <1>1 DEF Still, Phase
<1> QED BY <1>3, <1>4, <1>5 DEF Advance

\* A new transaction is sent to place b.
LEMMA Entered ==
    ASSUME Account, NEW t \in Tx, NEW b, t \notin sent, ledger \in [Tx -> Nat],
           At(b, t)', \A p : At(p, t)' => p = b \/ At(p, t),
           \A u \in Tx \ {t} : \A p : At(p, u)' <=> At(p, u),
           Quiet, sent' = sent \cup {t}, UNCHANGED <<ledger, cronRefused>>
    PROVE  Account' /\ Advance
<1>1. b \in Place
    BY AtPlace
<1>2. ~ Waits(t) /\ ledger[t] = 0 /\ t \notin Refunds
    BY DEF Account, Unpublished, SentFirst
<1>3. Waits(t)' /\ \A u \in Tx \ {t} : Waits(u)' <=> Waits(u)
    BY <1>1 DEF Waits
<1>4. \A p \in Place : At(p, t)' => p = b
    BY <1>2 DEF Waits
<1>5. OnePlace'
    BY <1>4 DEF Account, OnePlace
<1>6. Refunds' = Refunds
    BY DEF Quiet, Refunds
<1>7. Account'
    BY <1>2, <1>3, <1>5, <1>6 DEF Account, Unpublished, PublishedOnce, SentFirst, CronOnly,
        Kept
<1>8. Turns(t, "new", "waiting")
    BY <1>2, <1>3 DEF Turns, Phase
<1> QED BY <1>7, <1>8 DEF Advance

\* The waiting transactions of B are published and leave.
LEMMA PublishedBlock ==
    ASSUME Account, NEW B \in SUBSET Tx, Cardinality(B) = BlockTx,
           \A t \in B : Waits(t) /\ ledger'[t] = 1 /\ \A p : ~ At(p, t)',
           \A u \in Tx \ B : ledger'[u] = ledger[u] /\ \A p : At(p, u)' <=> At(p, u),
           Quiet, UNCHANGED <<sent, cronRefused>>
    PROVE  Account' /\ Advance
<1>1. \A t \in B : ~ Waits(t)'
    BY DEF Waits
<1>2. \A u \in Tx \ B : Waits(u)' <=> Waits(u)
    BY DEF Waits
<1>3. OnePlace'
    BY DEF Account, OnePlace
<1>4. Refunds' = Refunds
    BY DEF Quiet, Refunds
<1>5. Account'
    BY <1>1, <1>2, <1>3, <1>4 DEF Account, Unpublished, PublishedOnce, SentFirst, CronOnly,
        Kept
<1>6. \A t \in B : Phase(t) = "waiting" /\ Phase(t)' = "published"
    BY DEF Account, Unpublished, Phase
<1>7. \A u \in Tx \ B : Phase(u)' = Phase(u)
    BY <1>2 DEF Phase
<1> QED BY <1>5, <1>6, <1>7 DEF Advance

-----------------------------------------------------------------------------
\* What is left to show of a step, once PoolInv is known to hold after it.
FlowStep == Account' /\ Advance /\ Distinct(queue)' /\ Distinct(priority)'

\* The initial states satisfy FlowInv.
LEMMA InitFlow == Init => FlowInv
<1> SUFFICES ASSUME Init PROVE FlowInv
    OBVIOUS
<1>1. \A p : \A t \in Tx : ~ At(p, t)
    BY TxFlowAssumption DEF Init, At, InPool, Has, NoMsg, Gone
<1>2. \A t \in Tx : ~ Waits(t)
    BY <1>1 DEF Waits
<1>3. Refunds = {} /\ sent = {} /\ \A t \in Tx : ledger[t] = 0
    BY DEF Init, Refunds, Promised, ToSet
<1>4. Account
    BY <1>1, <1>2, <1>3 DEF Account, OnePlace, Unpublished, PublishedOnce, SentFirst,
        CronOnly, Kept
<1>5. Distinct(queue) /\ Distinct(priority)
    BY DEF Init, Distinct
<1> QED BY <1>4, <1>5, InitPool DEF FlowInv

\* The parts of the type invariant cited below.
LEMMA Typed ==
    ASSUME PoolInv
    PROVE  /\ queue \in Seq([tx : Tx, to : Node, hops : 0 .. Hops])
           /\ priority \in Seq([tx : Tx, to : Node \cup {Master}])
           /\ \A n \in Node : mex[n].tx \in Tx \cup {NoTx}
           /\ \A n \in Node, i \in Slot : transaction_pool[n][i] \in Tx \cup {NoTx}
           /\ ledger \in [Tx -> Nat]
           /\ NoTx \notin Tx /\ Master \notin Node
BY TxFlowAssumption DEF PoolInv, TypeOK

\* A step that changes no place of u leaves u where it is.
LEMMA Untouched ==
    ASSUME NEW u,
           Has(queue', u) <=> Has(queue, u),
           Has(priority', u) <=> Has(priority, u),
           mmex' = u <=> mmex = u,
           \A m \in Node : mex'[m].tx = u <=> mex[m].tx = u,
           \A m \in Node, i \in Slot : InPool(m, i, u)' <=> InPool(m, i, u)
    PROVE  \A p : At(p, u)' <=> At(p, u)
BY DEF At

\* No transaction enters or leaves a pool while control and pools are unchanged.
LEMMA PoolsStill ==
    ASSUME UNCHANGED <<pc, poolVars>>
    PROVE  \A m \in Node, i \in Slot : \A u : InPool(m, i, u)' <=> InPool(m, i, u)
<1>1. \A m \in Node : Gone(m)' = Gone(m)
    BY GoneFacts DEF poolVars
<1> QED BY <1>1 DEF InPool, poolVars

\* The same when a node moves on without touching a slot.
LEMMA TurnLeavesPools ==
    ASSUME PoolInv, NEW n \in Node, NEW b, pc[n] \notin {"cronFree", "clear"},
           b \notin {"cronFree", "clear"}, pc' = [pc EXCEPT ![n] = b],
           \A m \in Node \ {n} : /\ idx_last_tp_used'[m] = idx_last_tp_used[m]
                                 /\ clear_pos'[m] = clear_pos[m],
           UNCHANGED transaction_pool
    PROVE  \A m \in Node, i \in Slot : \A u : InPool(m, i, u)' <=> InPool(m, i, u)
<1>1. pc'[n] = b /\ \A m \in Node \ {n} : pc'[m] = pc[m]
    BY DEF PoolInv, TypeOK
<1>2. \A m \in Node : Gone(m)' = Gone(m)
    BY <1>1, GoneFacts
<1> QED BY <1>2 DEF InPool

\* A message to a node adds its transaction to the queue.
LEMMA QueueGains ==
    ASSUME FlowInv, NEW t \in Tx, NEW n \in Node, NEW h \in 0 .. Hops,
           queue' = Append(queue, [tx |-> t, to |-> n, hops |-> h])
    PROVE  /\ \A u : Has(queue', u) <=> Has(queue, u) \/ t = u
           /\ ~ Has(queue, t) => Distinct(queue')
<1> DEFINE S == [tx : Tx, to : Node, hops : 0 .. Hops]
<1>1. PICK e \in S : e.tx = t /\ queue' = Append(queue, e)
    OBVIOUS
<1>2. queue \in Seq(S)
    BY Typed DEF FlowInv
<1>3. e.tx = t /\ e \in S
    BY <1>1
<1> HIDE DEF S
<1>4. \A u : Has(Append(queue, e), u) <=> Has(queue, u) \/ t = u
    BY <1>2, <1>3, Appended
<1>5. ~ Has(queue, t) => Distinct(Append(queue, e))
    BY <1>2, <1>3, Appended DEF FlowInv
<1> QED BY <1>1, <1>4, <1>5

\* A message to the master, or to a new node, adds its transaction.
LEMMA PriorityGains ==
    ASSUME FlowInv, NEW t \in Tx, NEW n \in Node \cup {Master},
           priority' = Append(priority, [tx |-> t, to |-> n])
    PROVE  /\ \A u : Has(priority', u) <=> Has(priority, u) \/ t = u
           /\ ~ Has(priority, t) => Distinct(priority')
<1> DEFINE S == [tx : Tx, to : Node \cup {Master}]
<1>1. PICK e \in S : e.tx = t /\ priority' = Append(priority, e)
    OBVIOUS
<1>2. priority \in Seq(S)
    BY Typed DEF FlowInv
<1>3. e.tx = t /\ e \in S
    BY <1>1
<1> HIDE DEF S
<1>4. \A u : Has(Append(priority, e), u) <=> Has(priority, u) \/ t = u
    BY <1>2, <1>3, Appended
<1>5. ~ Has(priority, t) => Distinct(Append(priority, e))
    BY <1>2, <1>3, Appended DEF FlowInv
<1> QED BY <1>1, <1>4, <1>5

\* A message read from the priority queue takes its transaction from it.
LEMMA PriorityLoses ==
    ASSUME FlowInv, NEW p, IndexFor(priority, p) > 0,
           priority' = RemoveAt(priority, IndexFor(priority, p))
    PROVE  LET t == priority[IndexFor(priority, p)].tx IN
           /\ t \in Tx /\ Has(priority, t)
           /\ Distinct(priority') /\ \A u : Has(priority', u) <=> Has(priority, u) /\ t # u
<1> DEFINE i == IndexFor(priority, p)
<1>1. i \in 1 .. Len(priority) /\ priority[i].tx \in Tx
    BY MessageRemoved DEF FlowInv
<1> HIDE DEF i
<1>2. priority \in Seq([tx : Tx, to : Node \cup {Master}])
    BY Typed DEF FlowInv
<1>3. /\ Distinct(RemoveAt(priority, i))
      /\ \A u : Has(RemoveAt(priority, i), u) <=> Has(priority, u) /\ priority[i].tx # u
    BY <1>1, <1>2, Removed DEF FlowInv
<1>4. Has(priority, priority[i].tx)
    BY <1>1 DEF Has
<1> QED BY <1>1, <1>3, <1>4 DEF i

\* What waits outside a queue is not in that queue.
LEMMA Elsewhere ==
    ASSUME Account, NEW t \in Tx, NEW a, At(a, t)
    PROVE  /\ Has(queue, t) => a = <<"queue", Master, 0>>
           /\ Has(priority, t) => a = <<"priority", Master, 0>>
<1>1. \A p : At(p, t) => p = a
    BY AtPlace DEF Account, OnePlace
<1> QED BY <1>1 DEF At

\* user_send_transaction brings in a new transaction.
LEMMA SendKeeps == ASSUME FlowInv, NEW t \in Tx, Send(t) PROVE FlowStep
<1>1. PICK n \in created : queue' = Append(queue, [tx |-> t, to |-> n, hops |-> 0])
    BY DEF Send
<1>2. /\ t \notin sent /\ sent' = sent \cup {t}
      /\ UNCHANGED <<priority, rejected, pc, mex, poolVars, masterVars, ledger, refunded,
                     dropped, cronRefused>>
    BY DEF Send
<1>3. ~ Has(queue, t)
  <2>1. Has(queue, t) => At(<<"queue", Master, 0>>, t)
    BY DEF At
  <2>2. \A p : ~ At(p, t)
    BY <1>2, AtPlace DEF FlowInv, Account, Unpublished, Waits
  <2> QED BY <2>1, <2>2
<1>4. Distinct(queue') /\ \A u : Has(queue', u) <=> Has(queue, u) \/ t = u
  <2>1. n \in Node /\ 0 \in 0 .. Hops
    BY TxFlowAssumption DEF FlowInv, PoolInv, TypeOK
  <2> QED BY <1>1, <1>3, <2>1, QueueGains
<1>5. \A m \in Node, i \in Slot : \A u : InPool(m, i, u)' <=> InPool(m, i, u)
    BY <1>2, PoolsStill
<1>6. \A u \in Tx \ {t} : \A p : At(p, u)' <=> At(p, u)
    BY <1>2, <1>4, <1>5, Untouched DEF masterVars
<1>7. /\ At(<<"queue", Master, 0>>, t)'
      /\ \A p : At(p, t)' => p = <<"queue", Master, 0>> \/ At(p, t)
    BY <1>2, <1>4, <1>5 DEF At, masterVars
<1>8. Account' /\ Advance
  <2>1. ledger \in [Tx -> Nat] /\ Quiet
    BY <1>2, Typed DEF FlowInv, Quiet, Promised
  <2> QED BY <1>2, <1>6, <1>7, <2>1, Entered DEF FlowInv
<1> QED BY <1>2, <1>4, <1>8 DEF FlowStep, FlowInv, Distinct

\* A refund that is read stays recorded.
LEMMA CollectKeeps == ASSUME FlowInv, Collect PROVE FlowStep
<1>1. PICK i \in DOMAIN rejected : /\ refunded' = refunded \cup {rejected[i]}
                                   /\ rejected' = RemoveAt(rejected, i)
    BY DEF Collect
<1>2. UNCHANGED <<queue, priority, pc, mex, poolVars, masterVars, sent, ledger, dropped,
                  cronRefused>>
    BY DEF Collect
<1>3. Paying
  <2>1. rejected \in Seq(Tx) /\ DOMAIN rejected = 1 .. Len(rejected) /\ Len(rejected) \in Nat
    BY DEF FlowInv, PoolInv, TypeOK
  <2>2. /\ rejected' \in Seq(Tx) /\ Len(rejected') = Len(rejected) - 1
        /\ \A j \in 1 .. Len(rejected) - 1 :
                rejected'[j] = IF j < i THEN rejected[j] ELSE rejected[j + 1]
    BY <1>1, <2>1, RemovesOne
  <2>3. DOMAIN rejected' = 1 .. Len(rejected) - 1
    BY <2>2
  <2>4. ToSet(rejected') \subseteq ToSet(rejected)
    BY <2>1, <2>2, <2>3 DEF ToSet
  <2>5. ToSet(rejected) \subseteq ToSet(rejected') \cup {rejected[i]}
    <3>1. ASSUME NEW k \in 1 .. Len(rejected), k # i
          PROVE  rejected[k] \in ToSet(rejected')
      <4> DEFINE j == IF k < i THEN k ELSE k - 1
      <4>1. j \in 1 .. Len(rejected) - 1 /\ rejected'[j] = rejected[k]
        BY <2>1, <2>2, <3>1
      <4> QED BY <2>3, <4>1 DEF ToSet
    <3> QED BY <2>1, <3>1 DEF ToSet
  <2>6. rejected[i] \in ToSet(rejected)
    BY DEF ToSet
  <2>7. Promised' = Promised /\ rejected[i] \in Promised
    BY <1>1, <2>4, <2>5, <2>6 DEF Promised
  <2> QED BY <1>1, <1>2, <2>1, <2>7 DEF Paying
<1>4. \A m \in Node, j \in Slot : \A u : InPool(m, j, u)' <=> InPool(m, j, u)
    BY <1>2, PoolsStill
<1>5. \A u \in Tx : \A p : At(p, u)' <=> At(p, u)
    BY <1>2, <1>4, Untouched DEF masterVars
<1>6. Account' /\ Advance
    BY <1>2, <1>3, <1>5, Stayed DEF FlowInv
<1> QED BY <1>2, <1>6 DEF FlowStep, FlowInv, Distinct

\* A message read goes from the queue to the hand.
LEMMA ReceiveKeeps == ASSUME FlowInv, NEW n \in Node, Receive(n) PROVE FlowStep
<1> DEFINE i == IndexFor(queue, n)
<1>1. /\ pc[n] = "drain" /\ pc' = [pc EXCEPT ![n] = "held"] /\ i > 0
      /\ mex' = [mex EXCEPT ![n] = [tx |-> queue[i].tx, hops |-> queue[i].hops]]
      /\ queue' = RemoveAt(queue, i)
      /\ UNCHANGED <<priority, rejected, poolVars, masterVars, histVars>>
    BY DEF Receive, Goto
<1>2. i \in 1 .. Len(queue) /\ queue[i].tx \in Tx
    BY <1>1, MessageRemoved DEF FlowInv
<1> HIDE DEF i
<1>3. PICK t \in Tx : t = queue[i].tx
    BY <1>2
<1>4. Distinct(queue') /\ \A u : Has(queue', u) <=> Has(queue, u) /\ t # u
  <2>1. queue \in Seq([tx : Tx, to : Node, hops : 0 .. Hops])
    BY Typed DEF FlowInv
  <2> QED BY <1>1, <1>2, <1>3, <2>1, Removed DEF FlowInv
<1>5. Has(queue, t) /\ mex[n].tx = NoTx /\ mex'[n].tx = t
      /\ \A m \in Node \ {n} : mex'[m] = mex[m]
    BY <1>1, <1>2, <1>3 DEF Has, FlowInv, PoolInv, HandFull, TypeOK
<1>6. \A m \in Node, j \in Slot : \A u : InPool(m, j, u)' <=> InPool(m, j, u)
    BY <1>1, TurnLeavesPools DEF FlowInv, poolVars
<1>7. \A u \in Tx \ {t} : \A p : At(p, u)' <=> At(p, u)
    BY <1>1, <1>4, <1>5, <1>6, TxFlowAssumption, Untouched DEF masterVars
<1>8. At(<<"queue", Master, 0>>, t) /\ At(<<"hand", n, 0>>, t)'
    BY <1>5 DEF At
<1>9. \A p : At(p, t)' => p = <<"hand", n, 0>> \/ (p # <<"queue", Master, 0>> /\ At(p, t))
    BY <1>1, <1>4, <1>5, <1>6 DEF At, masterVars
<1>10. Account' /\ Advance
    BY <1>1, <1>7, <1>8, <1>9, Moved DEF FlowInv
<1> QED BY <1>1, <1>4, <1>10 DEF FlowStep, FlowInv, Distinct

\* Steps that move no transaction: the slot the cron frees and the slots
\* clear_block frees had already been left.
LEMMA QuietKeeps ==
    ASSUME FlowInv, NEW n \in Node,
           \/ StopDrain(n) \/ CronNothing(n) \/ SkipBlock(n) \/ CreateBlock(n)
           \/ CronFree(n) \/ ClearBlock(n)
    PROVE  FlowStep
<1>1. UNCHANGED <<queueVars, mex, masterVars, histVars>>
    BY DEF StopDrain, CronNothing, SkipBlock, CreateBlock, CronFree, ClearBlock
<1>2. \A m \in Node, i \in Slot : \A u \in Tx : InPool(m, i, u)' <=> InPool(m, i, u)
  <2>1. CASE StopDrain(n) \/ CronNothing(n) \/ SkipBlock(n)
    <3>1. PICK b \in {"cron", "block", "drain"} : pc' = [pc EXCEPT ![n] = b]
        BY <2>1 DEF StopDrain, CronNothing, SkipBlock, Goto
    <3>2. pc[n] \notin {"cronFree", "clear"} /\ UNCHANGED poolVars
        BY <2>1 DEF StopDrain, CronNothing, SkipBlock, Goto
    <3> QED BY <3>1, <3>2, TurnLeavesPools DEF FlowInv, poolVars
  <2>2. CASE CreateBlock(n)
    <3>1. pc[n] = "block" /\ pc' = [pc EXCEPT ![n] = "publish"] /\ UNCHANGED transaction_pool
        BY <2>2 DEF CreateBlock, Goto
    <3>2. \A m \in Node \ {n} : /\ idx_last_tp_used'[m] = idx_last_tp_used[m]
                                /\ clear_pos'[m] = clear_pos[m]
        BY <2>2 DEF CreateBlock, FlowInv, PoolInv, TypeOK
    <3> QED BY <3>1, <3>2, TurnLeavesPools DEF FlowInv
  <2>3. CASE CronFree(n)
    <3>1. /\ pc[n] = "cronFree" /\ pc' = [pc EXCEPT ![n] = "block"]
          /\ transaction_pool' =
                [transaction_pool EXCEPT ![n][idx_last_tp_used[n]] = NoTx]
          /\ UNCHANGED <<idx_last_tp_used, clear_pos>>
        BY <2>3 DEF CronFree, Goto
    <3>2. /\ Gone(n) = {idx_last_tp_used[n]} /\ Gone(n)' = {}
          /\ \A m \in Node \ {n} : Gone(m)' = Gone(m) /\ transaction_pool'[m] = transaction_pool[m]
      <4>1. pc'[n] = "block" /\ \A m \in Node \ {n} : pc'[m] = pc[m]
        BY <3>1 DEF FlowInv, PoolInv, TypeOK
      <4>2. Gone(n) = {idx_last_tp_used[n]}
        BY <3>1 DEF Gone
      <4>3. \A m \in Node \ {n} : transaction_pool'[m] = transaction_pool[m]
        BY <3>1 DEF FlowInv, PoolInv, TypeOK
      <4> QED BY <3>1, <4>1, <4>2, <4>3, GoneFacts
    <3>3. \A i \in Slot : transaction_pool'[n][i] =
                IF i = idx_last_tp_used[n] THEN NoTx ELSE transaction_pool[n][i]
        BY <3>1 DEF FlowInv, PoolInv, TypeOK
    <3> QED BY <3>2, <3>3, TxFlowAssumption DEF InPool
  <2>4. CASE ClearBlock(n)
    <3>1. /\ pc[n] = "clear" /\ pc' = [pc EXCEPT ![n] = "drain"]
          /\ transaction_pool' = [transaction_pool EXCEPT ![n] =
                [i \in Slot |-> IF \E k \in BlockPos : clear_pos[n][k] = i THEN NoTx
                                                                        ELSE @[i]]]
          /\ UNCHANGED <<idx_last_tp_used, clear_pos>>
        BY <2>4 DEF ClearBlock, Goto
    <3>2. /\ Gone(n) = {clear_pos[n][k] : k \in BlockPos} /\ Gone(n)' = {}
          /\ \A m \in Node \ {n} : Gone(m)' = Gone(m) /\ transaction_pool'[m] = transaction_pool[m]
      <4>1. pc'[n] = "drain" /\ \A m \in Node \ {n} : pc'[m] = pc[m]
        BY <3>1 DEF FlowInv, PoolInv, TypeOK
      <4>2. Gone(n) = {clear_pos[n][k] : k \in BlockPos}
        BY <3>1 DEF Gone
      <4>3. \A m \in Node \ {n} : transaction_pool'[m] = transaction_pool[m]
        BY <3>1 DEF FlowInv, PoolInv, TypeOK
      <4> QED BY <3>1, <4>1, <4>2, <4>3, GoneFacts
    <3>3. \A i \in Slot : transaction_pool'[n][i] =
                IF \E k \in BlockPos : clear_pos[n][k] = i THEN NoTx ELSE transaction_pool[n][i]
        BY <3>1 DEF FlowInv, PoolInv, TypeOK
    <3> QED BY <3>2, <3>3, TxFlowAssumption DEF InPool
  <2> QED BY <2>1, <2>2, <2>3, <2>4
<1>3. \A u \in Tx : \A p : At(p, u)' <=> At(p, u)
    BY <1>1, <1>2, Untouched DEF queueVars, masterVars
<1>4. Account' /\ Advance
    BY <1>1, <1>3, Stayed DEF FlowInv, queueVars, histVars, Quiet, Promised
<1> QED BY <1>1, <1>4 DEF FlowStep, FlowInv, Distinct, queueVars

\* What a full node has in hand goes to a friend, to the master or to a refund.
LEMMA HandKeeps ==
    ASSUME FlowInv, NEW n \in Node, Forward(n) \/ Refuse(n) \/ Escalate(n)
    PROVE  FlowStep
<1>1. /\ pc[n] = "held" /\ pc' = [pc EXCEPT ![n] = "drain"]
      /\ mex' = [mex EXCEPT ![n] = NoMsg] /\ UNCHANGED <<poolVars, masterVars>>
      /\ UNCHANGED <<sent, ledger, refunded, cronRefused>>
    BY DEF Forward, Refuse, Escalate, Goto, histVars
<1>2. PICK t \in Tx : mex[n].tx = t
    BY <1>1 DEF FlowInv, PoolInv, TypeOK, HandFull
<1>3. /\ mex'[n].tx = NoTx /\ \A m \in Node \ {n} : mex'[m] = mex[m]
      /\ NoTx \notin Tx
    BY <1>1, TxFlowAssumption DEF FlowInv, PoolInv, TypeOK, NoMsg
<1>4. At(<<"hand", n, 0>>, t) /\ ~ Has(queue, t) /\ ~ Has(priority, t)
  <2>1. At(<<"hand", n, 0>>, t)
    BY <1>2 DEF At
  <2> QED BY <2>1, Elsewhere DEF FlowInv
<1>5. \A m \in Node, i \in Slot : \A u : InPool(m, i, u)' <=> InPool(m, i, u)
    BY <1>1, TurnLeavesPools DEF FlowInv, poolVars
<1>6. CASE Forward(n)
  <2>1. PICK m \in Node : queue' = Append(queue,
            [tx |-> t, to |-> m, hops |-> mex[n].hops + 1])
    BY <1>2, <1>6 DEF Forward, FlowInv, PoolInv, TypeOK
  <2>2. mex[n].hops + 1 \in 0 .. Hops
    <3>1. mex[n].hops \in 0 .. Hops /\ mex[n].hops < Hops /\ Hops \in Nat
        BY <1>6, TxFlowAssumption DEF Forward, FlowInv, PoolInv, TypeOK
    <3> QED BY <3>1
  <2>3. Distinct(queue') /\ \A u : Has(queue', u) <=> Has(queue, u) \/ t = u
    BY <1>4, <2>1, <2>2, QueueGains
  <2>4. UNCHANGED <<priority, rejected, histVars>>
    BY <1>6 DEF Forward
  <2>5. \A u \in Tx \ {t} : \A p : At(p, u)' <=> At(p, u)
    BY <1>1, <1>2, <1>3, <1>5, <2>3, <2>4, Untouched DEF masterVars
  <2>6. At(<<"queue", Master, 0>>, t)'
    BY <2>3 DEF At
  <2>7. \A p : At(p, t)' => p = <<"queue", Master, 0>> \/ (p # <<"hand", n, 0>> /\ At(p, t))
    BY <1>1, <1>3, <1>5, <2>3, <2>4 DEF At, masterVars
  <2>8. Account' /\ Advance
    BY <1>1, <1>4, <2>4, <2>5, <2>6, <2>7, Moved DEF FlowInv
  <2> QED BY <2>3, <2>4, <2>8 DEF FlowStep, FlowInv, Distinct
<1>7. CASE Escalate(n)
  <2>1. priority' = Append(priority, [tx |-> t, to |-> Master])
    BY <1>2, <1>7 DEF Escalate
  <2>2. Distinct(priority') /\ \A u : Has(priority', u) <=> Has(priority, u) \/ t = u
    BY <1>4, <2>1, PriorityGains
  <2>3. UNCHANGED <<queue, rejected, histVars>>
    BY <1>7 DEF Escalate
  <2>4. \A u \in Tx \ {t} : \A p : At(p, u)' <=> At(p, u)
    BY <1>1, <1>2, <1>3, <1>5, <2>2, <2>3, Untouched DEF masterVars
  <2>5. At(<<"priority", Master, 0>>, t)'
    BY <2>2 DEF At
  <2>6. \A p : At(p, t)' => p = <<"priority", Master, 0>> \/ (p # <<"hand", n, 0>> /\ At(p, t))
    BY <1>1, <1>3, <1>5, <2>2, <2>3 DEF At, masterVars
  <2>7. Account' /\ Advance
    BY <1>1, <1>4, <2>3, <2>4, <2>5, <2>6, Moved DEF FlowInv
  <2> QED BY <2>2, <2>3, <2>7 DEF FlowStep, FlowInv, Distinct
<1>8. CASE Refuse(n)
  <2>1. Reject(t) /\ UNCHANGED <<queue, priority>>
    BY <1>2, <1>8 DEF Refuse
  <2>2. Refunding(t)
    BY <1>1, <2>1, RefundRecorded DEF FlowInv
  <2>3. \A u \in Tx \ {t} : \A p : At(p, u)' <=> At(p, u)
    BY <1>1, <1>2, <1>3, <1>5, <2>1, Untouched DEF masterVars
  <2>4. \A p : At(p, t)' => p # <<"hand", n, 0>> /\ At(p, t)
    BY <1>1, <1>3, <1>5, <2>1 DEF At, masterVars
  <2>5. Account' /\ Advance
    BY <1>1, <1>4, <2>2, <2>3, <2>4, Refunded DEF FlowInv
  <2> QED BY <2>1, <2>5 DEF FlowStep, FlowInv, Distinct
<1> QED BY <1>6, <1>7, <1>8

\* A deposit adds one transaction to one slot.
LEMMA PoolGains ==
    ASSUME PoolInv, NEW n \in Node, NEW t \in Tx, Used(n) # Slot, PutInPool(n, t),
           pc[n] \notin {"cronFree", "clear"}, pc' = [pc EXCEPT ![n] = "drain"]
    PROVE  \E off \in Slot : \A m \in Node, i \in Slot : \A u \in Tx :
                InPool(m, i, u)' <=> InPool(m, i, u) \/ (m = n /\ i = off /\ u = t)
<1> DEFINE off == Min(Slot \ Used(n))
<1>1. off \in Slot \ Used(n) /\ transaction_pool' = [transaction_pool EXCEPT ![n][off] = t]
    BY FillsOneSlot
<1> HIDE DEF off
<1>2. UNCHANGED <<idx_last_tp_used, clear_pos>>
    BY DEF PutInPool
<1>3. pc'[n] = "drain" /\ \A m \in Node \ {n} : pc'[m] = pc[m]
    BY DEF PoolInv, TypeOK
<1>4. Gone(n) = {} /\ \A m \in Node : Gone(m)' = Gone(m)
    BY <1>2, <1>3, GoneFacts
<1>5. transaction_pool[n][off] = NoTx /\ NoTx \notin Tx
    BY <1>1, TxFlowAssumption DEF Used
<1>6. /\ transaction_pool'[n][off] = t
      /\ \A i \in Slot \ {off} : transaction_pool'[n][i] = transaction_pool[n][i]
      /\ \A m \in Node \ {n} : transaction_pool'[m] = transaction_pool[m]
    BY <1>1 DEF PoolInv, TypeOK
<1> QED BY <1>1, <1>4, <1>5, <1>6 DEF InPool

\* A deposit moves a transaction from the hand to a slot.
LEMMA DepositKeeps == ASSUME FlowInv, NEW n \in Node, Deposit(n) PROVE FlowStep
<1>1. /\ pc[n] = "held" /\ pc' = [pc EXCEPT ![n] = "drain"]
      /\ Used(n) # Slot /\ PutInPool(n, mex[n].tx)
      /\ mex' = [mex EXCEPT ![n] = NoMsg] /\ UNCHANGED <<queueVars, masterVars, histVars>>
    BY DEF Deposit, Goto, HasRoom
<1>2. PICK t \in Tx : mex[n].tx = t
    BY <1>1 DEF FlowInv, PoolInv, TypeOK, HandFull
<1>3. /\ mex'[n].tx = NoTx /\ \A m \in Node \ {n} : mex'[m] = mex[m]
      /\ NoTx \notin Tx
    BY <1>1, TxFlowAssumption DEF FlowInv, PoolInv, TypeOK, NoMsg
<1>4. PICK off \in Slot : \A m \in Node, i \in Slot : \A u \in Tx :
            InPool(m, i, u)' <=> InPool(m, i, u) \/ (m = n /\ i = off /\ u = t)
    BY <1>1, <1>2, PoolGains DEF FlowInv
<1>5. \A u \in Tx \ {t} : \A p : At(p, u)' <=> At(p, u)
    BY <1>1, <1>2, <1>3, <1>4, Untouched DEF queueVars, masterVars
<1>6. At(<<"hand", n, 0>>, t) /\ At(<<"pool", n, off>>, t)'
    BY <1>2, <1>4 DEF At
<1>7. \A p : At(p, t)' => p = <<"pool", n, off>> \/ (p # <<"hand", n, 0>> /\ At(p, t))
    BY <1>1, <1>3, <1>4 DEF At, queueVars, masterVars
<1>8. Account' /\ Advance
    BY <1>1, <1>5, <1>6, <1>7, Moved DEF FlowInv, queueVars
<1> QED BY <1>1, <1>8 DEF FlowStep, FlowInv, Distinct, queueVars

\* The first message of a new node goes from the priority queue to a slot.
LEMMA ReceiveFirstKeeps == ASSUME FlowInv, NEW n \in Node, ReceiveFirst(n) PROVE FlowStep
<1> DEFINE i == IndexFor(priority, n)
<1>1. /\ pc[n] = "wait" /\ pc' = [pc EXCEPT ![n] = "drain"] /\ i > 0
      /\ PutInPool(n, priority[i].tx)
      /\ priority' = RemoveAt(priority, i)
      /\ UNCHANGED <<queue, rejected, mex, masterVars, histVars>>
    BY DEF ReceiveFirst, Goto
<1>2. /\ priority[i].tx \in Tx /\ Has(priority, priority[i].tx)
      /\ Distinct(priority')
      /\ \A u : Has(priority', u) <=> Has(priority, u) /\ priority[i].tx # u
    BY <1>1, PriorityLoses
<1> HIDE DEF i
<1>3. PICK t \in Tx : priority[i].tx = t
    BY <1>2
<1>4. Used(n) # Slot
  <2>1. Used(n) = {} /\ 0 \in Slot
    BY <1>1, SlotFacts DEF FlowInv, PoolInv, NewEmpty, Slot
  <2> QED BY <2>1
<1>5. PICK off \in Slot : \A m \in Node, j \in Slot : \A u \in Tx :
            InPool(m, j, u)' <=> InPool(m, j, u) \/ (m = n /\ j = off /\ u = t)
    BY <1>1, <1>3, <1>4, PoolGains DEF FlowInv
<1>6. \A u \in Tx \ {t} : \A p : At(p, u)' <=> At(p, u)
    BY <1>1, <1>2, <1>3, <1>5, Untouched DEF masterVars
<1>7. At(<<"priority", Master, 0>>, t) /\ At(<<"pool", n, off>>, t)'
    BY <1>2, <1>3, <1>5 DEF At
<1>8. \A p : At(p, t)' =>
            p = <<"pool", n, off>> \/ (p # <<"priority", Master, 0>> /\ At(p, t))
    BY <1>1, <1>2, <1>3, <1>5 DEF At, masterVars
<1>9. Account' /\ Advance
    BY <1>1, <1>6, <1>7, <1>8, Moved DEF FlowInv
<1> QED BY <1>1, <1>2, <1>9 DEF FlowStep, FlowInv, Distinct

\* The cron moves a transaction from a slot to the queue.
LEMMA CronSendKeeps == ASSUME FlowInv, NEW n \in Node, CronSend(n) PROVE FlowStep
<1> DEFINE i == find_tp_trans(n, idx_last_tp_used[n] + 1)
<1>1. /\ pc[n] = "cron" /\ pc' = [pc EXCEPT ![n] = "cronFree"] /\ trans_pool_size[n] > 0
      /\ \E m \in created : queue' = Append(queue,
                [tx |-> transaction_pool[n][i], to |-> m, hops |-> 1])
      /\ idx_last_tp_used' = [idx_last_tp_used EXCEPT ![n] = i]
      /\ UNCHANGED <<priority, rejected, mex, transaction_pool, clear_pos, masterVars,
                     histVars>>
    BY DEF CronSend, Goto
<1>2. i \in Slot /\ transaction_pool[n][i] \in Tx
    BY <1>1, CronTarget DEF FlowInv
<1> HIDE DEF i
<1>3. PICK t \in Tx : transaction_pool[n][i] = t
    BY <1>2
<1>4. Gone(n) = {} /\ Gone(n)' = {i} /\ \A m \in Node \ {n} : Gone(m)' = Gone(m)
  <2>1. /\ pc'[n] = "cronFree" /\ idx_last_tp_used'[n] = i
        /\ \A m \in Node \ {n} : pc'[m] = pc[m] /\ idx_last_tp_used'[m] = idx_last_tp_used[m]
    BY <1>1, <1>2 DEF FlowInv, PoolInv, TypeOK
  <2>2. Gone(n)' = {i}
    BY <2>1 DEF Gone
  <2> QED BY <1>1, <2>1, <2>2, GoneFacts
<1>5. /\ InPool(n, i, t)
      /\ \A m \in Node, j \in Slot : \A u \in Tx :
            InPool(m, j, u)' <=> InPool(m, j, u) /\ ~ (m = n /\ j = i)
    BY <1>1, <1>3, <1>4 DEF InPool
<1>6. At(<<"pool", n, i>>, t) /\ ~ Has(queue, t)
  <2>1. At(<<"pool", n, i>>, t)
    BY <1>2, <1>5 DEF At
  <2> QED BY <2>1, Elsewhere DEF FlowInv
<1>7. Distinct(queue') /\ \A u : Has(queue', u) <=> Has(queue, u) \/ t = u
  <2>1. PICK m \in Node : queue' = Append(queue, [tx |-> t, to |-> m, hops |-> 1])
    BY <1>1, <1>3 DEF FlowInv, PoolInv, TypeOK
  <2>2. 1 \in 0 .. Hops
    BY TxFlowAssumption
  <2> QED BY <1>6, <2>1, <2>2, QueueGains
<1>8. \A u \in Tx \ {t} : \A p : At(p, u)' <=> At(p, u)
  <2>1. \A u \in Tx \ {t} : ~ InPool(n, i, u)
    BY <1>3 DEF InPool
  <2> QED BY <1>1, <1>5, <1>7, <2>1, Untouched DEF masterVars
<1>9. At(<<"queue", Master, 0>>, t)'
    BY <1>7 DEF At
<1>10. \A p : At(p, t)' => p = <<"queue", Master, 0>> \/ (p # <<"pool", n, i>> /\ At(p, t))
    BY <1>1, <1>5, <1>7 DEF At, masterVars
<1>11. Account' /\ Advance
    BY <1>1, <1>6, <1>8, <1>9, <1>10, Moved DEF FlowInv
<1> QED BY <1>1, <1>7, <1>11 DEF FlowStep, FlowInv, Distinct

\* A failed cron refunds a transaction that stays in its slot.
LEMMA CronRefuseKeeps == ASSUME FlowInv, NEW n \in Node, CronRefuse(n) PROVE FlowStep
<1> DEFINE i == find_tp_trans(n, idx_last_tp_used[n] + 1)
<1>1. /\ pc[n] = "cron" /\ pc' = [pc EXCEPT ![n] = "block"] /\ trans_pool_size[n] > 0
      /\ Reject(transaction_pool[n][i])
      /\ cronRefused' = cronRefused \cup {transaction_pool[n][i]}
      /\ idx_last_tp_used' = [idx_last_tp_used EXCEPT ![n] = i]
      /\ UNCHANGED <<queue, priority, mex, transaction_pool, clear_pos, masterVars, sent,
                     ledger, refunded>>
    BY DEF CronRefuse, Goto
<1>2. i \in Slot /\ transaction_pool[n][i] \in Tx
    BY <1>1, CronTarget DEF FlowInv
<1> HIDE DEF i
<1>3. PICK t \in Tx : transaction_pool[n][i] = t
    BY <1>2
<1>4. \A m \in Node, j \in Slot : \A u : InPool(m, j, u)' <=> InPool(m, j, u)
  <2>1. \A m \in Node \ {n} : idx_last_tp_used'[m] = idx_last_tp_used[m]
    BY <1>1 DEF FlowInv, PoolInv, TypeOK
  <2> QED BY <1>1, <2>1, TurnLeavesPools DEF FlowInv
<1>5. Waits(t)
  <2>1. InPool(n, i, t)
    BY <1>1, <1>3, GoneFacts DEF InPool
  <2>2. At(<<"pool", n, i>>, t)
    BY <1>2, <2>1 DEF At
  <2> QED BY <2>2, AtPlace DEF Waits
<1>6. \A u \in Tx : \A p : At(p, u)' <=> At(p, u)
    BY <1>1, <1>4, Untouched DEF masterVars
<1>7. Refunding(t)
    BY <1>1, <1>3, RefundRecorded DEF FlowInv
<1>8. Account' /\ Advance
    BY <1>1, <1>3, <1>5, <1>6, <1>7, RefundedAlive DEF FlowInv
<1> QED BY <1>1, <1>8 DEF FlowStep, FlowInv, Distinct

\* A block publishes what is in its slots, each transaction once: two slots with
\* one transaction would be two places.
LEMMA PublishKeeps == ASSUME FlowInv, NEW n \in Node, Publish(n) PROVE FlowStep
<1> DEFINE Copies(t) == {k \in BlockPos : transaction_pool[n][clear_pos[n][k]] = t}
           B == {t \in Tx : Copies(t) # {}}
<1>1. /\ pc[n] = "publish" /\ pc' = [pc EXCEPT ![n] = "clear"]
      /\ ledger' = [t \in Tx |-> ledger[t] + Cardinality(Copies(t))]
      /\ UNCHANGED <<queueVars, mex, poolVars, masterVars, sent, refunded, dropped,
                     cronRefused>>
    BY DEF Publish, Goto
<1>2. /\ \A k \in BlockPos : clear_pos[n][k] \in Slot
      /\ \A j, k \in BlockPos : clear_pos[n][j] = clear_pos[n][k] => j = k
  <2>1. clear_pos[n] \in [BlockPos -> Slot] /\ IsInjective(clear_pos[n])
    BY <1>1 DEF FlowInv, PoolInv, TypeOK, BlockSlotsStay
  <2> QED BY <2>1 DEF IsInjective
<1>3. /\ Gone(n) = {} /\ Gone(n)' = {clear_pos[n][k] : k \in BlockPos}
      /\ \A m \in Node \ {n} : Gone(m)' = Gone(m)
  <2>1. pc'[n] = "clear" /\ \A m \in Node \ {n} : pc'[m] = pc[m]
    BY <1>1 DEF FlowInv, PoolInv, TypeOK
  <2>2. Gone(n)' = {clear_pos[n][k] : k \in BlockPos}
    BY <1>1, <2>1 DEF Gone, poolVars
  <2> QED BY <1>1, <2>1, <2>2, GoneFacts DEF poolVars
<1>4. \A m \in Node, i \in Slot : \A u :
            InPool(m, i, u)' <=> InPool(m, i, u) /\ ~ (m = n /\ i \in Gone(n)')
    BY <1>1, <1>3 DEF InPool, poolVars
<1>5. ASSUME NEW t \in Tx, NEW k \in Copies(t)
      PROVE  At(<<"pool", n, clear_pos[n][k]>>, t)
    BY <1>2, <1>3 DEF At, InPool
<1>6. ASSUME NEW t \in B
      PROVE  Waits(t) /\ ledger'[t] = 1 /\ \A p : ~ At(p, t)'
  <2>1. PICK k \in BlockPos : k \in Copies(t)
    OBVIOUS
  <2> DEFINE a == <<"pool", n, clear_pos[n][k]>>
  <2>2. At(a, t) /\ \A p : At(p, t) => p = a
    BY <1>5, <2>1, AtPlace DEF FlowInv, Account, OnePlace
  <2>3. Waits(t) /\ ledger[t] = 0
    BY <2>2, AtPlace DEF Waits, FlowInv, Account, Unpublished
  <2>4. Copies(t) = {k}
    <3>1. ASSUME NEW j \in Copies(t) PROVE j = k
      <4>1. <<"pool", n, clear_pos[n][j]>> = a
        BY <1>5, <2>2
      <4>2. clear_pos[n][j] = clear_pos[n][k]
        BY <4>1
      <4> QED BY <1>2, <4>2
    <3> QED BY <2>1, <3>1
  <2>5. ledger'[t] = 1
    <3>1. Cardinality(Copies(t)) = 1
        BY <2>4, FS_Singleton
    <3>2. ledger'[t] = ledger[t] + Cardinality(Copies(t))
        BY <1>1
    <3> QED BY <2>3, <3>1, <3>2
  <2>6. \A p : ~ At(p, t)'
    <3>1. \A p : At(p, t)' => At(p, t) /\ p # a
        BY <1>1, <1>3, <1>4 DEF At, queueVars, masterVars
    <3> QED BY <2>2, <3>1
  <2> QED BY <2>3, <2>5, <2>6
<1>7. ASSUME NEW u \in Tx \ B
      PROVE  ledger'[u] = ledger[u] /\ \A p : At(p, u)' <=> At(p, u)
  <2>1. Copies(u) = {}
    OBVIOUS
  <2>2. ledger'[u] = ledger[u]
    <3>1. ledger'[u] = ledger[u] + Cardinality(Copies(u))
        BY <1>1
    <3>2. ledger[u] \in Nat
        BY DEF FlowInv, PoolInv, TypeOK
    <3>3. Cardinality(Copies(u)) = 0
        BY <2>1, FS_EmptySet, Zenon
    <3> QED BY <3>1, <3>2, <3>3
  <2>3. \A i \in Slot : i \in Gone(n)' => ~ InPool(n, i, u)
    BY <1>3, <2>1 DEF InPool
  <2>4. \A m \in Node, i \in Slot : InPool(m, i, u)' <=> InPool(m, i, u)
    BY <1>4, <2>3
  <2>5. \A p : At(p, u)' <=> At(p, u)
    BY <1>1, <2>4, Untouched DEF queueVars, masterVars
  <2> QED BY <2>2, <2>5
<1>8. Cardinality(B) = BlockTx
  <2> DEFINE f == [k \in BlockPos |-> transaction_pool[n][clear_pos[n][k]]]
  <2>1. \A k \in BlockPos : f[k] \in Tx
    BY <1>1, <1>2 DEF FlowInv, PoolInv, BlockSlotsStay, TypeOK, Used
  <2>2. \A j, k \in BlockPos : f[j] = f[k] => j = k
    <3> SUFFICES ASSUME NEW j \in BlockPos, NEW k \in BlockPos, f[j] = f[k] PROVE j = k
        OBVIOUS
    <3>1. /\ At(<<"pool", n, clear_pos[n][j]>>, f[k])
          /\ At(<<"pool", n, clear_pos[n][k]>>, f[k])
        BY <1>5, <2>1
    <3>2. <<"pool", n, clear_pos[n][j]>> = <<"pool", n, clear_pos[n][k]>>
        BY <2>1, <3>1, AtPlace DEF FlowInv, Account, OnePlace
    <3>3. clear_pos[n][j] = clear_pos[n][k]
        BY <3>2
    <3> QED BY <1>2, <3>3
  <2>3. /\ f \in [BlockPos -> B]
        /\ \A t \in B : \E k \in BlockPos : f[k] = t
    BY <2>1
  <2>4. ExistsBijection(BlockPos, B)
    <3> HIDE DEF f, B
    <3> QED BY <2>2, <2>3, Fun_IsBij DEF ExistsBijection
  <2> HIDE DEF B
  <2> QED BY <2>4, BlockPosFinite, FS_Bijection
<1>9. Account' /\ Advance
  <2> HIDE DEF B
  <2>1. B \in SUBSET Tx
    BY DEF B
  <2>2. Quiet /\ UNCHANGED <<sent, cronRefused>>
    BY <1>1 DEF queueVars, Quiet, Promised
  <2>3. Cardinality(B) = BlockTx
    BY <1>8
  <2> QED BY <1>6, <1>7, <2>1, <2>2, <2>3, PublishedBlock DEF FlowInv
<1> QED BY <1>1, <1>9 DEF FlowStep, FlowInv, Distinct, queueVars

\* The master moves a transaction through its hand, or refunds it.
LEMMA MasterKeeps == ASSUME FlowInv, MasterStep \/ ForkFails PROVE FlowStep
<1>1. ASSUME TakeRequest PROVE FlowStep
  <2> DEFINE i == IndexFor(priority, Master)
  <2>1. /\ mpc = "poll" /\ i > 0 /\ mmex' = priority[i].tx /\ priority' = RemoveAt(priority, i)
        /\ UNCHANGED <<queue, rejected, pc, mex, poolVars, histVars>>
    BY <1>1 DEF TakeRequest
  <2>2. /\ priority[i].tx \in Tx /\ Has(priority, priority[i].tx)
        /\ Distinct(priority')
        /\ \A u : Has(priority', u) <=> Has(priority, u) /\ priority[i].tx # u
    BY <2>1, PriorityLoses
  <2> HIDE DEF i
  <2>3. PICK t \in Tx : priority[i].tx = t
    BY <2>2
  <2>4. mmex = NoTx /\ NoTx \notin Tx
    BY <2>1, TxFlowAssumption DEF FlowInv, PoolInv, HandFull
  <2>5. \A m \in Node, j \in Slot : \A u : InPool(m, j, u)' <=> InPool(m, j, u)
    BY <2>1, PoolsStill
  <2>6. \A u \in Tx \ {t} : \A p : At(p, u)' <=> At(p, u)
    BY <2>1, <2>2, <2>3, <2>4, <2>5, Untouched
  <2>7. At(<<"priority", Master, 0>>, t) /\ At(<<"master", Master, 0>>, t)'
    BY <2>1, <2>2, <2>3 DEF At
  <2>8. \A p : At(p, t)' =>
            p = <<"master", Master, 0>> \/ (p # <<"priority", Master, 0>> /\ At(p, t))
    BY <2>1, <2>2, <2>3, <2>5 DEF At
  <2>9. Account' /\ Advance
    BY <2>1, <2>6, <2>7, <2>8, Moved DEF FlowInv
  <2> QED BY <2>1, <2>2, <2>9 DEF FlowStep, FlowInv, Distinct
<1>2. ASSUME LimitReached \/ ForkFails \/ SendToNewFails PROVE FlowStep
  <2>1. /\ mpc # "poll" /\ mmex' = NoTx /\ Reject(mmex)
        /\ UNCHANGED <<queue, priority, pc, mex, poolVars, sent, ledger, refunded, cronRefused>>
    BY <1>2 DEF LimitReached, ForkFails, SendToNewFails
  <2>2. PICK t \in Tx : mmex = t
    BY <2>1 DEF FlowInv, PoolInv, TypeOK, HandFull
  <2>3. NoTx \notin Tx
    BY TxFlowAssumption
  <2>4. \A m \in Node, j \in Slot : \A u : InPool(m, j, u)' <=> InPool(m, j, u)
    BY <2>1, PoolsStill
  <2>5. \A u \in Tx \ {t} : \A p : At(p, u)' <=> At(p, u)
    BY <2>1, <2>2, <2>3, <2>4, Untouched
  <2>6. At(<<"master", Master, 0>>, t)
    BY <2>2 DEF At
  <2>7. \A p : At(p, t)' => p # <<"master", Master, 0>> /\ At(p, t)
    BY <2>1, <2>3, <2>4 DEF At
  <2>8. Refunding(t)
    BY <2>1, <2>2, RefundRecorded DEF FlowInv
  <2>9. Account' /\ Advance
    BY <2>1, <2>5, <2>6, <2>7, <2>8, Refunded DEF FlowInv
  <2> QED BY <2>1, <2>9 DEF FlowStep, FlowInv, Distinct
<1>3. ASSUME CreateNode PROVE FlowStep
  <2>1. PICK q \in Node : pc[q] = "off" /\ pc' = [pc EXCEPT ![q] = "wait"]
    BY <1>3 DEF CreateNode, Goto
  <2>2. UNCHANGED <<queueVars, mex, poolVars, mmex, histVars>>
    BY <1>3 DEF CreateNode
  <2>3. \A m \in Node, j \in Slot : \A u : InPool(m, j, u)' <=> InPool(m, j, u)
    BY <2>1, <2>2, TurnLeavesPools DEF FlowInv, poolVars
  <2>4. \A u \in Tx : \A p : At(p, u)' <=> At(p, u)
    BY <2>2, <2>3, Untouched DEF queueVars
  <2>5. Account' /\ Advance
    BY <2>2, <2>4, Stayed DEF FlowInv, queueVars, histVars, Quiet, Promised
  <2> QED BY <2>2, <2>5 DEF FlowStep, FlowInv, Distinct, queueVars
<1>4. ASSUME SendToNew PROVE FlowStep
  <2>1. /\ mpc = "send" /\ mmex' = NoTx
        /\ priority' = Append(priority, [tx |-> mmex, to |-> newNode])
        /\ UNCHANGED <<queue, rejected, pc, mex, poolVars, histVars>>
    BY <1>4 DEF SendToNew
  <2>2. PICK t \in Tx : mmex = t
    BY <2>1 DEF FlowInv, PoolInv, TypeOK, HandFull
  <2>3. NoTx \notin Tx /\ newNode \in Node \cup {Master}
    BY TxFlowAssumption DEF FlowInv, PoolInv, TypeOK
  <2>4. At(<<"master", Master, 0>>, t) /\ ~ Has(priority, t)
    <3>1. At(<<"master", Master, 0>>, t)
        BY <2>2 DEF At
    <3> QED BY <3>1, Elsewhere DEF FlowInv
  <2>5. Distinct(priority') /\ \A u : Has(priority', u) <=> Has(priority, u) \/ t = u
    BY <2>1, <2>2, <2>3, <2>4, PriorityGains
  <2>6. \A m \in Node, j \in Slot : \A u : InPool(m, j, u)' <=> InPool(m, j, u)
    BY <2>1, PoolsStill
  <2>7. \A u \in Tx \ {t} : \A p : At(p, u)' <=> At(p, u)
    BY <2>1, <2>2, <2>3, <2>5, <2>6, Untouched
  <2>8. At(<<"priority", Master, 0>>, t)'
    BY <2>5 DEF At
  <2>9. \A p : At(p, t)' =>
            p = <<"priority", Master, 0>> \/ (p # <<"master", Master, 0>> /\ At(p, t))
    BY <2>1, <2>3, <2>5, <2>6 DEF At
  <2>10. Account' /\ Advance
    BY <2>1, <2>4, <2>7, <2>8, <2>9, Moved DEF FlowInv
  <2> QED BY <2>1, <2>5, <2>10 DEF FlowStep, FlowInv, Distinct
<1> QED BY <1>1, <1>2, <1>3, <1>4 DEF MasterStep

-----------------------------------------------------------------------------
\* FlowInv is inductive, and every step is an Advance.
LEMMA NextFlow == FlowInv /\ [Next]_vars => FlowInv' /\ Advance
<1> SUFFICES ASSUME FlowInv, [Next]_vars PROVE FlowInv' /\ Advance
    OBVIOUS
<1>1. PoolInv'
    BY NextPool DEF FlowInv
<1>2. CASE UNCHANGED vars
  <2>1. \A m \in Node, i \in Slot : \A u : InPool(m, i, u)' <=> InPool(m, i, u)
    BY <1>2, PoolsStill DEF vars
  <2>2. \A u \in Tx : \A p : At(p, u)' <=> At(p, u)
    BY <1>2, <2>1, Untouched DEF vars, queueVars, masterVars
  <2>3. Account' /\ Advance
    BY <1>2, <2>2, Stayed DEF FlowInv, vars, queueVars, histVars, Quiet, Promised
  <2> QED BY <1>1, <1>2, <2>3 DEF FlowInv, Distinct, vars, queueVars
<1>3. CASE Next
  <2>1. FlowStep
    BY <1>3, SendKeeps, CollectKeeps, ReceiveKeeps, QuietKeeps, HandKeeps, DepositKeeps,
        ReceiveFirstKeeps, CronSendKeeps, CronRefuseKeeps, PublishKeeps, MasterKeeps
        DEF Next, NodeStep
  <2> QED BY <1>1, <2>1 DEF FlowInv, FlowStep
<1> QED BY <1>2, <1>3

\* Every reachable state satisfies FlowInv.
THEOREM FlowInvariant == Spec => []FlowInv
BY InitFlow, NextFlow, PTL DEF Spec

\* Places of TxFlow, which count queue positions, are the places of At.
LEMMA PlacesAt ==
    ASSUME FlowInv, NEW t \in Tx
    PROVE  /\ Places(t) # {} <=> Waits(t)
           /\ \A x, y \in Places(t) : x = y
<1> DEFINE Q == {<<"queue", i>> : i \in {j \in DOMAIN queue : queue[j].tx = t}}
           R == {<<"priority", i>> : i \in {j \in DOMAIN priority : priority[j].tx = t}}
           H == {<<"hand", n>> : n \in {m \in Node : mex[m].tx = t}}
           L == UNION {{<<n, i>> : i \in {j \in Slot \ Gone(n) : transaction_pool[n][j] = t}}
                            : n \in Node}
           M == IF mmex = t THEN {<<"master">>} ELSE {}
<1>1. Places(t) = Q \cup R \cup H \cup L \cup M
    BY DEF Places
<1>2. /\ DOMAIN queue = 1 .. Len(queue) /\ DOMAIN priority = 1 .. Len(priority)
      /\ Distinct(queue) /\ Distinct(priority)
  <2>1. /\ queue \in Seq([tx : Tx, to : Node, hops : 0 .. Hops])
        /\ priority \in Seq([tx : Tx, to : Node \cup {Master}])
    BY Typed DEF FlowInv
  <2> QED BY <2>1 DEF FlowInv
<1>3. \A p, q : At(p, t) /\ At(q, t) => p = q
    BY AtPlace DEF FlowInv, Account, OnePlace
<1>4. \A x \in Q : At(<<"queue", Master, 0>>, t) /\ \A y \in Q : x = y
    BY <1>2 DEF At, Has, Distinct
<1>5. \A x \in R : At(<<"priority", Master, 0>>, t) /\ \A y \in R : x = y
    BY <1>2 DEF At, Has, Distinct
<1>6. \A x \in H : \E n \in Node : x = <<"hand", n>> /\ At(<<"hand", n, 0>>, t)
    BY DEF At
<1>7. \A x \in L : \E n \in Node, i \in Slot : x = <<n, i>> /\ At(<<"pool", n, i>>, t)
    BY DEF At, InPool
<1>8. \A x \in M : x = <<"master">> /\ At(<<"master", Master, 0>>, t)
    BY DEF At
<1>9. Waits(t) => Q \cup R \cup H \cup L \cup M # {}
  <2> SUFFICES ASSUME NEW p, At(p, t) PROVE Q \cup R \cup H \cup L \cup M # {}
    BY DEF Waits
  <2>1. Has(queue, t) => Q # {}
    BY <1>2 DEF Has
  <2>2. Has(priority, t) => R # {}
    BY <1>2 DEF Has
  <2>3. \A n \in Node : mex[n].tx = t => H # {}
    OBVIOUS
  <2>4. \A n \in Node, i \in Slot : InPool(n, i, t) => <<n, i>> \in L
    BY DEF InPool
  <2>5. mmex = t => M # {}
    OBVIOUS
  <2> HIDE DEF Q, R, H, L, M
  <2> QED BY <2>1, <2>2, <2>3, <2>4, <2>5 DEF At
<1> HIDE DEF Q, R, H, L, M
<1>10. Q \cup R \cup H \cup L \cup M # {} => Waits(t)
    BY <1>4, <1>5, <1>6, <1>7, <1>8, AtPlace DEF Waits
<1>11. \A x, y \in H : x = y
    BY <1>3, <1>6
<1>12. \A x, y \in L : x = y
    BY <1>3, <1>7
<1>13. \A x, y \in Q \cup R \cup H \cup L \cup M : x = y
    BY <1>3, <1>4, <1>5, <1>6, <1>7, <1>8, <1>11, <1>12
<1> QED BY <1>1, <1>9, <1>10, <1>13

\* A transaction waits in one place at most, however users, nodes and master
\* interleave.
THEOREM OneCopy == Spec => []SingleCopy
<1>1. FlowInv => SingleCopy
  <2> SUFFICES ASSUME FlowInv, NEW t \in Tx PROVE Cardinality(Places(t)) <= 1
    BY DEF SingleCopy
  <2>1. CASE Places(t) = {}
    BY <2>1, FS_EmptySet
  <2>2. CASE Places(t) # {}
    <3>1. PICK x \in Places(t) : \A y \in Places(t) : x = y
        BY <2>2, PlacesAt
    <3>2. Places(t) = {x}
        BY <3>1
    <3>3. Cardinality(Places(t)) = 1
        BY <3>2, FS_Singleton
    <3> QED BY <3>3
  <2> QED BY <2>1, <2>2
<1> QED BY <1>1, FlowInvariant, PTL

\* No transaction is written twice to the ledger.
THEOREM OncePublished == Spec => []PublishedOnce
<1>1. FlowInv => PublishedOnce
    BY DEF FlowInv, Account
<1> QED BY <1>1, FlowInvariant, PTL

\* A transaction that was sent waits somewhere or was settled: no interleaving of
\* queues, pools, hops, cron and new nodes loses one.
THEOREM NothingLost == Spec => []NothingVanishes
<1>1. FlowInv => NothingVanishes
  <2> SUFFICES ASSUME FlowInv, NEW t \in sent PROVE Places(t) # {} \/ Settled(t)
    BY DEF NothingVanishes
  <2>1. t \in Tx
    BY DEF FlowInv, PoolInv, TypeOK
  <2> QED BY <2>1, PlacesAt DEF FlowInv, Account, Kept, Settled, Refunds
<1> QED BY <1>1, FlowInvariant, PTL

\* A transaction that was refunded neither waits nor is published, unless the
\* cron refunded it (node.c:279-291).
THEOREM OnlyCronRefunds == Spec => []OnlyCronRefundsTheLiving
<1>1. FlowInv => OnlyCronRefundsTheLiving
    BY PlacesAt DEF FlowInv, Account, CronOnly, Refunds, OnlyCronRefundsTheLiving
<1> QED BY <1>1, FlowInvariant, PTL

-----------------------------------------------------------------------------
(***************************************************************************)
(* TxFlow implements TxLife.                                               *)
(***************************************************************************)

\* The stage of a transaction is its phase.
LEMMA StageIsPhase == FlowInv => \A t \in Tx : Stage(t) = Phase(t)
<1> SUFFICES ASSUME FlowInv, NEW t \in Tx PROVE Stage(t) = Phase(t)
    OBVIOUS
<1>1. Places(t) # {} <=> Waits(t)
    BY PlacesAt
<1> QED BY <1>1 DEF Stage, Phase

\* A step that changes phases as Advance says is a step of TxLife.
LEMMA AdvanceIsLife ==
    ASSUME Advance, \A t \in Tx : Stage(t) = Phase(t) /\ Stage(t)' = Phase(t)'
    PROVE  [Life!Next]_Life!vars
<1> DEFINE st == [t \in Tx |-> Stage(t)]
<1>1. \A t \in Tx : st[t] = Phase(t) /\ st'[t] = Phase(t)'
    OBVIOUS
<1>2. st = [t \in Tx |-> st[t]] /\ st' = [t \in Tx |-> st'[t]]
    OBVIOUS
<1>3. ASSUME Still PROVE st' = st
    BY <1>1, <1>3 DEF Still
<1>4. ASSUME NEW t \in Tx, NEW a, NEW b, Turns(t, a, b)
      PROVE  st[t] = a /\ st' = [st EXCEPT ![t] = b]
  <2>1. st[t] = a /\ st'[t] = b /\ \A u \in Tx \ {t} : st'[u] = st[u]
    BY <1>1, <1>4 DEF Turns
  <2> HIDE DEF st
  <2> QED BY <1>2, <2>1
<1> QED
  <2>1. CASE Still /\ (Quiet \/ Paying)
    <3>1. CASE Quiet
        BY <1>3, <2>1, <3>1 DEF Quiet, Life!vars
    <3>2. CASE Paying
        BY <1>3, <2>1, <3>2 DEF Paying, Life!Next, Life!Pay
    <3> QED BY <2>1, <3>1, <3>2
  <2>2. ASSUME NEW t \in Tx, Turns(t, "new", "waiting"), Quiet PROVE Life!Next
    BY <1>4, <2>2 DEF Quiet, Life!Next, Life!Send
  <2>3. ASSUME NEW t \in Tx, Turns(t, "waiting", "refused"), Refunding(t) PROVE Life!Next
    BY <1>4, <2>3 DEF Refunding, Life!Next, Life!Refuse
  <2>4. ASSUME NEW t \in Tx, Phase(t) = "waiting", Still, Refunding(t) PROVE Life!Next
    BY <1>1, <1>3, <2>4 DEF Refunding, Life!Next, Life!RefundWaiting
  <2>5. ASSUME NEW B \in SUBSET Tx, Cardinality(B) = BlockTx, Quiet,
               \A t \in B : Phase(t) = "waiting" /\ Phase(t)' = "published",
               \A u \in Tx \ B : Phase(u)' = Phase(u)
        PROVE  Life!Next
    <3>1. \A t \in B : st[t] = "waiting"
        BY <1>1, <2>5
    <3>2. st' = [t \in Tx |-> IF t \in B THEN "published" ELSE st[t]]
        BY <1>1, <1>2, <2>5
    <3>3. UNCHANGED <<Promised, dropped, refunded>>
        BY <2>5 DEF Quiet
    <3>4. Life!Cardinality(B) = BlockTx
        BY <2>5 DEF Life!Cardinality, Cardinality
    <3>5. Life!Publish(B)
        BY <3>1, <3>2, <3>3, <3>4 DEF Life!Publish
    <3> QED BY <3>5 DEF Life!Next
  <2> QED BY <2>1, <2>2, <2>3, <2>4, <2>5 DEF Advance

\* Whatever way transactions go through queues, pools and nodes, the users see
\* TxLife: TxFlow implements it.
THEOREM FlowImplementsLife == Spec => LifeSpec
<1>1. Init => Life!Init
  <2> SUFFICES ASSUME Init PROVE Life!Init
    OBVIOUS
  <2>1. \A t \in Tx : Stage(t) = "new"
    BY DEF Init, Stage
  <2>2. Promised = {} /\ dropped = {} /\ refunded = {}
    BY DEF Init, Promised, ToSet
  <2> QED BY <2>1, <2>2 DEF Life!Init
<1>2. (FlowInv => \A t \in Tx : Stage(t) = Phase(t))'
    BY StageIsPhase, PTL
<1>3. FlowInv /\ [Next]_vars => [Life!Next]_Life!vars
    BY <1>2, NextFlow, StageIsPhase, AdvanceIsLife
<1> QED BY <1>1, <1>3, FlowInvariant, PTL DEF Spec, LifeSpec, Life!Spec

=============================================================================
