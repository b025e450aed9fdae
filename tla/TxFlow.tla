------------------------------- MODULE TxFlow -------------------------------
(***************************************************************************)
(* The way of a transaction from the user that sends it to the block or    *)
(* the refund that settles it: the message queue between users and nodes,  *)
(* the transaction pool of each node (node.c, lines 215-341), the hops     *)
(* between nodes, the priority queue to the master and the nodes the       *)
(* master creates (main.c, lines 217-293), and the queue of rejected       *)
(* transactions read by the users.                                         *)
(*                                                                         *)
(* Abstracted: who is friend of whom (a message may go to any started      *)
(* node), amounts, and the choice among several user queues (there is one  *)
(* for each 200 users).  What happens to a block once its transactions are *)
(* chosen is module Ledger; here it is one step, of a ledger that is not   *)
(* full, while no process is terminated.                                   *)
(***************************************************************************)
EXTENDS Integers, SequencesExt

CONSTANTS
    Tx,         \* transactions the users will generate
    First,      \* the SO_NODES_NUM nodes of the start
    Spare,      \* the nodes the master may add: max_nodes - SO_NODES_NUM
    Master,     \* destination of the requests for a new node
    NoTx,       \* an unused slot, an empty hand
    TpSize,     \* SO_TP_SIZE
    BlockTx,    \* SO_BLOCK_SIZE - 1
    Hops,       \* SO_HOPS
    QCap,       \* bound: messages the user queue holds
    PCap,       \* bound: messages the priority queue holds
    RCap        \* bound: messages the rejected queue holds

Node == First \cup Spare
Slot == 0 .. TpSize - 1
BlockPos == 0 .. BlockTx - 1

ASSUME TxFlowAssumption ==
    /\ BlockTx \in Nat \ {0} /\ TpSize \in Nat \ {0}
    /\ Hops \in Nat \ {0}   \* with SO_HOPS = 0 the cron sends copies to the master
    /\ QCap \in Nat \ {0} /\ PCap \in Nat \ {0} /\ RCap \in Nat \ {0}
    /\ First \cap Spare = {}
    /\ Master \notin Node
    /\ NoTx \notin Tx

VARIABLES
    queue,          \* MSG_KEY: messages [tx, to, hops] between users and nodes
    priority,       \* MSG_PRIORITY_KEY: messages [tx, to] to the master or a new node
    rejected,       \* MSG_REJECTED_KEY: transactions to refund
    pc, mex,        \* control of each node and the message in its hands
    transaction_pool, trans_pool_size, idx_last_tp_used, clear_pos,
    created,        \* nodes[] of the master
    mpc, mmex, newNode,     \* the master's control, transaction and new node
    badFriend,      \* a failed fork has spread -1 among the friends
    sent, ledger, refunded, dropped, cronRefused    \* history of transactions

queueVars  == <<queue, priority, rejected>>
poolVars   == <<transaction_pool, trans_pool_size, idx_last_tp_used, clear_pos>>
masterVars == <<created, mpc, mmex, newNode, badFriend>>
histVars   == <<sent, ledger, refunded, dropped, cronRefused>>
vars       == <<queueVars, pc, mex, poolVars, masterVars, histVars>>

NoMsg == [tx |-> NoTx, hops |-> 0]

Used(n) == {i \in Slot : transaction_pool[n][i] # NoTx}

(***************************************************************************)
(* find_tp_trans: the first used slot at or after off, circularly.         *)
(***************************************************************************)
find_tp_trans(n, off) ==
    LET ahead == {d \in Slot : (off + d) % TpSize \in Used(n)}
    IN  IF ahead = {} THEN -1 ELSE (off + Min(ahead)) % TpSize

CollectedFromLast(n) ==    \* Mutant: idx_last_tp_used is not moved in the loop
    [k \in BlockPos |-> find_tp_trans(n, idx_last_tp_used[n] + 1)]

\* The slots create_block collects, each found from the one before it.
Collected(n) ==
    LET at[k \in BlockPos] ==
            find_tp_trans(n, (IF k = 0 THEN idx_last_tp_used[n] ELSE at[k - 1]) + 1)
    IN  at

\* Messages are received by type: the oldest one for this process.
IndexFor(q, p) == SelectInSeq(q, LAMBDA m : m.to = p)

Goto(n, from, to) ==
    /\ pc[n] = from
    /\ pc' = [pc EXCEPT ![n] = to]

(***************************************************************************)
(* send_rejected_trans, and the same lines of the master: a refund is sent *)
(* without waiting and the result is ignored.                              *)
(***************************************************************************)
Reject(t) ==
    IF Len(rejected) < RCap
    THEN rejected' = Append(rejected, t) /\ UNCHANGED dropped
    ELSE dropped' = dropped \cup {t} /\ UNCHANGED rejected

-----------------------------------------------------------------------------
Init ==
    /\ queue = <<>> /\ priority = <<>> /\ rejected = <<>>
    /\ pc = [n \in Node |-> IF n \in First THEN "drain" ELSE "off"]
    /\ mex = [n \in Node |-> NoMsg]
    /\ transaction_pool = [n \in Node |-> [i \in Slot |-> NoTx]]
    /\ trans_pool_size = [n \in Node |-> 0]
    /\ idx_last_tp_used = [n \in Node |-> -1]
    /\ clear_pos = [n \in Node |-> [k \in BlockPos |-> 0]]
    /\ created = First
    /\ mpc = "poll" /\ mmex = NoTx /\ newNode = Master
    /\ badFriend = FALSE
    /\ sent = {} /\ refunded = {} /\ dropped = {} /\ cronRefused = {}
    /\ ledger = [t \in Tx |-> 0]

-----------------------------------------------------------------------------
(***************************************************************************)
(* Users.                                                                  *)
(***************************************************************************)

\* user_send_transaction; when the queue is full the user keeps the money.
Send(t) ==
    /\ t \notin sent
    /\ Len(queue) < QCap
    /\ \E n \in created : queue' = Append(queue, [tx |-> t, to |-> n, hops |-> 0])
    /\ sent' = sent \cup {t}
    /\ UNCHANGED <<priority, rejected, pc, mex, poolVars, masterVars, ledger,
                   refunded, dropped, cronRefused>>

\* A user reads a refund of its own; users read in any order.
Collect ==
    /\ \E i \in DOMAIN rejected :
          /\ refunded' = refunded \cup {rejected[i]}
          /\ rejected' = RemoveAt(rejected, i)
    /\ UNCHANGED <<queue, priority, pc, mex, poolVars, masterVars, sent, ledger,
                   dropped, cronRefused>>

-----------------------------------------------------------------------------
(***************************************************************************)
(* A node empties its queue.                                               *)
(***************************************************************************)
Receive(n) ==
    LET i == IndexFor(queue, n) IN
    /\ Goto(n, "drain", "held")
    /\ i > 0
    /\ mex' = [mex EXCEPT ![n] = [tx |-> queue[i].tx, hops |-> queue[i].hops]]
    /\ queue' = RemoveAt(queue, i)
    /\ UNCHANGED <<priority, rejected, poolVars, masterVars, histVars>>

StopDrainEarly(n) ==    \* Mutant: the loop may stop with a message waiting
    /\ Goto(n, "drain", "cron")
    /\ UNCHANGED <<queueVars, mex, poolVars, masterVars, histVars>>

StopDrain(n) ==
    /\ IndexFor(queue, n) = 0
    /\ Goto(n, "drain", "cron")
    /\ UNCHANGED <<queueVars, mex, poolVars, masterVars, histVars>>

\* msg_pool_deposit has room: the first free slot takes the transaction.
HasRoom(n) == trans_pool_size[n] < TpSize /\ Used(n) # Slot

PutUncounted(n, t) ==    \* Mutant: increment_tp is missing when slot 0 is taken
    LET off == Min(Slot \ Used(n)) IN
    /\ transaction_pool' = [transaction_pool EXCEPT ![n][off] = t]
    /\ trans_pool_size' = [trans_pool_size EXCEPT ![n] = IF off = 0 THEN @ ELSE @ + 1]
    /\ UNCHANGED <<idx_last_tp_used, clear_pos>>

PutInPool(n, t) ==
    /\ transaction_pool' = [transaction_pool EXCEPT ![n][Min(Slot \ Used(n))] = t]
    /\ trans_pool_size' = [trans_pool_size EXCEPT ![n] = @ + 1]
    /\ UNCHANGED <<idx_last_tp_used, clear_pos>>

Deposit(n) ==
    /\ Goto(n, "held", "drain")
    /\ HasRoom(n)
    /\ PutInPool(n, mex[n].tx)
    /\ mex' = [mex EXCEPT ![n] = NoMsg]
    /\ UNCHANGED <<queueVars, masterVars, histVars>>

\* send_friend_trans succeeds: a friend, one hop more.
ForwardUnlimited(n) ==    \* Mutant: the hop limit is tested after one hop too many
    /\ Goto(n, "held", "drain")
    /\ ~HasRoom(n) /\ mex[n].hops <= Hops /\ Len(queue) < QCap
    /\ \E m \in created : queue' = Append(queue,
            [tx |-> mex[n].tx, to |-> m, hops |-> mex[n].hops + 1])
    /\ mex' = [mex EXCEPT ![n] = NoMsg]
    /\ UNCHANGED <<priority, rejected, poolVars, masterVars, histVars>>

Forward(n) ==
    /\ Goto(n, "held", "drain")
    /\ ~HasRoom(n) /\ mex[n].hops < Hops /\ Len(queue) < QCap
    /\ \E m \in created : queue' = Append(queue,
            [tx |-> mex[n].tx, to |-> m, hops |-> mex[n].hops + 1])
    /\ mex' = [mex EXCEPT ![n] = NoMsg]
    /\ UNCHANGED <<priority, rejected, poolVars, masterVars, histVars>>

\* send_friend_trans fails, queue full or friend -1: the sender is refunded.
Refuse(n) ==
    /\ Goto(n, "held", "drain")
    /\ ~HasRoom(n) /\ mex[n].hops < Hops
    /\ Len(queue) = QCap \/ badFriend
    /\ Reject(mex[n].tx)
    /\ mex' = [mex EXCEPT ![n] = NoMsg]
    /\ UNCHANGED <<queue, priority, poolVars, masterVars, sent, ledger, refunded,
                   cronRefused>>

\* send_message_to_master: SO_HOPS reached; waits while the queue is full.
Escalate(n) ==
    /\ Goto(n, "held", "drain")
    /\ ~HasRoom(n) /\ mex[n].hops >= Hops
    /\ Len(priority) < PCap
    /\ priority' = Append(priority, [tx |-> mex[n].tx, to |-> Master])
    /\ mex' = [mex EXCEPT ![n] = NoMsg]
    /\ UNCHANGED <<queue, rejected, poolVars, masterVars, histVars>>

-----------------------------------------------------------------------------
(***************************************************************************)
(* The cron of the node: one pooled transaction moves to a friend.         *)
(***************************************************************************)
CronNothing(n) ==
    /\ trans_pool_size[n] = 0
    /\ Goto(n, "cron", "block")
    /\ UNCHANGED <<queueVars, mex, poolVars, masterVars, histVars>>

CronSend(n) ==
    LET i == find_tp_trans(n, idx_last_tp_used[n] + 1) IN
    /\ Goto(n, "cron", "cronFree")
    /\ trans_pool_size[n] > 0 /\ Len(queue) < QCap
    /\ \E m \in created : queue' = Append(queue,
            [tx |-> transaction_pool[n][i], to |-> m, hops |-> 1])
    /\ idx_last_tp_used' = [idx_last_tp_used EXCEPT ![n] = i]
    /\ UNCHANGED <<priority, rejected, mex, transaction_pool, trans_pool_size,
                   clear_pos, masterVars, histVars>>

\* The friend has it: the slot is freed.
CronKeep(n) ==    \* Mutant: is_used is not reset
    /\ Goto(n, "cronFree", "block")
    /\ UNCHANGED <<queueVars, mex, poolVars, masterVars, histVars>>

CronFree(n) ==
    /\ Goto(n, "cronFree", "block")
    /\ transaction_pool' = [transaction_pool EXCEPT ![n][idx_last_tp_used[n]] = NoTx]
    /\ trans_pool_size' = [trans_pool_size EXCEPT ![n] = @ - 1]
    /\ UNCHANGED <<queueVars, mex, idx_last_tp_used, clear_pos, masterVars, histVars>>

\* The send failed: the sender is refunded and the transaction stays pooled.
CronRefuse(n) ==
    LET i == find_tp_trans(n, idx_last_tp_used[n] + 1) IN
    /\ Goto(n, "cron", "block")
    /\ trans_pool_size[n] > 0
    /\ Len(queue) = QCap \/ badFriend
    /\ Reject(transaction_pool[n][i])
    /\ cronRefused' = cronRefused \cup {transaction_pool[n][i]}
    /\ idx_last_tp_used' = [idx_last_tp_used EXCEPT ![n] = i]
    /\ UNCHANGED <<queue, priority, mex, transaction_pool, trans_pool_size,
                   clear_pos, masterVars, sent, ledger, refunded>>

-----------------------------------------------------------------------------
(***************************************************************************)
(* The life cycle of a block, as far as the pool is concerned.             *)
(***************************************************************************)
SkipBlock(n) ==
    /\ trans_pool_size[n] < BlockTx
    /\ Goto(n, "block", "drain")
    /\ UNCHANGED <<queueVars, mex, poolVars, masterVars, histVars>>

\* create_block: positions are remembered in clear_pos for clear_block.
CreateBlock(n) ==
    /\ trans_pool_size[n] >= BlockTx
    /\ Goto(n, "block", "publish")
    /\ clear_pos' = [clear_pos EXCEPT ![n] = Collected(n)]
    /\ idx_last_tp_used' = [idx_last_tp_used EXCEPT ![n] = Collected(n)[BlockTx - 1]]
    /\ UNCHANGED <<queueVars, mex, transaction_pool, trans_pool_size, masterVars,
                   histVars>>

\* add_block copies the transactions through the pointers into the pool.
Publish(n) ==
    /\ Goto(n, "publish", "clear")
    /\ ledger' = [t \in Tx |-> ledger[t] +
            Cardinality({k \in BlockPos : transaction_pool[n][clear_pos[n][k]] = t})]
    /\ UNCHANGED <<queueVars, mex, poolVars, masterVars, sent, refunded, dropped,
                   cronRefused>>

ClearForgotten(n) ==    \* Mutant: the elaboration ends without clear_block
    /\ Goto(n, "clear", "drain")
    /\ UNCHANGED <<queueVars, mex, poolVars, masterVars, histVars>>

ClearBlock(n) ==
    /\ Goto(n, "clear", "drain")
    /\ transaction_pool' = [transaction_pool EXCEPT ![n] =
            [i \in Slot |-> IF \E k \in BlockPos : clear_pos[n][k] = i THEN NoTx ELSE @[i]]]
    /\ trans_pool_size' = [trans_pool_size EXCEPT ![n] = @ - BlockTx]
    /\ UNCHANGED <<queueVars, mex, idx_last_tp_used, clear_pos, masterVars, histVars>>

-----------------------------------------------------------------------------
(***************************************************************************)
(* The master and the nodes it adds.                                       *)
(***************************************************************************)
PollWhileRoom ==    \* Mutant: requests are read only while nodes can be added
    LET i == IndexFor(priority, Master) IN
    /\ mpc = "poll" /\ i > 0 /\ created # Node
    /\ mpc' = "limit"
    /\ mmex' = priority[i].tx
    /\ priority' = RemoveAt(priority, i)
    /\ UNCHANGED <<queue, rejected, pc, mex, poolVars, created, newNode, badFriend,
                   histVars>>

TakeRequest ==
    LET i == IndexFor(priority, Master) IN
    /\ mpc = "poll" /\ i > 0
    /\ mpc' = "limit"
    /\ mmex' = priority[i].tx
    /\ priority' = RemoveAt(priority, i)
    /\ UNCHANGED <<queue, rejected, pc, mex, poolVars, created, newNode, badFriend,
                   histVars>>

\* max_nodes reached: refund.
LimitForgotten ==    \* Mutant: send_to_rej is not set at the limit
    /\ mpc = "limit" /\ created = Node
    /\ mpc' = "poll" /\ mmex' = NoTx
    /\ UNCHANGED <<queueVars, pc, mex, poolVars, created, newNode, badFriend, histVars>>

LimitReached ==
    /\ mpc = "limit" /\ created = Node
    /\ mpc' = "poll" /\ mmex' = NoTx
    /\ Reject(mmex)
    /\ UNCHANGED <<queue, priority, pc, mex, poolVars, created, newNode, badFriend,
                   sent, ledger, refunded, cronRefused>>

\* fork fails: p = -1 goes to the friends of chance receivers; refund.
ForkFails ==
    /\ mpc = "limit" /\ created # Node
    /\ mpc' = "poll" /\ mmex' = NoTx
    /\ badFriend' = TRUE
    /\ Reject(mmex)
    /\ UNCHANGED <<queue, priority, pc, mex, poolVars, created, newNode, sent,
                   ledger, refunded, cronRefused>>

CreateNode ==
    /\ mpc = "limit"
    /\ \E p \in Node \ created :
          /\ created' = created \cup {p}
          /\ newNode' = p
          /\ Goto(p, "off", "wait")
    /\ mpc' = "send"
    /\ UNCHANGED <<queueVars, mex, poolVars, mmex, badFriend, histVars>>

\* The request goes to the new node with its hops reset, if there is room.
SendToNewAndRefund ==    \* Mutant: send_to_rej is not reset
    /\ mpc = "send" /\ Len(priority) < PCap
    /\ priority' = Append(priority, [tx |-> mmex, to |-> newNode])
    /\ mpc' = "poll" /\ mmex' = NoTx
    /\ Reject(mmex)
    /\ UNCHANGED <<queue, pc, mex, poolVars, created, newNode, badFriend, sent,
                   ledger, refunded, cronRefused>>

SendToNew ==
    /\ mpc = "send" /\ Len(priority) < PCap
    /\ priority' = Append(priority, [tx |-> mmex, to |-> newNode])
    /\ mpc' = "poll" /\ mmex' = NoTx
    /\ UNCHANGED <<queue, rejected, pc, mex, poolVars, created, newNode, badFriend,
                   histVars>>

\* No room: refund, and the new node waits for a message no one will send.
SendToNewFails ==
    /\ mpc = "send" /\ Len(priority) = PCap
    /\ mpc' = "poll" /\ mmex' = NoTx
    /\ Reject(mmex)
    /\ UNCHANGED <<queue, priority, pc, mex, poolVars, created, newNode, badFriend,
                   sent, ledger, refunded, cronRefused>>

\* A new node's first message comes from the priority queue (first == 0).
ReceiveFirst(n) ==
    LET i == IndexFor(priority, n) IN
    /\ Goto(n, "wait", "drain")
    /\ i > 0
    /\ PutInPool(n, priority[i].tx)
    /\ priority' = RemoveAt(priority, i)
    /\ UNCHANGED <<queue, rejected, mex, masterVars, histVars>>

-----------------------------------------------------------------------------
NodeStep(n) ==
    \/ ReceiveFirst(n) \/ Receive(n) \/ StopDrain(n) \/ Deposit(n) \/ Forward(n)
    \/ Refuse(n) \/ Escalate(n) \/ CronNothing(n) \/ CronSend(n) \/ CronFree(n)
    \/ CronRefuse(n) \/ SkipBlock(n) \/ CreateBlock(n) \/ Publish(n) \/ ClearBlock(n)

MasterStep ==
    TakeRequest \/ LimitReached \/ CreateNode \/ SendToNew \/ SendToNewFails

Next ==
    \/ \E t \in Tx : Send(t)
    \/ Collect
    \/ \E n \in Node : NodeStep(n)
    \/ MasterStep \/ ForkFails

Spec == Init /\ [][Next]_vars

\* Every process that can run runs.
FairSpec ==
    /\ Spec
    /\ WF_vars(Collect)
    /\ WF_vars(MasterStep)
    /\ \A n \in Node : WF_vars(NodeStep(n))

-----------------------------------------------------------------------------
NodePc == {"off", "wait", "drain", "held", "cron", "cronFree", "block",
           "publish", "clear"}

TypeOK ==
    /\ queue \in Seq([tx : Tx, to : Node, hops : 0 .. Hops]) /\ Len(queue) <= QCap
    /\ priority \in Seq([tx : Tx, to : Node \cup {Master}]) /\ Len(priority) <= PCap
    /\ rejected \in Seq(Tx) /\ Len(rejected) <= RCap
    /\ pc \in [Node -> NodePc]
    /\ mex \in [Node -> [tx : Tx \cup {NoTx}, hops : 0 .. Hops]]
    /\ transaction_pool \in [Node -> [Slot -> Tx \cup {NoTx}]]
    /\ trans_pool_size \in [Node -> 0 .. TpSize]
    /\ idx_last_tp_used \in [Node -> Slot \cup {-1}]
    /\ clear_pos \in [Node -> [BlockPos -> Slot]]
    /\ created \subseteq Node /\ First \subseteq created
    /\ mpc \in {"poll", "limit", "send"}
    /\ mmex \in Tx \cup {NoTx}
    /\ newNode \in Node \cup {Master}
    /\ badFriend \in BOOLEAN
    /\ ledger \in [Tx -> Nat]
    /\ {sent, refunded, dropped, cronRefused} \subseteq SUBSET Tx

\* The slots whose transaction has just left the pool for a queue or a block.
Gone(n) ==
    CASE pc[n] = "cronFree" -> {idx_last_tp_used[n]}
      [] pc[n] = "clear"    -> {clear_pos[n][k] : k \in BlockPos}
      [] OTHER              -> {}

\* Every place where a transaction waits to be settled.
Places(t) ==
    {<<"queue", i>> : i \in {j \in DOMAIN queue : queue[j].tx = t}}
    \cup {<<"priority", i>> : i \in {j \in DOMAIN priority : priority[j].tx = t}}
    \cup {<<"hand", n>> : n \in {m \in Node : mex[m].tx = t}}
    \cup (UNION {{<<n, i>> : i \in {j \in Slot \ Gone(n) : transaction_pool[n][j] = t}}
                    : n \in Node})
    \cup (IF mmex = t THEN {<<"master">>} ELSE {})

\* The transactions a refund was sent for, read or on its way.
Promised == refunded \cup ToSet(rejected)

Settled(t) == ledger[t] > 0 \/ t \in Promised \cup dropped

-----------------------------------------------------------------------------
(***************************************************************************)
(* Safety                                                                  *)
(***************************************************************************)

\* However nodes, master and users interleave, a transaction waits in one
\* place at most: queues, hands and pools never hold two copies of it.
SingleCopy == \A t \in Tx : Cardinality(Places(t)) <= 1

\* No transaction is written twice to the ledger, in one block or in two.
PublishedOnce == \A t \in Tx : ledger[t] <= 1

\* A transaction a user sent waits somewhere or was settled: published,
\* refunded, or refunded by a message that the full rejected queue dropped.
NothingVanishes == \A t \in sent : Places(t) # {} \/ Settled(t)

\* A refund ends the way of a transaction: the only refunded transactions that
\* can still be published are those the cron failed to pass on to a friend.
OnlyCronRefundsTheLiving ==
    \A t \in Tx : (t \in Promised \cup dropped
                    /\ (Places(t) # {} \/ ledger[t] > 0)) => t \in cronRefused

\* The counter in shared memory, by which the node decides to deposit, to run
\* the cron and to build a block, counts the used slots of its pool.
PoolCountExact == \A n \in Node : trans_pool_size[n] = Cardinality(Used(n))

\* While a block is under way its transactions stay in the slots the node
\* remembers to clear, and those slots are distinct.
BlockSlotsStay ==
    \A n \in Node : pc[n] \in {"publish", "clear"} =>
        /\ IsInjective(clear_pos[n])
        /\ \A k \in BlockPos : clear_pos[n][k] \in Used(n)

\* A step changes the fate of transactions only as users are promised: what is
\* published or refused stays so, a block takes SO_BLOCK_SIZE - 1 different
\* transactions that were waiting, and who is paid was refunded.
Stage(t) ==
    IF ledger[t] > 0 THEN "published"
    ELSE IF t \notin sent THEN "new"
    ELSE IF Places(t) # {} THEN "waiting" ELSE "refused"

Life == INSTANCE TxLife WITH stage <- [t \in Tx |-> Stage(t)], promised <- Promised,
                             lost <- dropped, paid <- refunded
LifeSpec == Life!Spec

(***************************************************************************)
(* Liveness                                                                *)
(***************************************************************************)

\* A new node whose first message the master could not send: it waits for it,
\* in a msgrcv without IPC_NOWAIT, until it is killed.
Stranded(n) == /\ pc[n] = "wait"
               /\ IndexFor(priority, n) = 0
               /\ ~(mpc = "send" /\ newNode = n)

\* Every node keeps reading: a message for it leaves the queue, unless it is a
\* new node left without its first message.
QueueServed ==
    \A n \in Node, t \in Tx :
        (\E i \in DOMAIN queue : queue[i].tx = t /\ queue[i].to = n)
            ~> (~(\E i \in DOMAIN queue : queue[i].tx = t /\ queue[i].to = n)
                \/ Stranded(n))

\* A transaction that ran out of hops is refunded or deposited in a new node,
\* whatever the master finds full.
RequestServed ==
    \A t \in Tx :
        (\E i \in DOMAIN priority : priority[i].tx = t)
            ~> (Settled(t) \/ \E n \in Spare : t \in {transaction_pool[n][i] : i \in Slot})

-----------------------------------------------------------------------------
\* node.c:243 "rifiuta la transazione, e rimborsa l'user": a transaction whose
\* sender has been refunded is not published.
RefundedNotPublished == \A t \in refunded : ledger[t] = 0

=============================================================================
