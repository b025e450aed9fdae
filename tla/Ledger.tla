------------------------------- MODULE Ledger -------------------------------
(***************************************************************************)
(* The shared ledger (ledger.c) under the node processes that publish      *)
(* blocks in it (block life cycle of node.c, lines 293-341) and the user   *)
(* processes that add up their income from it (get_process_revenue, called *)
(* by update_budget of user.c).                                            *)
(*                                                                         *)
(* Each process owns a program counter; one action is one access to        *)
(* memory shared between processes, one system call, or the local work     *)
(* between two of them.  Signals are delivered between any two actions.    *)
(***************************************************************************)
EXTENDS Integers, FiniteSets

CONSTANTS
    Node,       \* node processes
    User,       \* user processes
    Nobody,     \* author of a slot that was never written (zeroed memory)
    MaxSize,    \* SO_REGISTRY_SIZE, passed to init_ledger as register_size
    BlockTx,    \* transactions a node takes per block: SO_BLOCK_SIZE - 1
    TpSize,     \* SO_TP_SIZE, capacity of the transaction pool
    IdBound,    \* bound: no transaction arrives once this many ids are taken
    CtrlC       \* TRUE when the terminal may send SIGINT to the group

ASSUME LedgerAssumption ==
    /\ MaxSize \in Nat \ {0}
    /\ BlockTx \in Nat \ {0}
    /\ TpSize \in Nat \ {0}
    /\ IdBound \in Nat
    /\ CtrlC \in BOOLEAN
    /\ Nobody \notin Node
    /\ IsFiniteSet(Node)

NoId == -1      \* get_new_block_id's error return, used as an id by the caller

VARIABLES
    \* System V semaphore and the two shared memory segments of ledger.c
    sem_id, last_block_id, block_count, shd_block,
    \* node processes
    pc, resume, alive, block_id, blocco, count_seen,
    \* the part of shd_node_info a node updates here
    trans_pool_size, budget,
    \* what the environment sees of the nodes
    notified, interrupted,
    \* user processes
    upc, pos, sum, revenue, last_block_read

ledgerVars == <<sem_id, last_block_id, block_count, shd_block>>
blockVars  == <<block_id, blocco, count_seen>>
infoVars   == <<trans_pool_size, budget>>
envVars    == <<alive, notified, interrupted>>
nodeVars   == <<pc, resume, blockVars, infoVars, envVars>>
userVars   == <<upc, pos, sum, revenue, last_block_read>>
vars       == <<ledgerVars, nodeVars, userVars>>

Slot == 0 .. MaxSize - 1

(***************************************************************************)
(* A block of the ledger is told by its author and its transactions: 0 are *)
(* the ones it was built from, a greater number others (see Deposit).      *)
(***************************************************************************)
Block == [by : Node \cup {Nobody}, txs : Nat]

Written == {s \in Slot : shd_block[s].by # Nobody}

WrittenBy(n) == {s \in Slot : shd_block[s].by = n}

NodePc == {"loop", "lock", "read", "bump", "unlock", "create", "add", "write",
           "countRead", "countWrite", "compare", "notify", "check",
           "prePause", "paused", "process", "dead"}

-----------------------------------------------------------------------------
(***************************************************************************)
(* init_ledger and the declarations of node.c and user.c.                  *)
(***************************************************************************)
Init ==
    /\ sem_id = 1
    /\ last_block_id = 0
    /\ block_count = 0
    /\ shd_block = [s \in Slot |-> [by |-> Nobody, txs |-> 0]]
    /\ pc = [n \in Node |-> "loop"]
    /\ resume = [n \in Node |-> "process"]
    /\ alive = [n \in Node |-> TRUE]
    /\ block_id = [n \in Node |-> NoId]
    /\ blocco = [n \in Node |-> [id |-> NoId, built |-> FALSE, txs |-> 0]]
    /\ count_seen = [n \in Node |-> 0]
    /\ trans_pool_size = [n \in Node |-> 0]
    /\ budget = [n \in Node |-> 0]
    /\ notified = {}
    /\ interrupted = {}
    /\ upc = [u \in User |-> "start"]
    /\ pos = [u \in User |-> 0]
    /\ sum = [u \in User |-> 0]
    /\ revenue = [u \in User |-> 0]
    /\ last_block_read = [u \in User |-> 0]

Goto(n, from, to) ==
    /\ pc[n] = from
    /\ pc' = [pc EXCEPT ![n] = to]

(***************************************************************************)
(* clear_block: the transactions of the last block leave the pool and      *)
(* their rewards reach the node's budget.  One block earns one unit here.  *)
(***************************************************************************)
ClearBlock(n) ==
    /\ trans_pool_size' = [trans_pool_size EXCEPT ![n] = @ - BlockTx]
    /\ budget' = [budget EXCEPT ![n] = @ + 1]

-----------------------------------------------------------------------------
(***************************************************************************)
(* The node's loop.                                                        *)
(***************************************************************************)

(***************************************************************************)
(* A transaction reaches the pool (msg_pool_deposit, module TxFlow).  The  *)
(* block built last keeps pointers into the pool: when the slot taken is   *)
(* one they lead to, freed by clear_block, the block changes with it.      *)
(***************************************************************************)
Deposit(n) ==
    /\ pc[n] = "loop" /\ alive[n]
    /\ trans_pool_size[n] < TpSize
    /\ last_block_id < IdBound
    /\ trans_pool_size' = [trans_pool_size EXCEPT ![n] = @ + 1]
    /\ \/ UNCHANGED blocco
       \/ blocco[n].built /\ blocco' = [blocco EXCEPT ![n].txs = @ + 1]
    /\ UNCHANGED <<ledgerVars, pc, resume, block_id, count_seen, budget, envVars,
                   userVars>>

\* Mutant: a block is started one transaction short.
StartBlockShort(n) ==
    /\ Goto(n, "loop", "lock")
    /\ alive[n]
    /\ trans_pool_size[n] >= BlockTx - 1
    /\ UNCHANGED <<ledgerVars, resume, blockVars, infoVars, envVars, userVars>>

\* The pool holds enough transactions for a block (line 294).
StartBlock(n) ==
    /\ Goto(n, "loop", "lock")
    /\ alive[n]
    /\ trans_pool_size[n] >= BlockTx
    /\ UNCHANGED <<ledgerVars, resume, blockVars, infoVars, envVars, userVars>>

\* get_new_block_id: P on the semaphore.
TakeSemUnchecked(n) ==    \* Mutant: the id is read without waiting
    /\ Goto(n, "lock", "read")
    /\ sem_id' = 0
    /\ UNCHANGED <<last_block_id, block_count, shd_block, resume, blockVars,
                   infoVars, envVars, userVars>>

TakeSem(n) ==
    /\ Goto(n, "lock", "read")
    /\ sem_id > 0
    /\ sem_id' = sem_id - 1
    /\ UNCHANGED <<last_block_id, block_count, shd_block, resume, blockVars,
                   infoVars, envVars, userVars>>

ReadId(n) ==
    /\ Goto(n, "read", "bump")
    /\ block_id' = [block_id EXCEPT ![n] = last_block_id]
    /\ UNCHANGED <<ledgerVars, resume, blocco, count_seen, infoVars, envVars,
                   userVars>>

BumpId(n) ==
    /\ Goto(n, "bump", "unlock")
    /\ last_block_id' = last_block_id + 1
    /\ UNCHANGED <<sem_id, block_count, shd_block, resume, blockVars, infoVars,
                   envVars, userVars>>

ReleaseSemForgotten(n) ==    \* Mutant: the V is missing
    /\ Goto(n, "unlock", "create")
    /\ UNCHANGED <<ledgerVars, resume, blockVars, infoVars, envVars, userVars>>

ReleaseSem(n) ==
    /\ Goto(n, "unlock", "create")
    /\ sem_id' = sem_id + 1
    /\ UNCHANGED <<last_block_id, block_count, shd_block, resume, blockVars,
                   infoVars, envVars, userVars>>

(***************************************************************************)
(* create_block and the test of its result (lines 310-317).  An id above   *)
(* SO_REGISTRY_SIZE fails before the block is touched; the code then goes  *)
(* on to add_block with the block of the previous round, whose pointers    *)
(* lead to whatever the pool now holds.                                    *)
(***************************************************************************)
Create(n) ==
    \/ /\ block_id[n] > MaxSize
       /\ Goto(n, "create", "check")
       /\ resume' = [resume EXCEPT ![n] = "add"]
       /\ UNCHANGED <<ledgerVars, blockVars, infoVars, envVars, userVars>>
    \/ /\ block_id[n] <= MaxSize
       /\ Goto(n, "create", "add")
       /\ blocco' = [blocco EXCEPT ![n] = [id |-> block_id[n], built |-> TRUE, txs |-> 0]]
       /\ UNCHANGED <<ledgerVars, resume, block_id, count_seen, infoVars,
                      envVars, userVars>>

(***************************************************************************)
(* add_block up to its first test.  A refused block goes straight to       *)
(* "process": the caller ignores the -1.  A node that never built a block  *)
(* passes an uninitialised one: its id may be refused, or its transaction  *)
(* pointers are followed and the process is killed by SIGSEGV.             *)
(***************************************************************************)
Add(n) ==
    /\ \/ blocco[n].built /\ blocco[n].id > MaxSize - 1 /\ Goto(n, "add", "process")
       \/ blocco[n].built /\ blocco[n].id <= MaxSize - 1 /\ Goto(n, "add", "write")
       \/ ~blocco[n].built /\ \E to \in {"process", "dead"} : Goto(n, "add", to)
    /\ UNCHANGED <<ledgerVars, resume, blockVars, infoVars, envVars, userVars>>

(***************************************************************************)
(* shd_block[block.id] = _block, after the copy of what the pointers lead  *)
(* to now.  With id -1 the bytes before the segment are written: the slack *)
(* of the page below, or a segmentation fault.                             *)
(***************************************************************************)
WriteAtCount(n) ==    \* Mutant: block_count is the index, not the reserved id
    /\ Goto(n, "write", "countRead")
    /\ shd_block' = [s \in Slot |->
           IF s = block_count THEN [by |-> n, txs |-> blocco[n].txs] ELSE shd_block[s]]
    /\ UNCHANGED <<sem_id, last_block_id, block_count, resume, blockVars,
                   infoVars, envVars, userVars>>

WriteBlock(n) ==
    /\ \/ Goto(n, "write", "countRead")
       \/ blocco[n].id \notin Slot /\ Goto(n, "write", "dead")
    /\ shd_block' = [s \in Slot |->
           IF s = blocco[n].id THEN [by |-> n, txs |-> blocco[n].txs] ELSE shd_block[s]]
    /\ UNCHANGED <<sem_id, last_block_id, block_count, resume, blockVars,
                   infoVars, envVars, userVars>>

\* block_count++ : the load ...
ReadCount(n) ==
    /\ Goto(n, "countRead", "countWrite")
    /\ count_seen' = [count_seen EXCEPT ![n] = block_count]
    /\ UNCHANGED <<ledgerVars, resume, block_id, blocco, infoVars, envVars,
                   userVars>>

\* ... and the store, with no semaphore held between them.
WriteCount(n) ==
    /\ Goto(n, "countWrite", "compare")
    /\ block_count' = count_seen[n] + 1
    /\ UNCHANGED <<sem_id, last_block_id, shd_block, resume, blockVars,
                   infoVars, envVars, userVars>>

\* block_count == max_size, read again from shared memory (line 107).
CompareOffByOne(n) ==    \* Mutant: full one block early
    /\ Goto(n, "compare", IF block_count >= MaxSize - 1 THEN "notify" ELSE "process")
    /\ UNCHANGED <<ledgerVars, resume, blockVars, infoVars, envVars, userVars>>

Compare(n) ==
    /\ Goto(n, "compare", IF block_count = MaxSize THEN "notify" ELSE "process")
    /\ UNCHANGED <<ledgerVars, resume, blockVars, infoVars, envVars, userVars>>

\* The ledger is full: clear_block, SIGUSR1 to the master, then pause or end.
Notify(n) ==
    /\ Goto(n, "notify", "check")
    /\ ClearBlock(n)
    /\ notified' = notified \cup {n}
    /\ resume' = [resume EXCEPT ![n] = "process"]
    /\ UNCHANGED <<ledgerVars, blockVars, alive, interrupted, userVars>>

\* Mutant: pause() without the test of alive.
CheckAliveForgotten(n) ==
    /\ Goto(n, "check", "prePause")
    /\ UNCHANGED <<ledgerVars, resume, blockVars, infoVars, envVars, userVars>>

\* if (alive == 1) pause(); else break;
CheckAlive(n) ==
    /\ Goto(n, "check", IF alive[n] THEN "prePause" ELSE "loop")
    /\ UNCHANGED <<ledgerVars, resume, blockVars, infoVars, envVars, userVars>>

Pause(n) ==
    /\ Goto(n, "prePause", "paused")
    /\ UNCHANGED <<ledgerVars, resume, blockVars, infoVars, envVars, userVars>>

\* The simulated elaboration (nsleep) and the clear_block after it.
ProcessTwice(n) ==    \* Mutant: the reward is credited twice
    /\ Goto(n, "process", "loop")
    /\ budget' = [budget EXCEPT ![n] = @ + 2]
    /\ trans_pool_size' = [trans_pool_size EXCEPT ![n] = @ - BlockTx]
    /\ UNCHANGED <<ledgerVars, resume, blockVars, envVars, userVars>>

Process(n) ==
    /\ Goto(n, "process", "loop")
    /\ ClearBlock(n)
    /\ UNCHANGED <<ledgerVars, resume, blockVars, envVars, userVars>>

\* while (alive == 1) fails, or a break of the life cycle: clear and exit.
Leave(n) ==
    /\ ~alive[n]
    /\ Goto(n, "loop", "dead")
    /\ UNCHANGED <<ledgerVars, resume, blockVars, infoVars, envVars, userVars>>

-----------------------------------------------------------------------------
(***************************************************************************)
(* Signals.  Neither pause nor a blocked semop survives the handler, even  *)
(* though signal() asks for SA_RESTART: pause returns, and the P of        *)
(* get_new_block_id returns -1, which its caller takes for an id.          *)
(***************************************************************************)
WakeUpUntested(n) ==    \* Mutant: the -1 of get_new_block_id is not tested
    \/ /\ Goto(n, "paused", resume[n])
       /\ UNCHANGED <<resume, block_id>>
    \/ /\ sem_id = 0
       /\ Goto(n, "lock", "create")
       /\ block_id' = [block_id EXCEPT ![n] = NoId]
       /\ UNCHANGED resume
    \/ /\ pc[n] # "paused"
       /\ UNCHANGED <<pc, resume, block_id>>

WakeUp(n) ==
    \/ /\ Goto(n, "paused", resume[n])
       /\ UNCHANGED <<resume, block_id>>
    \/ /\ sem_id = 0
       /\ Goto(n, "lock", "check")
       /\ resume' = [resume EXCEPT ![n] = "create"]
       /\ block_id' = [block_id EXCEPT ![n] = NoId]
    \/ /\ pc[n] # "paused"
       /\ UNCHANGED <<pc, resume, block_id>>

\* kill_nodes of the master, once: alive = 0.
Sigterm(n) ==
    /\ pc[n] # "dead" /\ alive[n]
    /\ WakeUp(n)
    /\ alive' = [alive EXCEPT ![n] = FALSE]
    /\ UNCHANGED <<ledgerVars, blocco, count_seen, infoVars, notified,
                   interrupted, userVars>>

\* Ctrl-C on the terminal: the handler is empty, the wake-up is not.
Sigint(n) ==
    /\ CtrlC /\ pc[n] # "dead" /\ n \notin interrupted
    /\ WakeUp(n)
    /\ interrupted' = interrupted \cup {n}
    /\ UNCHANGED <<ledgerVars, blocco, count_seen, infoVars, alive, notified,
                   userVars>>

-----------------------------------------------------------------------------
(***************************************************************************)
(* A user adds up its income.  Every block pays every user one unit, so    *)
(* the sum counts the blocks it saw; slots outside the array read as zero. *)
(***************************************************************************)
StartReadStale(u) ==    \* Mutant: sum is not reset
    /\ upc[u] \in {"start", "idle"}
    /\ upc' = [upc EXCEPT ![u] = "scan"]
    /\ pos' = [pos EXCEPT ![u] = 0]
    /\ UNCHANGED <<ledgerVars, nodeVars, sum, revenue, last_block_read>>

StartRead(u) ==
    /\ upc[u] \in {"start", "idle"}
    /\ upc' = [upc EXCEPT ![u] = "scan"]
    /\ pos' = [pos EXCEPT ![u] = 0]
    /\ sum' = [sum EXCEPT ![u] = 0]
    /\ UNCHANGED <<ledgerVars, nodeVars, revenue, last_block_read>>

\* One round of the loop; block_count is read again at every round.
ScanBlock(u) ==
    /\ upc[u] = "scan" /\ pos[u] < block_count
    /\ sum' = [sum EXCEPT ![u] = @ + (IF pos[u] \in Written THEN 1 ELSE 0)]
    /\ pos' = [pos EXCEPT ![u] = @ + 1]
    /\ UNCHANGED <<ledgerVars, nodeVars, upc, revenue, last_block_read>>

EndScan(u) ==
    /\ upc[u] = "scan" /\ pos[u] >= block_count
    /\ upc' = [upc EXCEPT ![u] = "stamp"]
    /\ revenue' = [revenue EXCEPT ![u] = sum[u]]
    /\ UNCHANGED <<ledgerVars, nodeVars, pos, sum, last_block_read>>

\* last_block_read = block_count - 1, a second read of the counter.
StampRead(u) ==
    /\ upc[u] = "stamp"
    /\ upc' = [upc EXCEPT ![u] = "idle"]
    /\ last_block_read' = [last_block_read EXCEPT ![u] = block_count - 1]
    /\ UNCHANGED <<ledgerVars, nodeVars, pos, sum, revenue>>

-----------------------------------------------------------------------------
\* The steps a running node takes by itself.
NodeStep(n) ==
    \/ StartBlock(n) \/ TakeSem(n) \/ ReadId(n) \/ BumpId(n) \/ ReleaseSem(n)
    \/ Create(n) \/ Add(n) \/ WriteBlock(n) \/ ReadCount(n) \/ WriteCount(n)
    \/ Compare(n) \/ Notify(n) \/ CheckAlive(n) \/ Pause(n) \/ Process(n)
    \/ Leave(n)

UserStep(u) == StartRead(u) \/ ScanBlock(u) \/ EndScan(u) \/ StampRead(u)

Next ==
    \/ \E n \in Node : NodeStep(n) \/ Deposit(n) \/ Sigterm(n) \/ Sigint(n)
    \/ \E u \in User : UserStep(u)

Spec == Init /\ [][Next]_vars

(***************************************************************************)
(* The scheduler runs every process that can run; a semop that waits is    *)
(* served in arrival order, so a P cannot be overtaken for ever.           *)
(***************************************************************************)
FairSpec ==
    /\ Spec
    /\ \A n \in Node : WF_vars(NodeStep(n)) /\ SF_vars(TakeSem(n))
    /\ \A u \in User : WF_vars(UserStep(u))

-----------------------------------------------------------------------------
TypeOK ==
    /\ sem_id \in {0, 1}
    /\ last_block_id \in Nat
    /\ block_count \in Nat
    /\ shd_block \in [Slot -> Block]
    /\ pc \in [Node -> NodePc]
    /\ resume \in [Node -> {"create", "add", "process"}]
    /\ alive \in [Node -> BOOLEAN]
    /\ block_id \in [Node -> Nat \cup {NoId}]
    /\ blocco \in [Node -> [id : Nat \cup {NoId}, built : BOOLEAN, txs : Nat]]
    /\ count_seen \in [Node -> Nat]
    /\ trans_pool_size \in [Node -> Int]
    /\ budget \in [Node -> Nat]
    /\ notified \subseteq Node
    /\ interrupted \subseteq Node
    /\ upc \in [User -> {"start", "idle", "scan", "stamp"}]
    /\ pos \in [User -> Nat]
    /\ sum \in [User -> Nat]
    /\ revenue \in [User -> Nat]
    /\ last_block_read \in [User -> Int]

-----------------------------------------------------------------------------
(***************************************************************************)
(* Safety                                                                  *)
(***************************************************************************)

\* The ids a node answers for: the one it holds, the one of the block it
\* built last, and those of the slots it wrote.
Mine(n) == ({block_id[n], blocco[n].id} \ {NoId}) \cup WrittenBy(n)

\* No block id is ever in the hands of two nodes: whatever the order in which
\* nodes pass get_new_block_id, keep a block across a pause, or publish it,
\* two nodes never answer for the same slot.
UniqueIds == \A m, n \in Node : m # n => Mine(m) \cap Mine(n) = {}

\* Until an id is refused by create_block or a signal interrupts a wait, a
\* node tells the master that the ledger is full (SIGUSR1) only when every
\* slot of it holds a block.
NoticeImpliesFull ==
    (interrupted = {} /\ last_block_id <= MaxSize + 1 /\ notified # {})
        => Written = Slot

\* Between two blocks, a node whose last id was a slot of the ledger has been
\* rewarded once for each block of its own in the ledger.
RewardBacked ==
    \A n \in Node :
        (pc[n] = "loop" /\ n \notin notified \cup interrupted
                        /\ block_id[n] \in Slot /\ alive[n])
            => budget[n] = Cardinality(WrittenBy(n))

\* The income a user computed while nodes were publishing never counts more
\* blocks than the ledger holds, whatever block_count did meanwhile.
IncomeBacked == \A u \in User : revenue[u] <= Cardinality(Written)

\* clear_block runs twice for one block only in a node that found the ledger
\* full: any other node takes out of its pool no more than it put in, even
\* when its blocks are refused or a signal resumes it with an old block.
PoolDebtOnlyAfterNotice ==
    \A n \in Node : trans_pool_size[n] < 0 => n \in notified

\* A block goes to slot -1, outside the segment, only in a node that Ctrl-C
\* interrupted: the SIGTERM of the master alone never leads there.
WildWriteNeedsCtrlC ==
    \A n \in Node : (pc[n] = "write" /\ blocco[n].id \notin Slot) => n \in interrupted

\* The slots of shd_block are the log of BlockLog: no slot changes its author,
\* and its transactions change only once ids that create_block refuses have
\* been taken, when a node wakes up and publishes its last block again.
Log == INSTANCE BlockLog
         WITH Author <- Node, log <- shd_block, past <- last_block_id > MaxSize + 1
LogSpec == Log!Spec

(***************************************************************************)
(* Liveness                                                                *)
(***************************************************************************)

\* A node that asks for an id finishes the round: it comes back to its loop,
\* stops in pause(), or dies; no node keeps the semaphore from the others.
PublishCompletes ==
    \A n \in Node : pc[n] = "lock" ~> pc[n] \in {"loop", "paused", "dead"}

\* A node told to terminate while it is not about to pause ends.
TerminatedUnlessPausing ==
    \A n \in Node :
        (~alive[n] /\ pc[n] \notin {"prePause", "paused"}) ~> pc[n] = "dead"

-----------------------------------------------------------------------------
(***************************************************************************)
(* What the comments of the source say and the code does not do.           *)
(***************************************************************************)

\* ledger.c:81 "Scrive il blocco sul ledger, notificando in caso di limite
\* raggiunto": once every slot is written, and while no one is terminated,
\* some node notifies the master.
FullLedgerNotified ==
    Written = Slot ~> (notified # {} \/ \E n \in Node : ~alive[n])

\* main.c:330 "L'uso del wait permette la chiusura dei processi zombie
\* attivi": every child told to terminate ends, so the wait returns.
EveryNodeStops == \A n \in Node : ~alive[n] ~> pc[n] = "dead"

=============================================================================
