---------------------------- MODULE LedgerProofs ----------------------------
(***************************************************************************)
(* Proofs about Ledger, for any sets of nodes and users, any capacity of   *)
(* the ledger and of the pools, with and without Ctrl-C.                   *)
(*                                                                         *)
(* UniqueIds is not inductive by itself: it needs that the semaphore keeps *)
(* get_new_block_id to one node at a time (Mutex) and that every id in use *)
(* is below last_block_id (Issued).                                        *)
(*                                                                         *)
(* The second part is what the processes do with the ledger: which blocks  *)
(* they write, what they are paid, when they tell the master that the      *)
(* ledger is full.  It rests on the way of an id inside one node           *)
(* (Straight): unless Ctrl-C strikes the node, the id it holds is fresh    *)
(* until it is written, the block it carries is the one with that id, and  *)
(* a node resumed with an older block is one whose new id was refused.     *)
(***************************************************************************)
EXTENDS Ledger, FiniteSetTheorems, TLAPS

\* Between P and V of get_new_block_id.
InSem(n) == pc[n] \in {"read", "bump", "unlock"}

Mutex ==
    /\ \A n \in Node : InSem(n) => sem_id = 0
    /\ \A m, n \in Node : InSem(m) /\ InSem(n) => m = n

Issued ==
    \A n \in Node : \A i \in Mine(n) :
        i < last_block_id \/ (pc[n] = "bump" /\ i = last_block_id)

IInv == TypeOK /\ Mutex /\ Issued /\ UniqueIds

-----------------------------------------------------------------------------
\* The initial state satisfies the inductive invariant.
LEMMA InitIInv == Init => IInv
<1> SUFFICES ASSUME Init PROVE IInv
    OBVIOUS
<1> USE LedgerAssumption DEF Init
<1>1. TypeOK
    BY DEF TypeOK, NodePc, NoId, Block
<1>2. Mutex
    BY DEF Mutex, InSem
<1>3. \A n \in Node : Mine(n) = {}
    BY DEF Mine, WrittenBy, NoId
<1>4. Issued /\ UniqueIds
    BY <1>3 DEF Issued, UniqueIds
<1> QED
    BY <1>1, <1>2, <1>4 DEF IInv

\* A signal resumes a node at one of its labels.
LEMMA WakeUpTypes ==
    ASSUME TypeOK, NEW n \in Node, WakeUp(n)
    PROVE  /\ pc' \in [Node -> NodePc]
           /\ resume' \in [Node -> {"create", "add", "process"}]
<1>1. resume[n] \in NodePc /\ "check" \in NodePc
    BY DEF TypeOK, NodePc
<1>2. CASE Goto(n, "paused", resume[n]) /\ UNCHANGED resume
    BY <1>1, <1>2 DEF TypeOK, Goto
<1>3. CASE Goto(n, "lock", "check") /\ resume' = [resume EXCEPT ![n] = "create"]
    BY <1>1, <1>3 DEF TypeOK, Goto
<1>4. CASE UNCHANGED <<pc, resume>>
    BY <1>4 DEF TypeOK
<1> QED
    BY <1>2, <1>3, <1>4 DEF WakeUp

\* Types are preserved; sem_id stays binary because of Mutex.
LEMMA NextTypeOK == TypeOK /\ Mutex /\ [Next]_vars => TypeOK'
<1> SUFFICES ASSUME TypeOK, Mutex, [Next]_vars PROVE TypeOK'
    OBVIOUS
<1> USE LedgerAssumption DEF TypeOK, NodePc, NoId, Goto, ClearBlock,
        ledgerVars, blockVars, infoVars, envVars, nodeVars, userVars
<1>1. ASSUME NEW n \in Node, Deposit(n) PROVE TypeOK'
  <2>1. CASE UNCHANGED blocco
      BY <1>1, <2>1 DEF Deposit
  <2>2. CASE blocco' = [blocco EXCEPT ![n].txs = @ + 1]
    <3>1. [blocco[n] EXCEPT !.txs = @ + 1] \in [id : Nat \cup {NoId}, built : BOOLEAN, txs : Nat]
      <4>1. blocco[n] \in [id : Nat \cup {NoId}, built : BOOLEAN, txs : Nat]
          OBVIOUS
      <4> QED
          BY ONLY <4>1
    <3>2. blocco' = [blocco EXCEPT ![n] = [blocco[n] EXCEPT !.txs = @ + 1]]
        BY <2>2
    <3>3. blocco' \in [Node -> [id : Nat \cup {NoId}, built : BOOLEAN, txs : Nat]]
        BY <3>1, <3>2
    <3>4. trans_pool_size' \in [Node -> Int]
        BY <1>1 DEF Deposit
    <3>5. UNCHANGED <<ledgerVars, pc, resume, block_id, count_seen, budget, envVars, userVars>>
        BY <1>1 DEF Deposit
    <3> QED
        BY <3>3, <3>4, <3>5
  <2> QED
      BY <1>1, <2>1, <2>2 DEF Deposit
<1>2. ASSUME NEW n \in Node, StartBlock(n) PROVE TypeOK'
    BY <1>2 DEF StartBlock
<1>3. ASSUME NEW n \in Node, TakeSem(n) PROVE TypeOK'
    BY <1>3 DEF TakeSem
<1>4. ASSUME NEW n \in Node, ReadId(n) PROVE TypeOK'
    BY <1>4 DEF ReadId
<1>5. ASSUME NEW n \in Node, BumpId(n) PROVE TypeOK'
    BY <1>5 DEF BumpId
<1>6. ASSUME NEW n \in Node, ReleaseSem(n) PROVE TypeOK'
    BY <1>6 DEF ReleaseSem, Mutex, InSem
<1>7. ASSUME NEW n \in Node, Create(n) PROVE TypeOK'
  <2>1. CASE block_id[n] > MaxSize
    <3>1. ~(block_id[n] <= MaxSize)
        BY <2>1
    <3> QED
        BY <1>7, <3>1 DEF Create
  <2>2. CASE ~(block_id[n] > MaxSize)
    <3>1. blocco' = [blocco EXCEPT ![n] = [id |-> block_id[n], built |-> TRUE, txs |-> 0]]
        BY <1>7, <2>2 DEF Create
    <3>2. block_id[n] \in Nat \cup {NoId}
        OBVIOUS
    <3>3. blocco' \in [Node -> [id : Nat \cup {NoId}, built : BOOLEAN, txs : Nat]]
        BY <3>1, <3>2
    <3> QED
        BY <1>7, <2>2, <3>3 DEF Create
  <2> QED
      BY <2>1, <2>2
<1>8. ASSUME NEW n \in Node, Add(n) PROVE TypeOK'
    BY <1>8 DEF Add
<1>9. ASSUME NEW n \in Node, WriteBlock(n) PROVE TypeOK'
    BY <1>9 DEF WriteBlock, Block
<1>10. ASSUME NEW n \in Node, ReadCount(n) PROVE TypeOK'
    BY <1>10 DEF ReadCount
<1>11. ASSUME NEW n \in Node, WriteCount(n) PROVE TypeOK'
    BY <1>11 DEF WriteCount
<1>12. ASSUME NEW n \in Node, Compare(n) PROVE TypeOK'
    BY <1>12 DEF Compare
<1>13. ASSUME NEW n \in Node, Notify(n) PROVE TypeOK'
    BY <1>13 DEF Notify
<1>14. ASSUME NEW n \in Node, CheckAlive(n) PROVE TypeOK'
    BY <1>14 DEF CheckAlive
<1>15. ASSUME NEW n \in Node, Pause(n) PROVE TypeOK'
    BY <1>15 DEF Pause
<1>16. ASSUME NEW n \in Node, Process(n) PROVE TypeOK'
    BY <1>16 DEF Process
<1>17. ASSUME NEW n \in Node, Leave(n) PROVE TypeOK'
    BY <1>17 DEF Leave
<1>18. ASSUME NEW n \in Node, Sigterm(n) PROVE TypeOK'
  <2>1. pc' \in [Node -> NodePc] /\ resume' \in [Node -> {"create", "add", "process"}]
      BY <1>18, WakeUpTypes DEF Sigterm
  <2>2. block_id' \in [Node -> Nat \cup {NoId}]
      BY <1>18 DEF Sigterm, WakeUp
  <2> QED
      BY <1>18, <2>1, <2>2 DEF Sigterm
<1>19. ASSUME NEW n \in Node, Sigint(n) PROVE TypeOK'
  <2>1. pc' \in [Node -> NodePc] /\ resume' \in [Node -> {"create", "add", "process"}]
      BY <1>19, WakeUpTypes DEF Sigint
  <2>2. block_id' \in [Node -> Nat \cup {NoId}]
      BY <1>19 DEF Sigint, WakeUp
  <2> QED
      BY <1>19, <2>1, <2>2 DEF Sigint
<1>20. ASSUME NEW u \in User, UserStep(u) PROVE TypeOK'
  <2>1. CASE StartRead(u)
      BY <2>1 DEF StartRead
  <2>2. CASE ScanBlock(u)
      BY <2>2 DEF ScanBlock
  <2>3. CASE EndScan(u)
      BY <2>3 DEF EndScan
  <2>4. CASE StampRead(u)
      BY <2>4 DEF StampRead
  <2> QED
      BY <1>20, <2>1, <2>2, <2>3, <2>4 DEF UserStep
<1>21. CASE UNCHANGED vars
    BY <1>21 DEF vars
<1> QED
    BY <1>1, <1>2, <1>3, <1>4, <1>5, <1>6, <1>7, <1>8, <1>9, <1>10, <1>11,
       <1>12, <1>13, <1>14, <1>15, <1>16, <1>17, <1>18, <1>19, <1>20, <1>21
       DEF Next, NodeStep

-----------------------------------------------------------------------------
\* What every step but P and V does to the semaphore: nothing, and no node
\* enters the section between them.
OutsideSem == sem_id' = sem_id /\ \A m \in Node : InSem(m)' => InSem(m)

\* At most one node is between P and V, and then the semaphore is 0.
LEMMA NextMutex == TypeOK /\ Mutex /\ [Next]_vars => Mutex'
<1> SUFFICES ASSUME TypeOK, Mutex, [Next]_vars PROVE Mutex'
    OBVIOUS
<1>1. ASSUME OutsideSem PROVE Mutex'
    BY <1>1 DEF OutsideSem, Mutex
<1>2. ASSUME NEW n \in Node, TakeSem(n) PROVE Mutex'
  <2>1. sem_id = 1 /\ sem_id' = 0
      BY <1>2 DEF TakeSem, TypeOK
  <2>2. \A m \in Node : ~InSem(m)
      BY <2>1 DEF Mutex
  <2>3. \A m \in Node : InSem(m)' => m = n
      BY <1>2, <2>2 DEF TakeSem, Goto, TypeOK, InSem
  <2> QED
      BY <2>1, <2>3 DEF Mutex
<1>3. ASSUME NEW n \in Node, ReleaseSem(n) PROVE Mutex'
  <2>1. \A m \in Node : InSem(m) => m = n
      BY <1>3 DEF ReleaseSem, Goto, Mutex, InSem
  <2>2. \A m \in Node : ~InSem(m)'
      BY <1>3, <2>1 DEF ReleaseSem, Goto, TypeOK, InSem
  <2> QED
      BY <2>2 DEF Mutex
<1>4. ASSUME NEW n \in Node, Deposit(n) \/ NodeStep(n), ~TakeSem(n), ~ReleaseSem(n)
      PROVE  OutsideSem
    BY <1>4 DEF OutsideSem, InSem, TypeOK, Goto, ledgerVars, NodeStep, Deposit,
       StartBlock, ReadId, BumpId, Create, Add, WriteBlock, ReadCount, WriteCount,
       Compare, Notify, CheckAlive, Pause, Process, Leave
<1>5. ASSUME NEW n \in Node, Sigterm(n) \/ Sigint(n) PROVE OutsideSem
    BY <1>5 DEF OutsideSem, InSem, TypeOK, Goto, ledgerVars, Sigterm, Sigint, WakeUp
<1>6. ASSUME NEW u \in User, UserStep(u) PROVE OutsideSem
    BY <1>6 DEF OutsideSem, InSem, UserStep, StartRead, ScanBlock, EndScan,
       StampRead, ledgerVars, nodeVars
<1>7. CASE UNCHANGED vars
    BY <1>7 DEF vars, ledgerVars, nodeVars, Mutex, InSem
<1> QED
    BY <1>1, <1>2, <1>3, <1>4, <1>5, <1>6, <1>7 DEF Next

-----------------------------------------------------------------------------
\* What every step but the two of the reservation does to the ids in use:
\* no node answers for an id it did not answer for before.
NoNewIds ==
    /\ last_block_id' = last_block_id
    /\ \A m \in Node : Mine(m)' \subseteq Mine(m)
    /\ \A m \in Node : pc[m] = "bump" => pc'[m] = "bump"

\* A block is written under an id its node answers for already.
LEMMA WriteKeepsIds ==
    ASSUME TypeOK, NEW n \in Node, WriteBlock(n)
    PROVE  NoNewIds
<1> USE LedgerAssumption DEF TypeOK, Mine, WrittenBy
<1>1. last_block_id' = last_block_id /\ UNCHANGED <<block_id, blocco>>
    BY DEF WriteBlock, blockVars
<1>2. \A m \in Node : pc[m] = "bump" => pc'[m] = "bump"
    BY DEF WriteBlock, Goto
<1>3. \A m \in Node : \A s \in Slot :
          shd_block'[s].by = m => shd_block[s].by = m \/ (m = n /\ s = blocco[n].id)
    BY DEF WriteBlock
<1>4. \A s \in Slot : s # NoId
    BY DEF Slot, NoId
<1>5. \A m \in Node : Mine(m)' \subseteq Mine(m)
    BY <1>1, <1>3, <1>4
<1> QED
    BY <1>1, <1>2, <1>5 DEF NoNewIds

\* The other steps of a node, apart from the reservation of an id.
LEMMA StepKeepsIds ==
    ASSUME TypeOK, NEW n \in Node, Deposit(n) \/ NodeStep(n),
           ~ReadId(n), ~BumpId(n)
    PROVE  NoNewIds
<1>1. CASE WriteBlock(n)
    BY <1>1, WriteKeepsIds
<1>2. CASE Create(n)
  <2>1. UNCHANGED <<last_block_id, block_id, shd_block>>
      BY <1>2 DEF Create, ledgerVars, blockVars
  <2>2. \A m \in Node : blocco'[m].id \in {blocco[m].id, block_id[m]}
      BY <1>2 DEF Create, blockVars, TypeOK
  <2>3. \A m \in Node : pc[m] = "bump" => pc'[m] = "bump"
      BY <1>2 DEF Create, Goto, TypeOK
  <2> QED
      BY <2>1, <2>2, <2>3 DEF NoNewIds, Mine, WrittenBy
<1>3. CASE ~WriteBlock(n) /\ ~Create(n)
  <2>1. /\ UNCHANGED <<last_block_id, block_id, shd_block>>
        /\ \A m \in Node : blocco'[m].id = blocco[m].id
      BY <1>3 DEF NodeStep, Deposit, StartBlock, TakeSem, ReleaseSem, Add,
         ReadCount, WriteCount, Compare, Notify, CheckAlive, Pause, Process,
         Leave, ledgerVars, blockVars, TypeOK
  <2>2. \A m \in Node : pc[m] = "bump" => pc'[m] = "bump"
      BY <1>3 DEF NodeStep, Deposit, StartBlock, TakeSem, ReleaseSem, Add,
         ReadCount, WriteCount, Compare, Notify, CheckAlive, Pause, Process,
         Leave, Goto, TypeOK
  <2> QED
      BY <2>1, <2>2 DEF NoNewIds, Mine, WrittenBy
<1> QED
    BY <1>1, <1>2, <1>3

\* A signal can only take an id away (the -1 of an interrupted P).
LEMMA SignalKeepsIds ==
    ASSUME TypeOK, NEW n \in Node, Sigterm(n) \/ Sigint(n)
    PROVE  NoNewIds
<1>1. UNCHANGED <<last_block_id, blocco, shd_block>>
    BY DEF Sigterm, Sigint, ledgerVars
<1>2. \A m \in Node : block_id'[m] \in {block_id[m], NoId}
    BY DEF Sigterm, Sigint, WakeUp, TypeOK
<1>3. \A m \in Node : pc[m] = "bump" => pc'[m] = "bump"
    BY DEF Sigterm, Sigint, WakeUp, Goto, TypeOK
<1> QED
    BY <1>1, <1>2, <1>3 DEF NoNewIds, Mine, WrittenBy

\* Ids stay below last_block_id and stay with one node.
LEMMA NextIds == IInv /\ [Next]_vars => Issued' /\ UniqueIds'
<1> SUFFICES ASSUME IInv, [Next]_vars PROVE Issued' /\ UniqueIds'
    OBVIOUS
<1> USE DEF IInv
<1>1. ASSUME NoNewIds PROVE Issued' /\ UniqueIds'
    BY <1>1 DEF NoNewIds, Issued, UniqueIds
<1>2. ASSUME NEW n \in Node, ReadId(n) PROVE Issued' /\ UniqueIds'
  <2>1. pc[n] = "read" /\ pc' = [pc EXCEPT ![n] = "bump"] /\ InSem(n)
      BY <1>2 DEF ReadId, Goto, InSem
  <2>2. \A m \in Node : pc[m] # "bump"
      BY <2>1 DEF Mutex, InSem
  <2>3. \A m \in Node : \A i \in Mine(m) : i < last_block_id
      BY <2>2 DEF Issued
  <2>4. /\ last_block_id' = last_block_id
        /\ Mine(n)' \subseteq Mine(n) \cup {last_block_id}
        /\ \A m \in Node \ {n} : Mine(m)' = Mine(m)
      BY <1>2 DEF ReadId, Mine, WrittenBy, TypeOK, ledgerVars
  <2>5. Issued'
      BY <2>1, <2>3, <2>4 DEF Issued, TypeOK
  <2>6. \A m \in Node : last_block_id \notin Mine(m)
      BY <2>3 DEF TypeOK
  <2>7. UniqueIds'
      BY <2>4, <2>6 DEF UniqueIds
  <2> QED
      BY <2>5, <2>7
<1>3. ASSUME NEW n \in Node, BumpId(n) PROVE Issued' /\ UniqueIds'
  <2>1. \A m \in Node : Mine(m)' = Mine(m)
      BY <1>3 DEF BumpId, Mine, WrittenBy, blockVars
  <2>2. \A m \in Node : \A i \in Mine(m) : i \in Int
      BY LedgerAssumption DEF Mine, WrittenBy, TypeOK, NoId, Slot
  <2>3. last_block_id' = last_block_id + 1
      BY <1>3 DEF BumpId
  <2>4. Issued'
      BY <2>1, <2>2, <2>3 DEF Issued, TypeOK
  <2> QED
      BY <2>1, <2>4 DEF UniqueIds
<1>4. ASSUME NEW u \in User, UserStep(u) PROVE NoNewIds
    BY <1>4 DEF NoNewIds, Mine, WrittenBy, UserStep, StartRead, ScanBlock,
       EndScan, StampRead, ledgerVars, nodeVars, blockVars
<1>5. CASE UNCHANGED vars
    BY <1>5, <1>1 DEF vars, ledgerVars, nodeVars, blockVars, NoNewIds, Mine, WrittenBy
<1> QED
    BY <1>1, <1>2, <1>3, <1>4, <1>5, StepKeepsIds, SignalKeepsIds DEF Next

-----------------------------------------------------------------------------
\* IInv holds in every reachable state.
LEMMA Inductive == Spec => []IInv
<1>1. IInv /\ [Next]_vars => IInv'
    BY NextTypeOK, NextMutex, NextIds DEF IInv
<1> QED
    BY InitIInv, <1>1, PTL DEF Spec

\* Every variable keeps its type; in particular the semaphore is binary and
\* an id is -1 or a natural number.
THEOREM TypeCorrect == Spec => []TypeOK
<1>1. IInv => TypeOK
    BY DEF IInv
<1> QED
    BY Inductive, <1>1, PTL

\* No two nodes ever answer for the same block id.
THEOREM IdsUnique == Spec => []UniqueIds
<1>1. IInv => UniqueIds
    BY DEF IInv
<1> QED
    BY Inductive, <1>1, PTL

-----------------------------------------------------------------------------
(***************************************************************************)
(* The account of the ledger.                                              *)
(***************************************************************************)

\* Where a node is: with an id and no block yet, with a block to write, refused,
\* with a block written and not paid yet.
Reserved == {"bump", "unlock", "create"}
Carrying == {"add", "write"}
Halted   == {"check", "prePause", "paused"}
Unpaid   == {"countRead", "countWrite", "compare", "notify", "process"}

\* What holds between the id, the block and the resumption of node n, if its
\* semop was never broken by Ctrl-C.
Straight(n) ==
    /\ pc[n] \in Reserved => block_id[n] \in Nat \ WrittenBy(n)
    /\ pc[n] \in Carrying /\ block_id[n] <= MaxSize =>
          /\ blocco[n].built /\ blocco[n].id = block_id[n]
          /\ block_id[n] \in Nat \ WrittenBy(n)
    /\ blocco[n].built => blocco[n].id \in Nat
    /\ pc[n] = "write" => blocco[n].id \in Slot
    /\ resume[n] = "create" => ~alive[n] /\ pc[n] \in {"check", "loop", "dead"}
    /\ resume[n] = "add" /\ pc[n] \in Halted => block_id[n] > MaxSize

Straightness == \A n \in Node \ interrupted : Straight(n)

-----------------------------------------------------------------------------
\* The steps in which node n takes part.
Moves(n) == NodeStep(n) \/ Deposit(n) \/ Sigterm(n) \/ Sigint(n)

\* Only WriteBlock writes, and what it writes is one more slot of its node.
LEMMA WriteAdds ==
    ASSUME IInv, NEW n \in Node, WriteBlock(n)
    PROVE  /\ WrittenBy(n)' = WrittenBy(n) \cup ({blocco[n].id} \cap Slot)
           /\ \A m \in Node : m # n => WrittenBy(m)' = WrittenBy(m)
           /\ Written' = Written \cup ({blocco[n].id} \cap Slot)
<1>1. /\ \A s \in Slot : s # blocco[n].id => shd_block'[s] = shd_block[s]
      /\ blocco[n].id \in Slot => shd_block'[blocco[n].id].by = n
    BY DEF WriteBlock
<1>2. ASSUME NEW m \in Node, m # n, blocco[n].id \in Slot
      PROVE  shd_block[blocco[n].id].by # m
  <2>1. SUFFICES ASSUME shd_block[blocco[n].id].by = m PROVE FALSE
      OBVIOUS
  <2>2. blocco[n].id \in Mine(m) /\ blocco[n].id \in Mine(n)
      BY <1>2, <2>1, LedgerAssumption DEF Mine, WrittenBy, Slot, NoId
  <2> QED
      BY <1>2, <2>2 DEF IInv, UniqueIds
<1>3. n # Nobody
    BY LedgerAssumption
<1> QED
    BY <1>1, <1>2, <1>3 DEF WrittenBy, Written

\* No other step of a node, and no signal to it, touches the ledger.
LEMMA OthersWriteNothing ==
    ASSUME NEW n \in Node, Moves(n), ~WriteBlock(n)
    PROVE  UNCHANGED shd_block
    BY DEF Moves, NodeStep, Deposit, Sigterm, Sigint, StartBlock, TakeSem, ReadId,
       BumpId, ReleaseSem, Create, Add, ReadCount, WriteCount, Compare, Notify,
       CheckAlive, Pause, Process, Leave, ledgerVars

\* A user only reads the ledger (get_process_revenue).
LEMMA UsersWriteNothing ==
    ASSUME NEW u \in User, UserStep(u)
    PROVE  UNCHANGED <<ledgerVars, nodeVars>>
    BY DEF UserStep, StartRead, ScanBlock, EndScan, StampRead

\* A step of one node leaves the others where they are.
SameNode(m) ==
    /\ pc'[m] = pc[m] /\ resume'[m] = resume[m] /\ alive'[m] = alive[m]
    /\ block_id'[m] = block_id[m] /\ blocco'[m] = blocco[m]
    /\ count_seen'[m] = count_seen[m]
    /\ trans_pool_size'[m] = trans_pool_size[m] /\ budget'[m] = budget[m]
    /\ (m \in notified' <=> m \in notified)
    /\ (m \in interrupted' <=> m \in interrupted)
    /\ WrittenBy(m)' = WrittenBy(m)

\* SameNode holds of every node but the one that moves: no node touches the
\* private state of another, nor the blocks it has written.
LEMMA OthersStay ==
    ASSUME IInv, NEW n \in Node, Moves(n), NEW m \in Node, m # n
    PROVE  SameNode(m)
<1> USE DEF IInv, TypeOK, Goto, blockVars, infoVars, envVars
<1>1. WrittenBy(m)' = WrittenBy(m)
    BY WriteAdds, OthersWriteNothing DEF WrittenBy
<1>2. CASE Sigterm(n) \/ Sigint(n)
    BY <1>1, <1>2 DEF Sigterm, Sigint, WakeUp, SameNode
<1>3. CASE Deposit(n) \/ StartBlock(n) \/ TakeSem(n) \/ ReadId(n) \/ BumpId(n)
           \/ ReleaseSem(n) \/ Create(n)
    BY <1>1, <1>3 DEF Deposit, StartBlock, TakeSem, ReadId, BumpId, ReleaseSem,
       Create, SameNode
<1>4. CASE Add(n) \/ WriteBlock(n) \/ ReadCount(n) \/ WriteCount(n) \/ Compare(n)
    BY <1>1, <1>4 DEF Add, WriteBlock, ReadCount, WriteCount, Compare, SameNode
<1>5. CASE Notify(n) \/ CheckAlive(n) \/ Pause(n) \/ Process(n) \/ Leave(n)
    BY <1>1, <1>5 DEF Notify, ClearBlock, CheckAlive, Pause, Process, Leave, SameNode
<1> QED
    BY <1>2, <1>3, <1>4, <1>5 DEF Moves, NodeStep

-----------------------------------------------------------------------------
\* The initial state: no node holds anything.
LEMMA InitStraight == Init => Straightness
    BY LedgerAssumption
    DEF Init, Straightness, Straight, Reserved, Carrying, Halted, LedgerAssumption, NoId

\* A node that moves, and is not interrupted by Ctrl-C, keeps straight.
LEMMA MoverStaysStraight ==
    ASSUME IInv, NEW n \in Node, Moves(n), n \notin interrupted', Straight(n)
    PROVE  Straight(n)'
<1> USE LedgerAssumption DEF LedgerAssumption, IInv, TypeOK, NoId, Goto, Straight, Reserved,
        Carrying, Halted, blockVars, infoVars, envVars
<1>1. CASE ReadId(n)
  <2>1. \A i \in Mine(n) : i < last_block_id
      BY <1>1 DEF ReadId, Issued
  <2>2. last_block_id \notin WrittenBy(n) /\ WrittenBy(n)' = WrittenBy(n)
      BY <1>1, <2>1 DEF ReadId, Mine, WrittenBy, ledgerVars
  <2> QED
      BY <1>1, <2>2 DEF ReadId
<1>2. CASE WriteBlock(n)
    BY <1>2, WriteAdds DEF WriteBlock
<1>3. CASE ~WriteBlock(n)
  <2>1. WrittenBy(n)' = WrittenBy(n)
      BY <1>3, OthersWriteNothing DEF WrittenBy
  <2>2. CASE Sigterm(n)
      BY <2>1, <2>2 DEF Sigterm, WakeUp
  <2>3. CASE Sigint(n)
      BY <2>3 DEF Sigint
  <2>4. CASE Deposit(n)
    <3>1. blocco'[n].id = blocco[n].id /\ blocco'[n].built = blocco[n].built
        BY <2>4 DEF Deposit
    <3> QED
        BY <2>1, <2>4, <3>1 DEF Deposit
  <2>9. CASE StartBlock(n) \/ TakeSem(n) \/ BumpId(n) \/ ReleaseSem(n)
      BY <2>1, <2>9 DEF StartBlock, TakeSem, BumpId, ReleaseSem
  <2>5. CASE Create(n)
      BY <2>1, <2>5 DEF Create
  <2>6. CASE Add(n)
      BY <2>1, <2>6 DEF Add, Slot
  <2>7. CASE ReadCount(n) \/ WriteCount(n) \/ Compare(n) \/ Notify(n)
      BY <2>1, <2>7 DEF ReadCount, WriteCount, Compare, Notify
  <2>8. CASE CheckAlive(n) \/ Pause(n) \/ Process(n) \/ Leave(n)
      BY <2>1, <2>8 DEF CheckAlive, Pause, Process, Leave
  <2> QED
      BY <1>1, <1>3, <2>2, <2>3, <2>4, <2>5, <2>6, <2>7, <2>8, <2>9 DEF Moves, NodeStep
<1> QED
    BY <1>2, <1>3

\* What does not concern a node leaves it straight.
LEMMA SameStaysStraight ==
    ASSUME NEW m \in Node, SameNode(m), Straight(m)
    PROVE  Straight(m)'
    BY DEF SameNode, Straight

\* Straightness is inductive: a node whose semop was never broken by Ctrl-C
\* holds an id that get_new_block_id has given to it.
LEMMA NextStraight == IInv /\ Straightness /\ [Next]_vars => Straightness'
<1> SUFFICES ASSUME IInv, Straightness, [Next]_vars,
                    NEW m \in Node, m \notin interrupted'
             PROVE  Straight(m)'
    BY DEF Straightness
<1>1. ASSUME NEW n \in Node, Moves(n) PROVE Straight(m)'
  <2>1. m \notin interrupted
      BY <1>1, OthersStay DEF Moves, NodeStep, Deposit, StartBlock, TakeSem, ReadId,
         BumpId, ReleaseSem, Create, Add, WriteBlock, ReadCount, WriteCount, Compare,
         Notify, CheckAlive, Pause, Process, Leave, Sigterm, Sigint, envVars, SameNode
  <2> QED
      BY <1>1, <2>1, OthersStay, SameStaysStraight, MoverStaysStraight
      DEF Straightness, SameNode
<1>2. ASSUME NEW u \in User, UserStep(u) PROVE Straight(m)'
    BY <1>2, UsersWriteNothing
    DEF Straightness, Straight, ledgerVars, nodeVars, blockVars, envVars, WrittenBy
<1>3. CASE UNCHANGED vars
    BY <1>3
    DEF Straightness, Straight, vars, ledgerVars, nodeVars, blockVars, envVars, WrittenBy
<1> QED
    BY <1>1, <1>2, <1>3 DEF Next, Moves

\* The way of an id inside a node holds in every reachable state.
LEMMA AlwaysStraight == Spec => []Straightness
    BY InitStraight, NextStraight, Inductive, PTL DEF Spec

\* A block goes to slot -1 only in a node that Ctrl-C interrupted: never by the
\* SIGTERM of the master, whatever it interrupts.
THEOREM WildWritesNeedCtrlC == Spec => []WildWriteNeedsCtrlC
<1>1. Straightness => WildWriteNeedsCtrlC
    BY DEF Straightness, Straight, WildWriteNeedsCtrlC
<1> QED
    BY <1>1, AlwaysStraight, PTL

-----------------------------------------------------------------------------
(***************************************************************************)
(* The ledger as a log.  A slot is written again only by a node that       *)
(* create_block refused: the id it holds lies beyond the slots.  A slot    *)
(* written for the first time gets what its block was built from.          *)
(***************************************************************************)
Refused(n) == block_id[n] # NoId /\ block_id[n] > MaxSize

Once(n) ==
    /\ ~blocco[n].built => blocco[n].id = NoId
    /\ pc[n] \in Reserved => block_id[n] \notin WrittenBy(n)
    /\ pc[n] \in Carrying /\ blocco[n].id \in WrittenBy(n) => Refused(n)
    /\ blocco[n].id \in Slot \ WrittenBy(n) => pc[n] \in Carrying /\ blocco[n].txs = 0
    /\ resume[n] = "add" /\ pc[n] \in Halted => Refused(n)
    /\ resume[n] = "create" /\ pc[n] \in Halted => block_id[n] = NoId

OnceEach == \A n \in Node : Once(n)

\* The initial state: no block is built.
LEMMA InitOnce == Init => OnceEach
<1> SUFFICES ASSUME Init, NEW n \in Node PROVE Once(n)
    BY DEF OnceEach
<1>1. /\ blocco[n].id = NoId /\ blocco[n].built = FALSE
      /\ pc[n] = "loop" /\ NoId \notin Slot
    BY LedgerAssumption DEF Init, NoId, Slot, LedgerAssumption
<1> QED
    BY <1>1 DEF Once, Reserved, Carrying, Halted

\* A node that moves writes a slot once, unless it was refused.
LEMMA MoverWritesOnce ==
    ASSUME IInv, NEW n \in Node, Moves(n), Once(n)
    PROVE  Once(n)'
<1> USE LedgerAssumption DEF LedgerAssumption, IInv, TypeOK, NoId, Goto, Once, Refused,
        Reserved, Carrying, Halted, blockVars, infoVars, envVars
<1>1. CASE WriteBlock(n)
  <2>1. CASE blocco[n].id \in Slot
    <3>1. pc'[n] = "countRead" /\ blocco' = blocco /\ resume' = resume
        BY <1>1, <2>1 DEF WriteBlock
    <3>2. blocco[n].id \in WrittenBy(n)'
        BY <1>1, <2>1, WriteAdds
    <3> QED
        BY <3>1, <3>2
  <2>2. CASE blocco[n].id \notin Slot
    <3>1. /\ pc'[n] \in {"countRead", "dead"} /\ blocco' = blocco
        BY <1>1, <2>2 DEF WriteBlock
    <3> QED
        BY <2>2, <3>1 DEF WrittenBy
  <2> QED
      BY <2>1, <2>2
<1>2. CASE ~WriteBlock(n)
  <2>1. WrittenBy(n)' = WrittenBy(n)
      BY <1>2, OthersWriteNothing DEF WrittenBy
  <2>2. CASE ReadId(n)
    <3>1. last_block_id \notin Mine(n)
        BY <2>2 DEF ReadId, Issued
    <3> QED
        BY <2>1, <2>2, <3>1 DEF ReadId, Mine
  <2>3. CASE Deposit(n)
    <3>1. blocco'[n].id = blocco[n].id /\ blocco'[n].built = blocco[n].built
        BY <2>3 DEF Deposit
    <3> QED
        BY <2>1, <2>3, <3>1 DEF Deposit
  <2>4. CASE Create(n)
    <3>1. CASE block_id[n] > MaxSize
      <4>1. ~(block_id[n] <= MaxSize) /\ block_id[n] # NoId
          BY <3>1
      <4> QED
          BY <2>1, <2>4, <4>1 DEF Create
    <3>2. CASE block_id[n] <= MaxSize
      <4>1. ~(block_id[n] > MaxSize)
          BY <3>2
      <4>2. /\ pc[n] = "create" /\ pc'[n] = "add" /\ UNCHANGED <<block_id, resume>>
            /\ blocco'[n] = [id |-> block_id[n], built |-> TRUE, txs |-> 0]
          BY <2>4, <4>1 DEF Create
      <4> QED
          BY <2>1, <4>2
    <3> QED
        BY <3>1, <3>2
  <2>5. CASE Add(n)
      BY <2>1, <2>5 DEF Add, Slot
  <2>6. CASE StartBlock(n) \/ TakeSem(n) \/ BumpId(n) \/ ReleaseSem(n)
      BY <2>1, <2>6 DEF StartBlock, TakeSem, BumpId, ReleaseSem
  <2>7. CASE ReadCount(n) \/ WriteCount(n) \/ Compare(n) \/ Notify(n)
      BY <2>1, <2>7 DEF ReadCount, WriteCount, Compare, Notify
  <2>8. CASE CheckAlive(n) \/ Pause(n) \/ Process(n) \/ Leave(n)
      BY <2>1, <2>8 DEF CheckAlive, Pause, Process, Leave
  <2>9. CASE Sigterm(n) \/ Sigint(n)
    <3>1. /\ blocco' = blocco
          /\ \/ pc'[n] = pc[n] /\ UNCHANGED <<resume, block_id>>
             \/ /\ pc[n] = "paused" /\ pc'[n] = resume[n]
                /\ UNCHANGED <<resume, block_id>>
             \/ /\ pc'[n] = "check" /\ resume'[n] = "create"
                /\ pc[n] = "lock" /\ block_id'[n] = NoId
        BY <2>9 DEF Sigterm, Sigint, WakeUp
    <3>2. NoId \notin WrittenBy(n)
        BY DEF WrittenBy, Slot
    <3>3. CASE pc'[n] = pc[n] /\ UNCHANGED <<resume, block_id>>
        BY <2>1, <3>1, <3>3
    <3>4. CASE pc[n] = "paused" /\ pc'[n] = resume[n] /\ UNCHANGED <<resume, block_id>>
      <4>1. resume[n] \in {"create", "add", "process"}
          OBVIOUS
      <4>2. blocco[n].id \notin Slot \ WrittenBy(n)
          BY <3>4
      <4> QED
          BY <2>1, <3>1, <3>2, <3>4, <4>1, <4>2
    <3>5. CASE pc'[n] = "check" /\ resume'[n] = "create" /\ pc[n] = "lock" /\ block_id'[n] = NoId
        BY <2>1, <3>1, <3>5
    <3> QED
        BY <3>1, <3>3, <3>4, <3>5
  <2> QED
      BY <1>2, <2>2, <2>3, <2>4, <2>5, <2>6, <2>7, <2>8, <2>9 DEF Moves, NodeStep
<1> QED
    BY <1>1, <1>2

\* OnceEach is inductive.
LEMMA NextOnce == IInv /\ OnceEach /\ [Next]_vars => OnceEach'
<1> SUFFICES ASSUME IInv, OnceEach, [Next]_vars, NEW m \in Node PROVE Once(m)'
    BY DEF OnceEach
<1>1. ASSUME NEW n \in Node, Moves(n) PROVE Once(m)'
  <2>1. CASE m = n
      BY <1>1, <2>1, MoverWritesOnce DEF OnceEach
  <2>2. CASE m # n
      BY <1>1, <2>2, OthersStay DEF SameNode, OnceEach, Once, Refused
  <2> QED
      BY <2>1, <2>2
<1>2. CASE UNCHANGED <<ledgerVars, nodeVars>>
    BY <1>2 DEF OnceEach, Once, Refused, ledgerVars, nodeVars, blockVars, WrittenBy
<1> QED
    BY <1>1, <1>2, UsersWriteNothing DEF Next, Moves, vars

-----------------------------------------------------------------------------
\* An id beyond the slots stays taken.
LEMMA PastStays == IInv /\ [Next]_vars /\ last_block_id > MaxSize + 1
                    => last_block_id' > MaxSize + 1
<1> SUFFICES ASSUME IInv, [Next]_vars PROVE last_block_id' \in {last_block_id, last_block_id + 1}
    BY LedgerAssumption DEF LedgerAssumption, IInv, TypeOK
<1>1. ASSUME NEW n \in Node, Moves(n) PROVE last_block_id' \in {last_block_id, last_block_id + 1}
    BY <1>1 DEF Moves, NodeStep, Deposit, StartBlock, TakeSem, ReadId, BumpId, ReleaseSem,
       Create, Add, WriteBlock, ReadCount, WriteCount, Compare, Notify, CheckAlive, Pause,
       Process, Leave, Sigterm, Sigint, ledgerVars
<1> QED
    BY <1>1, UsersWriteNothing DEF Next, Moves, vars, ledgerVars

LogVars == <<shd_block, last_block_id > MaxSize + 1>>

\* A block is published in an empty slot as it was built, or again in the slot
\* of its author, by a node that holds an id beyond the slots.
LEMMA WritePublishes ==
    ASSUME IInv, OnceEach, NEW n \in Node, WriteBlock(n)
    PROVE  [Log!Next]_LogVars
<1> DEFINE s == blocco[n].id
           p == last_block_id > MaxSize + 1
<1>1. /\ shd_block \in [Slot -> Block] /\ n \in Node /\ Once(n)
      /\ shd_block' = [t \in Slot |->
             IF t = s THEN [by |-> n, txs |-> blocco[n].txs] ELSE shd_block[t]]
      /\ pc[n] = "write" /\ last_block_id' = last_block_id
    BY DEF IInv, TypeOK, WriteBlock, OnceEach, Goto
<1>2. CASE s \notin Slot
  <2>1. shd_block' = shd_block
      BY <1>1, <1>2
  <2> QED
      BY <1>1, <2>1 DEF LogVars
<1>3. CASE s \in Slot /\ shd_block[s].by = Nobody
  <2>1. blocco[n].txs = 0
      BY <1>1, <1>3, LedgerAssumption DEF Once, WrittenBy
  <2>2. shd_block' = [shd_block EXCEPT ![s] = [by |-> n, txs |-> 0]]
      BY <1>1, <2>1
  <2>3. Log!Publish(n, s)
      BY <1>1, <1>3, <2>2 DEF Log!Publish, Log!Collected
  <2> QED
      BY <1>3, <2>3 DEF Log!Next
<1>4. CASE s \in Slot /\ shd_block[s].by # Nobody
  <2>1. PICK m \in Node : shd_block[s].by = m
      BY <1>1, <1>4 DEF Block
  <2>2. s \in Mine(m) /\ s \in Mine(n) /\ s \in WrittenBy(m)
      BY <1>4, <2>1, LedgerAssumption DEF Mine, WrittenBy, Slot, NoId
  <2>3. m = n
      BY <2>2 DEF IInv, UniqueIds
  <2>4. Refused(n)
      BY <1>1, <2>2, <2>3 DEF Once, Carrying
  <2>5. p
    <3>1. block_id[n] \in Mine(n)
        BY <2>4 DEF Refused, Mine
    <3>2. block_id[n] < last_block_id
        BY <1>1, <3>1 DEF IInv, Issued
    <3> QED
        BY <2>4, <3>2, LedgerAssumption DEF Refused, LedgerAssumption, IInv, TypeOK, NoId
  <2>6. shd_block' = [shd_block EXCEPT ![s].txs = shd_block'[s].txs]
    <3>1. shd_block'[s] = [by |-> n, txs |-> blocco[n].txs] /\ shd_block[s] \in Block
        BY <1>1, <1>4
    <3>2. [shd_block[s] EXCEPT !.txs = blocco[n].txs] = [by |-> n, txs |-> blocco[n].txs]
        BY <2>1, <2>3, <3>1 DEF Block
    <3> QED
        BY <1>1, <1>4, <3>1, <3>2
  <2>7. Log!Rewrite(n, s)
      BY <1>1, <2>1, <2>3, <2>5, <2>6 DEF Log!Rewrite
  <2> QED
      BY <1>4, <2>7 DEF Log!Next
<1> QED
    BY <1>2, <1>3, <1>4

\* Every step of the ledger is a step of the log, or none.
LEMMA StepPublishes == IInv /\ OnceEach /\ [Next]_vars => [Log!Next]_LogVars
<1> SUFFICES ASSUME IInv, OnceEach, [Next]_vars PROVE [Log!Next]_LogVars
    OBVIOUS
<1>1. ASSUME UNCHANGED shd_block PROVE [Log!Next]_LogVars
  <2>1. CASE (last_block_id > MaxSize + 1)' = (last_block_id > MaxSize + 1)
      BY <1>1, <2>1 DEF LogVars
  <2>2. CASE (last_block_id > MaxSize + 1)' # (last_block_id > MaxSize + 1)
    <3>1. (last_block_id > MaxSize + 1)' = TRUE
        BY <2>2, PastStays
    <3> QED
        BY <1>1, <3>1 DEF Log!Next, Log!RunOut
  <2> QED
      BY <2>1, <2>2
<1>2. ASSUME NEW n \in Node, Moves(n) PROVE [Log!Next]_LogVars
    BY <1>1, <1>2, WritePublishes, OthersWriteNothing
<1> QED
    BY <1>1, <1>2, UsersWriteNothing DEF Next, Moves, vars, ledgerVars

\* The ledger implements the log: whatever ids are refused and whoever wakes up,
\* no slot changes hands, and its transactions change only after ids beyond the
\* slots have been taken.
THEOREM LedgerImplementsLog == Spec => LogSpec
<1>1. Init => Log!Init
    BY LedgerAssumption DEF Init, Log!Init, Log!Collected, LedgerAssumption
<1>2. IInv /\ OnceEach /\ [Next]_vars => [Log!Next]_<<shd_block, last_block_id > MaxSize + 1>>
    BY StepPublishes DEF LogVars
<1> QED
    BY <1>1, <1>2, InitOnce, NextOnce, Inductive, PTL DEF Spec, LogSpec, Log!Spec

-----------------------------------------------------------------------------
\* A node has been rewarded for each block it wrote but the one it has just
\* written.  Claimed while its ids are slots and nothing has held it up.
Owed(n) == IF pc[n] \in Unpaid THEN 1 ELSE 0

\* Nothing has held n up, and its ids are slots.
Clean(n) ==
    /\ alive[n] /\ n \notin notified \cup interrupted
    /\ block_id[n] < MaxSize
    /\ pc[n] \notin Halted \cup {"dead"}

Paid == \A n \in Node : Clean(n) => budget[n] + Owed(n) = Cardinality(WrittenBy(n))

\* The slots are finitely many.
LEMMA FiniteSlots ==
    /\ IsFiniteSet(Slot) /\ Cardinality(Slot) = MaxSize
    /\ IsFiniteSet(Written) /\ Cardinality(Written) \in Nat
    /\ \A n \in Node : IsFiniteSet(WrittenBy(n)) /\ Cardinality(WrittenBy(n)) \in Nat
<1>1. IsFiniteSet(Slot) /\ Cardinality(Slot) = MaxSize
    BY LedgerAssumption, FS_Interval DEF LedgerAssumption, Slot
<1> QED
    BY <1>1, FS_Subset, FS_CardinalityType DEF Written, WrittenBy

\* At the start no block is written and no reward is paid.
LEMMA InitPaid == Init => Paid
<1> SUFFICES ASSUME Init, NEW n \in Node PROVE budget[n] + Owed(n) = Cardinality(WrittenBy(n))
    BY DEF Paid
<1>1. WrittenBy(n) = {}
    BY LedgerAssumption DEF Init, WrittenBy
<1> QED
    BY <1>1, FS_EmptySet DEF Init, Owed, Unpaid

\* A node that moves is paid for what it wrote.
LEMMA MoverStaysPaid ==
    ASSUME IInv, Straightness, Paid, NEW n \in Node, Moves(n), Clean(n)'
    PROVE  (budget[n] + Owed(n) = Cardinality(WrittenBy(n)))'
<1> USE DEF Goto, Clean, Owed, Unpaid, Halted, blockVars, infoVars, envVars
<1>0. /\ n \in DOMAIN pc /\ n \in DOMAIN block_id /\ n \in DOMAIN budget
      /\ block_id[n] \in Int /\ budget[n] \in Int /\ MaxSize \in Int
      /\ Cardinality(WrittenBy(n)) \in Int
    BY LedgerAssumption, FiniteSlots DEF LedgerAssumption, IInv, TypeOK, NoId
<1>1. ~Sigterm(n) /\ ~Sigint(n) /\ alive[n] /\ n \notin notified \cup interrupted
    BY DEF IInv, TypeOK, Sigterm, Sigint, Moves, NodeStep, Deposit, StartBlock, TakeSem,
       ReadId, BumpId, ReleaseSem, Create, Add, WriteBlock, ReadCount, WriteCount,
       Compare, Notify, CheckAlive, Pause, Process, Leave
<1>2. Straight(n)
    BY <1>1 DEF Straightness
<1>3. pc[n] \notin Halted \cup {"dead"} /\ block_id[n] < MaxSize
      => budget[n] + Owed(n) = Cardinality(WrittenBy(n))
    BY <1>1 DEF Paid
<1>4. CASE WriteBlock(n)
  <2>1. /\ pc[n] = "write" /\ pc'[n] = "countRead" /\ block_id[n] < MaxSize
        /\ budget' = budget
      BY <1>0, <1>4 DEF WriteBlock
  <2>2. blocco[n].id \in Slot /\ blocco[n].id \notin WrittenBy(n)
      BY <1>0, <1>2, <2>1 DEF Straight, Carrying
  <2>3. WrittenBy(n)' = WrittenBy(n) \cup {blocco[n].id}
      BY <1>4, <2>2, WriteAdds
  <2>4. Cardinality(WrittenBy(n)') = Cardinality(WrittenBy(n)) + 1
      BY <2>2, <2>3, FiniteSlots, FS_AddElement
  <2>5. budget[n] = Cardinality(WrittenBy(n))
      BY <1>0, <1>3, <2>1
  <2> QED
      BY <1>0, <2>1, <2>4, <2>5
<1>5. CASE ~WriteBlock(n)
  <2>1. WrittenBy(n)' = WrittenBy(n)
      BY <1>5, OthersWriteNothing DEF WrittenBy
  <2>2. CASE ReadId(n)
    <3>1. \A i \in Mine(n) : i < last_block_id
        BY <2>2 DEF IInv, ReadId, Issued
    <3>2. last_block_id \in Int /\ block_id'[n] = last_block_id
        BY <1>0, <2>2 DEF ReadId, IInv, TypeOK
    <3>3. block_id[n] < MaxSize
        BY <1>0, <3>1, <3>2, LedgerAssumption DEF Mine, NoId, LedgerAssumption
    <3> QED
        BY <1>0, <1>3, <2>1, <2>2, <3>3 DEF ReadId
  <2>3. CASE Deposit(n) \/ StartBlock(n) \/ TakeSem(n) \/ BumpId(n) \/ ReleaseSem(n)
             \/ Create(n)
      BY <1>0, <1>3, <2>1, <2>3 DEF Deposit, StartBlock, TakeSem, BumpId, ReleaseSem,
         Create
  <2>4. CASE Add(n)
    <3>1. pc[n] = "add" /\ block_id[n] < MaxSize
        BY <1>0, <2>4 DEF Add
    <3>2. blocco[n].built /\ blocco[n].id < MaxSize
        BY <1>0, <1>2, <3>1 DEF Straight, Carrying
    <3>3. pc'[n] = "write"
        BY <1>0, <1>2, <2>4, <3>2 DEF Add, Straight
    <3> QED
        BY <1>0, <1>3, <2>1, <2>4, <3>1, <3>3 DEF Add
  <2>5. CASE ReadCount(n) \/ WriteCount(n) \/ Compare(n)
      BY <1>0, <1>3, <2>1, <2>5 DEF ReadCount, WriteCount, Compare
  <2>6. CASE Notify(n) \/ CheckAlive(n) \/ Pause(n) \/ Leave(n)
      BY <1>0, <1>1, <2>6 DEF Notify, CheckAlive, Pause, Leave
  <2>7. CASE Process(n)
      BY <1>0, <1>3, <2>1, <2>7 DEF Process, ClearBlock
  <2> QED
      BY <1>1, <1>5, <2>2, <2>3, <2>4, <2>5, <2>6, <2>7 DEF Moves, NodeStep
<1> QED
    BY <1>4, <1>5

\* Paid is inductive: writing a block puts its reward into what is owed, and
\* process_block moves it from there to the budget.
LEMMA NextPaid == IInv /\ Straightness /\ Paid /\ [Next]_vars => Paid'
<1> SUFFICES ASSUME IInv, Straightness, Paid, [Next]_vars, NEW m \in Node, Clean(m)'
             PROVE  (budget[m] + Owed(m) = Cardinality(WrittenBy(m)))'
    BY DEF Paid
<1>1. ASSUME NEW n \in Node, Moves(n)
      PROVE  (budget[m] + Owed(m) = Cardinality(WrittenBy(m)))'
  <2>1. CASE m = n
      BY <1>1, <2>1, MoverStaysPaid
  <2>2. CASE m # n
    <3>1. SameNode(m)
        BY <1>1, <2>2, OthersStay
    <3> QED
        BY <3>1 DEF SameNode, Paid, Clean, Owed
  <2> QED
      BY <2>1, <2>2
<1>2. CASE UNCHANGED <<ledgerVars, nodeVars>>
    BY <1>2 DEF Paid, Clean, Owed, ledgerVars, nodeVars, blockVars, infoVars, envVars,
       WrittenBy
<1> QED
    BY <1>1, <1>2, UsersWriteNothing DEF Next, Moves, vars

\* A node that nothing held up has been rewarded once for each of its blocks in
\* the ledger whenever it is back in its loop.
THEOREM RewardsBacked == Spec => []RewardBacked
<1>1. ASSUME IInv, Paid, NEW n \in Node, pc[n] = "loop", block_id[n] \in Slot, alive[n],
             n \notin notified \cup interrupted
      PROVE  budget[n] = Cardinality(WrittenBy(n))
  <2>1. block_id[n] < MaxSize /\ budget[n] \in Int
      BY <1>1, LedgerAssumption DEF LedgerAssumption, Slot, IInv, TypeOK
  <2>2. Clean(n) /\ Owed(n) = 0
      BY <1>1, <2>1 DEF Clean, Halted, Owed, Unpaid
  <2> QED
      BY <2>1, <2>2, <1>1 DEF Paid
<1>2. IInv /\ Paid => RewardBacked
    BY <1>1 DEF RewardBacked
<1> QED
    BY <1>2, InitPaid, NextPaid, Inductive, AlwaysStraight, PTL DEF Spec

-----------------------------------------------------------------------------
\* Until a node has told the master that the ledger is full, its pool covers
\* the block it has under way.
Solvent ==
    \A n \in Node \ notified :
        /\ trans_pool_size[n] >= 0
        /\ pc[n] \notin {"loop", "dead"} => trans_pool_size[n] >= BlockTx

\* Solvent is inductive: clear_block takes a block out of a pool that holds one,
\* unless the node has found the ledger full.
LEMMA NextSolvent == IInv /\ Solvent /\ [Next]_vars => Solvent'
<1> SUFFICES ASSUME IInv, Solvent, [Next]_vars, NEW m \in Node, m \notin notified'
             PROVE  /\ trans_pool_size'[m] >= 0
                    /\ pc'[m] \notin {"loop", "dead"} => trans_pool_size'[m] >= BlockTx
    BY DEF Solvent
<1> DEFINE Covered == /\ trans_pool_size'[m] >= 0
                      /\ pc'[m] \notin {"loop", "dead"} => trans_pool_size'[m] >= BlockTx
<1>0. /\ BlockTx \in Nat \ {0}
      /\ pc \in [Node -> NodePc] /\ trans_pool_size \in [Node -> Int]
      /\ resume[m] \in {"create", "add", "process"}
    BY LedgerAssumption DEF LedgerAssumption, IInv, TypeOK
<1>1. m \notin notified
         => /\ trans_pool_size[m] >= 0
            /\ pc[m] \notin {"loop", "dead"} => trans_pool_size[m] >= BlockTx
    BY DEF Solvent
<1>2. ASSUME Moves(m) PROVE Covered
  <2> USE <1>0 DEF Goto, infoVars, envVars
  <2>1. CASE Deposit(m) \/ StartBlock(m)
      BY <1>1, <2>1 DEF Deposit, StartBlock
  <2>2. CASE TakeSem(m) \/ ReadId(m) \/ BumpId(m) \/ ReleaseSem(m) \/ Create(m) \/ Add(m)
             \/ WriteBlock(m)
      BY <1>1, <2>2 DEF TakeSem, ReadId, BumpId, ReleaseSem, Create, Add, WriteBlock
  <2>3. CASE ReadCount(m) \/ WriteCount(m) \/ Compare(m) \/ Notify(m)
      BY <1>1, <2>3 DEF ReadCount, WriteCount, Compare, Notify
  <2>4. CASE CheckAlive(m) \/ Pause(m) \/ Leave(m)
      BY <1>1, <2>4 DEF CheckAlive, Pause, Leave
  <2>5. CASE Process(m)
      BY <1>1, <2>5 DEF Process, ClearBlock
  <2>6. CASE Sigterm(m) \/ Sigint(m)
      BY <1>1, <2>6 DEF Sigterm, Sigint, WakeUp
  <2> QED
      BY <1>2, <2>1, <2>2, <2>3, <2>4, <2>5, <2>6 DEF Moves, NodeStep
<1>3. ASSUME NEW n \in Node, Moves(n), m # n PROVE Covered
    BY <1>1, <1>3, OthersStay DEF SameNode
<1>4. CASE UNCHANGED <<ledgerVars, nodeVars>>
    BY <1>1, <1>4 DEF nodeVars, infoVars, envVars
<1> QED
    BY <1>2, <1>3, <1>4, UsersWriteNothing DEF Next, Moves, vars

\* clear_block takes more from a pool than was put in only in a node that has
\* found the ledger full, whatever blocks are refused or interrupted.
THEOREM PoolsSolvent == Spec => []PoolDebtOnlyAfterNotice
<1>1. Init => Solvent
    BY DEF Init, Solvent
<1>2. IInv /\ Solvent => PoolDebtOnlyAfterNotice
    BY DEF IInv, TypeOK, Solvent, PoolDebtOnlyAfterNotice
<1> QED
    BY <1>1, <1>2, NextSolvent, Inductive, PTL DEF Spec

-----------------------------------------------------------------------------
\* What a user has added up so far is among the written slots it has passed.
Passed(u) == {s \in Written : s < pos[u]}

\* Sums and incomes never exceed the blocks they were taken from.
Summed ==
    /\ \A u \in User : upc[u] = "scan" => sum[u] <= Cardinality(Passed(u))
    /\ IncomeBacked

\* A written slot stays written.
LEMMA WrittenGrows == IInv /\ [Next]_vars => Written \subseteq Written'
<1> SUFFICES ASSUME IInv, [Next]_vars PROVE Written \subseteq Written'
    OBVIOUS
<1>1. ASSUME UNCHANGED shd_block PROVE Written' = Written
    BY <1>1 DEF Written
<1> QED
    BY <1>1, WriteAdds, OthersWriteNothing, UsersWriteNothing
    DEF Next, Moves, vars, ledgerVars

\* Summed is inductive: the position of a scan only passes blocks that stay in
\* the ledger, and each adds at most one to the sum.
LEMMA NextSummed == IInv /\ Summed /\ [Next]_vars => Summed'
<1> SUFFICES ASSUME IInv, Summed, [Next]_vars, NEW u \in User
             PROVE  /\ upc'[u] = "scan" => sum'[u] <= Cardinality(Passed(u)')
                    /\ revenue'[u] <= Cardinality(Written')
    BY DEF Summed, IncomeBacked
<1>1. /\ upc \in [User -> {"start", "idle", "scan", "stamp"}]
      /\ pos \in [User -> Nat] /\ sum \in [User -> Nat] /\ revenue \in [User -> Nat]
    BY DEF IInv, TypeOK
<1>2. /\ IsFiniteSet(Written') /\ Cardinality(Written') \in Nat
      /\ Cardinality(Written) \in Nat /\ Cardinality(Written) <= Cardinality(Written')
      /\ Written \subseteq Slot
  <2>1. IsFiniteSet(Written')
      BY FiniteSlots, FS_Subset DEF Written
  <2> QED
      BY <2>1, FiniteSlots, WrittenGrows, FS_Subset, FS_CardinalityType DEF Written
<1>3. ASSUME NEW S \in SUBSET Written' PROVE IsFiniteSet(S) /\ Cardinality(S) \in Nat
                                              /\ Cardinality(S) <= Cardinality(Written')
    BY <1>2, FS_Subset, FS_CardinalityType
<1>4. Passed(u) \subseteq Written' /\ Passed(u)' \subseteq Written'
    BY WrittenGrows DEF Passed
<1>5. /\ revenue[u] <= Cardinality(Written)
      /\ upc[u] = "scan" => sum[u] <= Cardinality(Passed(u))
    BY DEF Summed, IncomeBacked
<1>6. CASE UNCHANGED userVars
  <2>1. Passed(u) \subseteq Passed(u)'
      BY <1>6, WrittenGrows DEF userVars, Passed
  <2>2. Cardinality(Passed(u)) <= Cardinality(Passed(u)')
      BY <1>3, <1>4, <2>1, FS_Subset
  <2> QED
      BY <1>1, <1>2, <1>3, <1>4, <1>5, <1>6, <2>2 DEF userVars
<1>7. ASSUME NEW w \in User, UserStep(w)
      PROVE  /\ upc'[u] = "scan" => sum'[u] <= Cardinality(Passed(u)')
             /\ revenue'[u] <= Cardinality(Written')
  <2>1. Written' = Written
      BY <1>7, UsersWriteNothing DEF ledgerVars, Written
  <2>2. CASE StartRead(w)
      BY <1>1, <1>3, <1>4, <1>5, <2>1, <2>2 DEF StartRead, Passed
  <2>3. CASE ScanBlock(w)
    <3>1. CASE u = w
      <4>1. Passed(u)' = Passed(u) \cup ({pos[u]} \cap Written)
        <5>1. pos'[u] = pos[u] + 1 /\ pos[u] \in Int
            BY <1>1, <2>3, <3>1 DEF ScanBlock
        <5>2. \A s \in Written : s \in Int
            BY <1>2 DEF Slot
        <5>3. \A s \in Written : s < pos'[u] <=> s < pos[u] \/ s = pos[u]
            BY <5>1, <5>2
        <5>4. Passed(u)' = {s \in Written : s < pos'[u]}
            BY <2>1 DEF Passed
        <5> QED
            BY <5>3, <5>4 DEF Passed
      <4>2. pos[u] \notin Passed(u)
          BY <1>1 DEF Passed
      <4>3. Cardinality(Passed(u)') =
              Cardinality(Passed(u)) + (IF pos[u] \in Written THEN 1 ELSE 0)
        <5>1. CASE pos[u] \in Written
          <6>1. Passed(u)' = Passed(u) \cup {pos[u]}
              BY <4>1, <5>1
          <6> QED
              BY <1>3, <1>4, <4>2, <5>1, <6>1, FS_AddElement
        <5>2. CASE pos[u] \notin Written
          <6>1. Passed(u)' = Passed(u)
              BY <4>1, <5>2
          <6> QED
              BY <1>3, <1>4, <5>2, <6>1
        <5> QED
            BY <5>1, <5>2
      <4> QED
          BY <1>1, <1>3, <1>4, <1>5, <2>1, <2>3, <3>1, <4>3 DEF ScanBlock
    <3>2. CASE u # w
        BY <1>1, <1>5, <2>1, <2>3, <3>2 DEF ScanBlock, Passed
    <3> QED
        BY <3>1, <3>2
  <2>4. CASE EndScan(w)
    <3>1. upc[u] = "scan" => sum[u] <= Cardinality(Written)
        BY <1>1, <1>2, <1>3, <1>4, <1>5, <2>1
    <3> QED
        BY <1>1, <1>5, <2>1, <2>4, <3>1 DEF EndScan, Passed
  <2>5. CASE StampRead(w)
      BY <1>1, <1>5, <2>1, <2>5 DEF StampRead, Passed
  <2> QED
      BY <1>7, <2>2, <2>3, <2>4, <2>5 DEF UserStep
<1>8. ASSUME NEW n \in Node, Moves(n) PROVE UNCHANGED userVars
    BY <1>8 DEF Moves, NodeStep, Deposit, StartBlock, TakeSem, ReadId, BumpId, ReleaseSem,
       Create, Add, WriteBlock, ReadCount, WriteCount, Compare, Notify, CheckAlive, Pause,
       Process, Leave, Sigterm, Sigint
<1> QED
    BY <1>6, <1>7, <1>8 DEF Next, Moves, vars

\* An income computed while nodes publish never counts more blocks than there are.
THEOREM IncomesBacked == Spec => []IncomeBacked
<1>1. Init => Summed
  <2> SUFFICES ASSUME Init PROVE Summed
      OBVIOUS
  <2> QED
      BY FiniteSlots DEF Init, Summed, IncomeBacked
<1>2. Summed => IncomeBacked
    BY DEF Summed
<1> QED
    BY <1>1, <1>2, NextSummed, Inductive, PTL DEF Spec

-----------------------------------------------------------------------------
\* Lost increments make block_count too small, never too large: together with
\* the nodes that have published and not counted yet, it stays within the
\* blocks in the ledger.  Claimed until an id is refused.
Counting == {n \in Node : pc[n] \in {"countRead", "countWrite"}}

\* No process was interrupted by Ctrl-C and no id beyond the end is taken.
Calm == interrupted = {} /\ last_block_id <= MaxSize + 1

Counted ==
    /\ block_count + Cardinality(Counting) <= Cardinality(Written)
    /\ \A n \in Node : pc[n] = "countWrite" =>
          count_seen[n] + Cardinality(Counting) <= Cardinality(Written)
    /\ (notified # {} \/ \E n \in Node : pc[n] = "notify") => Written = Slot

CountedWhileCalm == Calm => Counted

\* The nodes that count are finitely many, before and after a step.
LEMMA FiniteCounting ==
    /\ IsFiniteSet(Counting) /\ Cardinality(Counting) \in Nat
    /\ IsFiniteSet(Counting') /\ Cardinality(Counting') \in Nat
    BY LedgerAssumption, FS_Subset, FS_CardinalityType DEF LedgerAssumption, Counting

\* Nothing makes a state calm again.
LEMMA CalmBefore == IInv /\ [Next]_vars /\ Calm' => Calm
<1> SUFFICES ASSUME IInv, [Next]_vars, Calm' PROVE Calm
    OBVIOUS
<1>1. CASE UNCHANGED <<ledgerVars, nodeVars>>
    BY <1>1 DEF Calm, ledgerVars, nodeVars, envVars
<1>2. ASSUME NEW n \in Node, Moves(n) PROVE Calm
    BY <1>2, LedgerAssumption
    DEF Calm, LedgerAssumption, IInv, TypeOK, Moves, NodeStep, Deposit, StartBlock, TakeSem,
        ReadId, BumpId, ReleaseSem, Create, Add, WriteBlock, ReadCount, WriteCount, Compare,
        Notify, CheckAlive, Pause, Process, Leave, Sigterm, Sigint, ledgerVars, envVars
<1> QED
    BY <1>1, <1>2, UsersWriteNothing DEF Next, Moves, vars

\* In a calm state a block goes to a slot that nobody has written.
LEMMA CalmWritesFresh ==
    ASSUME IInv, Straightness, Calm, NEW n \in Node, pc[n] = "write"
    PROVE  blocco[n].id \in Slot \ Written
<1>1. Straight(n) /\ block_id[n] \in Nat \cup {NoId}
    BY DEF Straightness, Calm, IInv, TypeOK
<1>2. block_id[n] <= MaxSize
  <2>1. block_id[n] # NoId => block_id[n] < last_block_id
      BY <1>1 DEF IInv, Issued, Mine
  <2> QED
      BY <1>1, <2>1, LedgerAssumption DEF Calm, LedgerAssumption, NoId, IInv, TypeOK
<1>3. blocco[n].id \in Slot /\ blocco[n].id \notin WrittenBy(n)
    BY <1>1, <1>2 DEF Straight, Carrying
<1>4. ASSUME NEW m \in Node, m # n PROVE blocco[n].id \notin WrittenBy(m)
    BY <1>3, <1>4, LedgerAssumption DEF IInv, UniqueIds, Mine, Slot, NoId, LedgerAssumption
<1>5. shd_block[blocco[n].id].by \in Node \cup {Nobody}
    BY <1>3 DEF IInv, TypeOK, Block
<1> QED
    BY <1>3, <1>4, <1>5 DEF Written, WrittenBy

\* CountedWhileCalm is inductive: every increment of block_count that is read and
\* written back stands for a block of its own.
LEMMA NextCounted ==
    IInv /\ Straightness /\ CountedWhileCalm /\ [Next]_vars => CountedWhileCalm'
<1> SUFFICES ASSUME IInv, Straightness, CountedWhileCalm, [Next]_vars, Calm'
             PROVE  Counted'
    BY DEF CountedWhileCalm
<1>1. Calm /\ Counted
    BY CalmBefore DEF CountedWhileCalm
<1>2. /\ Cardinality(Counting) \in Nat /\ Cardinality(Written) \in Nat /\ block_count \in Nat
      /\ \A n \in Node : count_seen[n] \in Nat
    BY FiniteCounting, FiniteSlots DEF IInv, TypeOK
<1>3. CASE UNCHANGED <<ledgerVars, nodeVars>>
    BY <1>1, <1>3
    DEF Counted, Counting, Written, ledgerVars, nodeVars, blockVars, envVars
<1>4. ASSUME NEW n \in Node, Moves(n) PROVE Counted'
  <2> USE DEF IInv, TypeOK, Goto, blockVars, infoVars, envVars, ledgerVars
  <2>1. CASE WriteBlock(n)
    <3>1. pc[n] \in {"write"} /\ blocco[n].id \in Slot \ Written
        BY <1>1, <2>1, CalmWritesFresh DEF WriteBlock
    <3>2. /\ pc'[n] = "countRead" /\ \A m \in Node : m # n => pc'[m] = pc[m]
          /\ UNCHANGED <<block_count, count_seen, notified>>
        BY <2>1, <3>1 DEF WriteBlock
    <3>3. Counting' = Counting \cup {n} /\ n \notin Counting
        BY <3>1, <3>2 DEF Counting
    <3>4. Written' = Written \cup {blocco[n].id}
        BY <2>1, <3>1, WriteAdds
    <3>5. /\ Cardinality(Counting') = Cardinality(Counting) + 1
          /\ Cardinality(Written') = Cardinality(Written) + 1
        BY <3>1, <3>3, <3>4, FiniteCounting, FiniteSlots, FS_AddElement
    <3>6. notified = {} /\ \A m \in Node : pc[m] # "notify"
        BY <1>1, <3>1 DEF Counted
    <3> QED
        BY <1>1, <1>2, <3>2, <3>5, <3>6 DEF Counted
  <2>2. CASE WriteCount(n)
    <3>1. /\ pc[n] = "countWrite" /\ pc'[n] = "compare"
          /\ \A m \in Node : m # n => pc'[m] = pc[m]
          /\ block_count' = count_seen[n] + 1
          /\ UNCHANGED <<shd_block, count_seen, notified>>
        BY <2>2 DEF WriteCount
    <3>2. Counting' = Counting \ {n} /\ n \in Counting /\ Written' = Written
        BY <3>1 DEF Counting, Written
    <3>3. Cardinality(Counting') = Cardinality(Counting) - 1
        BY <3>2, FiniteCounting, FS_RemoveElement
    <3> QED
      <4>1. block_count' + Cardinality(Counting') <= Cardinality(Written')
          BY <1>1, <1>2, <3>1, <3>2, <3>3 DEF Counted
      <4>2. ASSUME NEW m \in Node, pc'[m] = "countWrite"
            PROVE  count_seen'[m] + Cardinality(Counting') <= Cardinality(Written')
        <5>1. count_seen[m] + Cardinality(Counting) <= Cardinality(Written)
            BY <1>1, <3>1, <4>2 DEF Counted
        <5> QED
            BY <1>2, <3>1, <3>2, <3>3, <5>1
      <4> QED
          BY <1>1, <3>1, <3>2, <4>1, <4>2 DEF Counted
  <2>3. CASE ReadCount(n)
    <3>1. Counting' = Counting /\ Written' = Written
        BY <2>3 DEF ReadCount, Counting, Written
    <3> QED
        BY <1>1, <1>2, <2>3, <3>1 DEF ReadCount, Counted
  <2>4. CASE Compare(n)
    <3>1. Counting' = Counting /\ Written' = Written
        BY <2>4 DEF Compare, Counting, Written
    <3>2. block_count = MaxSize => Written = Slot
      <4> SUFFICES ASSUME block_count = MaxSize PROVE Cardinality(Written) = Cardinality(Slot)
          BY FiniteSlots, FS_Subset DEF Written
      <4>1. Cardinality(Written) <= Cardinality(Slot)
          BY FiniteSlots, FS_Subset DEF Written
      <4>2. MaxSize + Cardinality(Counting) <= Cardinality(Written)
          BY <1>1 DEF Counted
      <4>3. MaxSize \in Nat /\ Cardinality(Slot) = MaxSize
          BY LedgerAssumption, FiniteSlots DEF LedgerAssumption
      <4> QED
          BY ONLY <1>2, <4>1, <4>2, <4>3
    <3> QED
        BY <1>1, <1>2, <2>4, <3>1, <3>2 DEF Compare, Counted
  <2>5. CASE Notify(n)
    <3>1. Counting' = Counting /\ Written' = Written
        BY <2>5 DEF Notify, Counting, Written
    <3> QED
        BY <1>1, <1>2, <2>5, <3>1 DEF Notify, Counted
  <2>6. CASE \/ Deposit(n) \/ StartBlock(n) \/ TakeSem(n) \/ ReadId(n) \/ BumpId(n)
             \/ ReleaseSem(n) \/ Create(n) \/ Add(n) \/ CheckAlive(n) \/ Pause(n)
             \/ Process(n) \/ Leave(n) \/ Sigterm(n) \/ Sigint(n)
    <3>1. /\ UNCHANGED <<shd_block, block_count, count_seen, notified>>
          /\ \A m \in Node : pc'[m] = "notify" => pc[m] = "notify"
          /\ \A m \in Node : pc'[m] = "countWrite" <=> pc[m] = "countWrite"
          /\ \A m \in Node : pc'[m] = "countRead" <=> pc[m] = "countRead"
      <4>1. CASE Deposit(n) \/ StartBlock(n) \/ TakeSem(n) \/ ReadId(n) \/ BumpId(n)
                 \/ ReleaseSem(n) \/ Create(n)
          BY <4>1 DEF Deposit, StartBlock, TakeSem, ReadId, BumpId, ReleaseSem, Create
      <4>2. CASE Add(n) \/ CheckAlive(n) \/ Pause(n) \/ Process(n) \/ Leave(n)
          BY <4>2 DEF Add, CheckAlive, Pause, Process, Leave
      <4>3. CASE Sigterm(n) \/ Sigint(n)
          BY <4>3 DEF Sigterm, Sigint, WakeUp
      <4> QED
          BY <2>6, <4>1, <4>2, <4>3
    <3>2. Counting' = Counting /\ Written' = Written
        BY <3>1 DEF Counting, Written
    <3> QED
        BY <1>1, <3>1, <3>2 DEF Counted
  <2> QED
      BY <1>4, <2>1, <2>2, <2>3, <2>4, <2>5, <2>6 DEF Moves, NodeStep
<1> QED
    BY <1>3, <1>4, UsersWriteNothing DEF Next, Moves, vars

\* Increments of block_count are lost, and still no node announces a full
\* ledger before every slot is written, until ids beyond the end are taken.
THEOREM NoticesTrue == Spec => []NoticeImpliesFull
<1>1. Init => CountedWhileCalm
  <2> SUFFICES ASSUME Init PROVE Counted
      BY DEF CountedWhileCalm
  <2>1. Counting = {}
      BY DEF Init, Counting
  <2> QED
      BY <2>1, FiniteSlots, FS_EmptySet DEF Init, Counted
<1>2. CountedWhileCalm => NoticeImpliesFull
    BY DEF CountedWhileCalm, Counted, Calm, NoticeImpliesFull
<1> QED
    BY <1>1, <1>2, NextCounted, Inductive, AlwaysStraight, PTL DEF Spec

=============================================================================
