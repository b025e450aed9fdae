# TLA+ specification of the transaction simulation (Progetto SO 2021/22)

The program simulates a shared ledger with System V IPC. A **master** process
(`main.c`) creates **node** processes (`node.c`) and **user** processes
(`user.c`). Users send transactions to nodes through a message queue; nodes
keep them in a private pool, pass some of them to friends, and publish blocks
in a ledger in shared memory (`ledger.c`). Users add up their income from the
ledger. The master prints a summary every second, adds nodes on request, and
ends the simulation. Everything happens between processes: shared memory,
semaphores, message queues and signals. That is where this project looks.

Line numbers are those of `src/app/`.

## 1. The system

| Component | State | Operations | Interacts with |
|---|---|---|---|
| Ledger (`ledger.c`) | `shd_block[]`, `last_block_id`, `block_count`, one binary semaphore | `get_new_block_id`, `add_block`, `get_process_revenue` | nodes write, users read, master reads `block_count` at the end |
| Block life cycle (`node.c` 293-341) | `blocco`, `clear_pos[]`, the node's pool counter and budget | `create_block`, `add_block`, `clear_block`, SIGUSR1 to the master, `pause` | ledger, master, signals |
| Routing (`node.c` 199-291, 465-500, 624-665, 734-747) | message queue, transaction pool, `idx_last_tp_used`, hops | deposit, forward, refuse, escalate, cron | users, other nodes, master |
| Added nodes (`main.c` 211-293) | `nodes[]`, priority queue | take a request, fork, first message, refund | nodes, users |
| Summary gate (`main.c` 537-633, `node.c` 668-690, `user.c` 273-304, 386-418) | `sem_sync[0]`, `sem_sync[1]` (step 2) | raise, wait, read, drop; pass, enter, write, leave | all processes |
| Start-up (`main.c` 164-208, `node.c` 158-197, `user.c` 136-151) | the same two semaphores (step 1), friends queue | create, register, barriers, send and read friends | all processes |
| User (`user.c`) | `local_budget`, `retry`, cache of users alive | `generate_transation`, SIGUSR1 handler, refunds | routing, ledger |
| Master's life (`main.c` 93-122, 294-338) | `alive`, `exitStatus` | kill, wait, review, clean up | all processes |
| Summary pass (`main.c` 568-616, 635-661) | `max[]`, `min[]`, reads `user_info[]` | fill, test, copy, free | users that write meanwhile |
| Selection (`main.c` 780-799, 893-921; `node.c` 749-768) | none | random picks, friend rotation | - |
| Configuration (`config.c`) | `struct Options` | read once | everybody reads it |

What makes it hard:

* **Interleaving**: counters and slots in shared memory are accessed by several
  processes, some under a semaphore and some not (`block_count++`).
* **Signals**: `signal()` gives persistent handlers, but `semop`, `msgrcv`,
  `msgsnd` and `pause` return `EINTR` all the same. Most results are not
  tested, and `alive` is tested before calls that block.
* **Queues that fill**: sends are made with and without `IPC_NOWAIT`; a failed
  send means a hop, a refund, or nothing.
* **One semaphore, two meanings**: `sem_sync` is first a start-up barrier and
  then the gate of the summaries.

Correctness, component by component: a slot of the ledger has one author, ids
are private to one node, and a block changes only once ids past the end of the
ledger have been taken; rewards and incomes are backed by blocks, up to the
notice of a full ledger; a transaction exists once and is published once, and
only the cron refunds one that lives on; the gate's counters are exact and hold
nobody up for ever, and what it lets through changes a summary only so far;
nobody passes a barrier early; the simulation ends unless a node loses its
SIGTERM before a call that sleeps, and its report is true but for the reason
that a full ledger drags in; a user that gets no SIGUSR1 does not spend what it
has not. The exceptions are the code's: section 5 says where it does not do what
its comments say. PROJECT.json lists every hazard at its line.

## 2. Modules

| Module | Models | Kind |
|---|---|---|
| `BlockLog` | what the ledger promises: one author per slot, whose block changes only past the end | abstract specification |
| `Ledger` | ledger, block life cycle, users' reads, SIGTERM and SIGINT | detailed; implements `BlockLog` |
| `LedgerProofs` | types, unique ids, refinement; writes, rewards, incomes, pool debts and notices | proofs |
| `PrintGate` | `sem_sync`, step 2, to the end of the simulation | detailed |
| `Summary` | `PrintGate` with the pass of `print_summary`, read by read | composition |
| `PrintGateProofs` | exact semaphores, one late write; what the pass finds | proofs |
| `TxLife` | what a user is promised of a transaction | abstract specification |
| `TxFlow` | queue, pools, hops, cron, added nodes, refunds | detailed; implements `TxLife` |
| `TxPoolProofs` | the circular search, types, exact pool counter, slots of a block | proofs |
| `TxFlowProofs` | one place, one publication, nothing lost, who refunds what; refinement | proofs |
| `Startup` | `sem_sync`, step 1, friends, failures of fork and execv, the kills | detailed |
| `StartupProofs` | both barriers keep their order, types; `Lifecycle`: true review, every child told | proofs |
| `Lifecycle` | `Startup` with the clock, `exitStatus`, the switch and the review | composition |
| `UserBudget` | one user: budget, cache of users alive, SIGUSR1 handler | detailed |
| `UserBudgetProofs` | what the handler can make the account forget, sound budget without it | proofs |
| `UserCacheProofs` | types, the cache of users alive | proofs |
| `FoldLemmas` | `Min` and the folds over finite sets, for the other proofs | proofs |
| `MCLedger`, `MCSummary`, `MCTxFlow`, `MCLifecycle`, `MCUserBudget` | instances for TLC (symmetry sets, an initial condition) | - |

The components meet at few points, and each module keeps only what the others
need from it. `TxFlow!Publish` is one step for what `Ledger` does in ten;
`Ledger!Deposit` is one step for what `TxFlow` does in the drain loop;
`PrintGate` starts where `Startup` ends, with both semaphores at zero.
`Lifecycle` extends `Startup`: each of its actions is one of `Startup` with what
it does to `exitStatus`. `Summary` extends `PrintGate` in the same way with
the budgets and the arrays of the pass. `UserBudget` opens up the user that is a writer of
`PrintGate`, and sees of the others what the code sees: `status`, the count of
`sem_proc_alive`, the gate, and its income.

### Ledger

One program counter per process, one action per access to shared memory or
system call. `block_count++` is `ReadCount` and `WriteCount`;
`get_new_block_id` is `TakeSem`, `ReadId`, `BumpId`, `ReleaseSem`. `Sigterm`
and `Sigint` can come between any two actions; `WakeUp` is what they do to a
blocked `semop` (it returns -1, which becomes the id) and to `pause` (it
returns). The test of `alive` and the `pause` after it are two actions. After
a failed `create_block`, the node goes on with the block of the previous round,
as the code does; a block never built is read uninitialised (`Add`). An id of
-1 writes before the array: `WriteBlock` leaves the array as it is or the
process dies. `blocco` keeps pointers into the pool, so it is not a copy of the
transactions: a `Deposit` may land in a slot that they lead to and `clear_block`
has freed, and then the block changes (`txs`). `WriteBlock` copies what the
pointers lead to at that moment; a node whose new id was refused writes its old
block again, and the published slot gets other transactions. `BlockLog` calls
this `Rewrite` and allows it to the slot's author once an id past the end has
been taken (`RunOut`). A block is worth one unit of reward and pays one unit to every
user, so budgets and incomes count blocks.

### PrintGate

A writer is a user or a node: `ReachGate`, `PassGate` or `BreakGate` (the wait
was interrupted and its result is not tested), `Enter` (V), `Write`, `Leave`
(P). `last` marks the write of `clear`. The master raises the gate, waits,
reads, drops it, prints the nodes with the gate open, and at the end kills its
children and waits. `writes` and `breaks` are history, reset at every raising.
`ChildrenEnd` is about the gate alone: the calls in which a node may sleep are
in `Ledger` and `Startup`.

### Summary

With more users than `PRINT_PROCESS_LIMIT`, `print_summary` makes one pass over
`user_info[]` in shared memory. `Fill` copies the first users to both arrays;
for each of the others `TestMax` and `TestMin` compare its budget with the
lowest of `max`, the highest of `min`, and `CopyMax` and `CopyMin` read
`user_info[j]` again to copy it. These four are steps of their own, since a late
writer (`WriteBudget`) may fall between the test and the copy, and between one
user and the next. `tops` and `bottoms` are history: the highest and the lowest
budget of each user in the course of the pass.

### TxFlow

A transaction is a model value; pools, queues and hands hold it. Messages are
received by type: `IndexFor` finds the oldest message for a process. A friend
is any started node, which covers every friendship. `Reject` is a send with
`IPC_NOWAIT` whose result is ignored: `dropped` records the refunds lost.
`clear_pos` is kept from `CreateBlock` to `ClearBlock`, and the cron's move of
`idx_last_tp_used` is in the state because the next block starts from it.
`Stranded` is a new node whose first message the master could not send. The
ledger is not full and nobody is terminated: the transactions of a refused
block are lost, which `Ledger` models (a refused block is cleared like any
other).

`TxLife` is what is left of this for a user: a transaction is `"new"`,
`"waiting"`, `"published"` or `"refused"`, and a refund is promised, lost or
paid. A block takes a whole set of waiting transactions. `Life` maps to it: the
stage of a transaction is told from the ledger, from `sent`, and from whether
it is in any queue, hand or pool slot (`Stage`), the refunds are `Promised`,
`dropped` and `refunded`. `RefundWaiting` is in the abstract specification
because the code does it (finding 4): a promise of refund does not end the wait.
Hops, full queues, requests to the master and new nodes are stutters. What the
refinement adds to the invariants is about steps: nothing leaves the published
or the refused, a block never takes fewer or other transactions than it counts,
and a user is paid only what was sent to it.

### Startup

Nodes and users are numbered in the order of their creation. `sem0` counts down
at registration and `sem1` when a node has its friends; a running process moves
`sem1` up and down, because step 2 shares it. `Test0` and `Test1` are the tests
of `alive` before the waits. `ServeNode`, `ChooseFriend` and `SendFriend` are
`send_friends`, one pid and one message at a time: the choice goes round
`nodes_info` from where it stopped (`last`) and leaves out the pid of the node
it serves (`avoid`), which is 0 if that node has not registered; `msgsnd`
refuses type 0. A running node `Decide`s on a call while `alive` is 1 and makes it
in a second step (`Call`): one of the three pauses, or the `msgsnd` to the
master, which waits while the queue is full (`MakeRoom`). `Asleep` are the
states in such a call; a SIGTERM or Ctrl-C that comes there wakes the node, one
that comes between the two steps does not. `MasterSignal` is any signal to the master, with the waits it
breaks. `Kill` ends the children without a handler (`Unhandled`); of those at a
barrier (`Waiting`) some exit, because their `semop` fails, and some had tested
`alive` and not called `semop` yet: these keep the signal and wait.

### Lifecycle

`exitStatus` starts as 0, "time is up", and is overwritten by every later event
(`Ends`): the alarm, Ctrl-C, the notice of a full ledger, a failed fork or
execv, and the master itself when it counts no user (`CountUsers`). `LeaveLoop`
is the end of the loop, the switch and the kills; `Review` is the wait, the
report and the removal of the IPC objects. `Reasons` is the switch of
`print_final_review`: case 3 has no `break` (`main.c:735`), so a full ledger is
reported together with a failed creation of processes. `StatusTrue` names that
as the only false reason (`Holds`). Events may still come while the master
waits. `happened` is history: the events that occurred.

### UserBudget

One program counter for `main` and one for the SIGUSR1 handler, which runs
`generate_transation` and `update_budget` between any two steps of `main`
(`main` is frozen meanwhile; SIGTERM and Ctrl-C are not blocked). `local_budget
+= amount` is `Load` and `Store`, `sync_alive_users` is one step per user, and
`budget` and `sendable_user_count` are read again by `rand_int_range` after
their test: `Amounts` is its range, also when the limits have crossed, and
`Crashes` its division by zero. A peer sets its status to 0 and then exits, or
crashes. `Interrupted` is what a signal does to a wait at the gate. `sent` and
`refunded` record what the user has sent and got back, `rejected` what may still
come back: the cron of a node may refund one transaction several times, so each
entry has the refunds to come. `income` is what `get_process_revenue` returns,
which goes down when `block_count` goes back; `peak` is its highest value. At
the end `Clear` detaches the memory in two steps: a handler that runs between
them works as long as it reads only what is still there (`MeetsDetached`).

The rotation of friends is in `Startup`; random picks are `\E` over what they pick from.

## 3. Runs

| Run | Instance | Shows |
|---|---|---|
| `ledger_safety` | 2 nodes, 1 user, 2 slots, ids taken beyond the end, Ctrl-C | `UniqueIds`, `NoticeImpliesFull`, `RewardBacked`, `IncomeBacked`, `PoolDebtOnlyAfterNotice`, `WildWriteNeedsCtrlC`, refinement `LogSpec` |
| `ledger_live` | 2 nodes, signals | `PublishCompletes`, `TerminatedUnlessPausing` |
| `print_gate` | `Summary`: a user and a node write, 1 interrupted wait each per closing; 3 users, 1 shown as highest and 1 as lowest, 2 budgets | `SemsExact`, `OneWritePerClosing`, `NobodyOutstandingMissed`, `SummaryShowsExtremes`, `SummaryEnds`, `WriterServed`, `ChildrenEnd` |
| `tx_flow` | 3 transactions, 1 node and 1 spare, pools and queues of 1 | `SingleCopy`, `NothingVanishes`, `OnlyCronRefundsTheLiving`, `QueueServed`, `RequestServed` |
| `tx_flow_blocks` | the same with blocks and pools of 2 | `PublishedOnce`, `PoolCountExact`, refinement `LifeSpec` |
| `lifecycle` | `Lifecycle`: 2 nodes that are friends, 1 user, queue of 1, two processes disturbed | `RegisteredFirst`, `FriendsFirst`, `ClockAfterFriends`, `FriendsArrive`, `StatusTrue`, `EveryChildTold`, `EndsUnlessAsleep` |
| `user_budget` | 3 users, one of them in detail; initial budget 1, income 0 or 1, 2 sends refunded up to twice each, one SIGUSR1, any SIGTERM and Ctrl-C | `OnlyHandlerForgotten`, `SoundWithoutSignal`, `CacheHitFresh`, `NobodyLeft`, `SummaryUnlessSelfBlocked` |
| `ledger_full_notice`, `ledger_stop`, `tx_flow_refund`, `startup_barrier`, `summary_race` | small instances | the findings of section 5 |

The runs of `Ledger`, `TxFlow`, `Lifecycle` and `UserBudget` also check the
module's `TypeOK`.

**Bounds and why they are enough.** Two nodes give every race for the id, the
counter and the slots; a ledger of two slots has a first, a last and an end.
`IdBound` stops new transactions once that many ids are taken, and is one more
than the slots, so that refused ids occur. Every queue of `tx_flow` holds one
message, and a pool one transaction, so that each is full in many states:
transactions run out of hops, requests meet the limit of nodes, and the first
message to a new node can fail. `tx_flow_blocks` uses blocks of two because
with one transaction per block the order of slots could not go wrong.

In `print_gate` three users are the fewest of which one can be left out of both
arrays, and one of them writes. `MCInit` lets the two that do not write differ
in budget; two equal ones would never tell which of them is shown. Two budgets
are enough there, since any comparison of the pass comes out either way;
`summary_race` needs four: the three users, and one of them before and after.
`MaxBreaks` bounds interrupted waits per closing; the proof covers any number.

In `lifecycle` each node has one friend, so the choice never wraps round to a
second; it goes past the node itself, and the two messages do not fit in the
queue. `startup_barrier` has three nodes of two friends each. The alarm, the full
ledger and the count of users come on top of the two disturbed processes (master
included), so the signals of three sources meet.

In `user_budget` one SIGUSR1 is enough for every interruption of `main` by the
handler, since handlers do not nest; an initial budget of 1 with an income of 1 is
the least that can be sent, so the user has to see its income first, and may see
it fall afterwards; two sends let the handler spend what `main` has tested; two
peers let the cache agree with the count and be wrong, and be written by two
runs of `sync_alive_users`.
Reached in this run (each was asked for with a false invariant): the lost
addition, the division by a number of users that the handler has set to zero,
the user's own pid in its cache, a crashed user in the cache, spending beyond the budget, the handler that finds the list empty,
a transaction refunded twice, and the user that blocks itself at the gate.

**Symmetry** is used only in runs without liveness: nodes in `ledger_safety`,
transactions and first nodes in `tx_flow_blocks`.

**Deadlock** checking is off: all the processes may end, and a simulation
whose transactions are all settled stops.

**Fairness.** Weak fairness of every process: the scheduler runs every process
that can run. Signals, Ctrl-C, failures, new transactions and users that give
up are never fair. Two strong assumptions: on `TakeSem`, because System V
semaphores serve waiting P operations in order of arrival; on `PassGate`,
because the kernel completes the waits for zero at the moment the value drops
to zero. The same would justify strong fairness of `SyncNodes` in `Startup`,
but with two writers inside by turns the value need never be zero, so no
liveness of the second barrier is claimed. `Lifecycle` adds weak fairness of the
alarm, which the kernel delivers once it is set; `EndsUnlessAsleep` rests on it.
`SummaryFairness` is the fairness of `PrintGate` with the reads of the pass as
steps of the master.
`UserBudget` asks fairness of the user and of the master only: no peer, payment
or signal need ever come.

## 4. Proofs

TLAPS checks the theorems below for every value of the constants the
assumptions allow. Each rests on an inductive invariant,
since no property of a run but `SemsExact` (with the types of the gate) is
inductive as it stands.

### Ledger

* `LedgerProofs`: `TypeCorrect` (`TypeOK`), `IdsUnique` (`UniqueIds`). `IInv`
  adds `Mutex` (one node at a time between P and V, with the semaphore at 0)
  and `Issued` (every id in use is below `last_block_id`, or equal to it in the
  node that has read it and not yet incremented it).
* `LedgerProofs!LedgerImplementsLog`: `Spec => LogSpec`. The initial states
  map to each other; `StepPublishes` shows that `WriteBlock` fills an empty slot
  with the transactions the block was built from, or rewrites the author's own,
  by `UniqueIds`, and that no other action touches `shd_block`. The hard half is
  that a rewriting comes only past the end: `OnceEach` says that
  only a node holding a refused id writes a slot it has written before, and that
  a block whose slot is still empty is under way and has had no deposit in the
  slots it points to. That ids past the end have been taken is stable
  (`PastStays`).
* `WildWritesNeedCtrlC` follows from `Straightness`, the way of an id inside one
  node: unless Ctrl-C breaks its `semop`, the id it holds is not written yet, the
  block it carries is the one of that id, and a node that goes on with an older
  block is one whose new id was refused.
* `RewardsBacked`: `Paid` says at every step, and not only in the loop, that
  the budget and the reward still owed are the blocks written. A block is
  counted once because its slot was not the node's before.
* `PoolsSolvent`: `Solvent`, the pool covers the block under way.
* `IncomesBacked`: `Summed`, the sum of a scan is at most the written slots it
  has passed, and written slots stay written.
* `NoticesTrue`: `CountedWhileCalm`. `block_count`, and every value of it that a
  node has read and not written back, is too small by at least the nodes
  between writing and counting, so lost increments never announce too early.

### Gate

* `PrintGateProofs`: `SemaphoresExact` (`TypeOK /\ SemsExact`) and
  `TypesCorrect` (no run checks these types, as `SemsExact` gives the
  semaphores' values): V and P of each process are paired even when its wait is
  interrupted. `AtMostOneWrite` (`OneWritePerClosing`) adds `Pending`, the write
  a writer is entitled to by having passed the gate.
* `NobodyMissed` (`NobodyOutstandingMissed`) and `UndisturbedExtremes`
  (`SummaryShowsExtremes`), for any number of users above the limit, any budgets
  and any late writes. `SInv` says of each array what it is worth after the users
  met so far (`Stands`): its users are different and among those met, each entry
  is a budget its user had during the pass, and of each user met and left out
  there are as many others as the array has places that outdo it. Four lemmas say
  what happens to that when the pass fills a place (`StandsFilled`), passes over a
  user (`StandsKept`), replaces an entry (`StandsReplaced`), and when a budget
  changes and widens the range of its user (`StandsWidened`). The lowest are the
  highest for the opposite budgets, so both arrays share the lemmas (`High`,
  `Low`). The second theorem is the case in which no range has widened: then
  "outdoes at some moment" is the plain order of the budgets.

### Routing

* `TxPoolProofs` first proves what the model's operators do, for pools of any
  size: `FindsUsed` and `WalkVisitsAll` (the circular search returns the first
  used slot, and steps over none), `CollectedStep` and `CollectedInjective` (the
  recursive positions of `create_block` are well defined, and distinct while
  the pool holds a block), `FindsOldest` and `RemovesOne` (reading a queue by
  type takes exactly the oldest message of the type). A recursive function is
  defined by a choice; that it satisfies its equation is shown by least
  counterexample (`MinOfNats`), without induction over an operator.
* `FlowTypesCorrect`, `PoolCounted` (`PoolCountExact`) and `SlotsStay`
  (`BlockSlotsStay`, which no run checks, as the refinement needs it anyway): `PoolInv` adds that nodes without their first message
  have an empty pool, that the slot the cron has sent from is used until it is
  released, and that a process has a transaction in hand exactly when it is to
  place it.
* `TxFlowProofs` is about places: a queue, a hand, a slot of a pool. `At(p, t)`
  says that `t` waits at `p`; the position in a queue is left out, so a place
  does not change when an earlier message is read. `FlowInv` adds to `PoolInv`
  that a queue never has two messages about one transaction and that every
  transaction keeps its account: one place, sent before it waits, not in the
  ledger while it waits, in the ledger once. Six lemmas say what a step may do:
  leave all places (`Stayed`), move one transaction (`Moved`), bring one in
  (`Entered`), end one with a refund (`Refunded`), refund one that stays
  (`RefundedAlive`, the cron), publish a block (`PublishedBlock`); one lemma for
  each action says which of the six it is. `OneCopy` (`SingleCopy`),
  `OncePublished` (`PublishedOnce`), `NothingLost` (`NothingVanishes`) and
  `OnlyCronRefunds` (`OnlyCronRefundsTheLiving`) need all of it together: a
  transaction is published once because it has one copy, and it has one copy
  because a node does nothing between the cron's send and the release of the
  slot (until then the slot counts as left, `Gone`).
* `FlowImplementsLife`: `Spec => LifeSpec`, where `LifeSpec` is `TxLife` under the
  mapping of section 2. `Phase` tells the stage of a transaction by `At`, and
  `Advance` is the step of `TxLife` in those terms: the six lemmas about what a
  step may do give `Advance` along with the account, so each action is
  classified once. That a block holds `BlockTx` different transactions needs both
  `BlockSlotsStay` (its slots are distinct and used) and `OnePlace` (two slots hold
  two transactions). `FlowInv` is the invariant that makes the mapping a
  refinement: without it a published transaction could still wait.

### Start-up and end

* `StartupProofs!AllRegisteredFirst`, `AllFriendsFirst`, `ClockWaits`:
  `RegisteredFirst`, `FriendsFirst` and `ClockAfterFriends` under `LifeSpec`, for
  any number of nodes, users, friends, signals and failures.
  The invariant shows that `sem_sync[0]` is at least the number of processes
  that have not done their P (`Missing`) and `sem_sync[1]` at least the nodes
  that have not (`Lacking`) plus the writers (`Writing`), and that `Missing` and
  `Lacking` only shrink; at zero both are empty. A child that dies before its P
  stays in the count. `Arrives` collects what every step does to these sets.
* `StartTypesCorrect` (`TypeOK`): the barriers bound the semaphores from below,
  the types from above. `sem_sync[1]` is at most the processes that owe it a P
  (`Owing`: writers, and nodes without friends, dead ones included): a V
  adds the writer that makes it, and only a P takes a process out. That no queue exceeds its limit follows from the test of all of
  them together (`Queued`, a fold over the nodes): `QueuedBounds`.
* `ReviewTrue` (`StatusTrue`, with the exception of the case that falls through)
  and `ChildrenTold` (`EveryChildTold`): `Ending`
  says that the master summarises and counts users only after a barrier that
  every process has reached, so that "no user left" means all dead and not
  "none yet"; that what clears `alive` also writes `exitStatus`; and that the
  master waits only when it has stopped. It needs the barriers.

### User

* `UserBudgetProofs!LostAtMostHandler`: `OnlyHandlerForgotten`. The invariant
  `Short` bounds how far `local_budget`, and the value `main` has loaded, lag
  behind what is due, by what the handler has already added; what the handler
  has loaded is exact because `main` is frozen.
* `UserBudgetProofs!NeverOverspends`: `SoundWithoutSignal`. Without a handler
  `local_budget` is exact (`Exact`), so the budget in shared memory is at most
  what is left of the initial budget and the highest income so far (`peak`) except between the store of an addition and the next write
  (`Stale`), and the limits `main` has tested are those it draws from.
* `UserCacheProofs!UserTypesCorrect`: `TypeOK`, by `Indexed` (the indices of
  `sync_alive_users` leave room for the user itself) and `InsideCounted`.
* `UserCacheProofs!NobodyLeftTrue` and `HitsFresh`: `NobodyLeft`, for `main` and for the
  handler that finds the list empty, and the action
  property `CacheHitFresh`. `CacheExact` compares a list, whole or under way,
  with the users it should hold now: they only grow fewer, so no list is
  shorter than them, and one of just their number holds exactly them, even if
  the handler wrote part of it.

### Assumptions, and what is only model-checked

Assumptions used: `LedgerAssumption`, `GateAssumption`, `TxFlowAssumption`,
`StartupAssumption`, `UserAssumption` and `SummaryAssumption`, stated in the modules and evaluated by
TLC in every run. Nothing else is assumed. Bounds that exist for TLC only
(`IdBound`, `MaxBreaks`, `MaxDisturbed`, `MaxSignals`, ...) are arbitrary in the
proofs. Of `TxFlowAssumption`, `Hops > 0` excludes a configuration in which
`SingleCopy` is false (a hazard in PROJECT.json).

`FoldLemmas` holds what several of these proofs need and what the provers
cannot take from a library: the least element of a set of numbers
(`MinOfNats`), by well-founded induction instantiated with a set, that a fold
over a finite set exists (`FoldDefined`), and that a sum bounds its terms
(`SumBounds`). These are inductions over sets of counterexamples, never over an
operator.

Every invariant, action property and refinement of the passing runs is stated
by a theorem. Only model-checked, and why:

* All liveness (`PublishCompletes`, `TerminatedUnlessPausing`, `SummaryEnds`,
  `WriterServed`, `ChildrenEnd`, `QueueServed`, `RequestServed`,
  `FriendsArrive`, `EndsUnlessAsleep`, `SummaryUnlessSelfBlocked`): fairness and
  `ENABLED` are out of the prover's reach.

## 5. Findings

1. **Full ledger unnoticed** (`ledger.c:104`, run `ledger_full_notice`). Two
   nodes load a `block_count` of 0 before either stores 1; the test for the last
   block never succeeds, and the master is not told. The simulation goes on until
   its time is over, its nodes refused at every block.
2. **Node asleep for ever** (`node.c:327`, run `ledger_stop`). `SIGTERM`
   between the test of `alive` and `pause()`; the master's `wait` does not
   return and the IPC resources are not removed. `EndsUnlessAsleep` shows that
   this window, and the same one before the other pauses and the `msgsnd`, is all
   that keeps a started program from its end.
3. **Summary out of order** (`main.c:585`, run `summary_race`). The gate lets
   through a writer that tested it before it was raised (`node.c:675` and 682,
   `user.c:394` and 401), and `print_summary` tests and copies a budget in two
   reads. A user lowered in between takes the place of a richer one, and a third,
   poorer user is shown instead. `OneWritePerClosing` bounds the late writes, and
   `NobodyOutstandingMissed` what they can do to a summary.
4. **Refunded and published** (`node.c:288`, run `tx_flow_refund`). The cron
   refunds a transaction that stays in the pool. `OnlyCronRefundsTheLiving`
   shows that it is the only way this happens.
5. **Users do not wait for friends** (`user.c:147`, run `startup_barrier`). The
   second wait tests the semaphore of the first barrier, and a user runs while
   none of the three nodes has read a friend.

The models contain other behaviour a reader of the code may not expect. It is
named as an exception in the properties, and listed as a hazard:

* a refused block is treated as published: `clear_block` pays its rewards and
  frees its transactions (`node.c:321`);
* a node that has announced the full ledger clears the same block twice
  (`node.c:340`; `PoolDebtOnlyAfterNotice`), and republishes an old block with
  other transactions when ids run past the end (`node.c:310`; `Rewrite`);
* a refund that finds the rejected queue full is dropped (`node.c:741`;
  `NothingVanishes` counts it in `dropped`);
* a full ledger is reported together with a failed creation of processes
  (`main.c:735`; `StatusTrue`).

## 6. Not modelled, and why

* Rewards and the split of an amount, `get_random_int` and
  `get_queue_id_less_used`: abstracted to what the properties tell apart.
* Several user queues (one per 200 users): one queue. With more than 200 users,
  unless a multiple of 200, the last group writes to a queue no node reads, so
  `TxFlow` holds for up to 200 users or a multiple; listed as a hazard.
* Friends of added nodes, and the master blocked on the friends queue: two full
  queues at once are beyond the bounds of the runs.
* A start that has failed or was interrupted may hang: a failed `execv`
  leaves `sem_sync[0]` above zero, a lost friend leaves a node in its `msgrcv`,
  and with no node registered the choice of friends does not end. `Startup`
  contains all three; liveness is claimed only for an undisturbed start
  (`FriendsArrive`) and from the setting of the clock (`EndsUnlessAsleep`).
* Signals to a user before it has allocated its cache: nothing in the program
  sends SIGUSR1 to a user.
* Configuration, formatting and debug output: sequential, no shared state. The
  removal of the IPC objects is part of `Review`.

## 7. Plan

Done: `Ledger`, `BlockLog`, `LedgerProofs`; `PrintGate`, `Summary`,
`PrintGateProofs`; `TxFlow`, `TxLife`, `TxPoolProofs`, `TxFlowProofs`; `Startup`,
`StartupProofs` (with `Lifecycle`); `UserBudget`, `UserBudgetProofs`,
`UserCacheProofs`; `FoldLemmas`. Every safety property of a passing run is proved.

Left, in order of importance:

1. `TxFlow` with the friends queue of added nodes (nodes and master both
   blocked on full queues).
2. `get_random_int` and the queue indices against reference definitions.
