----------------------------- MODULE UserBudget -----------------------------
(***************************************************************************)
(* The loop of one user (user.c), the budget it may spend, its cache of    *)
(* the users alive, and the SIGUSR1 handler, which runs generate_transation *)
(* and update_budget itself between any two steps of main.  main is frozen *)
(* while the handler runs; SIGUSR1 is blocked meanwhile, SIGTERM is not.   *)
(*                                                                         *)
(* The program is compiled without optimisation, so local_budget += amount *)
(* is a load, an addition and a store.  Around the user: the other users,  *)
(* of whom it sees status and the count of sem_proc_alive, the master that *)
(* closes the gate of the summaries, and the ledger that pays it.          *)
(***************************************************************************)
EXTENDS Integers, FiniteSets

CONSTANTS
    USERS,          \* SO_USERS_NUM
    Self,           \* shd_offset of the user
    BUDGET_INIT, RETRY,                     \* SO_BUDGET_INIT, SO_RETRY
    MaxIncome, MaxSends, MaxSignals,        \* bounds: income, sends, SIGUSR1s,
    MaxRefunds                              \* refunds of one transaction

ASSUME UserAssumption ==
    /\ USERS \in Nat \ {0} /\ Self \in 0 .. USERS - 1
    /\ BUDGET_INIT \in Nat /\ RETRY \in Nat
    /\ MaxIncome \in Nat /\ MaxSends \in Nat /\ MaxSignals \in Nat
    /\ MaxRefunds \in Nat

User  == 0 .. USERS - 1
Peer  == User \ {Self}
Frame == {"main", "handler"}

VARIABLES
    pc,             \* pc[f]; the handler is "off" when it does not run
    ret,            \* where main goes on after update_budget
    reg,            \* reg[f]: the value f has loaded and not stored yet
    total,          \* total[f]: total_transaction, or the amount of a refund
    at, x,          \* at[f], x[f]: the indices i and x of sync_alive_users
    sendable_users, sendable_user_count,
    local_budget, budget,           \* budget is in shared memory
    retry, alive,
    sent, refunded,                 \* history: sent[f] and refunds collected
    rejected,                       \* <<send, refunds to come, amount>>
    income, peak,                   \* get_process_revenue, and its highest value
    peer,                           \* peer[p]: what the other users do
    sem0, sem1, master,             \* the gate and the master
    sends, signals                  \* counters for the bounds

account == <<local_budget, budget, sent, refunded, rejected, income,
             peak>>
cache   == <<sendable_users, sendable_user_count, at, x>>
control == <<ret, retry, alive>>
gate    == <<sem0, sem1, master>>
bounds  == <<sends, signals>>
vars    == <<pc, reg, total, account, cache, control, peer, gate, bounds>>

-----------------------------------------------------------------------------
Init ==
    /\ pc = [f \in Frame |-> IF f = "main" THEN "top" ELSE "off"]
    /\ ret = "collect"
    /\ reg = [f \in Frame |-> 0] /\ total = [f \in Frame |-> 0]
    /\ at = [f \in Frame |-> 0] /\ x = [f \in Frame |-> 0]
    /\ sendable_users = [i \in User |-> IF i < Self THEN i
                                  ELSE IF i < USERS - 1 THEN i + 1 ELSE Self]
    /\ sendable_user_count = USERS - 1
    /\ local_budget = 0 /\ budget = BUDGET_INIT
    /\ retry = 0 /\ alive = TRUE
    /\ sent = [f \in Frame |-> 0] /\ refunded = 0 /\ rejected = {}
    /\ income = 0 /\ peak = 0
    /\ peer = [p \in Peer |-> "alive"]
    /\ sem0 = 0 /\ sem1 = 0 /\ master = "idle"
    /\ sends = 0 /\ signals = 0

\* f moves on; main only while the handler does not run.
Step(f, from, to) ==
    /\ f = "main" => pc["handler"] = "off"
    /\ pc[f] = from
    /\ pc' = [pc EXCEPT ![f] = to]

\* The local variables of f go out of use.
Forget(f) ==
    /\ reg' = [reg EXCEPT ![f] = 0]
    /\ total' = [total EXCEPT ![f] = 0]

\* retry is only compared with SO_RETRY, so it may stop there.
Retried == IF retry < RETRY THEN retry + 1 ELSE RETRY

\* generate_transation returns -1.
Fails(f, from) ==
    /\ Step(f, from, IF f = "main" THEN "top" ELSE "off")
    /\ retry' = Retried

-----------------------------------------------------------------------------
(***************************************************************************)
(* update_budget.                                                          *)
(***************************************************************************)
PassGate(f) ==
    /\ sem0 = 0
    /\ Step(f, "wait", "enter")
    /\ UNCHANGED <<reg, total, account, cache, control, peer, gate, bounds>>

\* The V, and the sum of the ledger; local_budget is loaded after it.
Enter(f) ==
    /\ Step(f, "enter", "compute")
    /\ sem1' = sem1 + 1
    /\ reg' = [reg EXCEPT ![f] = income]
    /\ UNCHANGED <<total, account, cache, control, peer, sem0, master, bounds>>

Compute(f) ==
    /\ Step(f, "compute", "write")
    /\ reg' = [reg EXCEPT ![f] = @ - local_budget + BUDGET_INIT]
    /\ UNCHANGED <<total, account, cache, control, peer, gate, bounds>>

Write(f) ==
    /\ Step(f, "write", "leave")
    /\ budget' = reg[f]
    /\ reg' = [reg EXCEPT ![f] = 0]
    /\ UNCHANGED <<total, local_budget, sent, refunded, rejected, income, peak,
                   cache, control, peer, gate, bounds>>

\* Back to the caller; after a refund retry is incremented.
Return(f) ==
    /\ Step(f, "leave", CASE f = "handler" -> "off"
                          [] f = "main" /\ ret = "sleep" -> "sleep"
                          [] OTHER -> "collect")
    /\ retry' = IF f = "main" /\ ret = "refunded" THEN Retried ELSE retry
    /\ ret' = IF f = "main" THEN "collect" ELSE ret

LeaveForgotten(f) ==    \* Mutant: the P is missing
    /\ Return(f)
    /\ UNCHANGED <<reg, total, account, cache, alive, peer, gate, bounds>>

Leave(f) ==
    /\ sem1 > 0
    /\ Return(f)
    /\ sem1' = sem1 - 1
    /\ UNCHANGED <<reg, total, account, cache, alive, peer, sem0, master, bounds>>

UpdateBudget(f) ==
    PassGate(f) \/ Enter(f) \/ Compute(f) \/ Write(f) \/ Leave(f)

-----------------------------------------------------------------------------
(***************************************************************************)
(* generate_transation.                                                    *)
(***************************************************************************)
CheckBudget(f) ==
    /\ \/ budget < 2 /\ Fails(f, "check")
       \/ budget >= 2 /\ Step(f, "check", "count") /\ UNCHANGED retry
    /\ UNCHANGED <<reg, total, account, cache, ret, alive, peer, gate, bounds>>

\* sem_proc_alive[SEM_USER_ID]: a user counts until it has exited.
UsersAlive == 1 + Cardinality({p \in Peer : peer[p] \in {"alive", "leaving"}})

\* The cache is good while its size agrees with the count.
CompareCountLess(f) ==    \* Mutant: only a larger count is noticed
    /\ Step(f, "count", IF UsersAlive <= sendable_user_count + 1 THEN "pick" ELSE "sync")
    /\ UNCHANGED <<reg, total, account, cache, control, peer, gate, bounds>>

CompareCount(f) ==
    /\ Step(f, "count", IF UsersAlive = sendable_user_count + 1 THEN "pick" ELSE "sync")
    /\ UNCHANGED <<reg, total, account, cache, control, peer, gate, bounds>>

\* sync_alive_users, one user: the living from the left, the others and the
\* user itself from the right.  A user that crashed has left its status at 1.
Listed(i) == i # Self /\ peer[i] \in {"alive", "crashed"}

SyncUser(f) ==
    /\ at[f] < USERS
    /\ Step(f, "sync", "sync")
    /\ at' = [at EXCEPT ![f] = @ + 1]
    /\ IF Listed(at[f])
       THEN /\ sendable_users' = [sendable_users EXCEPT ![x[f]] = at[f]]
            /\ x' = [x EXCEPT ![f] = @ + 1]
       ELSE /\ sendable_users' =
                 [sendable_users EXCEPT ![USERS - 1 - (at[f] - x[f])] = at[f]]
            /\ UNCHANGED x
    /\ UNCHANGED <<reg, total, account, sendable_user_count, control, peer,
                   gate, bounds>>

SyncDone(f) ==
    /\ at[f] = USERS
    /\ Step(f, "sync", "pick")
    /\ sendable_user_count' = x[f]
    /\ at' = [at EXCEPT ![f] = 0] /\ x' = [x EXCEPT ![f] = 0]
    /\ UNCHANGED <<reg, total, account, sendable_users, control, peer,
                   gate, bounds>>

PickLast(f) ==    \* Mutant: one user left is taken for none
    /\ \/ sendable_user_count > 1 /\ Step(f, "pick", "draw") /\ UNCHANGED <<retry, alive>>
       \/ /\ sendable_user_count <= 1 /\ f = "main"
          /\ Step(f, "pick", "nobody") /\ UNCHANGED <<retry, alive>>
       \/ /\ sendable_user_count <= 1 /\ f = "handler"
          /\ Fails(f, "pick") /\ alive' = FALSE
    /\ UNCHANGED <<reg, total, account, cache, ret, peer, gate, bounds>>

\* No user is left: main leaves its loop, the handler sets alive = 0.
Pick(f) ==
    /\ \/ sendable_user_count > 0 /\ Step(f, "pick", "draw") /\ UNCHANGED <<retry, alive>>
       \/ /\ sendable_user_count = 0 /\ f = "main"
          /\ Step(f, "pick", "nobody") /\ UNCHANGED <<retry, alive>>
       \/ /\ sendable_user_count = 0 /\ f = "handler"
          /\ Fails(f, "pick") /\ alive' = FALSE
    /\ UNCHANGED <<reg, total, account, cache, ret, peer, gate, bounds>>

(***************************************************************************)
(* rand() % (max - min + 1) + min, for the receiver and for the amount:    *)
(* both limits are read again after they were tested.  A divisor of 0 ends *)
(* the process; a negative one counts as its absolute value.               *)
(***************************************************************************)
Amounts == IF budget >= 2 THEN 2 .. budget ELSE 2 .. 2 - budget

Crashes(f) ==
    /\ sendable_user_count = 0 \/ budget = 1
    /\ Step(f, "draw", "crashed")
    /\ UNCHANGED <<reg, total, account, cache, control, peer, gate, bounds>>

\* user_send_transaction.  The amount may come back on the rejected queue, and
\* more than once: the cron of a node refunds a transaction that it keeps.
Send(f) ==
    /\ sends < MaxSends
    /\ sendable_user_count > 0 /\ budget # 1
    /\ Step(f, "draw", "load")
    /\ \E a \in Amounts :
          /\ total' = [total EXCEPT ![f] = a]
          /\ sent' = [sent EXCEPT ![f] = @ + a]
          /\ rejected' = rejected \cup {<<sends, MaxRefunds, a>>}
    /\ sends' = sends + 1
    /\ UNCHANGED <<reg, local_budget, budget, refunded, income, peak, cache,
                   control, peer, gate, signals>>

QueueFull(f) ==
    /\ sendable_user_count > 0 /\ budget # 1
    /\ Fails(f, "draw")
    /\ UNCHANGED <<reg, total, account, cache, ret, alive, peer, gate, bounds>>

Load(f) ==
    /\ Step(f, "load", "store")
    /\ reg' = [reg EXCEPT ![f] = local_budget]
    /\ UNCHANGED <<total, account, cache, control, peer, gate, bounds>>

\* local_budget += total_transaction, retry = 0, update_budget.
StoreForgotten(f) ==    \* Mutant: the amount is not added
    /\ Step(f, "store", "wait")
    /\ retry' = 0
    /\ ret' = IF f = "main" THEN "sleep" ELSE ret
    /\ Forget(f)
    /\ UNCHANGED <<account, cache, alive, peer, gate, bounds>>

Store(f) ==
    /\ Step(f, "store", "wait")
    /\ local_budget' = reg[f] + total[f]
    /\ retry' = 0
    /\ ret' = IF f = "main" THEN "sleep" ELSE ret
    /\ Forget(f)
    /\ UNCHANGED <<budget, sent, refunded, rejected, income, peak, cache,
                   alive, peer, gate, bounds>>

Generate(f) ==
    \/ CheckBudget(f) \/ CompareCount(f) \/ SyncUser(f) \/ SyncDone(f) \/ Pick(f)
    \/ Crashes(f) \/ Send(f) \/ QueueFull(f) \/ Load(f) \/ Store(f)

-----------------------------------------------------------------------------
(***************************************************************************)
(* The loop of main.                                                       *)
(***************************************************************************)
LoopTop ==
    /\ Step("main", "top", IF alive THEN "wait" ELSE "clear")
    /\ UNCHANGED <<reg, total, account, cache, control, peer, gate, bounds>>

\* A refund has come: local_budget -= amount, update_budget, retry++.
Collect ==
    /\ Step("main", "collect", "loadRefund")
    /\ \E r \in rejected :
          /\ r[2] > 0
          /\ rejected' = (rejected \ {r}) \cup {<<r[1], r[2] - 1, r[3]>>}
          /\ total' = [total EXCEPT !["main"] = r[3]]
          /\ refunded' = refunded + r[3]
    /\ UNCHANGED <<reg, local_budget, budget, sent, income, peak, cache, control,
                   peer, gate, bounds>>

LoadRefund ==
    /\ Step("main", "loadRefund", "storeRefund")
    /\ reg' = [reg EXCEPT !["main"] = local_budget]
    /\ UNCHANGED <<total, account, cache, control, peer, gate, bounds>>

StoreRefundTwice ==    \* Mutant: the refund is deducted twice
    /\ Step("main", "storeRefund", "wait")
    /\ local_budget' = reg["main"] - 2 * total["main"]
    /\ ret' = "refunded"
    /\ Forget("main")
    /\ UNCHANGED <<budget, sent, refunded, rejected, income, peak, cache,
                   retry, alive, peer, gate, bounds>>

StoreRefund ==
    /\ Step("main", "storeRefund", "wait")
    /\ local_budget' = reg["main"] - total["main"]
    /\ ret' = "refunded"
    /\ Forget("main")
    /\ UNCHANGED <<budget, sent, refunded, rejected, income, peak, cache,
                   retry, alive, peer, gate, bounds>>

\* No refund, or none yet.
TestRetry ==
    /\ \/ retry >= RETRY /\ Step("main", "collect", "clear") /\ alive' = FALSE
       \/ retry < RETRY /\ Step("main", "collect", "check") /\ UNCHANGED alive
    /\ UNCHANGED <<reg, total, account, cache, ret, retry, peer, gate, bounds>>

\* nanosleep, begun again when only SIGUSR1 has interrupted it.
Wake ==
    /\ Step("main", "sleep", "top")
    /\ UNCHANGED <<reg, total, account, cache, control, peer, gate, bounds>>

\* clear: the gate, V, status = 0 and P, then the memory is detached, that of
\* the options first and that of the users next.
Clear ==
    /\ \/ /\ sem0 = 0 /\ \E from \in {"clear", "nobody"} : Step("main", from, "enterClear")
          /\ UNCHANGED sem1
       \/ Step("main", "enterClear", "leaveClear") /\ sem1' = sem1 + 1
       \/ sem1 > 0 /\ Step("main", "leaveClear", "detach") /\ sem1' = sem1 - 1
       \/ Step("main", "detach", "detached") /\ UNCHANGED sem1
       \/ Step("main", "detached", "exited") /\ UNCHANGED sem1
    /\ UNCHANGED <<reg, total, account, cache, control, peer, sem0, master, bounds>>

MainLoop ==
    LoopTop \/ Collect \/ LoadRefund \/ StoreRefund \/ TestRetry
        \/ Wake \/ Clear

-----------------------------------------------------------------------------
(***************************************************************************)
(* Signals.  A wait for the gate that they interrupt returns -1, which     *)
(* nobody tests: the frame goes on to its V.                               *)
(***************************************************************************)
Ended == {"exited", "crashed"}
Waits == [wait |-> "enter", clear |-> "enterClear", nobody |-> "enterClear"]

Interrupted(f) ==
    IF sem0 > 0 /\ pc[f] \in DOMAIN Waits THEN {pc[f], Waits[pc[f]]} ELSE {pc[f]}

\* The handler between two steps of main.
Interrupts ==
    /\ pc["main"] # "detached"
    /\ \E m \in Interrupted("main") : pc' = [main |-> m, handler |-> "check"]

\* After shmdt it reads memory that is gone; while only the options are, a budget
\* below 2 sends it back before it reads them.
MeetsDetached ==
    /\ pc["main"] = "detached"
    /\ pc' \in {[pc EXCEPT !["main"] = "crashed"]} \cup (IF budget < 2 THEN {pc} ELSE {})

Sigusr1 ==
    /\ signals < MaxSignals
    /\ pc["handler"] = "off" /\ pc["main"] \notin Ended
    /\ signals' = signals + 1
    /\ Interrupts \/ MeetsDetached
    /\ UNCHANGED <<reg, total, account, cache, control, peer, gate, sends>>

Top == IF pc["handler"] = "off" THEN "main" ELSE "handler"

Sigterm ==
    /\ alive /\ pc["main"] \notin Ended
    /\ alive' = FALSE
    /\ \E to \in Interrupted(Top) : pc' = [pc EXCEPT ![Top] = to]
    /\ UNCHANGED <<reg, total, account, cache, ret, retry, peer, gate, bounds>>

\* Ctrl-C: the handler is empty.
Sigint ==
    /\ \E to \in Interrupted(Top) : pc' = [pc EXCEPT ![Top] = to]
    /\ UNCHANGED <<reg, total, account, cache, control, peer, gate, bounds>>

-----------------------------------------------------------------------------
(***************************************************************************)
(* The other users set their status to 0 and then exit, or crash; the      *)
(* ledger pays; the master prints.                                         *)
(***************************************************************************)
PeerEnds(p) ==
    /\ pc["main"] \notin Ended
    /\ \/ peer[p] = "alive" /\ \E to \in {"leaving", "crashed"} : peer' = [peer EXCEPT ![p] = to]
       \/ peer[p] = "leaving" /\ peer' = [peer EXCEPT ![p] = "gone"]
    /\ UNCHANGED <<pc, reg, total, account, cache, control, gate, bounds>>

\* Blocks are published, which pay the user; but the blocks summed are those
\* below block_count, which may go back.
Paid ==
    /\ pc["main"] \notin Ended
    /\ income' \in (0 .. MaxIncome) \ {income}
    /\ peak' = IF income' > peak THEN income' ELSE peak
    /\ UNCHANGED <<pc, reg, total, local_budget, budget, sent, refunded, rejected,
                   cache, control, peer, gate, bounds>>

MasterStep ==
    /\ \/ master = "idle" /\ master' = "await" /\ sem0' = 1
       \/ master = "await" /\ sem1 = 0 /\ master' = "read" /\ UNCHANGED sem0
       \/ master = "read" /\ master' = "idle" /\ sem0' = 0
    /\ UNCHANGED <<pc, reg, total, account, cache, control, peer, sem1, bounds>>

FrameStep(f) == UpdateBudget(f) \/ Generate(f)
UserStep == (\E f \in Frame : FrameStep(f)) \/ MainLoop

Next ==
    \/ UserStep \/ Sigusr1 \/ Sigterm \/ Sigint
    \/ \E p \in Peer : PeerEnds(p)
    \/ Paid \/ MasterStep

Spec == Init /\ [][Next]_vars

\* The user and the master run; nothing else need happen.
FairSpec == Spec /\ WF_vars(UserStep) /\ WF_vars(MasterStep)

-----------------------------------------------------------------------------
TypeOK ==
    /\ pc \in [Frame -> {"off", "top", "wait", "enter", "compute", "write",
                         "leave", "collect", "loadRefund", "storeRefund",
                         "check", "count", "sync", "pick", "nobody", "draw",
                         "load", "store", "sleep", "clear", "enterClear", "leaveClear",
                         "detach", "detached", "exited", "crashed"}]
    /\ ret \in {"collect", "refunded", "sleep"}
    /\ reg \in [Frame -> Int] /\ total \in [Frame -> Nat]
    /\ at \in [Frame -> 0 .. USERS] /\ x \in [Frame -> User]
    /\ sendable_users \in [User -> User] /\ sendable_user_count \in User
    /\ local_budget \in Int /\ budget \in Int
    /\ retry \in 0 .. RETRY /\ alive \in BOOLEAN
    /\ sent \in [Frame -> Nat] /\ refunded \in Nat
    /\ rejected \subseteq (0 .. MaxSends) \X (0 .. MaxRefunds) \X Nat
    /\ income \in 0 .. peak /\ peak \in 0 .. MaxIncome
    /\ peer \in [Peer -> {"alive", "leaving", "gone", "crashed"}]
    /\ sem0 \in {0, 1} /\ sem1 \in 0 .. 2
    /\ master \in {"idle", "await", "read"}
    /\ sends \in 0 .. MaxSends /\ signals \in 0 .. MaxSignals

\* What local_budget should be: the amounts sent less those refunded, but for
\* the one main or the handler is about to add or to deduct.
Pending(f) == IF pc[f] \in {"load", "store"} THEN total[f] ELSE 0
Deducting  == IF pc["main"] \in {"loadRefund", "storeRefund"} THEN total["main"] ELSE 0
Due == sent["main"] + sent["handler"] - refunded
         - Pending("main") - Pending("handler") + Deducting

\* When the handler falls between the load and the store of main, what it added
\* is lost.  That is all that is ever lost: the account of the user is never
\* too high, and too low by no more than what the handler has sent.
OnlyHandlerForgotten ==
    local_budget <= Due /\ Due - local_budget <= sent["handler"]

\* A user that gets no SIGUSR1 has never sent more, less its refunds, than it
\* began with and the ledger has at some time shown it, and never divides by
\* zero, however its peers end, summaries interrupt it, refunds come, even of
\* one transaction twice, and block_count goes back.
SoundWithoutSignal ==
    signals = 0 =>
        /\ sent["main"] - refunded <= BUDGET_INIT + peak
        /\ pc["main"] # "crashed"

\* The cache is taken as it is when its size agrees with the count of users.
\* It then holds only users that are there, unless one is between its
\* status = 0 and its exit, where it counts and is not listed.
Cached == {sendable_users[i] : i \in 0 .. sendable_user_count - 1}

CacheHitFresh ==
    [][\A f \in Frame :
          (pc[f] = "count" /\ pc'[f] = "pick") =>
              \/ \A u \in Cached : u # Self /\ peer[u] \in {"alive", "leaving"}
              \/ \E p \in Peer : peer[p] = "leaving"]_vars

\* A user that ends because no other is left is right: the list it found empty,
\* even one that the handler wrote over, missed nobody.  So it is when the
\* handler is about to set alive = 0 for want of users.
FoundEmpty(f) == pc[f] = "pick" /\ sendable_user_count = 0

NobodyLeft ==
    (pc["main"] = "nobody" \/ \E f \in Frame : FoundEmpty(f))
        => \A p \in Peer : peer[p] # "alive"

\* The master gets to read the summary, unless the handler of the user waits at
\* the gate the master has closed while main is inside and cannot leave.
SelfBlocked == pc["handler"] = "wait" /\ sem0 > 0 /\ sem1 > 0

SummaryUnlessSelfBlocked == (master = "await") ~> (master # "await" \/ SelfBlocked)

=============================================================================
