-------------------------- MODULE UserBudgetProofs -------------------------
(***************************************************************************)
(* What the SIGUSR1 handler can do to the account of a user, for any       *)
(* number of users, signals, transactions and refunds.                     *)
(*                                                                         *)
(* The invariant follows the two reads that may be overtaken.  The value   *)
(* main has loaded may be stale, by no more than what the handler has      *)
(* added meanwhile, and storing it forgets that.  The value the handler    *)
(* has loaded is never stale, since main does not run.  Without a signal   *)
(* local_budget is exact, and from that follows that what main has tested  *)
(* is what it spends.                                                      *)
(***************************************************************************)
EXTENDS UserBudget, TLAPS

Adding    == {"load", "store"}
Refunding == {"loadRefund", "storeRefund"}

Types ==
    /\ DOMAIN pc = Frame
    /\ pc["handler"] \notin Refunding
    /\ reg \in [Frame -> Int] /\ total \in [Frame -> Nat]
    /\ sent \in [Frame -> Int] /\ refunded \in Int
    /\ local_budget \in Int /\ budget \in Int
    /\ income \in Int /\ peak \in Int /\ income <= peak
    /\ \A r \in rejected : r[3] \in Nat

\* An account that says v is short by no more than what the handler has added.
Short(v) == v <= Due /\ Due - v <= sent["handler"] - Pending("handler")

IInv ==
    /\ Types
    /\ Short(local_budget)
    /\ pc["main"] \in {"store", "storeRefund"} => Short(reg["main"])
    /\ pc["handler"] = "store" => reg["handler"] = local_budget

-----------------------------------------------------------------------------
\* The amounts are numbers.
LEMMA Amounted == Types => Due \in Int /\ \A f \in Frame : Pending(f) \in Nat
    BY DEF Types, Due, Pending, Deducting, Frame

\* The initial state satisfies the inductive invariant.
LEMMA InitIInv == Init => IInv
    BY UserAssumption
    DEF Init, IInv, Types, Short, Due, Pending, Deducting, Frame, Refunding,
        UserAssumption

\* Steps that touch no account and no loaded value, and enter or leave neither an
\* addition nor a deduction.
Aside ==
    /\ UNCHANGED <<reg, total, local_budget, sent, refunded, rejected>>
    /\ budget' \in Int /\ income' \in Int /\ peak' \in Int /\ income' <= peak'
    /\ DOMAIN pc' = Frame
    /\ \A f \in Frame :
          pc'[f] = pc[f] \/ {pc[f], pc'[f]} \cap (Adding \cup Refunding) = {}

\* They keep the invariant.
LEMMA AsideKeeps == IInv /\ Aside => IInv'
<1> SUFFICES ASSUME IInv, Aside PROVE IInv'
    OBVIOUS
<1>1. \A f \in Frame : Pending(f)' = Pending(f)
    BY DEF Aside, Pending, Adding
<1>2. Deducting' = Deducting /\ Due' = Due
    BY <1>1 DEF Aside, Deducting, Due, Refunding, Frame
<1>3. Types'
    BY DEF Aside, IInv, Types, Refunding, Frame
<1> QED
    BY <1>1, <1>2, <1>3 DEF Aside, IInv, Short, Adding, Refunding, Frame

\* The three values computed on the way to the budget in shared memory.
LEMMA UpdateKeeps ==
    ASSUME IInv, NEW f \in Frame, UpdateBudget(f)
    PROVE  IInv'
<1> USE UserAssumption DEF UserAssumption
<1>1. CASE PassGate(f) \/ Leave(f)
  <2>1. Aside
      BY <1>1 DEF PassGate, Leave, Return, Step, account, Aside, IInv, Types, Frame,
                  Adding, Refunding
  <2> QED
      BY <2>1, AsideKeeps
<1>2. CASE Enter(f) \/ Compute(f) \/ Write(f)
  <2>1. /\ UNCHANGED <<total, local_budget, sent, refunded, rejected, income,
                       peak>>
        /\ reg' \in [Frame -> Int] /\ budget' \in Int
        /\ \A g \in Frame : g # f => reg'[g] = reg[g] /\ pc'[g] = pc[g]
      BY <1>2 DEF Enter, Compute, Write, Step, account, IInv, Types
  <2>2. /\ pc[f] \notin Adding \cup Refunding
        /\ pc'[f] \notin Adding \cup Refunding
        /\ DOMAIN pc' = Frame
      BY <1>2 DEF Enter, Compute, Write, Step, IInv, Types, Adding, Refunding
  <2>3. \A g \in Frame : Pending(g)' = Pending(g)
      BY <2>1, <2>2 DEF Pending, Adding
  <2>4. Due' = Due
      BY <2>1, <2>2, <2>3 DEF Due, Deducting, Refunding, Frame
  <2>5. Types'
      BY <2>1, <2>2 DEF IInv, Types, Frame
  <2> QED
      BY <2>1, <2>2, <2>3, <2>4, <2>5 DEF IInv, Short, Adding, Refunding, Frame
<1> QED
    BY <1>1, <1>2 DEF UpdateBudget

\* The amount sent is due at once, and pending until it is stored.
LEMMA GenerateKeeps ==
    ASSUME IInv, NEW f \in Frame, Generate(f)
    PROVE  IInv'
<1>1. CASE \/ CheckBudget(f) \/ CompareCount(f) \/ SyncUser(f) \/ SyncDone(f)
           \/ Pick(f) \/ Crashes(f) \/ QueueFull(f)
  <2>1. UNCHANGED <<reg, total, account>>
      BY <1>1 DEF CheckBudget, CompareCount, SyncUser, SyncDone, Pick, Crashes, QueueFull
  <2>2. /\ DOMAIN pc' = Frame
        /\ \A g \in Frame : g # f => pc'[g] = pc[g]
        /\ {pc[f], pc'[f]} \cap (Adding \cup Refunding) = {}
      BY <1>1 DEF CheckBudget, CompareCount, SyncUser, SyncDone, Pick, Crashes,
                  QueueFull, Fails, Step, IInv, Types, Adding, Refunding
  <2>3. Aside
      BY <2>1, <2>2 DEF Aside, account, IInv, Types
  <2> QED
      BY <2>3, AsideKeeps
<1>2. CASE Send(f)
  <2>1. PICK a \in Amounts : /\ total' = [total EXCEPT ![f] = a]
                             /\ sent' = [sent EXCEPT ![f] = @ + a]
                             /\ rejected' = rejected \cup {<<sends, MaxRefunds, a>>}
      BY <1>2 DEF Send
  <2>2. a \in Nat
      BY DEF Amounts, IInv, Types
  <2>3. /\ UNCHANGED <<reg, local_budget, budget, refunded, income, peak>>
        /\ pc[f] = "draw" /\ pc'[f] = "load" /\ DOMAIN pc' = Frame
        /\ \A g \in Frame : g # f => pc'[g] = pc[g]
      BY <1>2 DEF Send, Step, IInv, Types
  <2>4. Types'
      BY <2>1, <2>2, <2>3 DEF IInv, Types, Frame, Refunding
  <2>5. Due' = Due /\ sent'["handler"] - Pending("handler")'
                        = sent["handler"] - Pending("handler")
      BY <2>1, <2>2, <2>3 DEF IInv, Types, Due, Pending, Deducting, Frame
  <2> QED
      BY <2>3, <2>4, <2>5 DEF IInv, Short, Frame
<1>3. CASE Load(f)
  <2>1. /\ UNCHANGED <<total, account>> /\ reg' = [reg EXCEPT ![f] = local_budget]
        /\ pc[f] = "load" /\ pc'[f] = "store" /\ DOMAIN pc' = Frame
        /\ \A g \in Frame : g # f => pc'[g] = pc[g]
      BY <1>3 DEF Load, Step, IInv, Types
  <2>2. Types'
      BY <2>1 DEF IInv, Types, account, Frame, Refunding
  <2>3. Due' = Due /\ \A g \in Frame : Pending(g)' = Pending(g)
      BY <2>1 DEF account, Due, Pending, Deducting, Frame
  <2> QED
      BY <2>1, <2>2, <2>3 DEF IInv, Types, Short, account, Frame
<1>4. CASE Store(f)
  <2>1. /\ UNCHANGED <<budget, sent, refunded, rejected, income, peak>>
        /\ local_budget' = reg[f] + total[f]
        /\ reg' = [reg EXCEPT ![f] = 0] /\ total' = [total EXCEPT ![f] = 0]
        /\ pc[f] = "store" /\ pc'[f] = "wait" /\ DOMAIN pc' = Frame
        /\ \A g \in Frame : g # f => pc'[g] = pc[g]
        /\ f = "main" => pc["handler"] = "off"
      BY <1>4 DEF Store, Forget, Step, IInv, Types
  <2>2. Types'
      BY <2>1 DEF IInv, Types, Frame, Refunding
  <2>3. Due' = Due + total[f]
      BY <2>1 DEF IInv, Types, Due, Pending, Deducting, Frame
  <2>4. Short(reg[f]) /\ (f = "handler" => reg[f] = local_budget)
      BY <2>1 DEF IInv, Frame
  <2>5. Due \in Int /\ total[f] \in Nat /\ reg[f] \in Int /\ sent["handler"] \in Int
      BY Amounted DEF IInv, Types, Frame
  <2>6. CASE f = "main"
    <3>1. Short(local_budget)'
        BY <2>1, <2>3, <2>4, <2>5, <2>6 DEF Short, Pending, Frame
    <3> QED
        BY <2>1, <2>2, <2>6, <3>1 DEF IInv, Frame
  <2>7. CASE f = "handler"
    <3>1. Short(local_budget)'
        BY <2>1, <2>3, <2>4, <2>5, <2>7 DEF Short, Pending
    <3>2. pc["main"] \in {"store", "storeRefund"} => Short(reg["main"])'
        BY <2>1, <2>3, <2>5, <2>7 DEF IInv, Types, Short, Pending, Frame
    <3> QED
        BY <2>1, <2>2, <2>7, <3>1, <3>2 DEF IInv, Frame
  <2> QED
      BY <2>6, <2>7 DEF Frame
<1> QED
    BY <1>1, <1>2, <1>3, <1>4 DEF Generate

\* The deduction of a refund is pending from its arrival until it is stored.
LEMMA MainKeeps == IInv /\ MainLoop => IInv'
<1> SUFFICES ASSUME IInv, MainLoop PROVE IInv'
    OBVIOUS
<1>1. CASE LoopTop \/ TestRetry \/ Wake \/ Clear
  <2>1. UNCHANGED <<reg, total, account>>
      BY <1>1 DEF LoopTop, TestRetry, Wake, Clear
  <2>2. /\ DOMAIN pc' = Frame /\ pc'["handler"] = pc["handler"]
        /\ {pc["main"], pc'["main"]} \cap (Adding \cup Refunding) = {}
      BY <1>1 DEF LoopTop, TestRetry, Wake, Clear, Step, IInv, Types, Adding,
                  Refunding, Frame
  <2>3. Aside
      BY <2>1, <2>2 DEF Aside, account, IInv, Types, Frame
  <2> QED
      BY <2>3, AsideKeeps
<1>2. CASE Collect
  <2>1. PICK r \in rejected :
            /\ rejected' = (rejected \ {r}) \cup {<<r[1], r[2] - 1, r[3]>>}
            /\ total' = [total EXCEPT !["main"] = r[3]]
            /\ refunded' = refunded + r[3]
      BY <1>2 DEF Collect
  <2>2. /\ UNCHANGED <<reg, local_budget, budget, sent, income, peak>>
        /\ pc["main"] = "collect" /\ pc'["main"] = "loadRefund" /\ DOMAIN pc' = Frame
        /\ pc'["handler"] = pc["handler"] /\ r[3] \in Nat
      BY <1>2 DEF Collect, Step, IInv, Types, Frame
  <2>3. Types'
      BY <2>1, <2>2 DEF IInv, Types, Frame
  <2>4. Due' = Due /\ Pending("handler")' = Pending("handler")
      BY <2>1, <2>2 DEF IInv, Types, Due, Pending, Deducting, Frame
  <2> QED
      BY <2>2, <2>3, <2>4 DEF IInv, Short
<1>3. CASE LoadRefund
  <2>1. /\ UNCHANGED <<total, account>> /\ reg' = [reg EXCEPT !["main"] = local_budget]
        /\ pc["main"] = "loadRefund" /\ pc'["main"] = "storeRefund"
        /\ DOMAIN pc' = Frame /\ pc'["handler"] = pc["handler"]
      BY <1>3 DEF LoadRefund, Step, IInv, Types, Frame
  <2>2. Types'
      BY <2>1 DEF IInv, Types, account, Frame
  <2>3. Due' = Due /\ Pending("handler")' = Pending("handler")
      BY <2>1 DEF account, Due, Pending, Deducting
  <2> QED
      BY <2>1, <2>2, <2>3 DEF IInv, Types, Short, account, Frame
<1>4. CASE StoreRefund
  <2>1. /\ UNCHANGED <<budget, sent, refunded, rejected, income, peak>>
        /\ local_budget' = reg["main"] - total["main"]
        /\ reg' = [reg EXCEPT !["main"] = 0] /\ total' = [total EXCEPT !["main"] = 0]
        /\ pc["main"] = "storeRefund" /\ pc'["main"] = "wait" /\ DOMAIN pc' = Frame
        /\ pc'["handler"] = pc["handler"] /\ pc["handler"] = "off"
      BY <1>4 DEF StoreRefund, Forget, Step, IInv, Types, Frame
  <2>2. Types'
      BY <2>1 DEF IInv, Types, Frame
  <2>3. Due' = Due - total["main"]
      BY <2>1 DEF IInv, Types, Due, Pending, Deducting, Frame
  <2>4. Due \in Int /\ total["main"] \in Nat /\ reg["main"] \in Int
        /\ sent["handler"] \in Int
      BY Amounted DEF IInv, Types, Frame
  <2> QED
      BY <2>1, <2>2, <2>3, <2>4 DEF IInv, Short, Pending
<1> QED
    BY <1>1, <1>2, <1>3, <1>4 DEF MainLoop

\* Signals move a program that waits to its V, or start the handler; the other
\* processes do not touch the account.
LEMMA OthersAside ==
    ASSUME IInv,
           \/ Sigusr1 \/ Sigterm \/ Sigint \/ Paid \/ MasterStep
           \/ \E p \in Peer : PeerEnds(p)
    PROVE  Aside
<1> USE DEF IInv, Types, Aside, account
<1>1. CASE Sigusr1
    BY <1>1 DEF Sigusr1, Interrupts, MeetsDetached, Interrupted, Waits, Frame, Adding, Refunding
<1>2. CASE Sigterm \/ Sigint
    BY <1>2 DEF Sigterm, Sigint, Interrupted, Waits, Top, Frame, Adding, Refunding
<1>3. CASE Paid \/ MasterStep \/ \E p \in Peer : PeerEnds(p)
    BY <1>3 DEF Paid, MasterStep, PeerEnds
<1> QED
    BY <1>1, <1>2, <1>3

\* The invariant holds throughout.
LEMMA Inductive == Spec => []IInv
<1>1. IInv /\ [Next]_vars => IInv'
  <2> SUFFICES ASSUME IInv, [Next]_vars PROVE IInv'
      OBVIOUS
  <2>1. CASE UNCHANGED vars
    <3>1. Aside
        BY <2>1 DEF vars, account, Aside, IInv, Types
    <3> QED
        BY <3>1, AsideKeeps
  <2> QED
      BY <2>1, UpdateKeeps, GenerateKeeps, MainKeeps, OthersAside, AsideKeeps
      DEF Next, UserStep, FrameStep
<1> QED
    BY InitIInv, <1>1, PTL DEF Spec

\* The account of the user is never too high, and too low by at most what the
\* handler has sent, whenever the handler interrupts main and however often.
THEOREM LostAtMostHandler == Spec => []OnlyHandlerForgotten
<1>1. IInv => OnlyHandlerForgotten
    BY DEF IInv, Types, Short, Due, Pending, Deducting, OnlyHandlerForgotten, Frame
<1> QED
    BY <1>1, Inductive, PTL

-----------------------------------------------------------------------------
\* While no SIGUSR1 comes, local_budget is exact.  So the budget in shared memory
\* is never more than what the highest income so far leaves, but on the way from the store of an addition
\* to the write, and what main has tested is still so when it draws.
Stale == {"wait", "enter", "compute", "write"}
Left  == BUDGET_INIT + peak - local_budget

Sound ==
    /\ pc["handler"] = "off" /\ sent["handler"] = 0
    /\ pc["main"] # "crashed"
    /\ sent["main"] - refunded <= BUDGET_INIT + peak
    /\ pc["main"] \notin Stale => budget <= Left
    /\ pc["main"] = "compute" => reg["main"] <= peak
    /\ pc["main"] = "write" => reg["main"] <= Left
    /\ pc["main"] \in {"count", "sync", "pick", "draw"} => budget >= 2
    /\ pc["main"] = "draw" => sendable_user_count # 0

Quiet == signals \in Nat /\ (signals = 0 => Sound)

\* The initial state is sound.
LEMMA InitQuiet == Init => Quiet
    BY UserAssumption
    DEF Init, Quiet, Sound, Stale, Left, Frame, UserAssumption

\* With no signal so far the account is exact.
LEMMA Exact ==
    ASSUME IInv, Sound, pc["main"] \notin Adding \cup Refunding
    PROVE  local_budget = sent["main"] - refunded
<1>1. Due = sent["main"] - refunded
    BY DEF IInv, Types, Sound, Due, Pending, Deducting, Adding, Refunding, Frame
<1>2. local_budget <= Due /\ Due - local_budget <= 0
    BY DEF IInv, Short, Sound, Pending
<1> QED
    BY <1>1, <1>2, Amounted DEF IInv, Types

\* The steps of main keep it so.
LEMMA MainQuiet ==
    ASSUME IInv, IInv', Sound, UserStep
    PROVE  Sound'
<1> USE UserAssumption DEF UserAssumption
<1> /\ Types /\ Types' /\ Sound
    BY DEF IInv
<1>1. MainLoop \/ FrameStep("main")
    BY DEF UserStep, FrameStep, UpdateBudget, Generate, PassGate, Enter, Compute, Write,
       Leave, Return, CheckBudget, CompareCount, SyncUser, SyncDone, Pick, Crashes,
       Send, QueueFull, Load, Store, Fails, Step, Sound, Frame
<1>2. pc'["handler"] = "off" /\ sent'["handler"] = 0
    BY <1>1 DEF MainLoop, LoopTop, Collect, LoadRefund, StoreRefund, TestRetry, Wake,
       Clear, FrameStep, UpdateBudget, Generate, PassGate, Enter, Compute, Write,
       Leave, Return, CheckBudget, CompareCount, SyncUser, SyncDone, Pick, Crashes,
       Send, QueueFull, Load, Store, Fails, Step, Sound, Types, Frame, account
<1>3. CASE MainLoop
  <2>1. CASE LoopTop \/ TestRetry \/ Wake \/ Clear
      BY <1>2, <2>1 DEF LoopTop, TestRetry, Wake, Clear, Step, Types, Sound, Stale, Left,
         account, Frame
  <2>2. CASE Collect
      BY <1>2, <2>2 DEF Collect, Step, Types, Sound, Stale, Left, Frame
  <2>3. CASE LoadRefund
      BY <1>2, <2>3 DEF LoadRefund, Step, Types, Sound, Stale, Left, account, Frame
  <2>4. CASE StoreRefund
      BY <1>2, <2>4 DEF StoreRefund, Forget, Step, Types, Sound, Stale, Left, Frame
  <2> QED
      BY <1>3, <2>1, <2>2, <2>3, <2>4 DEF MainLoop
<1>4. CASE UpdateBudget("main")
  <2>1. CASE PassGate("main") \/ Leave("main")
      BY <1>2, <2>1 DEF PassGate, Leave, Return, Step, Types, Sound, Stale, Left,
         account, Frame
  <2>2. CASE Enter("main")
      BY <1>2, <2>2 DEF Enter, Step, Types, Sound, Stale, Left, account, Frame
  <2>3. CASE Compute("main")
    <3>1. reg'["main"] = reg["main"] - local_budget + BUDGET_INIT /\ reg["main"] <= peak
        BY <2>3 DEF Compute, Step, Types, Sound, Frame
    <3>2. reg'["main"] <= Left
        BY <3>1 DEF Types, Left, Frame
    <3> QED
        BY <1>2, <2>3, <3>2 DEF Compute, Step, Types, Sound, Stale, Left, account, Frame
  <2>4. CASE Write("main")
      BY <1>2, <2>4 DEF Write, Step, Types, Sound, Stale, Left, Frame
  <2> QED
      BY <1>4, <2>1, <2>2, <2>3, <2>4 DEF UpdateBudget
<1>5. CASE Generate("main")
  <2>1. CASE \/ CheckBudget("main") \/ CompareCount("main") \/ SyncUser("main")
             \/ SyncDone("main") \/ Pick("main") \/ Crashes("main") \/ QueueFull("main")
    <3>1. UNCHANGED <<reg, account>> /\ pc["main"] \notin Stale
        BY <2>1 DEF CheckBudget, CompareCount, SyncUser, SyncDone, Pick, Crashes,
           QueueFull, Fails, Step, Stale
    <3>2. pc'["main"] \notin {"compute", "write", "crashed"}
        BY <2>1 DEF CheckBudget, CompareCount, SyncUser, SyncDone, Pick, Crashes,
           QueueFull, Fails, Step, Types, Sound, Frame
    <3>3. /\ pc'["main"] \in {"count", "sync", "pick", "draw"} => budget >= 2
          /\ pc'["main"] = "draw" => sendable_user_count' # 0
        BY <2>1, <3>2 DEF CheckBudget, CompareCount, SyncUser, SyncDone, Pick, Crashes,
           QueueFull, Fails, Step, Types, Sound, cache, Frame
    <3> QED
        BY <1>2, <3>1, <3>2, <3>3 DEF Sound, Left, account
  <2>2. CASE Send("main")
    <3>1. PICK a \in Amounts : sent' = [sent EXCEPT !["main"] = @ + a]
        BY <2>2 DEF Send
    <3>2. a \in Nat /\ a <= budget
        BY <2>2 DEF Amounts, Send, Step, Types, Sound
    <3>3. local_budget = sent["main"] - refunded /\ budget <= Left
        BY <2>2, Exact DEF Send, Step, Sound, Stale, Adding, Refunding
    <3>4. sent'["main"] - refunded <= BUDGET_INIT + peak
        BY <3>1, <3>2, <3>3 DEF Types, Left, Frame
    <3> QED
        BY <1>2, <2>2, <3>4 DEF Send, Step, Types, Sound, Stale, Left, Frame
  <2>3. CASE Load("main") \/ Store("main")
      BY <1>2, <2>3 DEF Load, Store, Forget, Step, Types, Sound, Stale, Left,
         account, Frame
  <2> QED
      BY <1>5, <2>1, <2>2, <2>3 DEF Generate
<1> QED
    BY <1>1, <1>3, <1>4, <1>5 DEF FrameStep

\* The more the ledger has shown, the more is left.
LEMMA MoreLeft ==
    ASSUME NEW p \in Int, NEW q \in Int, p <= q, NEW l \in Int, NEW v \in Int,
           v <= BUDGET_INIT + p - l
    PROVE  v <= BUDGET_INIT + q - l
    BY UserAssumption DEF UserAssumption

\* And so do the others, until the first SIGUSR1.
LEMMA OthersQuiet ==
    ASSUME IInv, IInv', Sound,
           \/ Sigterm \/ Sigint \/ Paid \/ MasterStep
           \/ \E p \in Peer : PeerEnds(p)
    PROVE  Sound'
<1> USE UserAssumption DEF UserAssumption, IInv, Types, Sound, Left, account, cache
<1>1. CASE Sigterm \/ Sigint
    BY <1>1 DEF Sigterm, Sigint, Interrupted, Waits, Top, Frame, Stale
<1>2. CASE Paid
  <2>1. /\ peak' \in Int /\ peak <= peak'
        /\ UNCHANGED <<pc, reg, total, local_budget, budget, sent, refunded, cache>>
      BY <1>2 DEF Paid
  <2>2. /\ sent["main"] \in Int /\ reg["main"] \in Int /\ refunded \in Int
        /\ peak \in Int /\ local_budget \in Int /\ budget \in Int
      BY DEF Frame
  <2>3. sent'["main"] - refunded' <= BUDGET_INIT + peak'
      BY <2>1, <2>2
  <2>4. /\ budget <= Left => budget <= Left'
        /\ reg["main"] <= Left => reg["main"] <= Left'
      BY ONLY UserAssumption, <2>1, <2>2, MoreLeft DEF Left
  <2> HIDE DEF IInv, Types, Left, account
  <2> QED
      BY <2>1, <2>2, <2>3, <2>4 DEF Stale
<1>3. CASE MasterStep \/ \E p \in Peer : PeerEnds(p)
    BY <1>3 DEF MasterStep, PeerEnds
<1> QED
    BY <1>1, <1>2, <1>3

\* It holds throughout.
LEMMA AlwaysQuiet == Spec => []Quiet
<1>1. IInv /\ IInv' /\ Quiet /\ [Next]_vars => Quiet'
  <2> SUFFICES ASSUME IInv, IInv', Quiet, [Next]_vars PROVE Quiet'
      OBVIOUS
  <2>1. CASE Sigusr1
      BY <2>1 DEF Sigusr1, Quiet
  <2>2. CASE UserStep
    <3>1. UNCHANGED signals
        BY <2>2 DEF UserStep, FrameStep, UpdateBudget, Generate, MainLoop, PassGate,
           Enter, Compute, Write, Leave, CheckBudget, CompareCount, SyncUser, SyncDone,
           Pick, Crashes, Send, QueueFull, Load, Store, LoopTop, Collect, LoadRefund,
           StoreRefund, TestRetry, Wake, Clear, bounds
    <3> QED
        BY <2>2, <3>1, MainQuiet DEF Quiet
  <2>3. CASE Sigterm \/ Sigint \/ Paid \/ MasterStep \/ \E p \in Peer : PeerEnds(p)
    <3>1. UNCHANGED signals
        BY <2>3 DEF Sigterm, Sigint, Paid, MasterStep, PeerEnds, bounds
    <3> QED
        BY <2>3, <3>1, OthersQuiet DEF Quiet
  <2>4. CASE UNCHANGED vars
      BY <2>4 DEF vars, account, cache, bounds, Quiet, Sound, Left
  <2> QED
      BY <2>1, <2>2, <2>3, <2>4 DEF Next
<1> QED
    BY InitQuiet, Inductive, <1>1, PTL DEF Spec

\* A user that gets no SIGUSR1 never spends more than it began with and was shown
\* at some time, and never divides by zero, for any number of users, payments and
\* refunds, however the others end and wherever block_count goes back.
THEOREM NeverOverspends == Spec => []SoundWithoutSignal
<1>1. Quiet => SoundWithoutSignal
    BY DEF Quiet, Sound, SoundWithoutSignal
<1> QED
    BY <1>1, AlwaysQuiet, PTL

=============================================================================
