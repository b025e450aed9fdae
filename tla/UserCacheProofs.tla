-------------------------- MODULE UserCacheProofs --------------------------
(***************************************************************************)
(* Types of UserBudget, and what its cache of the users alive is worth,    *)
(* for any number of users and signals.                                    *)
(*                                                                         *)
(* sync_alive_users may be interrupted by a run of itself in the handler,  *)
(* and users end while it runs.  The argument is about Known, the users    *)
(* it would list now: they only grow fewer, so a list is never too short,  *)
(* and one that has just their number holds exactly them.                  *)
(***************************************************************************)
EXTENDS UserBudget, FiniteSetTheorems, TLAPS

\* The users sync_alive_users would list now; a crash leaves the status at 1.
Known == {p \in Peer : peer[p] \in {"alive", "crashed"}}

\* Between the V and the P on sem_sync[1].
Inside(f) == pc[f] \in {"compute", "write", "leave", "leaveClear"}

\* The number of frames inside, and how far the indices of sync_alive_users go:
\* the user itself is never listed.
InsideCounted ==
    sem1 = (IF Inside("main") THEN 1 ELSE 0) + (IF Inside("handler") THEN 1 ELSE 0)

Indexed == \A f \in Frame : x[f] <= at[f] /\ (at[f] > Self => x[f] <= at[f] - 1)

TInv == TypeOK /\ InsideCounted /\ Indexed

\* TypeOK in three parts: the counters, the cache and the rest.
Label == {"off", "top", "wait", "enter", "compute", "write", "leave", "collect",
          "loadRefund", "storeRefund", "check", "count", "sync", "pick", "nobody",
          "draw", "load", "store", "sleep", "clear", "enterClear", "leaveClear",
          "detach", "detached", "exited", "crashed"}

CacheTyped ==
    /\ at \in [Frame -> 0 .. USERS] /\ x \in [Frame -> User]
    /\ sendable_users \in [User -> User] /\ sendable_user_count \in User

RestTyped ==
    /\ ret \in {"collect", "refunded", "sleep"}
    /\ reg \in [Frame -> Int] /\ total \in [Frame -> Nat]
    /\ local_budget \in Int /\ budget \in Int
    /\ retry \in 0 .. RETRY /\ alive \in BOOLEAN
    /\ sent \in [Frame -> Nat] /\ refunded \in Nat
    /\ rejected \subseteq (0 .. MaxSends) \X (0 .. MaxRefunds) \X Nat
    /\ income \in 0 .. peak /\ peak \in 0 .. MaxIncome
    /\ peer \in [Peer -> {"alive", "leaving", "gone", "crashed"}]
    /\ sem0 \in {0, 1}
    /\ master \in {"idle", "await", "read"}
    /\ sends \in 0 .. MaxSends /\ signals \in 0 .. MaxSignals

-----------------------------------------------------------------------------
\* TypeOK is its parts, sem_sync[1] being what the frames inside make it.
LEMMA TypeParts ==
    /\ InsideCounted => (TypeOK <=> pc \in [Frame -> Label] /\ CacheTyped /\ RestTyped)
    /\ InsideCounted' => (TypeOK' <=> pc' \in [Frame -> Label] /\ CacheTyped' /\ RestTyped')
    BY DEF TypeOK, Label, CacheTyped, RestTyped, InsideCounted

\* The initial state is typed.
LEMMA InitTInv == Init => TInv
    BY UserAssumption
    DEF Init, TInv, TypeOK, InsideCounted, Indexed, Inside, UserAssumption, User, Peer, Frame

\* A frame that moves, or a wait of it that a signal interrupts.
Moved(f) ==
    /\ \E to \in Label : pc' = [pc EXCEPT ![f] = to]
    /\ sem1' = sem1 + (IF Inside(f)' THEN 1 ELSE 0) - (IF Inside(f) THEN 1 ELSE 0)

\* It keeps the count of the frames inside.
LEMMA MovedCounted ==
    ASSUME TInv, NEW f \in Frame, Moved(f)
    PROVE  pc' \in [Frame -> Label] /\ InsideCounted'
<1>1. pc \in [Frame -> Label] /\ InsideCounted /\ sem1 \in Int
    BY TypeParts DEF TInv, TypeOK
<1> QED
    BY <1>1 DEF Moved, InsideCounted, Inside, Frame

\* sync_alive_users: its indices stay in the array.
LEMMA SyncTyped ==
    ASSUME CacheTyped, Indexed, NEW f \in Frame, SyncUser(f)
    PROVE  CacheTyped' /\ Indexed'
<1> DEFINE i == at[f]
           v == x[f]
           r == USERS - 1 - (i - v)
<1>1. /\ USERS \in Nat \ {0} /\ Self \in 0 .. USERS - 1
      /\ i \in 0 .. USERS - 1 /\ v \in 0 .. USERS - 1 /\ v <= i
      /\ i > Self => v <= i - 1
    BY UserAssumption DEF UserAssumption, CacheTyped, Indexed, User, SyncUser
<1>2. at' = [at EXCEPT ![f] = i + 1] /\ i + 1 \in 0 .. USERS
    BY <1>1 DEF SyncUser
<1>3. CASE Listed(i)
  <2>1. /\ sendable_users' = [sendable_users EXCEPT ![v] = i]
        /\ x' = [x EXCEPT ![f] = v + 1] /\ UNCHANGED sendable_user_count
      BY <1>3 DEF SyncUser
  <2>2. i # Self
      BY <1>3 DEF Listed
  <2>3. v + 1 \in 0 .. USERS - 1 /\ v + 1 <= i + 1 /\ (i + 1 > Self => v + 1 <= i)
      BY <1>1, <2>2
  <2>4. CacheTyped'
      BY <1>1, <1>2, <2>1, <2>3 DEF CacheTyped, User
  <2>5. Indexed'
      BY <1>1, <1>2, <2>1, <2>3 DEF Indexed, CacheTyped
  <2> QED
      BY <2>4, <2>5
<1>4. CASE ~Listed(i)
  <2>1. /\ sendable_users' = [sendable_users EXCEPT ![r] = i]
        /\ UNCHANGED <<x, sendable_user_count>>
      BY <1>4 DEF SyncUser
  <2>2. v <= i + 1 /\ (i + 1 > Self => v <= i)
      BY <1>1
  <2>3. CacheTyped'
      BY <1>1, <1>2, <2>1 DEF CacheTyped, User
  <2>4. Indexed'
      BY <1>1, <1>2, <2>1, <2>2 DEF Indexed, CacheTyped
  <2> QED
      BY <2>3, <2>4
<1> QED
    BY <1>3, <1>4

\* Every step keeps the types: V and P of each frame are paired, whatever
\* interrupts its wait.
LEMMA NextTInv == TInv /\ [Next]_vars => TInv'
<1> SUFFICES ASSUME TInv, [Next]_vars
             PROVE  pc' \in [Frame -> Label] /\ InsideCounted' /\ Indexed'
                    /\ CacheTyped' /\ RestTyped'
    BY TypeParts DEF TInv
<1>0. /\ pc \in [Frame -> Label] /\ InsideCounted /\ Indexed /\ CacheTyped /\ RestTyped
      /\ sem1 \in Int
    BY TypeParts DEF TInv, TypeOK
<1> USE <1>0, UserAssumption DEF UserAssumption
<1> DEFINE Still == UNCHANGED <<pc, sem1>>
<1>1. Still => pc' \in [Frame -> Label] /\ InsideCounted'
    BY DEF InsideCounted, Inside
<1>2. UNCHANGED cache => CacheTyped' /\ Indexed'
    BY DEF cache, CacheTyped, Indexed
<1>3. ASSUME NEW f \in Frame, UpdateBudget(f)
      PROVE  Moved(f) /\ UNCHANGED cache /\ RestTyped'
  <2>1. UNCHANGED cache
      BY <1>3 DEF UpdateBudget, PassGate, Enter, Compute, Write, Leave, Return
  <2>2. Moved(f)
    <3>1. CASE PassGate(f) \/ Enter(f) \/ Compute(f) \/ Write(f)
        BY <3>1 DEF PassGate, Enter, Compute, Write, Step, gate, Moved, Label, Inside
    <3>2. CASE Leave(f)
      <4>1. PICK to \in {"off", "sleep", "collect"} : pc' = [pc EXCEPT ![f] = to]
          BY <3>2 DEF Leave, Return, Step, Frame
      <4>2. pc[f] = "leave" /\ sem1' = sem1 - 1 /\ pc'[f] = to
          BY <3>2, <4>1 DEF Leave, Return, Step
      <4>3. Inside(f) /\ ~Inside(f)'
          BY <4>2 DEF Inside
      <4>4. sem1' = sem1 + (IF Inside(f)' THEN 1 ELSE 0) - (IF Inside(f) THEN 1 ELSE 0)
          BY <4>2, <4>3
      <4>5. to \in Label
          BY DEF Label
      <4> QED
          BY <4>1, <4>4, <4>5 DEF Moved
    <3> QED
        BY <1>3, <3>1, <3>2 DEF UpdateBudget
  <2>3. RestTyped'
    <3>1. CASE PassGate(f) \/ Enter(f)
        BY <3>1 DEF PassGate, Enter, RestTyped, account, control, gate, bounds
    <3>2. CASE Compute(f) \/ Write(f)
        BY <3>2 DEF Compute, Write, RestTyped, account, control, gate, bounds
    <3>3. CASE Leave(f)
        BY <3>3 DEF Leave, Return, Retried, RestTyped, account, control, gate, bounds
    <3> QED
        BY <1>3, <3>1, <3>2, <3>3 DEF UpdateBudget
  <2> QED
      BY <2>1, <2>2, <2>3
<1>4. ASSUME NEW f \in Frame, Generate(f)
      PROVE  Moved(f) /\ CacheTyped' /\ Indexed' /\ RestTyped'
  <2>1. Moved(f)
    <3>1. CASE CheckBudget(f) \/ CompareCount(f) \/ SyncUser(f) \/ SyncDone(f)
        BY <3>1 DEF CheckBudget, CompareCount, SyncUser, SyncDone, Fails, Step, gate, Moved,
           Label, Inside
    <3>2. CASE Pick(f) \/ Crashes(f) \/ Send(f) \/ QueueFull(f)
        BY <3>2 DEF Pick, Crashes, Send, QueueFull, Fails, Step, gate, Moved, Label, Inside
    <3>3. CASE Load(f) \/ Store(f)
        BY <3>3 DEF Load, Store, Step, gate, Moved, Label, Inside
    <3> QED
        BY <1>4, <3>1, <3>2, <3>3 DEF Generate
  <2>2. CacheTyped' /\ Indexed'
    <3>1. CASE SyncDone(f)
      <4>1. 0 \in 0 .. USERS /\ 0 \in User /\ Self >= 0
          BY DEF User
      <4>2. /\ at' = [at EXCEPT ![f] = 0] /\ x' = [x EXCEPT ![f] = 0]
            /\ sendable_user_count' = x[f] /\ UNCHANGED sendable_users
          BY <3>1 DEF SyncDone
      <4>3. CacheTyped'
          BY <4>1, <4>2 DEF CacheTyped
      <4>4. Indexed'
          BY <4>1, <4>2 DEF CacheTyped, Indexed
      <4> QED
          BY <4>3, <4>4
    <3>2. CASE UNCHANGED cache
        BY <1>2, <3>2
    <3> QED
        BY <1>4, <3>1, <3>2, SyncTyped DEF Generate, CheckBudget, CompareCount, Pick, Crashes,
           Send, QueueFull, Load, Store
  <2>3. RestTyped'
    <3>1. CASE \/ CompareCount(f) \/ SyncUser(f) \/ SyncDone(f) \/ Crashes(f)
        BY <3>1 DEF CompareCount, SyncUser, SyncDone, Crashes, RestTyped, account, control,
           gate, bounds
    <3>2. CASE CheckBudget(f) \/ Pick(f) \/ QueueFull(f)
      <4>1. Retried \in 0 .. RETRY
          BY DEF Retried, RestTyped
      <4>2. UNCHANGED <<reg, total, account, ret, peer, gate, bounds>>
          BY <3>2 DEF CheckBudget, Pick, QueueFull
      <4>3. retry' \in {retry, Retried} /\ alive' \in {alive, FALSE}
          BY <3>2 DEF CheckBudget, Pick, QueueFull, Fails
      <4> QED
          BY <4>1, <4>2, <4>3 DEF RestTyped, account, gate, bounds
    <3>3. CASE Send(f)
      <4>1. PICK a \in Amounts : /\ total' = [total EXCEPT ![f] = a]
                                 /\ sent' = [sent EXCEPT ![f] = @ + a]
                                 /\ rejected' = rejected \cup {<<sends, MaxRefunds, a>>}
          BY <3>3 DEF Send
      <4>2. a \in Nat
          BY <4>1 DEF Amounts
      <4> QED
          BY <3>3, <4>1, <4>2 DEF Send, RestTyped, control, gate
    <3>4. CASE Load(f) \/ Store(f)
        BY <3>4 DEF Load, Store, Forget, RestTyped, account, control, gate, bounds
    <3> QED
        BY <1>4, <3>1, <3>2, <3>3, <3>4 DEF Generate
  <2> QED
      BY <2>1, <2>2, <2>3
<1>5. CASE MainLoop
  <2>1. Moved("main")
    <3>1. CASE LoopTop \/ Collect \/ LoadRefund \/ StoreRefund \/ TestRetry \/ Wake
        BY <3>1 DEF LoopTop, Collect, LoadRefund, StoreRefund, TestRetry, Wake, Step, gate,
           Moved, Label, Inside
    <3>2. CASE Clear
      <4>1. PICK from, to \in Label : /\ pc["main"] = from /\ pc' = [pc EXCEPT !["main"] = to]
               /\ \/ from \in {"clear", "nobody"} /\ to = "enterClear" /\ sem1' = sem1
                  \/ from = "enterClear" /\ to = "leaveClear" /\ sem1' = sem1 + 1
                  \/ from = "leaveClear" /\ to = "detach" /\ sem1' = sem1 - 1
                  \/ from = "detach" /\ to = "detached" /\ sem1' = sem1
                  \/ from = "detached" /\ to = "exited" /\ sem1' = sem1
          BY <3>2 DEF Clear, Step, Label
      <4>2. pc'["main"] = to
          BY <4>1 DEF Frame
      <4>3. /\ Inside("main")' <=> to = "leaveClear"
            /\ Inside("main") <=> from = "leaveClear"
          BY <4>1, <4>2 DEF Inside
      <4>4. sem1' = sem1 + (IF Inside("main")' THEN 1 ELSE 0) - (IF Inside("main") THEN 1 ELSE 0)
          BY <4>1, <4>3
      <4> QED
          BY <4>1, <4>4 DEF Moved
    <3> QED
        BY <1>5, <3>1, <3>2 DEF MainLoop
  <2>2. UNCHANGED cache
      BY <1>5 DEF MainLoop, LoopTop, Collect, LoadRefund, StoreRefund, TestRetry, Wake, Clear
  <2>3. RestTyped'
    <3>1. CASE LoopTop \/ LoadRefund \/ TestRetry \/ Wake \/ Clear
        BY <3>1 DEF LoopTop, LoadRefund, TestRetry, Wake, Clear, RestTyped, account, control,
           gate, bounds
    <3>2. CASE Collect
      <4>1. PICK r \in rejected :
                /\ r[2] > 0
                /\ rejected' = (rejected \ {r}) \cup {<<r[1], r[2] - 1, r[3]>>}
                /\ total' = [total EXCEPT !["main"] = r[3]]
                /\ refunded' = refunded + r[3]
          BY <3>2 DEF Collect
      <4>2. r[3] \in Nat /\ rejected' \subseteq (0 .. MaxSends) \X (0 .. MaxRefunds) \X Nat
        <5>1. r \in (0 .. MaxSends) \X (0 .. MaxRefunds) \X Nat
            BY DEF RestTyped
        <5>2. r[1] \in 0 .. MaxSends /\ r[2] - 1 \in 0 .. MaxRefunds /\ r[3] \in Nat
            BY <4>1, <5>1
        <5> QED
            BY <4>1, <5>2 DEF RestTyped
      <4>3. total' \in [Frame -> Nat] /\ refunded' \in Nat
        <5>1. DOMAIN total = Frame /\ \A f \in Frame : total[f] \in Nat
            BY DEF RestTyped
        <5>2. refunded \in Nat /\ refunded + r[3] \in Nat
            BY <4>2 DEF RestTyped
        <5> QED
            BY <4>1, <4>2, <5>1, <5>2
      <4> QED
          BY <3>2, <4>2, <4>3 DEF Collect, RestTyped, control, gate, bounds
    <3>3. CASE StoreRefund
        BY <3>3 DEF StoreRefund, Forget, RestTyped, gate, bounds, Frame
    <3> QED
        BY <1>5, <3>1, <3>2, <3>3 DEF MainLoop
  <2> QED
      BY <1>2, <2>1, <2>2, <2>3, MovedCounted DEF Frame
<1>6. CASE Sigusr1
  <2>1. pc["handler"] = "off" /\ UNCHANGED sem1
      BY <1>6 DEF Sigusr1, gate
  <2>2. ASSUME Interrupts PROVE pc' \in [Frame -> Label] /\ InsideCounted'
    <3>1. PICK m \in Interrupted("main") : pc' = [main |-> m, handler |-> "check"]
        BY <2>2 DEF Interrupts
    <3>2. m \in Label /\ m \in {pc["main"], "enter", "enterClear"}
          /\ (m # pc["main"] => pc["main"] \in {"wait", "clear", "nobody"})
        BY <3>1 DEF Interrupted, Waits, Frame, Label
    <3> QED
        BY <2>1, <3>1, <3>2 DEF InsideCounted, Inside, Frame, Label
  <2>3. ASSUME MeetsDetached PROVE pc' \in [Frame -> Label] /\ InsideCounted'
      BY <2>1, <2>3 DEF MeetsDetached, InsideCounted, Inside, Frame, Label
  <2>4. pc' \in [Frame -> Label] /\ InsideCounted'
      BY <1>6, <2>2, <2>3 DEF Sigusr1
  <2> QED
      BY <1>2, <1>6, <2>4 DEF Sigusr1, RestTyped, account, control, gate
<1>7. CASE Sigterm \/ Sigint
  <2>1. PICK to \in Interrupted(Top) : pc' = [pc EXCEPT ![Top] = to]
      BY <1>7 DEF Sigterm, Sigint
  <2>2. PICK t \in Frame : t = Top
      BY DEF Top, Frame
  <2>3. UNCHANGED <<sem1, cache>>
      BY <1>7 DEF Sigterm, Sigint, gate
  <2>4. to \in Label /\ to \in {pc[t], "enter", "enterClear"}
        /\ (to # pc[t] => pc[t] \in {"wait", "clear", "nobody"})
      BY <2>1, <2>2 DEF Interrupted, Waits, Label
  <2>5. pc' = [pc EXCEPT ![t] = to] /\ (Inside(t)' <=> Inside(t))
      BY <2>1, <2>2, <2>4 DEF Inside
  <2>6. Moved(t)
    <3>1. sem1' = sem1 + (IF Inside(t)' THEN 1 ELSE 0) - (IF Inside(t) THEN 1 ELSE 0)
        BY <2>3, <2>5
    <3> QED
        BY <2>4, <2>5, <3>1 DEF Moved
  <2> QED
      BY <1>2, <1>7, <2>3, <2>6, MovedCounted
      DEF Sigterm, Sigint, RestTyped, account, control, gate, bounds
<1>8. CASE (\E p \in Peer : PeerEnds(p)) \/ Paid
    BY <1>1, <1>2, <1>8 DEF PeerEnds, Paid, RestTyped, account, control, gate, bounds
<1>9. CASE MasterStep \/ UNCHANGED vars
    BY <1>1, <1>2, <1>9 DEF MasterStep, vars, RestTyped, account, control, gate, bounds
<1> QED
    BY <1>2, <1>3, <1>4, <1>5, <1>6, <1>7, <1>8, <1>9, MovedCounted
    DEF Next, UserStep, FrameStep

\* The indices of sync_alive_users stay in the array whatever interrupts it, and
\* sem_sync[1] counts the frames that are inside.
THEOREM UserTypesCorrect == Spec => []TypeOK
<1>1. TInv => TypeOK
    BY DEF TInv
<1> QED
    BY <1>1, InitTInv, NextTInv, PTL DEF Spec

-----------------------------------------------------------------------------
\* The members of S that a pass which has reached k has seen.
Below(S, k) == {p \in S : p < k}

\* No list, whole or under way, is shorter than the users it should hold; one
\* of just their number holds exactly them, whoever wrote its entries.
CacheExact ==
    /\ Cardinality(Known) <= sendable_user_count
    /\ Cardinality(Known) = sendable_user_count
          => \A i \in 0 .. sendable_user_count - 1 : sendable_users[i] \in Known
    /\ \A f \in Frame :
          /\ Cardinality(Below(Known, at[f])) <= x[f]
          /\ Cardinality(Below(Known, at[f])) = x[f]
                => \A i \in 0 .. x[f] - 1 : sendable_users[i] \in Below(Known, at[f])

\* What main has found of the list is still so when it ends.
MainRight == pc["main"] = "nobody" => \A p \in Peer : peer[p] # "alive"

CInv == CacheExact /\ MainRight

\* The sets of users are finite.
LEMMA FiniteUsers ==
    /\ IsFiniteSet(User) /\ Cardinality(User) = USERS
    /\ IsFiniteSet(Peer) /\ Cardinality(Peer) = USERS - 1
    /\ \A S \in SUBSET User : IsFiniteSet(S) /\ Cardinality(S) \in Nat
<1>1. USERS \in Nat /\ Self \in User
    BY UserAssumption DEF UserAssumption, User
<1>2. IsFiniteSet(User) /\ Cardinality(User) = USERS
    BY <1>1, FS_Interval DEF User
<1>3. IsFiniteSet(Peer) /\ Cardinality(Peer) = USERS - 1
    BY <1>1, <1>2, FS_RemoveElement DEF Peer
<1> QED
    BY <1>2, <1>3, FS_Subset, FS_CardinalityType

\* A smaller set of users that has not fewer members is the same set.
LEMMA NotFewer ==
    ASSUME NEW S \in SUBSET User, NEW T \in SUBSET S
    PROVE  /\ Cardinality(T) \in Nat /\ Cardinality(S) \in Nat
           /\ Cardinality(T) <= Cardinality(S)
           /\ Cardinality(T) = Cardinality(S) => T = S
    BY FiniteUsers, FS_Subset

\* One more user scanned.
LEMMA BelowNext ==
    ASSUME NEW S \in SUBSET User, NEW k \in User
    PROVE  /\ k \in S => /\ Below(S, k + 1) = Below(S, k) \cup {k}
                         /\ Cardinality(Below(S, k + 1)) = Cardinality(Below(S, k)) + 1
           /\ k \notin S => Below(S, k + 1) = Below(S, k)
<1>1. ~(k < k) /\ \A p \in User : p < k + 1 <=> p < k \/ p = k
    BY DEF User
<1>2. k \notin Below(S, k) /\ Below(S, k) \in SUBSET User
    BY <1>1 DEF Below
<1>3. k \in S => Below(S, k + 1) = Below(S, k) \cup {k}
    BY <1>1 DEF Below
<1>4. k \notin S => Below(S, k + 1) = Below(S, k)
    BY <1>1 DEF Below
<1> QED
    BY <1>2, <1>3, <1>4, FiniteUsers, FS_AddElement

\* The right end of the array has room for those that are not listed: beyond k,
\* which is not in S, there are no more than USERS - 1 - k users.
LEMMA RightRoom ==
    ASSUME NEW S \in SUBSET User, NEW k \in User \ S
    PROVE  Cardinality(S) <= Cardinality(Below(S, k)) + (USERS - 1 - k)
<1> DEFINE T == Below(S, k)
           R == (k + 1) .. (USERS - 1)
<1>1. USERS \in Nat /\ k \in Int /\ k \in 0 .. USERS - 1
    BY UserAssumption DEF UserAssumption, User
<1>2. IsFiniteSet(R) /\ Cardinality(R) = USERS - 1 - k
    BY <1>1, FS_Interval
<1>3. S \ T \in SUBSET R
  <2> SUFFICES ASSUME NEW p \in S, ~(p < k) PROVE p \in R
      BY DEF Below
  <2>1. p \in 0 .. USERS - 1 /\ p # k
      BY DEF User
  <2> QED
      BY <1>1, <2>1
<1>4. IsFiniteSet(S \ T) /\ Cardinality(S \ T) <= USERS - 1 - k /\ Cardinality(S \ T) \in Nat
    BY <1>2, <1>3, FS_Subset, FS_CardinalityType
<1>5. IsFiniteSet(T) /\ T \in SUBSET User
    BY FiniteUsers DEF Below
<1>6. T \cap (S \ T) = {} /\ T \cup (S \ T) = S
    BY DEF Below
<1>7. Cardinality(S) = Cardinality(T) + Cardinality(S \ T)
  <2>1. Cardinality(T \cup (S \ T)) =
          Cardinality(T) + Cardinality(S \ T) - Cardinality(T \cap (S \ T))
      BY <1>4, <1>5, FS_Union, Zenon
  <2>2. Cardinality(T) \in Nat /\ Cardinality(T \cap (S \ T)) = 0
      BY <1>5, <1>6, FiniteUsers, FS_EmptySet
  <2>3. Cardinality(T \cup (S \ T)) = Cardinality(S)
      BY <1>6
  <2> QED
      BY <1>4, <2>1, <2>2, <2>3
<1> QED
    BY <1>1, <1>4, <1>5, <1>7, FiniteUsers

\* Users that end leave every list as good as it was.
LEMMA EndingKeepsExact ==
    ASSUME TInv, CacheExact, UNCHANGED cache, Known' \subseteq Known
    PROVE  CacheExact'
<1>1. Known \in SUBSET User
    BY DEF Known, Peer
<1>2. /\ Cardinality(Known') \in Nat /\ Cardinality(Known) \in Nat
      /\ Cardinality(Known') <= Cardinality(Known)
      /\ Cardinality(Known') = Cardinality(Known) => Known' = Known
    BY <1>1, NotFewer
<1>3. ASSUME NEW f \in Frame
      PROVE  LET B == Below(Known, at[f])
                 C == Below(Known', at[f])
             IN  /\ Cardinality(C) \in Nat /\ Cardinality(B) \in Nat
                 /\ Cardinality(C) <= Cardinality(B)
                 /\ Cardinality(C) = Cardinality(B) => C = B
  <2>1. Below(Known, at[f]) \in SUBSET User
        /\ Below(Known', at[f]) \in SUBSET Below(Known, at[f])
      BY <1>1 DEF Below
  <2> QED
      BY <2>1, NotFewer
<1>4. sendable_user_count \in Nat /\ \A f \in Frame : x[f] \in Nat
    BY DEF TInv, TypeOK, User
<1>5. /\ Cardinality(Known') <= sendable_user_count
      /\ Cardinality(Known') = sendable_user_count => Known' = Known
    BY <1>2, <1>4 DEF CacheExact
<1>6. ASSUME NEW f \in Frame
      PROVE  /\ Cardinality(Below(Known', at[f])) <= x[f]
             /\ Cardinality(Below(Known', at[f])) = x[f]
                   => Below(Known', at[f]) = Below(Known, at[f])
    BY <1>3, <1>4 DEF CacheExact
<1> QED
    BY <1>5, <1>6 DEF CacheExact, cache

\* One user taken into the list, even a list another run is writing as well.
LEMMA SyncUserKeepsExact ==
    ASSUME TInv, CacheExact, NEW f \in Frame, SyncUser(f)
    PROVE  CacheExact'
<1> DEFINE i == at[f]
           v == x[f]
           r == USERS - 1 - (i - v)
           B(k) == Below(Known, k)
<1>1. /\ USERS \in Nat /\ i \in User /\ i \in 0 .. USERS - 1 /\ v \in User /\ v <= i
      /\ sendable_users \in [User -> User] /\ sendable_user_count \in User
      /\ at \in [Frame -> 0 .. USERS] /\ x \in [Frame -> User]
      /\ USERS - 1 - (i - v) \in User
  <2>1. /\ sendable_users \in [User -> User] /\ sendable_user_count \in User
        /\ at \in [Frame -> 0 .. USERS] /\ x \in [Frame -> User]
      BY DEF TInv, TypeOK
  <2>2. USERS \in Nat /\ i < USERS /\ v <= i
      BY UserAssumption DEF UserAssumption, TInv, Indexed, SyncUser
  <2>3. i \in 0 .. USERS - 1 /\ v \in 0 .. USERS - 1
      BY <2>1, <2>2 DEF User
  <2>4. r \in 0 .. USERS - 1
      BY <2>2, <2>3
  <2> QED
      BY <2>1, <2>2, <2>3, <2>4 DEF User
<1>2. Known' = Known /\ UNCHANGED sendable_user_count /\ at' = [at EXCEPT ![f] = i + 1]
    BY DEF SyncUser, Known
<1>3. /\ Known \in SUBSET User /\ Cardinality(Known) \in Nat
      /\ i \in Known <=> Listed(i)
    BY <1>1, FiniteUsers DEF Known, Listed, Peer
<1>4. ASSUME NEW k
      PROVE  /\ B(k) \in SUBSET User /\ Cardinality(B(k)) \in Nat
             /\ Cardinality(B(k)) <= Cardinality(Known)
  <2>1. B(k) \in SUBSET Known
      BY DEF Below
  <2> QED
      BY <1>3, <2>1, NotFewer
<1>5. \A g \in Frame : Cardinality(B(at[g])) <= x[g] /\ x[g] \in Nat
    BY <1>1 DEF CacheExact, User
<1>6. CASE Listed(i)
  <2>1. /\ sendable_users' = [sendable_users EXCEPT ![v] = i]
        /\ x' = [x EXCEPT ![f] = v + 1]
      BY <1>6 DEF SyncUser
  <2>2. i \in Known
      BY <1>3, <1>6
  <2>3. \A j \in User : sendable_users'[j] = IF j = v THEN i ELSE sendable_users[j]
      BY <1>1, <2>1
  <2>4. ASSUME Cardinality(Known) = sendable_user_count,
               NEW j \in 0 .. sendable_user_count - 1
        PROVE  sendable_users'[j] \in Known
    <3>1. sendable_users[j] \in Known /\ j \in User
        BY <1>1, <2>4 DEF CacheExact, User
    <3> QED
        BY <2>2, <2>3, <3>1
  <2>5. /\ B(i + 1) = B(i) \cup {i}
        /\ Cardinality(B(i + 1)) = Cardinality(B(i)) + 1
      BY <1>1, <1>3, <2>2, BelowNext
  <2>6. Cardinality(B(i + 1)) <= v + 1
      BY <1>4, <1>5, <2>5
  <2>7. ASSUME Cardinality(B(i + 1)) = v + 1, NEW j \in 0 .. v
        PROVE  sendable_users'[j] \in B(i + 1)
    <3>1. Cardinality(B(i)) = v /\ j \in User /\ v \in Int
        BY <1>1, <1>4, <2>5, <2>7 DEF User
    <3>2. CASE j = v
        BY <2>3, <2>5, <3>1, <3>2
    <3>3. CASE j # v
      <4>1. j \in 0 .. v - 1
          BY <3>1, <3>3
      <4>2. sendable_users[j] \in B(i)
          BY <3>1, <4>1 DEF CacheExact
      <4> QED
          BY <2>3, <2>5, <3>1, <3>3, <4>2
    <3> QED
        BY <3>2, <3>3
  <2>8. ASSUME NEW g \in Frame, g # f, Cardinality(B(at[g])) = x[g], NEW j \in 0 .. x[g] - 1
        PROVE  sendable_users'[j] \in B(at[g])
    <3>1. sendable_users[j] \in B(at[g]) /\ j \in User
        BY <1>1, <2>8 DEF CacheExact, User
    <3>2. ASSUME j = v PROVE i \in B(at[g])
      <4>1. SUFFICES ASSUME at[g] <= i PROVE FALSE
          BY <1>1, <2>2 DEF Below
      <4>2. B(at[g]) \in SUBSET B(i)
        <5> SUFFICES ASSUME NEW p \in Known, p < at[g] PROVE p < i
            BY DEF Below
        <5> QED
            BY <1>1, <1>3, <4>1 DEF User
      <4>3. Cardinality(B(at[g])) <= Cardinality(B(i))
          BY <1>4, <4>2, NotFewer
      <4>4. v < x[g]
          BY <1>1, <2>8, <3>2 DEF User
      <4> QED
          BY <1>4, <1>5, <2>8, <4>3, <4>4
    <3> QED
        BY <2>3, <3>1, <3>2
  <2>9. /\ at'[f] = i + 1 /\ x'[f] = v + 1
        /\ \A g \in Frame : g # f => at'[g] = at[g] /\ x'[g] = x[g]
      BY <1>1, <1>2, <2>1
  <2>10. ASSUME NEW g \in Frame
         PROVE  /\ Cardinality(B(at'[g])) <= x'[g]
                /\ Cardinality(B(at'[g])) = x'[g]
                     => \A j \in 0 .. x'[g] - 1 : sendable_users'[j] \in B(at'[g])
    <3>1. (v + 1) - 1 = v
        BY <1>1 DEF User
    <3>2. CASE g = f
        BY <2>6, <2>7, <2>9, <3>1, <3>2
    <3>3. CASE g # f
        BY <1>5, <2>8, <2>9, <3>3
    <3> QED
        BY <3>2, <3>3
  <2> QED
      BY <1>2, <2>4, <2>10 DEF CacheExact
<1>7. CASE ~Listed(i)
  <2>1. sendable_users' = [sendable_users EXCEPT ![r] = i] /\ x' = x
      BY <1>7 DEF SyncUser
  <2>2. i \notin Known
      BY <1>3, <1>7
  <2>3. Cardinality(Known) <= r /\ r \in Nat
    <3>1. Cardinality(Known) <= Cardinality(B(i)) + (USERS - 1 - i)
        BY <1>1, <1>3, <2>2, RightRoom
    <3>2. Cardinality(B(i)) <= v
        BY <1>5
    <3> QED
        BY <1>1, <1>3, <1>4, <3>1, <3>2 DEF User
  <2>4. \A j \in 0 .. Cardinality(Known) - 1 :
            j \in User => sendable_users'[j] = sendable_users[j]
    <3> SUFFICES ASSUME NEW j \in 0 .. Cardinality(Known) - 1 PROVE j # r
        BY <1>1, <2>1
    <3> QED
        BY <1>3, <2>3
  <2>5. B(i + 1) = B(i)
      BY <1>1, <1>3, <2>2, BelowNext
  <2>6. ASSUME Cardinality(Known) = sendable_user_count,
               NEW j \in 0 .. sendable_user_count - 1
        PROVE  sendable_users'[j] \in Known
    <3>1. sendable_users[j] \in Known /\ j \in User
        BY <1>1, <2>6 DEF CacheExact, User
    <3> QED
        BY <2>4, <2>6, <3>1
  <2>7. ASSUME NEW g \in Frame, Cardinality(B(at[g])) = x[g], NEW j \in 0 .. x[g] - 1
        PROVE  sendable_users'[j] \in B(at[g])
    <3>1. sendable_users[j] \in B(at[g]) /\ j \in User
        BY <1>1, <2>7 DEF CacheExact, User
    <3>2. j \in 0 .. Cardinality(Known) - 1
        BY <1>3, <1>4, <1>5, <2>7
    <3> QED
        BY <2>4, <3>1, <3>2
  <2>8. \A g \in Frame : B(at'[g]) = B(at[g])
      BY <1>1, <1>2, <2>5
  <2> QED
      BY <1>2, <1>5, <2>1, <2>6, <2>7, <2>8 DEF CacheExact
<1> QED
    BY <1>6, <1>7

\* The end of sync_alive_users: the whole list is in place.
LEMMA SyncDoneKeepsExact ==
    ASSUME TInv, CacheExact, NEW f \in Frame, SyncDone(f)
    PROVE  CacheExact'
<1>1. /\ at \in [Frame -> 0 .. USERS] /\ x \in [Frame -> User] /\ USERS \in Nat
      /\ at[f] = USERS /\ Known' = Known /\ UNCHANGED sendable_users
      /\ at' = [at EXCEPT ![f] = 0] /\ x' = [x EXCEPT ![f] = 0]
      /\ sendable_user_count' = x[f]
    BY UserAssumption DEF UserAssumption, TInv, TypeOK, SyncDone, Known
<1>2. Below(Known, USERS) = Known
  <2>1. \A p \in Known : p < USERS
      BY <1>1 DEF Known, Peer, User
  <2> QED
      BY <2>1 DEF Below
<1>3. Below(Known, 0) = {} /\ Cardinality(Below(Known, 0)) = 0
  <2>1. \A p \in Known : ~(p < 0)
      BY <1>1 DEF Known, Peer, User
  <2> QED
      BY <2>1, FS_EmptySet DEF Below
<1>4. ASSUME NEW g \in Frame
      PROVE  /\ Cardinality(Below(Known, at'[g])) <= x'[g]
             /\ Cardinality(Below(Known, at'[g])) = x'[g]
                   => \A j \in 0 .. x'[g] - 1 : sendable_users[j] \in Below(Known, at'[g])
  <2>1. CASE g = f
      BY <1>1, <1>3, <2>1
  <2>2. CASE g # f
      BY <1>1, <2>2 DEF CacheExact
  <2> QED
      BY <2>1, <2>2
<1> QED
    BY <1>1, <1>2, <1>4 DEF CacheExact

\* A list found empty missed nobody.
LEMMA EmptyMeansNobody ==
    ASSUME TInv, CacheExact, sendable_user_count = 0
    PROVE  \A p \in Peer : peer[p] # "alive"
<1>1. IsFiniteSet(Known) /\ Cardinality(Known) = 0
    BY FiniteUsers DEF CacheExact, Known, Peer
<1> QED
    BY <1>1, FS_EmptySet DEF Known

\* Which steps reach sync_alive_users, the users, or the end for want of users.
LEMMA NextCInv == TInv /\ CInv /\ [Next]_vars => CInv'
<1> SUFFICES ASSUME TInv, CInv, [Next]_vars PROVE CInv'
    OBVIOUS
<1>0. TInv /\ CacheExact /\ MainRight /\ pc \in [Frame -> Label]
    BY TypeParts DEF TInv, CInv
<1> USE <1>0
<1> DEFINE Apart == /\ UNCHANGED <<cache, peer>>
                    /\ pc'["main"] = "nobody" => pc["main"] = "nobody"
<1>1. ASSUME Apart PROVE CInv'
  <2>1. Known' = Known
      BY <1>1 DEF Known
  <2>2. CacheExact'
      BY <1>1, <2>1, EndingKeepsExact
  <2> QED
      BY <1>1, <2>2 DEF CInv, MainRight
<1>2. ASSUME NEW f \in Frame, SyncUser(f) \/ SyncDone(f) PROVE CInv'
  <2>1. CacheExact'
      BY <1>2, SyncUserKeepsExact, SyncDoneKeepsExact
  <2>2. UNCHANGED peer /\ (pc'["main"] = "nobody" => pc["main"] = "nobody")
      BY <1>2 DEF SyncUser, SyncDone, Step, Frame
  <2> QED
      BY <2>1, <2>2 DEF CInv, MainRight
<1>3. ASSUME NEW f \in Frame, Pick(f) PROVE CInv'
  <2>1. UNCHANGED <<cache, peer>>
      BY <1>3 DEF Pick
  <2>2. Known' = Known
      BY <2>1 DEF Known
  <2>3. CacheExact'
      BY <2>1, <2>2, EndingKeepsExact
  <2>4. pc'["main"] = "nobody" => pc["main"] = "nobody" \/ sendable_user_count = 0
      BY <1>3 DEF Pick, Step, Fails, Frame
  <2> QED
      BY <2>1, <2>3, <2>4, EmptyMeansNobody DEF CInv, MainRight
<1>4. ASSUME NEW p \in Peer, PeerEnds(p) PROVE CInv'
  <2>1. /\ UNCHANGED <<cache, pc>>
        /\ \A q \in Peer : peer'[q] = "alive" => peer[q] = "alive"
        /\ \A q \in Peer : peer'[q] = "crashed" => peer[q] \in {"alive", "crashed"}
      BY <1>4 DEF PeerEnds, TInv, TypeOK
  <2>2. Known' \subseteq Known
      BY <2>1 DEF Known
  <2>3. CacheExact'
      BY <2>1, <2>2, EndingKeepsExact
  <2> QED
      BY <2>1, <2>3 DEF CInv, MainRight
<1>5. ASSUME NEW f \in Frame, UpdateBudget(f) PROVE Apart
    BY <1>5 DEF UpdateBudget, PassGate, Enter, Compute, Write, Leave, Return, Step, Frame
<1>6. ASSUME NEW f \in Frame,
             CheckBudget(f) \/ CompareCount(f) \/ Crashes(f) \/ Send(f) \/ QueueFull(f)
             \/ Load(f) \/ Store(f)
      PROVE  Apart
    BY <1>6 DEF CheckBudget, CompareCount, Crashes, Send, QueueFull, Load, Store, Fails, Step,
                Frame
<1>7. CASE MainLoop
  <2>1. Apart
      BY <1>7 DEF MainLoop, LoopTop, Collect, LoadRefund, StoreRefund, TestRetry, Wake, Clear,
                  Step, Frame
  <2> QED
      BY <1>1, <2>1
<1>8. CASE Sigusr1 \/ Sigterm \/ Sigint
  <2>1. Apart
      BY <1>8 DEF Sigusr1, Sigterm, Sigint, Interrupts, MeetsDetached, Interrupted,
          Top, Waits, Frame
  <2> QED
      BY <1>1, <2>1
<1>9. CASE Paid \/ MasterStep \/ UNCHANGED vars
  <2>1. Apart
      BY <1>9 DEF Paid, MasterStep, vars
  <2> QED
      BY <1>1, <2>1
<1> QED
    BY <1>1, <1>2, <1>3, <1>4, <1>5, <1>6, <1>7, <1>8, <1>9
    DEF Next, UserStep, FrameStep, Generate

\* At the start the list holds every other user.
LEMMA InitCInv == Init => CInv
<1> SUFFICES ASSUME Init PROVE CInv
    OBVIOUS
<1>1. USERS \in Nat /\ Self \in 0 .. USERS - 1 /\ sendable_user_count = USERS - 1
    BY UserAssumption DEF UserAssumption, Init
<1>2. Known = Peer
    BY DEF Init, Known
<1>3. \A j \in 0 .. USERS - 2 : sendable_users[j] \in Peer
    BY <1>1 DEF Init, Peer, User
<1>4. Below(Known, 0) = {}
  <2>1. \A p \in Known : ~(p < 0)
      BY <1>1 DEF Known, Peer, User
  <2> QED
      BY <2>1 DEF Below
<1>5. \A f \in Frame : at[f] = 0 /\ x[f] = 0
    BY DEF Init
<1>6. Cardinality(Below(Known, 0)) = 0
    BY <1>4, FS_EmptySet
<1>7. CacheExact
    BY <1>1, <1>2, <1>3, <1>5, <1>6, FiniteUsers DEF CacheExact
<1> QED
    BY <1>7 DEF CInv, MainRight, Init, Frame

\* The types and the exactness of the lists hold in every reachable state.
LEMMA AlwaysCInv == Spec => [](TInv /\ CInv)
    BY InitTInv, NextTInv, InitCInv, NextCInv, PTL DEF Spec

\* A user that ends because no other is left is right, even if its handler has
\* written over the list that main was writing; and so is the handler that ends it.
THEOREM NobodyLeftTrue == Spec => []NobodyLeft
<1>1. TInv /\ CInv => NobodyLeft
    BY EmptyMeansNobody DEF CInv, MainRight, NobodyLeft, FoundEmpty
<1> QED
    BY <1>1, AlwaysCInv, PTL

\* A cache whose size agrees with the count, while no user is between its
\* status = 0 and its exit, is the set of the users that are there.
LEMMA HitIsFresh ==
    ASSUME TInv, CacheExact, NEW f \in Frame, CompareCount(f), pc'[f] = "pick",
           \A p \in Peer : peer[p] # "leaving"
    PROVE  \A u \in Cached : u # Self /\ peer[u] \in {"alive", "leaving"}
<1> DEFINE A == {p \in Peer : peer[p] \in {"alive", "leaving"}}
<1>1. UsersAlive = sendable_user_count + 1 /\ sendable_user_count \in Nat
    BY DEF CompareCount, Step, TInv, TypeOK, User
<1>2. A \in SUBSET Known /\ Known \in SUBSET User
    BY DEF Known, Peer
<1>3. /\ Cardinality(A) \in Nat /\ Cardinality(Known) \in Nat
      /\ Cardinality(A) <= Cardinality(Known)
      /\ Cardinality(A) = Cardinality(Known) => A = Known
    BY <1>2, NotFewer
<1>4. Cardinality(A) = sendable_user_count
    BY <1>1, <1>3 DEF UsersAlive
<1>5. Cardinality(Known) = sendable_user_count /\ A = Known
    BY <1>1, <1>3, <1>4 DEF CacheExact
<1>6. \A u \in Cached : u \in A
    BY <1>5 DEF CacheExact, Cached
<1> QED
    BY <1>6 DEF Peer

\* The size of the cache is a sound test of its content, whatever runs of
\* sync_alive_users have written into one another.
THEOREM HitsFresh == Spec => CacheHitFresh
<1> DEFINE Fresh(f) == \/ \A u \in Cached : u # Self /\ peer[u] \in {"alive", "leaving"}
                       \/ \E p \in Peer : peer[p] = "leaving"
           Hit(f) == pc[f] = "count" /\ pc'[f] = "pick"
<1>1. ASSUME TInv, CInv, [Next]_vars, NEW f \in Frame, Hit(f) PROVE Fresh(f)
  <2>1. pc \in [Frame -> Label]
      BY <1>1, TypeParts DEF TInv
  <2>2. CompareCount(f)
    <3>1. ASSUME NEW g \in Frame, UpdateBudget(g) PROVE FALSE
        BY <1>1, <2>1, <3>1
        DEF UpdateBudget, PassGate, Enter, Compute, Write, Leave, Return, Step
    <3>2. ASSUME NEW g \in Frame, Generate(g) PROVE CompareCount(f)
        BY <1>1, <2>1, <3>2
        DEF Generate, CheckBudget, CompareCount, SyncUser, SyncDone, Pick, Crashes, Send,
            QueueFull, Load, Store, Fails, Step
    <3>3. ~MainLoop
        BY <1>1, <2>1 DEF MainLoop, LoopTop, Collect, LoadRefund, StoreRefund, TestRetry,
                          Wake, Clear, Step
    <3>4. ~Sigusr1 /\ ~Sigterm /\ ~Sigint
        BY <1>1, <2>1 DEF Sigusr1, Interrupts, MeetsDetached, Sigterm, Sigint, Interrupted,
                          Top, Waits, Frame
    <3>5. ~Paid /\ ~MasterStep /\ ~UNCHANGED vars /\ \A p \in Peer : ~PeerEnds(p)
        BY <1>1 DEF Paid, MasterStep, PeerEnds, vars
    <3> QED
        BY <1>1, <3>1, <3>2, <3>3, <3>4, <3>5 DEF Next, UserStep, FrameStep
  <2> QED
      BY <1>1, <2>2, HitIsFresh DEF CInv
<1>2. TInv /\ CInv /\ [Next]_vars => [\A f \in Frame : Hit(f) => Fresh(f)]_vars
    BY <1>1
<1> QED
    BY <1>2, AlwaysCInv, PTL DEF Spec, CacheHitFresh

=============================================================================
