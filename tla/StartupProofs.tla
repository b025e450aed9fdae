--------------------------- MODULE StartupProofs ---------------------------
(***************************************************************************)
(* The order of the start, for any number of nodes, users, friends and     *)
(* signals: nobody passes the first barrier before all are registered, no  *)
(* node the second before all have their friends.  The properties of       *)
(* Startup are proved of LifeSpec, the whole life of the master.           *)
(*                                                                         *)
(* Neither is inductive.  The semaphores must be shown to count who has    *)
(* not arrived: sem_sync[0] at least the processes that have not done      *)
(* their P, sem_sync[1] at least the nodes that have not and the writers.  *)
(* A child that dies on its way stays in the count, which is why a failed  *)
(* start hangs instead of going on.                                        *)
(*                                                                         *)
(* The end of the life needs the same first barrier (Ending): the master   *)
(* may take no user for none left only because all had started.            *)
(*                                                                         *)
(* The types (StartTypes) need their own count of who owes sem_sync[1] a P *)
(* (Owing), an upper bound where the barriers need a lower one, and that   *)
(* the messages of one queue are among all the queued.                     *)
(***************************************************************************)
EXTENDS Lifecycle, FoldLemmas, FiniteSetTheorems, TLAPS

Early == {"off", "boot", "ready", "test0", "wait0", "friends"}
Late  == {"test1", "wait1", "run", "write", "calls", "paused", "sending"}

\* Who has not done the P on sem_sync[0], the P on sem_sync[1], and who is
\* between the V and the P of a write.
Missing == {p \in Process : p \notin registered \/ pc[p] = "ready"}
Lacking == {n \in Node : pc[n] \in Early \/ (pc[n] = "dead" /\ ~HasFriends(n))}
Writing == {p \in Process : pc[p] = "write"}

Types ==
    /\ pc \in [Process -> Early \cup Late \cup {"dead"}]
    /\ registered \in SUBSET Process
    /\ sem0 \in Nat /\ sem1 \in Nat
    /\ DOMAIN friends = Node

\* A process is registered from its init_process on, and a node has its friends
\* after its P.
Known ==
    \A p \in Process :
        /\ pc[p] \in {"off", "boot"} => p \notin registered
        /\ pc[p] \notin {"off", "boot", "dead"} => p \in registered

Served == \A n \in Node : pc[n] \in Late => HasFriends(n)

Counted ==
    /\ sem0 >= Cardinality(Missing)
    /\ sem1 >= Cardinality(Lacking) + Cardinality(Writing)

Passed0 == \E p \in Process : pc[p] \in {"friends"} \cup Late
Passed1 == (\E n \in Node : pc[n] \in Running) \/ (mpc = "run" /\ malive)

Barriers == (Passed0 => Missing = {}) /\ (Passed1 => Lacking = {})

IInv == Types /\ Known /\ Served /\ Counted /\ Barriers

-----------------------------------------------------------------------------
\* The sets that the semaphores count are finite.
LEMMA FiniteCounts ==
    /\ IsFiniteSet(Process) /\ IsFiniteSet(Node)
    /\ IsFiniteSet(Missing) /\ Cardinality(Missing) \in Nat
    /\ IsFiniteSet(Lacking) /\ Cardinality(Lacking) \in Nat
    /\ IsFiniteSet(Writing) /\ Cardinality(Writing) \in Nat
<1>1. IsFiniteSet(Node) /\ IsFiniteSet(User)
    BY StartupAssumption, FS_Interval DEF StartupAssumption, Node, User
<1>2. IsFiniteSet(Process)
    BY <1>1, FS_Union DEF Process
<1>3. IsFiniteSet(Missing) /\ IsFiniteSet(Lacking) /\ IsFiniteSet(Writing)
    BY <1>1, <1>2, FS_Subset DEF Missing, Lacking, Writing
<1> QED
    BY <1>1, <1>2, <1>3, FS_CardinalityType

\* A set that only loses members, the member x among them if it has it.
LEMMA Loses ==
    ASSUME NEW S, IsFiniteSet(S), NEW T \in SUBSET S, NEW x \in S \ T
    PROVE  Cardinality(T) <= Cardinality(S) - 1
<1>1. IsFiniteSet(S \ {x}) /\ Cardinality(S \ {x}) = Cardinality(S) - 1
    BY FS_RemoveElement
<1>2. T \in SUBSET (S \ {x})
    OBVIOUS
<1> QED
    BY <1>1, <1>2, FS_Subset

\* What a step may do to the two sets of those not arrived and to sem_sync,
\* for the counts and the barriers to stay right.
Arrives ==
    /\ Missing' \subseteq Missing
    /\ \/ sem0' = sem0
       \/ sem0' = sem0 - 1 /\ \E p \in Missing : p \notin Missing'
    /\ Lacking' \subseteq Lacking
    /\ \/ sem1' = sem1 /\ Writing' = Writing
       \/ sem1' = sem1 - 1 /\ Writing' = Writing /\ \E n \in Lacking : n \notin Lacking'
       \/ sem1' = sem1 + 1 /\ \E p \in Process : Writing' \subseteq Writing \cup {p}
       \/ sem1' = sem1 - 1 /\ \E p \in Writing : Writing' \subseteq Writing \ {p}
    /\ Passed0' => Passed0 \/ sem0 = 0
    /\ Passed1' => Passed1 \/ sem1 = 0

\* Such a step keeps the counts and the barriers.
LEMMA ArrivesKeeps ==
    ASSUME Types, Types', Counted, Barriers, Arrives
    PROVE  Counted' /\ Barriers'
<1> USE FiniteCounts
<1>1. IsFiniteSet(Missing') /\ Cardinality(Missing') \in Nat
      /\ Cardinality(Missing') <= Cardinality(Missing)
    BY FS_Subset, FS_CardinalityType DEF Arrives
<1>2. IsFiniteSet(Lacking') /\ Cardinality(Lacking') \in Nat
      /\ Cardinality(Lacking') <= Cardinality(Lacking)
    BY FS_Subset, FS_CardinalityType DEF Arrives
<1>3. sem0' >= Cardinality(Missing')
  <2>1. CASE sem0' = sem0
      BY <1>1, <2>1 DEF Counted, Types
  <2>2. CASE sem0' = sem0 - 1 /\ \E p \in Missing : p \notin Missing'
    <3>1. Cardinality(Missing') <= Cardinality(Missing) - 1
        BY <2>2, Loses DEF Arrives
    <3> QED
        BY <1>1, <2>2, <3>1 DEF Counted, Types
  <2> QED
      BY <2>1, <2>2 DEF Arrives
<1>4. sem1' >= Cardinality(Lacking') + Cardinality(Writing')
  <2>1. CASE sem1' = sem1 /\ Writing' = Writing
      BY <1>2, <2>1 DEF Counted, Types
  <2>2. CASE /\ sem1' = sem1 - 1 /\ Writing' = Writing
             /\ \E n \in Lacking : n \notin Lacking'
    <3>1. Cardinality(Lacking') <= Cardinality(Lacking) - 1
        BY <2>2, Loses DEF Arrives
    <3> QED
        BY <1>2, <2>2, <3>1 DEF Counted, Types
  <2>3. CASE sem1' = sem1 + 1 /\ \E p \in Process : Writing' \subseteq Writing \cup {p}
    <3>1. PICK p \in Process : Writing' \subseteq Writing \cup {p}
        BY <2>3
    <3>2. /\ IsFiniteSet(Writing \cup {p})
          /\ Cardinality(Writing \cup {p}) =
                IF p \in Writing THEN Cardinality(Writing) ELSE Cardinality(Writing) + 1
        BY FS_AddElement, Zenon
    <3>3. Cardinality(Writing') <= Cardinality(Writing \cup {p})
          /\ Cardinality(Writing') \in Nat
        BY <3>1, <3>2, FS_Subset, FS_CardinalityType
    <3> QED
        BY <1>2, <2>3, <3>2, <3>3 DEF Counted, Types
  <2>4. CASE sem1' = sem1 - 1 /\ \E p \in Writing : Writing' \subseteq Writing \ {p}
    <3>1. PICK p \in Writing : Writing' \subseteq Writing \ {p}
        BY <2>4
    <3>2. Cardinality(Writing') <= Cardinality(Writing) - 1
          /\ Cardinality(Writing') \in Nat
        BY <3>1, Loses, FS_Subset, FS_CardinalityType
    <3> QED
        BY <1>2, <2>4, <3>2 DEF Counted, Types
  <2> QED
      BY <2>1, <2>2, <2>3, <2>4 DEF Arrives
<1>5. (sem0 = 0 => Missing = {}) /\ (sem1 = 0 => Lacking = {})
    BY FS_EmptySet DEF Counted, Types
<1>6. Barriers'
    BY <1>5 DEF Barriers, Arrives
<1> QED
    BY <1>3, <1>4, <1>6 DEF Counted

-----------------------------------------------------------------------------
\* The initial state satisfies the inductive invariant.
LEMMA InitIInv == Init => IInv
<1> SUFFICES ASSUME Init PROVE IInv
    OBVIOUS
<1>0. sem0 \in Nat /\ sem1 \in Nat
    BY FiniteCounts, FS_CardinalityType DEF Init
<1>1. Types /\ Known /\ Served
    BY <1>0 DEF Init, Types, Known, Served, Early, Late, Process
<1>2. Missing \in SUBSET Process /\ Lacking \in SUBSET Node /\ Writing = {}
    BY DEF Init, Missing, Lacking, Writing
<1>3. Cardinality(Missing) <= sem0 /\ Cardinality(Lacking) <= sem1
    BY <1>2, FiniteCounts, FS_Subset DEF Init
<1>4. Counted
    BY <1>1, <1>2, <1>3, FiniteCounts, FS_EmptySet DEF Counted, Types
<1>5. Barriers
    BY DEF Init, Barriers, Passed0, Passed1, Late, Running, Asleep, Process
<1> QED
    BY <1>1, <1>4, <1>5 DEF IInv

\* A step of the master, a signal or a kill: some children that have no handler
\* or wait at a barrier die, some that sleep wake, and nobody else moves.
Deaths ==
    /\ UNCHANGED <<semVars, friends, registered>>
    /\ pc' \in [Process -> Early \cup Late \cup {"dead"}]
    /\ \A p \in Process :
          \/ pc'[p] = pc[p]
          \/ pc[p] \in {"boot", "wait0", "wait1"} /\ pc'[p] = "dead"
          \/ pc[p] \in Asleep /\ pc'[p] = "run"
    /\ (mpc' = "run" /\ malive') => (mpc = "run" /\ malive) \/ sem1 = 0

\* Such a step keeps the inductive invariant: nobody passes a barrier by dying.
LEMMA DeathsKeep ==
    ASSUME IInv, Deaths
    PROVE  IInv'
<1> USE DEF IInv, Deaths, semVars, Asleep
<1>1. Types'
    BY DEF Types
<1>2. Known'
    BY DEF Known, Types
<1>3. Served'
  <2> SUFFICES ASSUME NEW n \in Node, pc'[n] \in Late PROVE HasFriends(n)
      BY DEF Served, HasFriends
  <2>1. pc[n] \in Late
      BY DEF Late, Process
  <2> QED
      BY <2>1 DEF Served
<1>4. Missing' \subseteq Missing /\ Writing' = Writing
    BY DEF Missing, Writing
<1>5. Lacking' \subseteq Lacking
  <2> SUFFICES ASSUME NEW n \in Node, n \in Lacking' PROVE n \in Lacking
      BY DEF Lacking
  <2>1. HasFriends(n)' <=> HasFriends(n)
      BY DEF HasFriends
  <2>2. CASE pc'[n] = pc[n]
      BY <2>1, <2>2 DEF Lacking
  <2>3. CASE pc[n] \in {"boot", "wait0"}
      BY <2>3 DEF Lacking, Early
  <2>4. CASE pc[n] = "wait1" /\ pc'[n] = "dead"
    <3>1. HasFriends(n)
        BY <2>4 DEF Served, Late
    <3> QED
        BY <2>1, <2>4, <3>1 DEF Lacking, Early
  <2>5. CASE pc[n] \in Asleep /\ pc'[n] = "run"
      BY <2>5 DEF Lacking, Early
  <2> QED
      BY <2>2, <2>3, <2>4, <2>5 DEF Process
<1>6. (Passed0' => Passed0) /\ (Passed1' => Passed1 \/ sem1 = 0)
    BY DEF Passed0, Passed1, Late, Running, Asleep, Process
<1>7. Arrives
    BY <1>4, <1>5, <1>6 DEF Arrives
<1> QED
    BY <1>1, <1>2, <1>3, <1>7, ArrivesKeeps

\* One action of a child, or the creation of one.
Moves(p) == CreateChild(p) \/ ChildStep(p) \/ (p \in Node /\ NodeStep(p))

\* It keeps the inductive invariant: each P and V matches a change of the sets.
LEMMA MovesKeep ==
    ASSUME IInv, NEW p \in Process, Moves(p)
    PROVE  IInv'
<1> USE DEF IInv
<1> DEFINE Went(from, to) == pc[p] = from /\ pc' = [pc EXCEPT ![p] = to]
\* Neither semaphore, no friend and no registration.
<1>1. CASE /\ UNCHANGED <<semVars, masterVars, friends, registered>>
           /\ \/ Went("off", "boot")
              \/ \E to \in {"wait0", "dead"} : Went("test0", to)
              \/ sem0 = 0 /\ Went("wait0", IF p \in Node THEN "friends" ELSE "test1")
              \/ \E to \in {"wait1", "dead"} : Went("test1", to)
              \/ (p \in Node => sem1 = 0) /\ Went("wait1", "run")
              \/ Went("run", "calls") \/ Went("sending", "run")
              \/ \E to \in {"paused", "sending", "run"} : Went("calls", to)
  <2> USE <1>1 DEF semVars, masterVars
  <2>1. Types' /\ Known'
      BY DEF Types, Known, Early, Late
  <2>2. Served'
      BY DEF Types, Served, Early, Late, HasFriends, Process
  <2>3. Missing' \subseteq Missing /\ Writing' = Writing
      BY DEF Types, Missing, Writing
  <2>4. Lacking' \subseteq Lacking
      BY DEF Types, Served, Lacking, Early, Late, HasFriends, Process
  <2>5. (Passed0' => Passed0 \/ sem0 = 0) /\ (Passed1' => Passed1 \/ sem1 = 0)
      BY DEF Types, Passed0, Passed1, Late, Running, Asleep, Process
  <2>6. Arrives
      BY <2>3, <2>4, <2>5 DEF Arrives
  <2> QED
      BY <2>1, <2>2, <2>6, ArrivesKeeps
<1>2. CASE Register(p)
  <2> USE <1>2 DEF Register, Goto, semVars, masterVars
  <2>1. Types' /\ Known'
      BY DEF Types, Known, Early, Late
  <2>2. Served'
      BY DEF Types, Served, Early, Late, HasFriends, Process
  <2>3. Missing' \subseteq Missing /\ Writing' = Writing
      BY DEF Types, Known, Missing, Writing
  <2>4. Lacking' \subseteq Lacking
      BY DEF Types, Lacking, Early, HasFriends, Process
  <2>5. (Passed0' => Passed0) /\ (Passed1' => Passed1)
      BY DEF Types, Passed0, Passed1, Late, Running, Asleep, Process
  <2>6. Arrives
      BY <2>3, <2>4, <2>5 DEF Arrives
  <2> QED
      BY <2>1, <2>2, <2>6, ArrivesKeeps
<1>3. CASE Ready(p)
  <2> USE <1>3 DEF Ready, Goto, masterVars
  <2>1. Types' /\ Known'
      BY DEF Types, Known, Early, Late
  <2>2. Served'
      BY DEF Types, Served, Early, Late, HasFriends, Process
  <2>3. /\ Missing' \subseteq Missing /\ Writing' = Writing
        /\ p \in Missing /\ p \notin Missing'
      BY DEF Types, Known, Missing, Writing
  <2>4. Lacking' \subseteq Lacking
      BY DEF Types, Lacking, Early, HasFriends, Process
  <2>5. (Passed0' => Passed0) /\ (Passed1' => Passed1)
      BY DEF Types, Passed0, Passed1, Late, Running, Asleep, Process
  <2>6. Arrives
      BY <2>3, <2>4, <2>5 DEF Arrives
  <2> QED
      BY <2>1, <2>2, <2>6, ArrivesKeeps
<1>4. CASE p \in Node /\ ReadFriend(p)
  <2> USE <1>4 DEF ReadFriend, semVars, masterVars
  <2>1. Types' /\ Known'
      BY DEF Types, Known
  <2>2. \A n \in Node : n # p => (HasFriends(n)' <=> HasFriends(n))
      BY DEF Types, HasFriends
  <2>3. Served'
      BY <2>2 DEF Served, Late
  <2>4. Missing' = Missing /\ Writing' = Writing
      BY DEF Missing, Writing
  <2>5. Lacking' \subseteq Lacking
      BY <2>2 DEF Lacking, Early
  <2>6. (Passed0' => Passed0) /\ (Passed1' => Passed1)
      BY DEF Passed0, Passed1
  <2>7. Arrives
      BY <2>4, <2>5, <2>6 DEF Arrives
  <2> QED
      BY <2>1, <2>3, <2>7, ArrivesKeeps
<1>5. CASE p \in Node /\ Ack(p)
  <2> USE <1>5 DEF Ack, Goto, masterVars
  <2>1. Types' /\ Known'
      BY DEF Types, Known, Early, Late
  <2>2. Served'
      BY DEF Types, Served, Early, Late, HasFriends, Process
  <2>3. Missing' \subseteq Missing /\ Writing' = Writing
      BY DEF Types, Missing, Writing
  <2>4. /\ Lacking' \subseteq Lacking
        /\ p \in Lacking /\ p \notin Lacking'
      BY DEF Types, Lacking, Early, HasFriends, Process
  <2>5. (Passed0' => Passed0) /\ (Passed1' => Passed1)
      BY DEF Types, Passed0, Passed1, Late, Running, Asleep, Process
  <2>6. Arrives
      BY <2>3, <2>4, <2>5 DEF Arrives
  <2> QED
      BY <2>1, <2>2, <2>6, ArrivesKeeps
<1>6. CASE Enter(p)
  <2> USE <1>6 DEF Enter, Goto, masterVars
  <2>1. Types' /\ Known'
      BY DEF Types, Known, Early, Late
  <2>2. Served'
      BY DEF Types, Served, Early, Late, HasFriends, Process
  <2>3. Missing' \subseteq Missing /\ Writing' \subseteq Writing \cup {p}
      BY DEF Types, Missing, Writing
  <2>4. Lacking' \subseteq Lacking
      BY DEF Types, Lacking, Early, HasFriends, Process
  <2>5. (Passed0' => Passed0) /\ (Passed1' => Passed1)
      BY DEF Types, Passed0, Passed1, Late, Running, Asleep, Process
  <2>6. Arrives
      BY <2>3, <2>4, <2>5 DEF Arrives
  <2> QED
      BY <2>1, <2>2, <2>6, ArrivesKeeps
<1>7. CASE Leave(p)
  <2> PICK to \in {"run", "dead"} : Went("write", to)
      BY <1>7 DEF Leave, Goto
  <2> USE <1>7 DEF Leave, masterVars
  <2>1. Types' /\ Known'
      BY DEF Types, Known, Early, Late
  <2>2. Served'
      BY DEF Types, Served, Early, Late, HasFriends, Process
  <2>3. /\ Missing' \subseteq Missing /\ Writing' \subseteq Writing \ {p}
        /\ p \in Writing
      BY DEF Types, Missing, Writing
  <2>4. Lacking' \subseteq Lacking
      BY DEF Types, Served, Lacking, Early, Late, HasFriends, Process
  <2>5. (Passed0' => Passed0) /\ (Passed1' => Passed1)
      BY DEF Types, Passed0, Passed1, Late, Running, Asleep, Process
  <2>6. Arrives
      BY <2>3, <2>4, <2>5 DEF Arrives
  <2> QED
      BY <2>1, <2>2, <2>6, ArrivesKeeps
<1>8. CASE CreateChild(p) \/ Test0(p) \/ Pass0(p) \/ Test1(p) \/ Pass1(p)
    BY <1>1, <1>8
    DEF CreateChild, Test0, Pass0, Test1, Pass1, Goto, semVars, masterVars
<1>9. CASE p \in Node /\ (Decide(p) \/ Call(p) \/ MakeRoom(p))
    BY <1>1, <1>9 DEF Decide, Call, MakeRoom, Goto, semVars, masterVars, Asleep
<1> QED
    BY <1>2, <1>3, <1>4, <1>5, <1>6, <1>7, <1>8, <1>9 DEF Moves, ChildStep, NodeStep

-----------------------------------------------------------------------------
\* A signal to the master moves no child, or the one whose execv failed.
LEMMA SignalsAreDeaths ==
    ASSUME Types, MasterSignal, UNCHANGED <<semVars, friends, registered>>,
           \/ UNCHANGED pc
           \/ \E p \in Process : Goto(p, "boot", "dead")
    PROVE  Deaths
    BY DEF Types, MasterSignal, MasterGoto, Goto, Deaths, Early, Late, semVars

\* kill_nodes and kill_users end only children that had not passed a barrier.
LEMMA KillIsDeaths ==
    ASSUME Types, NEW T \in SUBSET Process, Kill(T)
    PROVE  Deaths
    BY DEF Types, Kill, Waiting, Unhandled, Asleep, Deaths, Early, Late, semVars

\* The master moves no child, and sets the clock only with sem_sync[1] at zero.
LEMMA MasterIsDeaths ==
    ASSUME Types,
           \/ ServeNode \/ ChooseFriend \/ SendFriend \/ EndCreate \/ TestAlive
           \/ Sync \/ FriendsSent \/ SyncNodes \/ (\E p \in Process : ForkFails(p))
    PROVE  Deaths
    BY DEF Types, Deaths, ServeNode, ChooseFriend, SendFriend, EndCreate, TestAlive,
           Sync, FriendsSent, SyncNodes, ForkFails, MasterGoto, semVars, childVars

\* Ctrl-C ends a child in the same states as a kill.
LEMMA InterruptIsDeaths ==
    ASSUME Types, NEW p \in Process, SigintChild(p)
    PROVE  Deaths
    BY DEF Types, SigintChild, Waiting, Unhandled, Asleep, Deaths, Early, Late, semVars,
           masterVars

\* Every step of the life of the master keeps the inductive invariant.
LEMMA NextIInv == IInv /\ [LifeNext]_allVars => IInv'
<1> SUFFICES ASSUME IInv, [LifeNext]_allVars PROVE IInv'
    OBVIOUS
<1> Types
    BY DEF IInv
<1>1. CASE StartStep
    BY <1>1, MasterIsDeaths, DeathsKeep, MovesKeep DEF StartStep, Moves
<1>2. CASE CountUsers
  <2>1. Deaths \/ UNCHANGED vars
      BY <1>2 DEF CountUsers, Types, Deaths, semVars, childVars
  <2>2. CASE UNCHANGED vars
    <3>1. Deaths
        BY <2>2 DEF Types, Deaths, vars, semVars, masterVars, childVars
    <3> QED
        BY <3>1, DeathsKeep
  <2> QED
      BY <2>1, <2>2, DeathsKeep
<1>3. CASE LeaveLoop
  <2>1. \E T \in SUBSET Process : Kill(T)
      BY <1>3 DEF LeaveLoop, Process
  <2> QED
      BY <2>1, KillIsDeaths, DeathsKeep
<1>4. CASE Summary \/ Review \/ UNCHANGED allVars
  <2>1. Deaths
      BY <1>4 DEF Summary, Review, allVars, Types, Deaths, vars, semVars, masterVars,
                  childVars
  <2> QED
      BY <2>1, DeathsKeep
<1>5. CASE \E p \in Process : LifeChildStep(p)
    BY <1>5, MovesKeep DEF LifeChildStep, Moves
<1>6. CASE \E n \in Node : LifeNodeStep(n)
    BY <1>6, MovesKeep DEF LifeNodeStep, Moves, Process
<1>7. CASE \E p \in Process : StartFails(p)
  <2>1. PICK p \in Process : ForkFails(p) \/ ExecFails(p)
      BY <1>7 DEF StartFails
  <2>2. CASE ForkFails(p)
      BY <2>2, MasterIsDeaths, DeathsKeep
  <2>3. CASE ExecFails(p)
    <3>1. MasterSignal /\ UNCHANGED <<semVars, friends, registered>>
          /\ Goto(p, "boot", "dead")
        BY <2>3 DEF ExecFails
    <3> QED
        BY <3>1, SignalsAreDeaths, DeathsKeep
  <2> QED
      BY <2>1, <2>2, <2>3
<1>8. CASE \E p \in Process : SigintChild(p)
    BY <1>8, InterruptIsDeaths, DeathsKeep
<1>9. CASE Alarm \/ CtrlC \/ LedgerFull
  <2>1. MasterSignal /\ UNCHANGED <<semVars, friends, registered, pc>>
      BY <1>9 DEF Alarm, CtrlC, LedgerFull, RunEnds, SigintMaster, childVars
  <2> QED
      BY <2>1, SignalsAreDeaths, DeathsKeep
<1> QED
    BY <1>1, <1>2, <1>3, <1>4, <1>5, <1>6, <1>7, <1>8, <1>9
    DEF LifeNext, LifeMasterStep

\* The inductive invariant holds throughout.
THEOREM InductiveInvariant == LifeSpec => []IInv
<1>1. LifeInit => IInv
    BY InitIInv DEF LifeInit
<1> QED
    BY <1>1, NextIInv, PTL DEF LifeSpec

\* No process goes beyond the first barrier, sem_sync[0], before every process
\* is registered, for any number of them and whatever fails.
THEOREM AllRegisteredFirst == LifeSpec => []RegisteredFirst
<1>1. IInv => RegisteredFirst
    BY DEF IInv, Types, Barriers, Passed0, Missing, Late, Running, Asleep, RegisteredFirst
<1> QED
    BY <1>1, InductiveInvariant, PTL

\* No node runs while another has no friends yet: sem_sync[1] reaches zero with
\* a node at the barrier only then, although users raise and lower it too.
THEOREM AllFriendsFirst == LifeSpec => []FriendsFirst
<1>1. IInv /\ Lacking = {} => \A n \in Node : HasFriends(n)
    BY DEF IInv, Types, Served, Lacking, Process
<1>2. IInv => FriendsFirst
    BY <1>1 DEF IInv, Barriers, Passed1, FriendsFirst
<1> QED
    BY <1>2, InductiveInvariant, PTL

\* The clock is set only when every node has its friends, or after a signal.
THEOREM ClockWaits == LifeSpec => []ClockAfterFriends
<1>1. IInv /\ Lacking = {} => \A n \in Node : HasFriends(n)
    BY DEF IInv, Types, Served, Lacking, Process
<1>2. IInv => ClockAfterFriends
    BY <1>1 DEF IInv, Barriers, Passed1, ClockAfterFriends
<1> QED
    BY <1>2, InductiveInvariant, PTL

-----------------------------------------------------------------------------
\* How the life ends.  The master counts the users only after a first barrier
\* passed with every process registered, so "none left" means all dead; what
\* clears alive also writes exitStatus; and nobody is created or revived after
\* the kills.
Serving == mpc \in {"list", "send", "syncNodes", "run"}

Honest == \A reason \in reported : Holds(reason) \/ (reason = 4 /\ 3 \in reported)

Ending ==
    /\ malive \in BOOLEAN /\ alive \in [Process -> BOOLEAN]
    /\ Serving /\ malive => Missing = {}
    /\ lpc = "summary" => mpc = "run" /\ Missing = {}
    /\ exitStatus = 2 => \A u \in User : pc[u] = "dead"
    /\ ~malive => exitStatus = 2 \/ exitStatus \in happened
    /\ lpc \in {"wait", "abort", "done"} => ~malive
    /\ Honest
    /\ EveryChildTold

\* What was reported stays true: events are not undone and the dead stay dead.
LEMMA HonestStays ==
    ASSUME Honest, reported' = reported, happened \subseteq happened',
           \A p \in Process : pc[p] = "dead" => pc'[p] = "dead"
    PROVE  Honest'
    BY DEF Honest, Holds, Process

\* Who has done its P on sem_sync[0] has done it, and the dead stay dead.
LEMMA MissingShrinks ==
    ASSUME IInv, Deaths \/ \E p \in Process : Moves(p)
    PROVE  /\ Missing' \subseteq Missing
           /\ \A p \in Process : pc[p] = "dead" => pc'[p] = "dead"
<1> USE DEF IInv, Types, Goto
<1>1. CASE Deaths
    BY <1>1 DEF Deaths, Missing, Asleep
<1>2. ASSUME NEW p \in Process, Moves(p)
      PROVE  /\ Missing' \subseteq Missing
             /\ \A q \in Process : pc[q] = "dead" => pc'[q] = "dead"
  <2>1. CASE CreateChild(p) \/ Register(p)
      BY <2>1 DEF Known, CreateChild, Register, Missing
  <2>2. CASE Ready(p) \/ Test0(p) \/ Pass0(p) \/ Test1(p) \/ Pass1(p) \/ Enter(p) \/ Leave(p)
      BY <2>2 DEF Ready, Test0, Pass0, Test1, Pass1, Enter, Leave, Missing
  <2>3. CASE p \in Node /\ (ReadFriend(p) \/ Ack(p) \/ Decide(p) \/ Call(p) \/ MakeRoom(p))
      BY <2>3 DEF ReadFriend, Ack, Decide, Call, MakeRoom, Missing, Asleep
  <2> QED
      BY <1>2, <2>1, <2>2, <2>3 DEF Moves, ChildStep, NodeStep
<1> QED
    BY <1>1, <1>2

\* A step that leaves every alive and exitStatus alone, and the kills undone.
Silent ==
    /\ Deaths \/ \E p \in Process : Moves(p)
    /\ UNCHANGED <<malive, lifeVars, alive>>
    /\ \/ mpc' = mpc
       \/ mpc \notin {"run", "reap"} /\ mpc' # "reap"
    /\ Serving' /\ malive => Serving \/ sem0 = 0
    /\ mpc = "reap" => \A p \in Process : pc[p] = "off" => pc'[p] = "off"

\* Such a step keeps how the life ends.
LEMMA SilentKeepsEnding ==
    ASSUME IInv, Ending, Silent
    PROVE  Ending'
<1>1. sem0 = 0 => Missing = {}
    BY FiniteCounts, FS_EmptySet DEF IInv, Counted, Types
<1>2. /\ Missing' \subseteq Missing
      /\ \A p \in Process : pc[p] = "dead" => pc'[p] = "dead"
    BY MissingShrinks DEF Silent
<1>3. Honest'
    BY <1>2, HonestStays DEF Ending, Silent, lifeVars
<1> QED
    BY <1>1, <1>2, <1>3 DEF Silent, Ending, lifeVars, EveryChildTold, User, Process

\* An event: alive is cleared and exitStatus written, with it in the history.
LEMMA EventKeepsEnding ==
    ASSUME IInv, Ending, Deaths,
           MasterSignal \/ (malive' = FALSE /\ mpc = "create" /\ mpc' = "test"),
           NEW status \in {0, 1, 3, 4}, Ends(status), UNCHANGED alive
    PROVE  Ending'
<1>1. /\ Missing' \subseteq Missing
      /\ \A p \in Process : pc[p] = "dead" => pc'[p] = "dead"
    BY MissingShrinks
<1>2. malive' = FALSE /\ (mpc \in {"run", "reap"} => mpc' = mpc) /\ (mpc' = "reap" => mpc = "reap")
    BY DEF MasterSignal, MasterGoto
<1>3. \A p \in Process : pc[p] = "off" => pc'[p] = "off"
    BY DEF Deaths, Asleep
<1>4. EveryChildTold'
    BY <1>1, <1>2, <1>3 DEF Ending, EveryChildTold
<1>5. User \subseteq Process /\ status # 2
    BY DEF Process
<1>6. Honest'
    BY <1>1, HonestStays DEF Ending, Ends
<1> QED
    BY <1>1, <1>2, <1>4, <1>5, <1>6 DEF Ends, Ending

\* Every step of the life of the master does.
LEMMA NextEnding == IInv /\ Ending /\ [LifeNext]_allVars => Ending'
<1> SUFFICES ASSUME IInv, Ending, [LifeNext]_allVars PROVE Ending'
    OBVIOUS
<1> Types
    BY DEF IInv
<1>1. CASE StartStep
  <2>1. Deaths \/ \E p \in Process : Moves(p)
      BY <1>1, MasterIsDeaths DEF StartStep, Moves
  <2>2. /\ UNCHANGED <<malive, lifeVars, alive>>
        /\ mpc' = mpc \/ (mpc \notin {"run", "reap"} /\ mpc' # "reap")
        /\ Serving' /\ malive => Serving \/ sem0 = 0
        /\ mpc # "reap"
      BY <1>1 DEF StartStep, CreateChild, ServeNode, ChooseFriend, SendFriend, EndCreate,
         TestAlive, Sync, FriendsSent, SyncNodes, masterVars, childVars, MasterGoto, Serving
  <2> QED
      BY <2>1, <2>2, SilentKeepsEnding DEF Silent
<1>2. CASE Summary
  <2>1. Missing' = Missing
      BY <1>2 DEF Summary, vars, childVars, Missing
  <2>2. Honest'
      BY <1>2, HonestStays DEF Summary, Ending, vars, childVars
  <2> QED
      BY <1>2, <2>1, <2>2
      DEF Summary, Ending, Serving, vars, masterVars, childVars, EveryChildTold
<1>3. CASE CountUsers
  <2>1. Missing' = Missing /\ UNCHANGED <<mpc, pc, alive, happened>> /\ lpc' = "loop"
      BY <1>3 DEF CountUsers, vars, masterVars, childVars, Missing
  <2>2. UsersAlive = {} => \A u \in User : pc[u] = "dead"
    <3>1. Missing = {}
        BY <1>3 DEF CountUsers, Ending
    <3>2. \A p \in Process : pc[p] \notin {"off", "boot"}
        BY <3>1 DEF IInv, Known, Missing
    <3> QED
        BY <3>2 DEF UsersAlive, Process
  <2>3. Honest'
      BY <1>3, <2>1, HonestStays DEF CountUsers, Ending
  <2> QED
      BY <1>3, <2>1, <2>2, <2>3 DEF CountUsers, Ending, Serving, vars, masterVars, EveryChildTold
<1>4. CASE LeaveLoop
  <2>1. PICK T \in {Node, Process} : Kill(T) /\ \A p \in Process \ T : pc[p] = "dead"
    <3>1. CASE exitStatus = 2
        BY <1>4, <3>1 DEF LeaveLoop, Ending, Process
    <3>2. CASE exitStatus # 2
        BY <1>4, <3>2 DEF LeaveLoop
    <3> QED
        BY <3>1, <3>2
  <2>2. Deaths
      BY <2>1, KillIsDeaths DEF Process
  <2>3. /\ Missing' \subseteq Missing
        /\ \A p \in Process : pc[p] = "dead" => pc'[p] = "dead"
      BY <2>2, MissingShrinks
  <2>4. \A p \in Process : pc'[p] \in {"off", "dead"} \/ ~alive'[p]
    <3> SUFFICES ASSUME NEW p \in Process PROVE pc'[p] \in {"off", "dead"} \/ ~alive'[p]
        OBVIOUS
    <3>1. CASE p \in T
        BY <2>1, <3>1 DEF Kill, Unhandled, Waiting, Asleep
    <3>2. CASE p \notin T
        BY <2>1, <2>3, <3>2
    <3> QED
        BY <3>1, <3>2
  <2>5. /\ ~malive /\ UNCHANGED <<malive, exitStatus, happened>>
        /\ alive' \in [Process -> BOOLEAN] /\ lpc' \in {"wait", "abort"}
      BY <1>4, <2>1 DEF LeaveLoop, Kill, Ending
  <2>6. Honest'
      BY <1>4, <2>3, <2>5, HonestStays DEF LeaveLoop, Ending
  <2> QED
      BY <2>3, <2>4, <2>5, <2>6 DEF Ending, EveryChildTold, User, Process
<1>5. CASE Review
  <2>1. Missing' = Missing
      BY <1>5 DEF Review, vars, childVars, Missing
  <2>2. Holds(exitStatus)
      BY <1>5 DEF Review, Ending, Holds
  <2>3. Holds(exitStatus)' /\ reported' = Reasons(exitStatus) /\ exitStatus' = exitStatus
      BY <1>5, <2>2 DEF Review, Holds, vars, childVars
  <2>4. Honest'
      BY <2>3 DEF Honest, Reasons, Holds
  <2> QED
      BY <1>5, <2>1, <2>4
      DEF Review, Ending, Serving, vars, masterVars, childVars, EveryChildTold
<1>6. CASE UNCHANGED allVars
  <2>1. Missing' = Missing
      BY <1>6 DEF allVars, vars, childVars, Missing
  <2>2. Honest'
      BY <1>6, HonestStays DEF Ending, allVars, lifeVars, vars, childVars
  <2> QED
      BY <1>6, <2>1, <2>2
      DEF allVars, lifeVars, Ending, Serving, vars, masterVars, childVars, EveryChildTold
<1>7. ASSUME NEW p \in Process, LifeChildStep(p) \/ (p \in Node /\ LifeNodeStep(p))
      PROVE  Ending'
  <2>1. UNCHANGED <<malive, lifeVars, alive, mpc>> /\ (pc[p] = "off" => FALSE)
      BY <1>7 DEF LifeChildStep, LifeNodeStep, ChildStep, NodeStep, Register, Ready, Test0,
         Pass0, Test1, Pass1, Enter, Leave, ReadFriend, Ack, Decide, Call, MakeRoom, masterVars,
         Goto
  <2>2. \A q \in Process : pc[q] = "off" => pc'[q] = "off"
      BY <1>7 DEF Types, LifeChildStep, LifeNodeStep, ChildStep, NodeStep, Register, Ready,
         Test0, Pass0, Test1, Pass1, Enter, Leave, ReadFriend, Ack, Decide, Call, MakeRoom, Goto
  <2> QED
      BY <1>7, <2>1, <2>2, SilentKeepsEnding
      DEF Silent, Moves, LifeChildStep, LifeNodeStep, Serving
<1>8. ASSUME NEW p \in Process, StartFails(p) PROVE Ending'
  <2>1. CASE ForkFails(p)
      BY <1>8, <2>1, MasterIsDeaths, EventKeepsEnding DEF StartFails, ForkFails, childVars
  <2>2. CASE ExecFails(p)
    <3>1. MasterSignal /\ UNCHANGED <<semVars, friends, registered, alive>>
          /\ Goto(p, "boot", "dead")
        BY <2>2 DEF ExecFails
    <3> QED
        BY <1>8, <3>1, SignalsAreDeaths, EventKeepsEnding DEF StartFails
  <2> QED
      BY <1>8, <2>1, <2>2 DEF StartFails
<1>9. ASSUME NEW p \in Process, SigintChild(p), UNCHANGED lifeVars PROVE Ending'
  <2>1. \A q \in Process : pc[q] = "off" => pc'[q] = "off"
      BY <1>9 DEF Types, SigintChild
  <2> QED
      BY <1>9, <2>1, InterruptIsDeaths, SilentKeepsEnding
      DEF Silent, SigintChild, masterVars, Serving
<1>10. CASE Alarm \/ CtrlC \/ LedgerFull
  <2>1. MasterSignal /\ UNCHANGED <<semVars, friends, registered, pc, alive>>
      BY <1>10 DEF Alarm, CtrlC, LedgerFull, RunEnds, SigintMaster, childVars
  <2>2. \E status \in {0, 1, 3, 4} : Ends(status)
      BY <1>10 DEF Alarm, CtrlC, LedgerFull
  <2> QED
      BY <2>1, <2>2, SignalsAreDeaths, EventKeepsEnding
<1> QED
    BY <1>1, <1>2, <1>3, <1>4, <1>5, <1>6, <1>7, <1>8, <1>9, <1>10
    DEF LifeNext, LifeMasterStep, Process

\* How the life ends holds in every reachable state.
LEMMA AlwaysEnding == LifeSpec => []Ending
<1>1. LifeInit => Ending
    BY DEF LifeInit, Init, Ending, Serving, Honest, EveryChildTold
<1> QED
    BY <1>1, NextEnding, InductiveInvariant, PTL DEF LifeSpec

\* Every reason the review prints happened, but for the failed creation that
\* its switch adds to a full ledger: no way out of the loop leaves exitStatus at
\* a value nobody wrote, and "no users" is reported only with all dead.
THEOREM ReviewTrue == LifeSpec => []StatusTrue
<1>1. Ending => StatusTrue
    BY DEF Ending, Honest, StatusTrue, Holds
<1> QED
    BY <1>1, AlwaysEnding, PTL

\* The master never waits for a child that it has not told to end.
THEOREM ChildrenTold == LifeSpec => []EveryChildTold
<1>1. Ending => EveryChildTold
    BY DEF Ending
<1> QED
    BY <1>1, AlwaysEnding, PTL

-----------------------------------------------------------------------------
\* Queued counts every message of every queue: none holds more than Queued.
LEMMA QueuedBounds ==
    ASSUME NEW S, queue \in [Node -> Seq(S)]
    PROVE  Queued \in Nat /\ \A n \in Node : Len(queue[n]) <= Queued
<1> DEFINE L == [n \in Node |-> Len(queue[n])]
           C == [s \in SUBSET Node |-> CHOOSE x \in s : TRUE]
           F == [vx \in Nat \X Node |-> L[vx[2]] + vx[1]]
           Sum(g) == g = [s \in SUBSET Node |->
                IF s = {} THEN 0
                ELSE LET x == CHOOSE x \in s : TRUE IN Len(queue[x]) + g[s \ {x}]]
           iter == CHOOSE g : Sum(g)
<1>1. L \in [Node -> Nat] /\ F \in [Nat \X Node -> Nat]
    OBVIOUS
<1>2. IsFiniteSet(Node)
    BY FiniteCounts
<1>3. \A s \in SUBSET Node : s # {} => C[s] \in s
    OBVIOUS
<1>4. PICK h \in [SUBSET Node -> Nat] : Folds(h, Node, 0, F, C)
  <2> HIDE DEF F, C
  <2> QED
      BY <1>1, <1>2, <1>3, FoldDefined
<1>5. \A s \in SUBSET Node : h[s] = IF s = {} THEN 0 ELSE L[C[s]] + h[s \ {C[s]}]
    BY <1>3, <1>4 DEF Folds
<1>6. Sum(h)
    BY <1>3, <1>5
<1>7. Sum(iter)
    BY <1>6
<1>8. Queued = iter[Node]
    BY DEF Queued, MapThenSumSet, MapThenFoldSet
<1>9. /\ iter[{}] = 0
      /\ \A s \in SUBSET Node : s # {} => iter[s] = L[C[s]] + iter[s \ {C[s]}]
    BY <1>3, <1>7
<1>10. iter[Node] \in Nat /\ \A n \in Node : L[n] <= iter[Node]
  <2> HIDE DEF L, C, iter
  <2> QED
      BY <1>1, <1>2, <1>3, <1>9, SumBounds
<1> QED
    BY <1>8, <1>10

-----------------------------------------------------------------------------
\* The types of Startup.  Of the master: its list never exceeds the friends of a
\* node, and has room while it chooses.
MasterTypes ==
    /\ mpc \in {"create", "test", "sync", "list", "send", "syncNodes", "run", "end", "reap"}
    /\ malive \in BOOLEAN
    /\ i \in 0 .. NODES /\ avoid \in 0 .. NODES /\ last \in 0 .. NODES
    /\ list \in Seq(0 .. NODES) /\ Len(list) <= Friends
    /\ mpc = "list" => Len(list) < Friends

\* Of the messages with friends, in the queues and in the nodes.
FriendTypes ==
    /\ queue \in [Node -> Seq(0 .. NODES)]
    /\ \A n \in Node : Len(queue[n]) <= FCap
    /\ friends \in [Node -> Seq(0 .. NODES)]
    /\ \A n \in Node : Len(friends[n]) <= Friends

\* Of the children; their pc and the registered are typed by Types.
ChildTypes ==
    /\ alive \in [Process -> BOOLEAN]
    /\ disturbed \subseteq Process \cup {Master}

\* Who may still owe a P on sem_sync[1]: the writers, and the nodes that have not
\* read their friends or died somewhere.
Owing == {p \in Process : pc[p] = "write" \/ (p \in Node /\ pc[p] \in Early \cup {"dead"})}

\* The semaphores never exceed those who owe them a P.
SemTypes == sem0 <= Cardinality(Process) /\ sem1 <= Cardinality(Owing)

StartTypes == MasterTypes /\ FriendTypes /\ ChildTypes /\ SemTypes

\* The first state has the types of Startup.
LEMMA InitTypes == Init => StartTypes
<1> SUFFICES ASSUME Init PROVE StartTypes
    OBVIOUS
<1>1. NODES \in Nat \ {0} /\ Friends \in Nat /\ FCap \in Nat \ {0}
    BY StartupAssumption
<1>2. MasterTypes
    BY <1>1 DEF Init, MasterTypes
<1>3. FriendTypes
    BY <1>1 DEF Init, FriendTypes
<1>4. SemTypes
  <2>1. Node \subseteq Owing /\ IsFiniteSet(Owing)
      BY FiniteCounts, FS_Subset DEF Init, Owing, Early, Process
  <2>2. Cardinality(Node) <= Cardinality(Owing)
      BY <2>1, FS_Subset
  <2> QED
      BY <2>2, FiniteCounts, FS_CardinalityType DEF Init, SemTypes
<1> QED
    BY <1>2, <1>3, <1>4 DEF Init, ChildTypes, StartTypes

\* The pid of a node is 0 or one more than its number.
LEMMA PidType == ASSUME NEW n \in Node PROVE Pid(n) \in 0 .. NODES
BY StartupAssumption DEF Pid, Node

\* The master's own steps keep its types: send_friends chooses as many friends
\* as a node has, from NODES nodes.
LEMMA MasterTyped ==
    ASSUME MasterTypes,
           \/ UNCHANGED masterVars
           \/ ServeNode \/ ChooseFriend \/ SendFriend \/ EndCreate \/ TestAlive \/ Sync
           \/ FriendsSent \/ SyncNodes \/ MasterSignal
           \/ \E p \in Process : ForkFails(p)
           \/ \E T \in SUBSET Process : Kill(T)
           \/ malive' = FALSE /\ UNCHANGED <<mpc, listVars>>
    PROVE  MasterTypes'
<1> USE DEF MasterTypes
<1>1. NODES \in Nat \ {0} /\ Friends \in Nat
    BY StartupAssumption
<1>2. CASE \/ UNCHANGED masterVars \/ EndCreate \/ TestAlive \/ Sync \/ FriendsSent \/ SyncNodes
           \/ (\E p \in Process : ForkFails(p)) \/ (\E T \in SUBSET Process : Kill(T))
           \/ malive' = FALSE /\ UNCHANGED <<mpc, listVars>>
    BY <1>2 DEF masterVars, listVars, EndCreate, TestAlive, Sync, FriendsSent, SyncNodes,
       ForkFails, Kill, MasterGoto
<1>3. CASE ServeNode
  <2>1. i \in Node
      BY <1>1, <1>3 DEF ServeNode, Node
  <2>2. avoid' \in 0 .. NODES /\ i' \in 0 .. NODES
      BY <1>1, <1>3, <2>1, PidType DEF ServeNode
  <2> QED
      BY <1>1, <1>3, <2>2 DEF ServeNode
<1>4. CASE ChooseFriend
  <2>1. last % NODES \in Node /\ (last % NODES) + 1 \in 0 .. NODES
    <3>1. last % NODES \in 0 .. NODES - 1
        BY <1>1
    <3> QED
        BY <1>1, <3>1 DEF Node
  <2>2. PICK f \in 0 .. NODES : list' = list \/ list' = Append(list, f)
      BY <1>4, <2>1, PidType DEF ChooseFriend
  <2>3. list' \in Seq(0 .. NODES) /\ Len(list') <= Friends
      BY <1>1, <1>4, <2>2 DEF ChooseFriend
  <2>4. last' \in 0 .. NODES /\ UNCHANGED <<malive, i, avoid>>
        /\ mpc' = IF Len(list') = Friends THEN "send" ELSE "list"
      BY <1>4, <2>1 DEF ChooseFriend
  <2> QED
      BY <1>1, <2>3, <2>4
<1>5. ASSUME list # <<>>, list' = Tail(list) PROVE list' \in Seq(0 .. NODES) /\ Len(list') <= Friends
    BY <1>1, <1>5
<1>6. CASE SendFriend
    BY <1>5, <1>6 DEF SendFriend
<1>7. CASE MasterSignal
    BY <1>5, <1>7 DEF MasterSignal, MasterGoto, listVars
<1> QED
    BY <1>2, <1>3, <1>4, <1>6, <1>7

\* No queue of friends exceeds its capacity, which bounds all of them together,
\* and no node reads more friends than it has.
LEMMA FriendTyped ==
    ASSUME MasterTypes, FriendTypes,
           \/ UNCHANGED <<queue, friends>> \/ SendFriend \/ \E n \in Node : ReadFriend(n)
    PROVE  FriendTypes'
<1> USE DEF FriendTypes
<1>1. NODES \in Nat \ {0} /\ Friends \in Nat /\ FCap \in Nat \ {0}
    BY StartupAssumption
<1>2. CASE UNCHANGED <<queue, friends>>
    BY <1>2
<1>3. ASSUME NEW n \in Node, ReadFriend(n) PROVE FriendTypes'
  <2>1. /\ queue[n] \in Seq(0 .. NODES) /\ queue[n] # <<>>
        /\ friends[n] \in Seq(0 .. NODES) /\ Len(friends[n]) < Friends
      BY <1>3 DEF ReadFriend
  <2>2. /\ Tail(queue[n]) \in Seq(0 .. NODES) /\ Len(Tail(queue[n])) <= FCap
        /\ Head(queue[n]) \in 0 .. NODES
      BY <1>1, <2>1
  <2>3. /\ Append(friends[n], Head(queue[n])) \in Seq(0 .. NODES)
        /\ Len(Append(friends[n], Head(queue[n]))) <= Friends
      BY <1>1, <2>1, <2>2
  <2> QED
      BY <1>3, <2>2, <2>3 DEF ReadFriend
<1>4. ASSUME SendFriend PROVE FriendTypes'
  <2>1. CASE UNCHANGED queue
      BY <1>4, <2>1 DEF SendFriend, childVars
  <2>2. CASE avoid # 0 /\ Queued < FCap
             /\ queue' = [queue EXCEPT ![avoid - 1] = Append(@, Head(list))]
    <3>1. avoid - 1 \in Node /\ Head(list) \in 0 .. NODES
      <4>1. avoid - 1 \in Node
          BY <1>1, <2>2 DEF MasterTypes, Node
      <4>2. list \in Seq(0 .. NODES) /\ list # <<>>
          BY <1>4 DEF MasterTypes, SendFriend
      <4>3. Head(list) \in 0 .. NODES
        <5>1. \A S : \A s \in Seq(S) : s # <<>> => Head(s) \in S
            OBVIOUS
        <5> QED
            BY <4>2, <5>1
      <4> QED
          BY <4>1, <4>3
    <3>2. Queued \in Nat /\ Len(queue[avoid - 1]) <= Queued
        BY <3>1, QueuedBounds
    <3>3. queue[avoid - 1] \in Seq(0 .. NODES)
        BY <3>1
    <3>4. /\ Append(queue[avoid - 1], Head(list)) \in Seq(0 .. NODES)
          /\ Len(Append(queue[avoid - 1], Head(list))) <= FCap
        BY <1>1, <2>2, <3>1, <3>2, <3>3
    <3> QED
        BY <1>4, <2>2, <3>1, <3>4 DEF SendFriend, childVars
  <2> QED
      BY <1>4, <2>1, <2>2 DEF SendFriend
<1> QED
    BY <1>2, <1>3, <1>4

\* Deaths take nobody from those who owe a P.
LEMMA DeathsOwe ==
    ASSUME Types, SemTypes, Deaths
    PROVE  SemTypes'
<1>1. Owing \subseteq Owing'
    BY DEF Deaths, Owing, Early, Asleep
<1>2. IsFiniteSet(Owing') /\ IsFiniteSet(Owing)
    BY FiniteCounts, FS_Subset DEF Owing
<1>3. Cardinality(Owing) <= Cardinality(Owing')
    BY <1>1, <1>2, FS_Subset
<1>4. Cardinality(Owing) \in Nat /\ Cardinality(Owing') \in Nat
    BY <1>2, FS_CardinalityType
<1> QED
    BY <1>3, <1>4 DEF SemTypes, Deaths, semVars, Types

\* A child that is done with its P, or its write, was among those who owe one.
LEMMA MovesOwe ==
    ASSUME Types, Types', SemTypes, NEW p \in Process, Moves(p)
    PROVE  SemTypes'
<1>1. /\ IsFiniteSet(Owing') /\ IsFiniteSet(Owing)
      /\ Cardinality(Owing) \in Nat /\ Cardinality(Owing') \in Nat
      /\ Cardinality(Process) \in Nat
    BY FiniteCounts, FS_Subset, FS_CardinalityType DEF Owing
<1>2. /\ sem0' <= sem0 /\ sem0' \in Nat /\ sem0 \in Nat /\ sem1 \in Nat
      /\ \/ sem1' = sem1 /\ Owing \subseteq Owing'
         \/ sem1' = sem1 + 1 /\ p \notin Owing /\ Owing \cup {p} \subseteq Owing'
         \/ sem1' = sem1 - 1 /\ Owing \ {p} \subseteq Owing'
  <2>1. CASE CreateChild(p) \/ Register(p) \/ Ready(p) \/ Test0(p) \/ Pass0(p) \/ Test1(p)
             \/ Pass1(p)
      BY <2>1 DEF Types, CreateChild, Register, Ready, Test0, Pass0, Test1, Pass1, Goto,
         semVars, Owing, Early, Late
  <2>2. CASE Enter(p)
      BY <2>2 DEF Types, Enter, Goto, Owing, Early, Late
  <2>3. CASE Leave(p)
      BY <2>3 DEF Types, Leave, Goto, Owing, Early, Late
  <2>4. CASE p \in Node /\ ReadFriend(p)
      BY <2>4 DEF Types, ReadFriend, semVars, Owing
  <2>5. CASE p \in Node /\ Ack(p)
      BY <2>5 DEF Types, Ack, Goto, Owing, Early, Late
  <2>6. CASE p \in Node /\ (Decide(p) \/ Call(p) \/ MakeRoom(p))
      BY <2>6 DEF Types, Decide, Call, MakeRoom, Goto, semVars, Owing, Early, Late, Asleep
  <2> QED
      BY <2>1, <2>2, <2>3, <2>4, <2>5, <2>6 DEF Moves, ChildStep, NodeStep
<1>3. CASE sem1' = sem1 /\ Owing \subseteq Owing'
  <2>1. Cardinality(Owing) <= Cardinality(Owing')
      BY <1>1, <1>3, FS_Subset
  <2> QED
      BY <1>1, <1>2, <1>3, <2>1 DEF SemTypes
<1>4. CASE sem1' = sem1 + 1 /\ p \notin Owing /\ Owing \cup {p} \subseteq Owing'
  <2>1. IsFiniteSet(Owing \cup {p}) /\ Cardinality(Owing \cup {p}) = Cardinality(Owing) + 1
      BY <1>1, <1>4, FS_AddElement
  <2>2. Cardinality(Owing \cup {p}) <= Cardinality(Owing')
      BY <1>1, <1>4, FS_Subset
  <2> QED
      BY <1>1, <1>2, <1>4, <2>1, <2>2 DEF SemTypes
<1>5. CASE sem1' = sem1 - 1 /\ Owing \ {p} \subseteq Owing'
  <2>1. /\ IsFiniteSet(Owing \ {p}) /\ Cardinality(Owing \ {p}) \in Nat
        /\ Cardinality(Owing \ {p}) >= Cardinality(Owing) - 1
      BY <1>1, FS_RemoveElement, FS_CardinalityType, FS_Subset
  <2>2. Cardinality(Owing \ {p}) <= Cardinality(Owing')
      BY <1>1, <1>5, FS_Subset
  <2> QED
      BY <1>1, <1>2, <1>5, <2>1, <2>2 DEF SemTypes
<1> QED
    BY <1>2, <1>3, <1>4, <1>5

\* Every step of the life of the master keeps the types.
LEMMA NextTypes == IInv /\ IInv' /\ StartTypes /\ [LifeNext]_allVars => StartTypes'
<1> SUFFICES ASSUME IInv, IInv', StartTypes, [LifeNext]_allVars PROVE StartTypes'
    OBVIOUS
<1> Types /\ Types'
    BY DEF IInv
<1> USE DEF StartTypes
\* A step of a child, or its creation.
<1>1. ASSUME NEW p \in Process, Moves(p) PROVE StartTypes'
  <2>1. UNCHANGED <<masterVars, alive, disturbed>>
      BY <1>1 DEF Moves, CreateChild, ChildStep, NodeStep, Register, Ready, Test0, Pass0,
         Test1, Pass1, Enter, Leave, ReadFriend, Ack, Decide, Call, MakeRoom
  <2>2. UNCHANGED <<queue, friends>> \/ \E n \in Node : ReadFriend(n)
      BY <1>1 DEF Moves, CreateChild, ChildStep, NodeStep, Register, Ready, Test0, Pass0,
         Test1, Pass1, Enter, Leave, Ack, Decide, Call, MakeRoom
  <2> QED
      BY <1>1, <2>1, <2>2, MasterTyped, FriendTyped, MovesOwe DEF ChildTypes
\* A step of the master or a signal.
<1>2. ASSUME Deaths,
             \/ UNCHANGED masterVars
             \/ ServeNode \/ ChooseFriend \/ SendFriend \/ EndCreate \/ TestAlive \/ Sync
             \/ FriendsSent \/ SyncNodes \/ MasterSignal
             \/ \E p \in Process : ForkFails(p)
             \/ \E T \in SUBSET Process : Kill(T)
             \/ malive' = FALSE /\ UNCHANGED <<mpc, listVars>>,
             UNCHANGED <<queue, friends>> \/ SendFriend,
             alive' \in [Process -> BOOLEAN],
             disturbed' \subseteq Process \cup {Master}
      PROVE  StartTypes'
    BY <1>2, MasterTyped, FriendTyped, DeathsOwe DEF ChildTypes
<1>3. CASE StartStep
  <2>1. CASE \E p \in Process : CreateChild(p)
      BY <1>1, <2>1 DEF Moves
  <2>2. CASE \/ ServeNode \/ ChooseFriend \/ SendFriend \/ EndCreate \/ TestAlive \/ Sync
             \/ FriendsSent \/ SyncNodes
    <3>1. UNCHANGED childVars /\ UNCHANGED disturbed /\ (UNCHANGED queue \/ SendFriend)
        BY <2>2 DEF ServeNode, ChooseFriend, EndCreate, TestAlive, Sync, FriendsSent,
           SyncNodes, SendFriend
    <3> QED
        BY <1>2, <2>2, <3>1, MasterIsDeaths DEF ChildTypes, childVars
  <2> QED
      BY <1>3, <2>1, <2>2 DEF StartStep
<1>4. CASE CountUsers
  <2>1. /\ UNCHANGED <<semVars, mpc, listVars, queue, childVars, disturbed>>
        /\ UNCHANGED masterVars \/ malive' = FALSE
      BY <1>4 DEF CountUsers, vars, masterVars
  <2>2. Deaths
      BY <2>1 DEF Types, Deaths, semVars, childVars, masterVars
  <2> QED
      BY <1>2, <2>1, <2>2 DEF ChildTypes, childVars
<1>5. CASE LeaveLoop
  <2>1. PICK T \in SUBSET Process : Kill(T)
      BY <1>5 DEF LeaveLoop, Process
  <2>2. UNCHANGED <<queue, friends, disturbed>> /\ alive' \in [Process -> BOOLEAN]
      BY <2>1 DEF Kill, ChildTypes
  <2> QED
      BY <1>2, <2>1, <2>2, KillIsDeaths DEF ChildTypes
<1>6. CASE Summary \/ Review \/ UNCHANGED allVars
  <2>1. UNCHANGED vars
      BY <1>6 DEF Summary, Review, allVars
  <2>2. Deaths
      BY <2>1 DEF Types, Deaths, vars, semVars, masterVars, childVars
  <2> QED
      BY <1>2, <2>1, <2>2 DEF vars, childVars, ChildTypes
<1>7. CASE \E p \in Process : LifeChildStep(p)
    BY <1>1, <1>7 DEF LifeChildStep, Moves
<1>8. CASE \E n \in Node : LifeNodeStep(n)
    BY <1>1, <1>8 DEF LifeNodeStep, Moves, Process
<1>9. ASSUME NEW p \in Process, StartFails(p) PROVE StartTypes'
  <2>1. CASE ForkFails(p)
    <3>1. UNCHANGED <<queue, childVars>> /\ disturbed' = disturbed \cup {p}
        BY <2>1 DEF ForkFails
    <3> QED
        BY <1>2, <2>1, <3>1, MasterIsDeaths DEF childVars, ChildTypes
  <2>2. CASE ExecFails(p)
    <3>1. /\ MasterSignal /\ UNCHANGED <<semVars, friends, registered, queue, alive>>
          /\ Goto(p, "boot", "dead") /\ disturbed' = disturbed \cup {p, Master}
        BY <2>2 DEF ExecFails
    <3>2. Deaths
        BY <3>1, SignalsAreDeaths
    <3> QED
        BY <1>2, <3>1, <3>2 DEF ChildTypes
  <2> QED
      BY <1>9, <2>1, <2>2 DEF StartFails
<1>10. ASSUME NEW p \in Process, SigintChild(p) PROVE StartTypes'
  <2>1. UNCHANGED <<masterVars, queue, friends, alive>> /\ disturbed' = disturbed \cup {p}
      BY <1>10 DEF SigintChild
  <2> QED
      BY <1>2, <1>10, <2>1, InterruptIsDeaths DEF ChildTypes
<1>11. CASE Alarm \/ CtrlC \/ LedgerFull
  <2>1. /\ MasterSignal /\ UNCHANGED <<semVars, friends, registered, pc, queue, alive>>
        /\ disturbed' \in {disturbed, disturbed \cup {Master}}
      BY <1>11 DEF Alarm, CtrlC, LedgerFull, RunEnds, SigintMaster, childVars
  <2> QED
      BY <1>2, <2>1, SignalsAreDeaths DEF ChildTypes
<1> QED
    BY <1>3, <1>4, <1>5, <1>6, <1>7, <1>8, <1>9, <1>10, <1>11
    DEF LifeNext, LifeMasterStep

\* A sequence no longer than n is one of the sequences of TypeOK.
LEMMA Bounded ==
    ASSUME NEW S, NEW s \in Seq(S), NEW n \in Nat, Len(s) <= n
    PROVE  s \in BoundedSeq(S, n)
<1>1. s \in [1 .. Len(s) -> S] /\ Len(s) \in 0 .. n
    OBVIOUS
<1> QED
    BY <1>1 DEF BoundedSeq, SeqOf

\* Every value has its type: neither semaphore exceeds the processes, no queue of
\* friends its capacity, and no node gets more friends than SO_FRIENDS_NUM.
THEOREM StartTypesCorrect == LifeSpec => []TypeOK
<1>1. LifeInit => StartTypes
    BY InitTypes DEF LifeInit
<1>2. IInv /\ StartTypes => TypeOK
  <2> SUFFICES ASSUME IInv, StartTypes PROVE TypeOK
      OBVIOUS
  <2>1. sem0 \in 0 .. Cardinality(Process) /\ sem1 \in 0 .. Cardinality(Process)
    <3>1. IsFiniteSet(Process) /\ Owing \subseteq Process
        BY FiniteCounts DEF Owing
    <3>2. Cardinality(Owing) <= Cardinality(Process) /\ Cardinality(Process) \in Nat
          /\ Cardinality(Owing) \in Nat
        BY <3>1, FS_Subset, FS_CardinalityType
    <3> QED
        BY <3>2 DEF IInv, Types, StartTypes, SemTypes
  <2>2. list \in BoundedSeq(0 .. NODES, Friends)
      BY Bounded, StartupAssumption DEF StartTypes, MasterTypes
  <2>3. queue \in [Node -> BoundedSeq(0 .. NODES, FCap)]
    <3>1. \A n \in Node : queue[n] \in BoundedSeq(0 .. NODES, FCap)
        BY Bounded, StartupAssumption DEF StartTypes, FriendTypes
    <3> QED
        BY <3>1 DEF StartTypes, FriendTypes
  <2>4. friends \in [Node -> BoundedSeq(0 .. NODES, Friends)]
    <3>1. \A n \in Node : friends[n] \in BoundedSeq(0 .. NODES, Friends)
        BY Bounded, StartupAssumption DEF StartTypes, FriendTypes
    <3> QED
        BY <3>1 DEF StartTypes, FriendTypes
  <2>5. pc \in [Process -> {"off", "boot", "ready", "test0", "wait0", "friends",
                            "test1", "wait1", "dead"} \cup Running]
    <3>1. Early \cup Late \cup {"dead"} = {"off", "boot", "ready", "test0", "wait0", "friends",
                            "test1", "wait1", "dead"} \cup Running
        BY DEF Early, Late, Running, Asleep
    <3> QED
        BY <3>1 DEF IInv, Types
  <2> QED
      BY <2>1, <2>2, <2>3, <2>4, <2>5
      DEF IInv, Types, StartTypes, MasterTypes, ChildTypes, TypeOK
<1> QED
    BY <1>1, <1>2, NextTypes, InductiveInvariant, PTL DEF LifeSpec

=============================================================================
