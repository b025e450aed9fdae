------------------------------ MODULE Startup ------------------------------
(***************************************************************************)
(* Step 1 of sem_sync (main.c, lines 69-72): the master creates the nodes  *)
(* and the users, waits until each has registered itself in shared memory, *)
(* sends every node its friends, and starts the clock of the simulation    *)
(* when every node has read them.                                          *)
(*                                                                         *)
(*   sem_sync[0]  starts at nodes + users; one P per registered process    *)
(*   sem_sync[1]  starts at nodes; one P per node that has its friends     *)
(*                                                                         *)
(* A process that is running counts its writes to shared memory in the     *)
(* same sem_sync[1].  Signals, failures of fork and of execv are included; *)
(* the summaries of the master, which raise sem_sync[0], come later and    *)
(* are module PrintGate.                                                   *)
(***************************************************************************)
EXTENDS Integers, FiniteSets, SequencesExt

CONSTANTS
    NODES,      \* SO_NODES_NUM
    USERS,      \* SO_USERS_NUM
    Friends,    \* SO_FRIENDS_NUM
    FCap,       \* bound: messages the queue of friends holds
    MaxDisturbed    \* bound: processes that meet a signal or a failure

ASSUME StartupAssumption ==
    /\ NODES \in Nat \ {0} /\ USERS \in Nat
    /\ Friends \in Nat /\ FCap \in Nat \ {0} /\ MaxDisturbed \in Nat

\* In the order of their creation.
Node == 0 .. NODES - 1
User == NODES .. NODES + USERS - 1
Process == Node \cup User

VARIABLES
    sem0, sem1,     \* sem_sync
    mpc, malive,    \* the master's counter and its alive
    i, avoid,       \* send_friends: the node it serves and the pid it has read
    list, last,     \* the friends not sent to it yet, where the choice goes on
    queue,          \* queue[n]: messages for n in MSG_FRIENDS_KEY
    pc, alive,      \* the processes' counters and their alive
    friends,        \* friends[n]: the friends n has read
    registered,     \* the processes whose struct is in shared memory
    disturbed       \* who met a signal; a child whose fork or execv failed

semVars    == <<sem0, sem1>>
listVars   == <<i, avoid, list, last>>
masterVars == <<mpc, malive, listVars>>
childVars  == <<pc, alive, friends, registered>>
vars       == <<semVars, masterVars, queue, childVars, disturbed>>

Master == -1

Undisturbed(p) == p \notin disturbed /\ Cardinality(disturbed) < MaxDisturbed

Asleep   == {"paused", "sending"}
Running  == {"run", "write", "calls"} \cup Asleep
Queued   == MapThenSumSet(LAMBDA n : Len(queue[n]), Node)
HasFriends(n) == Len(friends[n]) = Friends

\* nodes_info[n].p_id: 0 until the node has registered.
Pid(n) == IF n \in registered THEN n + 1 ELSE 0

Goto(p, from, to) ==
    /\ pc[p] = from
    /\ pc' = [pc EXCEPT ![p] = to]

MasterGoto(from, to) ==
    /\ mpc = from
    /\ mpc' = to

-----------------------------------------------------------------------------
\* init_process of the master: the semaphores are set before the first fork.
InitUsersOnly ==    \* Mutant: sem_sync[0] starts at the number of users
    /\ sem0 = Cardinality(User) /\ sem1 = Cardinality(Node)
    /\ mpc = "create" /\ malive = TRUE
    /\ i = 0 /\ avoid = 0 /\ list = <<>> /\ last = 0
    /\ queue = [n \in Node |-> <<>>]
    /\ pc = [p \in Process |-> "off"]
    /\ alive = [p \in Process |-> TRUE]
    /\ friends = [n \in Node |-> <<>>]
    /\ registered = {}
    /\ disturbed = {}

Init ==
    /\ sem0 = Cardinality(Process) /\ sem1 = Cardinality(Node)
    /\ mpc = "create" /\ malive = TRUE
    /\ i = 0 /\ avoid = 0 /\ list = <<>> /\ last = 0
    /\ queue = [n \in Node |-> <<>>]
    /\ pc = [p \in Process |-> "off"]
    /\ alive = [p \in Process |-> TRUE]
    /\ friends = [n \in Node |-> <<>>]
    /\ registered = {}
    /\ disturbed = {}

-----------------------------------------------------------------------------
(***************************************************************************)
(* The master.                                                             *)
(***************************************************************************)

\* The creation loop: first the nodes, then the users.
Off == {p \in Process : pc[p] = "off"}
Creatable == {p \in Off : \A q \in Off : p <= q}

CreateChild(p) ==
    /\ mpc = "create" /\ malive
    /\ p \in Creatable
    /\ Goto(p, "off", "boot")
    /\ UNCHANGED <<semVars, masterVars, queue, alive, friends, registered,
                   disturbed>>

\* fork returns -1: alive = 0 and the loop is left.
ForkFails(p) ==
    /\ mpc = "create" /\ malive
    /\ p \in Creatable /\ Undisturbed(p)
    /\ malive' = FALSE
    /\ mpc' = "test"
    /\ disturbed' = disturbed \cup {p}
    /\ UNCHANGED <<semVars, listVars, queue, childVars>>

EndCreate ==
    /\ Creatable = {} \/ ~malive
    /\ MasterGoto("create", "test")
    /\ UNCHANGED <<semVars, malive, listVars, queue, childVars, disturbed>>

\* if (alive == 1), line 190: tested once, before both waits.
TestAlive ==
    /\ MasterGoto("test", IF malive THEN "sync" ELSE "end")
    /\ UNCHANGED <<semVars, malive, listVars, queue, childVars, disturbed>>

\* All the processes are registered.
Sync ==
    /\ sem0 = 0
    /\ MasterGoto("sync", "send")
    /\ UNCHANGED <<semVars, malive, listVars, queue, childVars, disturbed>>

(***************************************************************************)
(* send_friends, node after node.  generate_init_friends goes round the    *)
(* pids in shared memory, from where it stopped for the node before, and   *)
(* leaves out those equal to the pid of the node: while no node has        *)
(* registered, all of them are 0 and it does not end.                      *)
(***************************************************************************)
ServeNode ==
    /\ mpc = "send" /\ list = <<>> /\ i < NODES
    /\ i' = i + 1 /\ avoid' = Pid(i)
    /\ mpc' = IF Friends = 0 THEN "send" ELSE "list"
    /\ UNCHANGED <<semVars, malive, list, last, queue, childVars, disturbed>>

ChooseFriendAny ==    \* Mutant: the node itself is not left out
    /\ mpc = "list"
    /\ LET n == last % NODES
       IN  IF NODES > 1
           THEN list' = Append(list, Pid(n)) /\ last' = n + 1
           ELSE list' = Append(list, avoid) /\ UNCHANGED last
    /\ mpc' = IF Len(list') = Friends THEN "send" ELSE "list"
    /\ UNCHANGED <<semVars, malive, i, avoid, queue, childVars, disturbed>>

ChooseFriend ==
    /\ mpc = "list"
    /\ LET n == last % NODES
       IN  IF NODES > 1
           THEN /\ list' = IF Pid(n) # avoid THEN Append(list, Pid(n)) ELSE list
                /\ last' = n + 1
           ELSE list' = Append(list, avoid) /\ UNCHANGED last
    /\ mpc' = IF Len(list') = Friends THEN "send" ELSE "list"
    /\ UNCHANGED <<semVars, malive, i, avoid, queue, childVars, disturbed>>

\* One msgsnd.  Its type is the pid read before: 0 is refused.
SendFriendMore ==    \* Mutant: the message is sent twice
    /\ mpc = "send" /\ list # <<>>
    /\ list' = Tail(list)
    /\ \/ /\ avoid # 0 /\ Queued < FCap
          /\ queue' = [queue EXCEPT ![avoid - 1] = @ \o <<Head(list), Head(list)>>]
       \/ avoid = 0 /\ UNCHANGED queue
    /\ UNCHANGED <<semVars, mpc, malive, i, avoid, last, childVars, disturbed>>

SendFriend ==
    /\ mpc = "send" /\ list # <<>>
    /\ list' = Tail(list)
    /\ \/ /\ avoid # 0 /\ Queued < FCap
          /\ queue' = [queue EXCEPT ![avoid - 1] = Append(@, Head(list))]
       \/ avoid = 0 /\ UNCHANGED queue
    /\ UNCHANGED <<semVars, mpc, malive, i, avoid, last, childVars, disturbed>>

FriendsSent ==
    /\ list = <<>> /\ i = NODES
    /\ MasterGoto("send", "syncNodes")
    /\ UNCHANGED <<semVars, malive, listVars, queue, childVars, disturbed>>

\* All the nodes have their friends and no one is writing.
SyncNodes ==
    /\ sem1 = 0
    /\ MasterGoto("syncNodes", "run")
    /\ UNCHANGED <<semVars, malive, listVars, queue, childVars, disturbed>>

\* The main loop ends: kill_nodes and kill_users.  A child that has not
\* installed its handlers yet is ended by the signal.  One that waits at a
\* barrier exits, because its semop fails; one that has tested alive and has
\* not called semop yet keeps the signal to itself and then waits.  A running
\* node is woken from a pause or from a msgsnd that waits.
Unhandled(p) == pc[p] = "boot"
Waiting(p) ==
    \/ pc[p] = "wait0" /\ sem0 > 0
    \/ pc[p] = "wait1" /\ (IF p \in Node THEN sem1 ELSE sem0) > 0

Kill(T) ==
    /\ mpc \in {"run", "end"} /\ ~malive
    /\ mpc' = "reap"
    /\ \E broken \in SUBSET {p \in T : Waiting(p)} :
          pc' = [p \in Process |->
                   CASE p \in broken \/ (p \in T /\ Unhandled(p)) -> "dead"
                     [] p \in T /\ pc[p] \in Asleep -> "run"
                     [] OTHER -> pc[p]]
    /\ alive' = [p \in Process |-> alive[p] /\ (p \notin T \/ pc[p] = "off")]
    /\ UNCHANGED <<semVars, malive, listVars, queue, friends, registered,
                   disturbed>>

\* The users are not killed when the master has seen that none is left.
KillAll == Kill(Process) \/ ((\A u \in User : pc[u] = "dead") /\ Kill(Node))

(***************************************************************************)
(* A signal to the master: alive = 0.  A semop that waits returns -1, not  *)
(* tested, and a msgsnd that waits returns with its message unsent.        *)
(***************************************************************************)
MasterSignal ==
    /\ malive' = FALSE
    /\ \/ UNCHANGED <<mpc, listVars>>
       \/ sem0 > 0 /\ MasterGoto("sync", "send") /\ UNCHANGED listVars
       \/ sem1 > 0 /\ MasterGoto("syncNodes", "run") /\ UNCHANGED listVars
       \/ /\ mpc = "send" /\ list # <<>> /\ avoid # 0 /\ Queued >= FCap
          /\ list' = Tail(list)
          /\ UNCHANGED <<mpc, i, avoid, last>>

-----------------------------------------------------------------------------
(***************************************************************************)
(* The children.                                                           *)
(***************************************************************************)

\* execv fails: SIGUSR2 to the master, exit.
ExecFails(p) ==
    /\ Goto(p, "boot", "dead") /\ Undisturbed(p)
    /\ MasterSignal
    /\ disturbed' = disturbed \cup {p, Master}
    /\ UNCHANGED <<semVars, queue, alive, friends, registered>>

\* init_process: the handlers, then the struct in shared memory.
Register(p) ==
    /\ Goto(p, "boot", "ready")
    /\ registered' = registered \cup {p}
    /\ UNCHANGED <<semVars, masterVars, queue, alive, friends, disturbed>>

\* ... and the P on sem_sync[0].
Ready(p) ==
    /\ sem0 > 0
    /\ Goto(p, "ready", "test0")
    /\ sem0' = sem0 - 1
    /\ UNCHANGED <<sem1, masterVars, queue, alive, friends, registered, disturbed>>

\* The first half of  if (alive == 0 || semop(...) == -1) exit(1), twice.
Test0(p) ==
    /\ Goto(p, "test0", IF alive[p] THEN "wait0" ELSE "dead")
    /\ UNCHANGED <<semVars, masterVars, queue, alive, friends, registered, disturbed>>

Test1(p) ==
    /\ Goto(p, "test1", IF alive[p] THEN "wait1" ELSE "dead")
    /\ UNCHANGED <<semVars, masterVars, queue, alive, friends, registered, disturbed>>

\* The barrier of the registrations; a node then reads its friends.
Pass0(p) ==
    /\ sem0 = 0
    /\ Goto(p, "wait0", IF p \in Node THEN "friends" ELSE "test1")
    /\ UNCHANGED <<semVars, masterVars, queue, alive, friends, registered, disturbed>>

\* initiate_friend_list: SO_FRIENDS_NUM messages, whatever interrupts it.
ReadFriend(n) ==
    /\ pc[n] = "friends" /\ Len(friends[n]) < Friends
    /\ queue[n] # <<>>
    /\ queue' = [queue EXCEPT ![n] = Tail(@)]
    /\ friends' = [friends EXCEPT ![n] = Append(@, Head(queue[n]))]
    /\ UNCHANGED <<semVars, masterVars, pc, alive, registered, disturbed>>

\* P on sem_sync[1].
AckEarly(n) ==    \* Mutant: the P comes before the last friend
    /\ sem1 > 0 /\ Len(friends[n]) >= Friends - 1
    /\ Goto(n, "friends", "test1")
    /\ sem1' = sem1 - 1
    /\ UNCHANGED <<sem0, masterVars, queue, alive, friends, registered, disturbed>>

Ack(n) ==
    /\ sem1 > 0 /\ HasFriends(n)
    /\ Goto(n, "friends", "test1")
    /\ sem1' = sem1 - 1
    /\ UNCHANGED <<sem0, masterVars, queue, alive, friends, registered, disturbed>>

\* The second barrier: a node waits on sem_sync[1], a user on sem_sync[0].
Pass1(p) ==
    /\ (IF p \in Node THEN sem1 ELSE sem0) = 0
    /\ Goto(p, "wait1", "run")
    /\ UNCHANGED <<semVars, masterVars, queue, alive, friends, registered, disturbed>>

\* A write to shared memory: V and P on sem_sync[1], the gate being open; the
\* last one is that of clear, before the end.
Enter(p) ==
    /\ Goto(p, "run", "write")
    /\ sem1' = sem1 + 1
    /\ UNCHANGED <<sem0, masterVars, queue, alive, friends, registered, disturbed>>

LeaveTwice(p) ==    \* Mutant: two P for one V
    /\ sem1 > 1
    /\ \/ alive[p] /\ p \in Node /\ Goto(p, "write", "run")
       \/ alive[p] /\ p \in User /\ \E to \in {"run", "dead"} : Goto(p, "write", to)
       \/ ~alive[p] /\ Goto(p, "write", "dead")
    /\ sem1' = sem1 - 2
    /\ UNCHANGED <<sem0, masterVars, queue, alive, friends, registered, disturbed>>

Leave(p) ==
    /\ sem1 > 0
    /\ \/ alive[p] /\ p \in Node /\ Goto(p, "write", "run")
       \/ alive[p] /\ p \in User /\ \E to \in {"run", "dead"} : Goto(p, "write", to)
       \/ ~alive[p] /\ Goto(p, "write", "dead")
    /\ sem1' = sem1 - 1
    /\ UNCHANGED <<sem0, masterVars, queue, alive, friends, registered, disturbed>>

(***************************************************************************)
(* A running node has three pauses (node.c, lines 303, 313 and 328), each  *)
(* after a test of alive, and a msgsnd to the master that waits while its  *)
(* queue is full (line 659), in a part of the loop that alive guards.      *)
(***************************************************************************)
Decide(n) ==
    /\ alive[n]
    /\ Goto(n, "run", "calls")
    /\ UNCHANGED <<semVars, masterVars, queue, alive, friends, registered, disturbed>>

\* The call itself; a msgsnd that finds room returns.
Call(n) ==
    /\ \E to \in Asleep \cup {"run"} : Goto(n, "calls", to)
    /\ UNCHANGED <<semVars, masterVars, queue, alive, friends, registered, disturbed>>

\* The master, in its loop, reads a message from its queue.
MakeRoom(n) ==
    /\ mpc = "run"
    /\ Goto(n, "sending", "run")
    /\ UNCHANGED <<semVars, masterVars, queue, alive, friends, registered, disturbed>>

-----------------------------------------------------------------------------
(***************************************************************************)
(* Ctrl-C on the terminal reaches each process, once.  The handler of the  *)
(* children is empty.                                                      *)
(***************************************************************************)
SigintChild(p) ==
    /\ Undisturbed(p) /\ pc[p] \notin {"off", "dead"}
    /\ \/ (Unhandled(p) \/ Waiting(p)) /\ pc' = [pc EXCEPT ![p] = "dead"]
       \/ pc[p] \in Asleep /\ pc' = [pc EXCEPT ![p] = "run"]
       \/ pc[p] \notin Asleep /\ UNCHANGED pc
    /\ disturbed' = disturbed \cup {p}
    /\ UNCHANGED <<semVars, masterVars, queue, alive, friends, registered>>

SigintMaster ==
    /\ Undisturbed(Master)
    /\ MasterSignal
    /\ disturbed' = disturbed \cup {Master}
    /\ UNCHANGED <<semVars, queue, childVars>>

\* The simulation ends by itself: its time is up, a node has filled the ledger,
\* or the master counts no user.
RunEnds ==
    /\ mpc \in {"run", "reap"} \/ \E n \in Node : pc[n] \in Running
    /\ MasterSignal
    /\ UNCHANGED <<semVars, queue, childVars, disturbed>>

MasterStep ==
    \/ \E p \in Process : CreateChild(p)
    \/ ServeNode \/ ChooseFriend \/ SendFriend
    \/ EndCreate \/ TestAlive \/ Sync \/ FriendsSent \/ SyncNodes \/ KillAll

NodeStep(n) == ReadFriend(n) \/ Ack(n) \/ Decide(n) \/ Call(n) \/ MakeRoom(n)

ChildStep(p) ==
    \/ Register(p) \/ Ready(p) \/ Test0(p) \/ Pass0(p) \/ Test1(p) \/ Pass1(p)
    \/ Enter(p) \/ Leave(p)

Next ==
    \/ MasterStep
    \/ \E p \in Process : ChildStep(p) \/ ForkFails(p) \/ ExecFails(p) \/ SigintChild(p)
    \/ \E n \in Node : NodeStep(n)
    \/ SigintMaster \/ RunEnds

Spec == Init /\ [][Next]_vars

\* Every process that can run runs.
FairSpec ==
    /\ Spec
    /\ WF_vars(MasterStep)
    /\ \A p \in Process : WF_vars(ChildStep(p))
    /\ \A n \in Node : WF_vars(NodeStep(n))

-----------------------------------------------------------------------------
TypeOK ==
    /\ sem0 \in 0 .. Cardinality(Process)
    /\ sem1 \in 0 .. Cardinality(Process)
    /\ mpc \in {"create", "test", "sync", "list", "send", "syncNodes",
               "run", "end", "reap"}
    /\ malive \in BOOLEAN
    /\ i \in 0 .. NODES /\ avoid \in 0 .. NODES /\ last \in 0 .. NODES
    /\ list \in BoundedSeq(0 .. NODES, Friends)
    /\ queue \in [Node -> BoundedSeq(0 .. NODES, FCap)]
    /\ pc \in [Process -> {"off", "boot", "ready", "test0", "wait0", "friends",
                           "test1", "wait1", "dead"} \cup Running]
    /\ alive \in [Process -> BOOLEAN]
    /\ friends \in [Node -> BoundedSeq(0 .. NODES, Friends)]
    /\ registered \subseteq Process
    /\ disturbed \subseteq Process \cup {Master}

\* No child goes beyond the first barrier, to choose receivers among the users
\* or to wait for friends, before every process is registered: whatever fails
\* or interrupts the others, sem_sync[0] reaches zero only then.
RegisteredFirst ==
    (\E p \in Process : pc[p] \in {"friends", "test1", "wait1"} \cup Running)
        => registered = Process

\* No node starts its loop while another still waits for friends, although the
\* barrier is the counter that the users already move up and down.
FriendsFirst ==
    (\E n \in Node : pc[n] \in Running) => \A n \in Node : HasFriends(n)

\* Without a signal, the simulation starts, and its clock with it, only when
\* every node has its friends.
ClockAfterFriends == (mpc = "run" /\ malive) => \A n \in Node : HasFriends(n)

\* Unless something fails or is interrupted, every node gets all its friends,
\* different nodes and none of them itself: neither the full queue nor the users
\* that started early stop it, and the choice goes on round the nodes from one
\* to the next without meeting the same one twice.
Proper(n) == IsInjective(friends[n]) /\ ToSet(friends[n]) \subseteq (1 .. NODES) \ {n + 1}

FriendsArrive ==
    Friends < NODES =>
        <>(\/ disturbed # {}
           \/ \A n \in Node : HasFriends(n) /\ Proper(n) /\ pc[n] # "friends")

-----------------------------------------------------------------------------
\* user.c:146 "Aspetta che tutti i nodi abbiano ricevuto gli amici": a user
\* that is past this wait finds every node with its friends.
UsersAfterFriends ==
    (\E u \in User : pc[u] \in Running) => \A n \in Node : HasFriends(n)

=============================================================================
