----------------------------- MODULE Lifecycle -----------------------------
(***************************************************************************)
(* The life of the master from the first fork to the removal of the IPC    *)
(* objects (main.c, lines 93-122, 164-208 and 294-338).  It is Startup     *)
(* with what decides how the program ends: the clock, the notice of a full *)
(* ledger, the count of users, Ctrl-C and the failures of fork and execv   *)
(* all set alive = 0 and write exitStatus; later ones overwrite it, also   *)
(* while the master waits for its children.  exitStatus decides who is     *)
(* killed and what the review reports, and starts as 0, "time is up".  The *)
(* switch of the review falls through from 3 to 4.                         *)
(***************************************************************************)
EXTENDS Startup

VARIABLES
    lpc,            \* the master's main loop and what follows it
    exitStatus,     \* 0 time, 1 Ctrl-C, 2 no users, 3 ledger full, 4 fork failed
    reported,       \* the reasons print_final_review printed
    happened        \* history: the events 0, 1, 3 and 4 that occurred

lifeVars == <<lpc, exitStatus, reported, happened>>
allVars  == <<vars, lifeVars>>

LifeInit ==
    /\ Init
    /\ lpc = "loop" /\ exitStatus = 0
    /\ reported = {} /\ happened = {}

\* sem_proc_alive[SEM_USER_ID]: a V with SEM_UNDO when the user starts, undone
\* by the kernel when it ends.
UsersAlive == {u \in User : pc[u] \notin {"off", "boot", "dead"}}

EndsSilently(status) ==    \* Mutant: exitStatus is not written
    /\ lpc # "done"
    /\ happened' = happened \cup {status}
    /\ UNCHANGED <<lpc, exitStatus, reported>>

\* sig_handler of the master, and the failure of fork.
Ends(status) ==
    /\ lpc # "done"
    /\ exitStatus' = status
    /\ happened' = happened \cup {status}
    /\ UNCHANGED <<lpc, reported>>

-----------------------------------------------------------------------------
\* Up to the first pass of the loop nothing but the failures touches exitStatus.
StartStep ==
    /\ \/ \E p \in Process : CreateChild(p)
       \/ ServeNode \/ ChooseFriend \/ SendFriend
       \/ EndCreate \/ TestAlive \/ Sync \/ FriendsSent \/ SyncNodes
    /\ UNCHANGED lifeVars

\* The body of the loop up to the test of alive after the sleep.
Summary ==
    /\ mpc = "run" /\ lpc = "loop" /\ malive
    /\ lpc' = "summary"
    /\ UNCHANGED <<vars, exitStatus, reported, happened>>

\* The count of users read after the summary; a signal since the test of alive
\* is overwritten when there is none.
CountUsersLast ==    \* Mutant: one user left is taken for none
    /\ lpc = "summary"
    /\ lpc' = "loop"
    /\ \/ /\ Cardinality(UsersAlive) <= 1
          /\ malive' = FALSE /\ exitStatus' = 2
          /\ UNCHANGED <<semVars, mpc, listVars, queue, childVars, disturbed>>
       \/ Cardinality(UsersAlive) > 1 /\ UNCHANGED <<vars, exitStatus>>
    /\ UNCHANGED <<reported, happened>>

CountUsers ==
    /\ lpc = "summary"
    /\ lpc' = "loop"
    /\ \/ /\ UsersAlive = {}
          /\ malive' = FALSE /\ exitStatus' = 2
          /\ UNCHANGED <<semVars, mpc, listVars, queue, childVars, disturbed>>
       \/ UsersAlive # {} /\ UNCHANGED <<vars, exitStatus>>
    /\ UNCHANGED <<reported, happened>>

\* The switch on exitStatus: with 2 only the nodes are killed.  "abort": the
\* start failed and no alarm was set.
LeaveLoopNoUsers ==    \* Mutant: the users are left alone in every case
    /\ lpc = "loop"
    /\ Kill(Node)
    /\ lpc' = IF mpc = "run" THEN "wait" ELSE "abort"
    /\ UNCHANGED <<exitStatus, reported, happened>>

LeaveLoop ==
    /\ lpc = "loop"
    /\ Kill(IF exitStatus = 2 THEN Node ELSE Process)
    /\ lpc' = IF mpc = "run" THEN "wait" ELSE "abort"
    /\ UNCHANGED <<exitStatus, reported, happened>>

\* The switch of print_final_review: case 3 has no break.
Reasons(status) == IF status = 3 THEN {3, 4} ELSE {status}

\* wait() returns -1 only when no child is left, since the kernel restarts it
\* after a signal; then the review and clear_resources.
Review ==
    /\ lpc \in {"wait", "abort"}
    /\ \A p \in Process : pc[p] \in {"off", "dead"}
    /\ lpc' = "done"
    /\ reported' = Reasons(exitStatus)
    /\ UNCHANGED <<vars, exitStatus, happened>>

-----------------------------------------------------------------------------
\* What ends the simulation.
Alarm ==
    /\ 0 \notin happened /\ (mpc = "run" \/ lpc = "wait")
    /\ RunEnds /\ Ends(0)

CtrlC == SigintMaster /\ Ends(1)

LedgerFull ==
    /\ 3 \notin happened /\ \E n \in Node : pc[n] \in Running
    /\ RunEnds /\ Ends(3)

StartFails(p) == (ForkFails(p) \/ ExecFails(p)) /\ Ends(4)

-----------------------------------------------------------------------------
LifeMasterStep == StartStep \/ Summary \/ CountUsers \/ LeaveLoop \/ Review
LifeChildStep(p) == ChildStep(p) /\ UNCHANGED lifeVars
LifeNodeStep(n) == NodeStep(n) /\ UNCHANGED lifeVars

LifeNext ==
    \/ LifeMasterStep
    \/ \E p \in Process : LifeChildStep(p) \/ StartFails(p)
                            \/ (SigintChild(p) /\ UNCHANGED lifeVars)
    \/ \E n \in Node : LifeNodeStep(n)
    \/ Alarm \/ CtrlC \/ LedgerFull

LifeSpec == LifeInit /\ [][LifeNext]_allVars

\* Every process that can run runs, and the kernel delivers the alarm.
FairLifeSpec ==
    /\ LifeSpec
    /\ WF_allVars(LifeMasterStep) /\ WF_allVars(Alarm)
    /\ \A p \in Process : WF_allVars(LifeChildStep(p))
    /\ \A n \in Node : WF_allVars(LifeNodeStep(n))

-----------------------------------------------------------------------------
\* A reason reported by the review holds: it is an event that occurred, or no
\* user is left.
Holds(reason) ==
    IF reason = 2 THEN \A u \in User : pc[u] = "dead" ELSE reason \in happened

\* What the review reports did happen, although the value exitStatus starts
\* from is itself a report and every later event overwrites it, also during the
\* wait for the children: no way out of the loop leaves it unwritten, no users
\* means none, and the failed creation that a full ledger drags in is the only
\* false report.
StatusTrue ==
    /\ lpc \in {"wait", "abort"} => Holds(exitStatus)
    /\ \A reason \in reported : Holds(reason) \/ (reason = 4 /\ 3 \in reported)

\* When the master starts to wait, every child that is not dead has been sent
\* SIGTERM: the case that spares the users is taken only when there is none,
\* whatever signal overwrites exitStatus before the switch.
EveryChildTold ==
    mpc = "reap" => \A p \in Process : pc[p] \in {"off", "dead"} \/ ~alive[p]

\* A node that SIGTERM has told to end and that sleeps in a call.
LeftAsleep(n) == ~alive[n] /\ pc[n] \in Asleep

\* Once the clock is set the program ends: whatever Ctrl-C interrupts, no child
\* stays behind a barrier and the master's wait returns, unless the SIGTERM of a
\* node came between its test of alive and the call that then sleeps.
EndsUnlessAsleep ==
    (mpc = "run" /\ malive) ~> (lpc = "done" \/ \E n \in Node : LeftAsleep(n))

=============================================================================
