------------------------------ MODULE PrintGate -----------------------------
(***************************************************************************)
(* The gate of step 2 of sem_sync (main.c, lines 73-75): the master raises *)
(* sem_sync[0] to read the shared memory of the processes for its summary, *)
(* users and nodes count themselves in sem_sync[1] while they write to it. *)
(*                                                                         *)
(*   master  print_summary: V 0; wait until 1 is zero; read; P 0           *)
(*   writer  enter/exit_shd_safe_mode, update_budget, clear:               *)
(*           wait until 0 is zero; V 1; write; P 1                         *)
(*                                                                         *)
(* The result of no semop is tested, so a signal that interrupts a wait    *)
(* lets the process through.  The module ends where the simulation does:   *)
(* the master terminates its children and waits for them.  The handler of  *)
(* SIGUSR1, with which a user may write while it writes, is in UserBudget. *)
(***************************************************************************)
EXTENDS Integers, FiniteSets

CONSTANTS
    Writer,     \* users and nodes
    MaxBreaks   \* bound: interrupted waits of a writer per closing of the gate

ASSUME GateAssumption == IsFiniteSet(Writer) /\ MaxBreaks \in Nat

VARIABLES
    sem0, sem1,     \* sem_sync
    mpc, malive,    \* the master's counter and its alive
    wpc, walive,    \* the writers'
    last,           \* last[w]: this is the write of clear
    writes,         \* writes[w]: writes to the memory since the last V 0
    breaks          \* breaks[w]: interrupted waits since the last V 0

semVars    == <<sem0, sem1>>
masterVars == <<mpc, malive>>
writerVars == <<wpc, walive, last>>
countVars  == <<writes, breaks>>
vars       == <<semVars, masterVars, writerVars, countVars>>

\* The writers that stand between V 1 and P 1.
Inside == {w \in Writer : wpc[w] \in {"write", "leave"}}

GateClosed == mpc \in {"wait", "read"}

Init ==
    /\ sem0 = 0 /\ sem1 = 0
    /\ mpc = "sleep" /\ malive = TRUE
    /\ wpc = [w \in Writer |-> "work"]
    /\ walive = [w \in Writer |-> TRUE]
    /\ last = [w \in Writer |-> FALSE]
    /\ writes = [w \in Writer |-> 0]
    /\ breaks = [w \in Writer |-> 0]

MasterGoto(from, to) ==
    /\ mpc = from
    /\ mpc' = to
    /\ UNCHANGED malive

WriterGoto(w, from, to) ==
    /\ wpc[w] = from
    /\ wpc' = [wpc EXCEPT ![w] = to]

-----------------------------------------------------------------------------
(***************************************************************************)
(* The master, from the end of its nsleep.                                 *)
(***************************************************************************)

\* if (alive == 1) print_summary(...)
StartSummary ==
    /\ malive
    /\ MasterGoto("sleep", "print")
    /\ UNCHANGED <<semVars, writerVars, countVars>>

\* More users than PRINT_PROCESS_LIMIT and still alive: V 0.
RaiseGate ==
    /\ malive
    /\ MasterGoto("print", "wait")
    /\ sem0' = sem0 + 1
    /\ writes' = [w \in Writer |-> 0]
    /\ breaks' = [w \in Writer |-> 0]
    /\ UNCHANGED <<sem1, writerVars>>

\* A signal came after line 296: the users are printed with the gate open.
PrintUngated ==
    /\ ~malive
    /\ MasterGoto("print", "nodes")
    /\ UNCHANGED <<semVars, writerVars, countVars>>

\* Wait until no writer is counted.
AwaitWriters ==
    /\ sem1 = 0
    /\ MasterGoto("wait", "read")
    /\ UNCHANGED <<semVars, writerVars, countVars>>

\* The users of highest and lowest budget are chosen, then P 0.
DropGateSkipped ==    \* Mutant: P 0 only while alive
    /\ sem0 > 0
    /\ MasterGoto("read", "nodes")
    /\ sem0' = IF malive THEN sem0 - 1 ELSE sem0
    /\ UNCHANGED <<sem1, writerVars, countVars>>

DropGate ==
    /\ sem0 > 0
    /\ MasterGoto("read", "nodes")
    /\ sem0' = sem0 - 1
    /\ UNCHANGED <<sem1, writerVars, countVars>>

\* Nodes are printed with the gate open; the loop sleeps again.
PrintNodes ==
    /\ MasterGoto("nodes", "sleep")
    /\ UNCHANGED <<semVars, writerVars, countVars>>

\* SIGALRM, SIGUSR1, SIGUSR2 or SIGINT: alive = 0, and a wait returns EINTR.
MasterSignal ==
    /\ mpc # "reap"
    /\ \/ UNCHANGED mpc
       \/ mpc = "wait" /\ mpc' = "read"
    /\ malive' = FALSE
    /\ UNCHANGED <<semVars, writerVars, countVars>>

\* The loop ends: kill_nodes, kill_users, and wait for the children.
KillAll ==
    /\ ~malive
    /\ MasterGoto("sleep", "reap")
    /\ walive' = [w \in Writer |-> FALSE]
    /\ UNCHANGED <<semVars, wpc, last, countVars>>

-----------------------------------------------------------------------------
(***************************************************************************)
(* A writer.                                                               *)
(***************************************************************************)

\* update_budget or enter_shd_safe_mode, or those of clear on the way out.
ReachGate(w) ==
    /\ WriterGoto(w, "work", "gate")
    /\ last' = [last EXCEPT ![w] = ~walive[w]]
    /\ UNCHANGED <<semVars, masterVars, walive, countVars>>

\* semop with sem_op = 0 on sem_sync[0].
PassOpenGate(w) ==    \* Mutant: the wait for zero is missing
    /\ WriterGoto(w, "gate", "enter")
    /\ UNCHANGED <<semVars, masterVars, walive, last, countVars>>

PassGate(w) ==
    /\ sem0 = 0
    /\ WriterGoto(w, "gate", "enter")
    /\ UNCHANGED <<semVars, masterVars, walive, last, countVars>>

\* A signal at the closed gate: semop fails, the writer goes on.
BreakGateUndo(w) ==    \* Mutant: the failure is answered with a P
    /\ sem0 > 0 /\ breaks[w] < MaxBreaks
    /\ WriterGoto(w, "gate", "enter")
    /\ breaks' = [breaks EXCEPT ![w] = @ + 1]
    /\ sem1' = sem1 - 1
    /\ UNCHANGED <<sem0, masterVars, walive, last, writes>>

BreakGate(w) ==
    /\ sem0 > 0 /\ breaks[w] < MaxBreaks
    /\ WriterGoto(w, "gate", "enter")
    /\ breaks' = [breaks EXCEPT ![w] = @ + 1]
    /\ UNCHANGED <<semVars, masterVars, walive, last, writes>>

\* V on sem_sync[1]: one more writer.
Enter(w) ==
    /\ WriterGoto(w, "enter", "write")
    /\ sem1' = sem1 + 1
    /\ UNCHANGED <<sem0, masterVars, walive, last, countVars>>

\* The memory is written.
Write(w) ==
    /\ WriterGoto(w, "write", "leave")
    /\ writes' = [writes EXCEPT ![w] = IF sem0 > 0 THEN @ + 1 ELSE @]
    /\ UNCHANGED <<semVars, masterVars, walive, last, breaks>>

\* P on sem_sync[1], then back to work or the end of the process.
LeaveForgotten(w) ==    \* Mutant: no P in clear
    /\ sem1 > 0
    /\ WriterGoto(w, "leave", IF last[w] THEN "dead" ELSE "work")
    /\ sem1' = IF last[w] THEN sem1 ELSE sem1 - 1
    /\ UNCHANGED <<sem0, masterVars, walive, last, countVars>>

Leave(w) ==
    /\ sem1 > 0
    /\ WriterGoto(w, "leave", IF last[w] THEN "dead" ELSE "work")
    /\ sem1' = sem1 - 1
    /\ UNCHANGED <<sem0, masterVars, walive, last, countVars>>

\* A user that used up its retries leaves on its own.
GiveUp(w) ==
    /\ wpc[w] = "work" /\ walive[w]
    /\ walive' = [walive EXCEPT ![w] = FALSE]
    /\ UNCHANGED <<semVars, masterVars, wpc, last, countVars>>

-----------------------------------------------------------------------------
MasterStep ==
    \/ StartSummary \/ RaiseGate \/ PrintUngated \/ AwaitWriters
    \/ DropGate \/ PrintNodes \/ KillAll

WriterStep(w) ==
    ReachGate(w) \/ PassGate(w) \/ Enter(w) \/ Write(w) \/ Leave(w)

Next ==
    \/ MasterStep \/ MasterSignal
    \/ \E w \in Writer : WriterStep(w) \/ BreakGate(w) \/ GiveUp(w)

Spec == Init /\ [][Next]_vars

(***************************************************************************)
(* Every process that can run runs.  The kernel completes the semops that  *)
(* wait for zero at the moment the value drops to zero, so a writer at the *)
(* gate is served although the gate closes again and again.                *)
(***************************************************************************)
FairSpec ==
    /\ Spec
    /\ WF_vars(MasterStep)
    /\ \A w \in Writer : WF_vars(WriterStep(w)) /\ SF_vars(PassGate(w))

-----------------------------------------------------------------------------
TypeOK ==
    /\ sem0 \in Nat
    /\ sem1 \in Nat
    /\ mpc \in {"sleep", "print", "wait", "read", "nodes", "reap"}
    /\ malive \in BOOLEAN
    /\ wpc \in [Writer -> {"work", "gate", "enter", "write", "leave", "dead"}]
    /\ walive \in [Writer -> BOOLEAN]
    /\ last \in [Writer -> BOOLEAN]
    /\ writes \in [Writer -> Nat]
    /\ breaks \in [Writer -> Nat]

\* sem_sync[1] counts the writers between V and P and sem_sync[0] is raised
\* exactly while the master prepares the summary, whatever signals break the
\* waits and whichever processes leave: no closing leaks a count.
SemsExact ==
    /\ sem0 = IF GateClosed THEN 1 ELSE 0
    /\ sem1 = Cardinality(Inside)

\* While the gate is closed a writer changes the memory once at most, plus
\* once for each of its waits that a signal broke: what the gate does promise,
\* since it does not stop a writer that tested it before the master's V.
OneWritePerClosing ==
    GateClosed => \A w \in Writer : writes[w] <= 1 + breaks[w]

\* The master's wait for the writers ends: a summary is never held up for
\* ever, although writers keep coming.
SummaryEnds == mpc = "wait" ~> mpc = "nodes"

\* A writer that reached the gate writes, although summaries keep coming.
WriterServed == \A w \in Writer : wpc[w] = "gate" ~> wpc[w] = "write"

\* Terminated children get through the gate and end: the master has not left
\* it closed behind it.  This is the gate only; a node that lost its SIGTERM
\* before a pause never reaches it (EveryNodeStops of Ledger).
ChildrenEnd == mpc = "reap" ~> \A w \in Writer : wpc[w] = "dead"

=============================================================================
