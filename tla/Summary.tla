------------------------------- MODULE Summary ------------------------------
(***************************************************************************)
(* print_summary for more users than PRINT_PROCESS_LIMIT (main.c, lines    *)
(* 545-616): one pass over the shared memory of the users that keeps       *)
(* copies of those with the highest and with the lowest budgets met so     *)
(* far.  The pass runs while the gate of PrintGate is closed, and the gate *)
(* lets a late writer through: every read of user_info[j] is a step of its *)
(* own, and the test of a budget and the copy of the user are two reads.   *)
(***************************************************************************)
EXTENDS PrintGate

CONSTANTS
    Count,      \* user_count; the users are 1 .. Count, alive when in Writer
    Proc,       \* PRINT_PROCESS_LIMIT / 2
    Budget      \* the budgets a user may have

ASSUME SummaryAssumption ==
    /\ Proc \in Nat \ {0}
    /\ Count \in Nat /\ Count > 2 * Proc
    /\ Budget \subseteq Int

VARIABLES
    budget,         \* user_info[j].budget in shared memory
    max, min, j,    \* the locals of print_summary
    rpc,            \* what the pass does next with user j
    tops, bottoms   \* history: highest and lowest budget of each user in the pass

passVars    == <<max, min, j, rpc>>
historyVars == <<tops, bottoms>>
summaryVars == <<vars, budget, passVars, historyVars>>

User == 1 .. Count

Unset == [user |-> 0, budget |-> 0]

Entry == [user : User, budget : Budget]

NoArray == [i \in 1 .. Proc |-> Unset]

\* Some time in the simulation: budgets differ, and users outside Writer ended.
SummaryInit ==
    /\ Init
    /\ budget \in [User -> Budget]
    /\ max = NoArray /\ min = NoArray
    /\ j = 0
    /\ rpc = "max"
    /\ tops = [u \in User |-> 0] /\ bottoms = tops

-----------------------------------------------------------------------------
\* get_min_idx_from_arr and get_max_idx_from_arr: the first place of the array
\* a that holds its lowest, its highest budget.
MinIdx(a) == CHOOSE x \in 1 .. Proc :
    \A i \in 1 .. Proc :
        a[x].budget <= a[i].budget /\ (a[x].budget = a[i].budget => x <= i)

MaxIdx(a) == CHOOSE y \in 1 .. Proc :
    \A i \in 1 .. Proc :
        a[y].budget >= a[i].budget /\ (a[y].budget = a[i].budget => y <= i)

\* user_info[j], read now.
Here == [user |-> j, budget |-> budget[j]]

\* The loop of the pass is at user j.
At(step) == mpc = "read" /\ Proc < j /\ j <= Count /\ rpc = step

\* The wait is over: the arrays are allocated and the loop starts.
StartPass ==
    /\ max' = NoArray /\ min' = NoArray
    /\ j' = 1
    /\ rpc' = "max"
    /\ tops' = budget /\ bottoms' = budget
    /\ UNCHANGED budget

\* max[j] = min[j] = user_info[j] : one read fills both.
Fill ==
    /\ mpc = "read" /\ j \in 1 .. Proc
    /\ max' = [max EXCEPT ![j] = Here]
    /\ min' = [min EXCEPT ![j] = Here]
    /\ j' = j + 1
    /\ UNCHANGED <<rpc, budget, historyVars>>

\* if (user_info[j].budget > max[x].budget)
TestMaxLower ==    \* Mutant: the comparison is the wrong way round
    /\ At("max")
    /\ rpc' = IF budget[j] < max[MinIdx(max)].budget THEN "copyMax" ELSE "min"
    /\ UNCHANGED <<max, min, j, budget, historyVars>>

TestMax ==
    /\ At("max")
    /\ rpc' = IF budget[j] > max[MinIdx(max)].budget THEN "copyMax" ELSE "min"
    /\ UNCHANGED <<max, min, j, budget, historyVars>>

\* max[x] = user_info[j] : the user is read again.
CopyMax ==
    /\ At("copyMax")
    /\ max' = [max EXCEPT ![MinIdx(max)] = Here]
    /\ rpc' = "min"
    /\ UNCHANGED <<min, j, budget, historyVars>>

\* if (user_info[j].budget < min[y].budget)
TestMin ==
    /\ At("min")
    /\ IF budget[j] < min[MaxIdx(min)].budget
         THEN rpc' = "copyMin" /\ UNCHANGED j
         ELSE rpc' = "max" /\ j' = j + 1
    /\ UNCHANGED <<max, min, budget, historyVars>>

\* min[y] = user_info[j]
CopyMinSlip ==    \* Mutant: the copy goes to the other array
    /\ At("copyMin")
    /\ max' = [max EXCEPT ![MaxIdx(min)] = Here]
    /\ rpc' = "max"
    /\ j' = j + 1
    /\ UNCHANGED <<min, budget, historyVars>>

CopyMin ==
    /\ At("copyMin")
    /\ min' = [min EXCEPT ![MaxIdx(min)] = Here]
    /\ rpc' = "max"
    /\ j' = j + 1
    /\ UNCHANGED <<max, budget, historyVars>>

PassStep == Fill \/ TestMax \/ CopyMax \/ TestMin \/ CopyMin

\* The arrays are printed and freed, and then the nodes are printed.
FreeArrays ==
    /\ max' = NoArray /\ min' = NoArray
    /\ j' = 0
    /\ rpc' = "max"
    /\ tops' = [u \in User |-> 0] /\ bottoms' = tops'
    /\ UNCHANGED budget

\* A user writes its budget; a node writes elsewhere.
WriteBudget(w) ==
    /\ Write(w)
    /\ IF w \in User
         THEN \E b \in Budget :
                /\ budget' = [budget EXCEPT ![w] = b]
                /\ tops' = IF mpc = "read" /\ b > tops[w]
                             THEN [tops EXCEPT ![w] = b] ELSE tops
                /\ bottoms' = IF mpc = "read" /\ b < bottoms[w]
                                THEN [bottoms EXCEPT ![w] = b] ELSE bottoms
         ELSE UNCHANGED <<budget, historyVars>>
    /\ UNCHANGED passVars

-----------------------------------------------------------------------------
SummaryMasterStep ==
    \/ PassStep /\ UNCHANGED vars
    \/ AwaitWriters /\ StartPass
    \/ DropGate /\ j > Count /\ UNCHANGED <<budget, passVars, historyVars>>
    \/ PrintNodes /\ FreeArrays
    \/ /\ StartSummary \/ RaiseGate \/ PrintUngated \/ KillAll
       /\ UNCHANGED <<budget, passVars, historyVars>>

SummarySignal ==
    MasterSignal /\ IF mpc' = mpc THEN UNCHANGED <<budget, passVars, historyVars>>
                                   ELSE StartPass

SummaryWriterStep(w) ==
    \/ WriteBudget(w)
    \/ /\ ReachGate(w) \/ PassGate(w) \/ Enter(w) \/ Leave(w)
       /\ UNCHANGED <<budget, passVars, historyVars>>

SummaryNext ==
    \/ SummaryMasterStep \/ SummarySignal
    \/ \E w \in Writer :
        \/ SummaryWriterStep(w)
        \/ (BreakGate(w) \/ GiveUp(w)) /\ UNCHANGED <<budget, passVars, historyVars>>

SummarySpec == SummaryInit /\ [][SummaryNext]_summaryVars

\* The fairness of FairSpec; the reads of the pass are steps of the master.
SummaryFairness ==
    /\ WF_summaryVars(SummaryMasterStep)
    /\ \A w \in Writer :
          /\ WF_summaryVars(SummaryWriterStep(w))
          /\ SF_summaryVars(PassGate(w) /\ UNCHANGED <<budget, passVars, historyVars>>)

-----------------------------------------------------------------------------
\* The summary is ready: what it shows is printed with the gate open.
Ready == j > Count

Shown(a) == {a[i].user : i \in 1 .. Proc}

\* Whatever users write while the master reads, the summary shows Proc users as
\* the highest and Proc as the lowest, and a user it does not show among the
\* highest had Proc others that at some moment of the pass had as much as it had
\* at its lowest, and likewise for the lowest: no late write makes the pass drop
\* a user that stood out all the time.
NobodyOutstandingMissed ==
    Ready =>
        /\ Cardinality(Shown(max)) = Proc /\ Cardinality(Shown(min)) = Proc
        /\ \A u \in User \ Shown(max) :
              Cardinality({k \in User \ {u} : tops[k] >= bottoms[u]}) >= Proc
        /\ \A u \in User \ Shown(min) :
              Cardinality({k \in User \ {u} : bottoms[k] <= tops[u]}) >= Proc

\* A summary during which no budget changed shows the extremes: no user left
\* out had more than one shown as highest or less than one shown as lowest.
SummaryShowsExtremes ==
    (Ready /\ tops = bottoms) =>
        /\ \A u \in User \ Shown(max), k \in Shown(max) : tops[u] <= tops[k]
        /\ \A u \in User \ Shown(min), k \in Shown(min) : tops[u] >= tops[k]

\* main.c:579 "Sostituisce poi in quell'indice l'utente con budget più basso
\* (nell'array max) e più alto (nell'array min), così da mantenere negli array
\* locali gli utenti con i budget più significativi": of two users whose budgets
\* did not change during the pass, the one shown as highest is not the poorer.
SteadyUsersRanked ==
    Ready =>
        \A u \in User \ Shown(max), k \in Shown(max) :
            tops[u] = bottoms[u] /\ tops[k] = bottoms[k] => tops[u] <= tops[k]

=============================================================================
