-------------------------- MODULE PrintGateProofs ---------------------------
(***************************************************************************)
(* Proofs about PrintGate, for any finite set of writers and any number of *)
(* signals.                                                                *)
(*                                                                         *)
(* SemsExact is inductive with the types.  OneWritePerClosing is not: it   *)
(* needs to count the write a writer is about to do (Pending), which is    *)
(* how a writer gets past a gate that closes behind it.                    *)
(*                                                                         *)
(* The second part is the pass of print_summary (module Summary), for any  *)
(* number of users and any budgets, written at any moment: Stands says     *)
(* what an array of selected users is worth after each user of the pass.   *)
(* The lowest are the highest of the opposite budgets, so one set of       *)
(* lemmas serves both arrays.                                              *)
(***************************************************************************)
EXTENDS Summary, FoldLemmas, FiniteSetTheorems, FunctionTheorems, TLAPS

\* The write a writer has announced or is entitled to by passing the gate.
Pending(w) == IF wpc[w] \in {"enter", "write"} THEN 1 ELSE 0

WritesBounded ==
    GateClosed => \A w \in Writer : writes[w] + Pending(w) <= 1 + breaks[w]

IInv == TypeOK /\ SemsExact /\ WritesBounded

-----------------------------------------------------------------------------
\* A writer enters the set counted by sem_sync[1], or leaves it.
LEMMA InsideCount ==
    ASSUME TypeOK, NEW w \in Writer
    PROVE  /\ IsFiniteSet(Inside)
           /\ Cardinality(Inside) \in Nat
           /\ w \notin Inside => Cardinality(Inside \cup {w}) = Cardinality(Inside) + 1
           /\ w \in Inside => Cardinality(Inside \ {w}) = Cardinality(Inside) - 1
<1>1. IsFiniteSet(Inside)
    BY GateAssumption, FS_Subset DEF GateAssumption, Inside
<1> QED
    BY <1>1, FS_CardinalityType, FS_AddElement, FS_RemoveElement

\* The initial state satisfies the inductive invariant.
LEMMA InitIInv == Init => IInv
<1> SUFFICES ASSUME Init PROVE IInv
    OBVIOUS
<1>1. TypeOK
    BY DEF Init, TypeOK
<1>2. Inside = {}
    BY DEF Init, Inside
<1>3. SemsExact
    BY <1>2, FS_EmptySet DEF Init, SemsExact, GateClosed
<1>4. WritesBounded
    BY DEF Init, WritesBounded, GateClosed
<1> QED
    BY <1>1, <1>3, <1>4 DEF IInv

\* A step that neither moves the master across the gate nor changes a
\* semaphore keeps SemsExact when it keeps the set of writers inside.
LEMMA SameInside ==
    ASSUME SemsExact, Inside' = Inside, UNCHANGED semVars, GateClosed' <=> GateClosed
    PROVE  SemsExact'
<1>1. Cardinality(Inside)' = Cardinality(Inside)
    OBVIOUS
<1> QED
    BY <1>1 DEF SemsExact, semVars

\* The steps of the master preserve the inductive invariant.
LEMMA MasterIInv == IInv /\ (MasterStep \/ MasterSignal) => IInv'
<1> SUFFICES ASSUME IInv, MasterStep \/ MasterSignal PROVE IInv'
    OBVIOUS
<1> USE DEF IInv
<1>1. UNCHANGED wpc /\ Inside' = Inside /\ \A w \in Writer : Pending(w)' = Pending(w)
    BY DEF MasterStep, MasterSignal, StartSummary, RaiseGate, PrintUngated,
       AwaitWriters, DropGate, PrintNodes, KillAll, writerVars, Inside, Pending
<1>2. TypeOK'
  <2>1. sem0' \in Nat /\ sem1' \in Nat
      BY DEF TypeOK, MasterStep, MasterSignal, StartSummary, RaiseGate, PrintUngated,
         AwaitWriters, DropGate, PrintNodes, KillAll, semVars
  <2>2. /\ mpc' \in {"sleep", "print", "wait", "read", "nodes", "reap"}
        /\ malive' \in BOOLEAN
      BY DEF TypeOK, MasterStep, MasterSignal, StartSummary, RaiseGate, PrintUngated,
         AwaitWriters, DropGate, PrintNodes, KillAll, MasterGoto
  <2>3. walive' \in [Writer -> BOOLEAN] /\ UNCHANGED last
      BY DEF TypeOK, MasterStep, MasterSignal, StartSummary, RaiseGate, PrintUngated,
         AwaitWriters, DropGate, PrintNodes, KillAll, writerVars
  <2>4. writes' \in [Writer -> Nat] /\ breaks' \in [Writer -> Nat]
      BY DEF TypeOK, MasterStep, MasterSignal, StartSummary, RaiseGate, PrintUngated,
         AwaitWriters, DropGate, PrintNodes, KillAll, countVars
  <2> QED
      BY <1>1, <2>1, <2>2, <2>3, <2>4 DEF TypeOK
<1>3. CASE RaiseGate
  <2>1. SemsExact'
      BY <1>1, <1>3 DEF RaiseGate, MasterGoto, SemsExact, GateClosed
  <2>2. WritesBounded'
      BY <1>1, <1>3 DEF RaiseGate, WritesBounded, Pending, TypeOK
  <2> QED
      BY <1>2, <2>1, <2>2
<1>4. CASE DropGate
  <2>1. SemsExact'
      BY <1>1, <1>4 DEF DropGate, MasterGoto, SemsExact, GateClosed
  <2>2. WritesBounded'
      BY <1>4 DEF DropGate, MasterGoto, WritesBounded, GateClosed
  <2> QED
      BY <1>2, <2>1, <2>2
<1>5. CASE ~RaiseGate /\ ~DropGate
  <2>1. UNCHANGED <<semVars, countVars>> /\ (GateClosed' <=> GateClosed)
      BY <1>5 DEF MasterStep, MasterSignal, StartSummary, PrintUngated,
         AwaitWriters, PrintNodes, KillAll, MasterGoto, GateClosed
  <2>2. SemsExact'
      BY <1>1, <2>1, SameInside
  <2>3. WritesBounded'
      BY <1>1, <2>1 DEF WritesBounded, countVars
  <2> QED
      BY <1>2, <2>2, <2>3
<1> QED
    BY <1>3, <1>4, <1>5

\* The steps of a writer preserve the inductive invariant.
LEMMA WriterIInv ==
    ASSUME IInv, NEW w \in Writer, WriterStep(w) \/ BreakGate(w) \/ GiveUp(w)
    PROVE  IInv'
<1> USE DEF IInv
<1>1. UNCHANGED masterVars /\ (GateClosed' <=> GateClosed)
    BY DEF WriterStep, ReachGate, PassGate, Enter, Write, Leave, BreakGate,
       GiveUp, masterVars, GateClosed
<1>2. CASE ReachGate(w) \/ PassGate(w) \/ GiveUp(w)
  <2>1. TypeOK'
      BY <1>2 DEF ReachGate, PassGate, GiveUp, WriterGoto, TypeOK, semVars,
         masterVars, countVars
  <2>2. Inside' = Inside /\ UNCHANGED semVars
      BY <1>2 DEF ReachGate, PassGate, GiveUp, WriterGoto, Inside, TypeOK
  <2>3. SemsExact'
      BY <1>1, <2>2, SameInside
  <2>4. WritesBounded'
    <3>1. CASE PassGate(w)
      <4>1. ~GateClosed
          BY <3>1 DEF PassGate, SemsExact
      <4> QED
          BY <1>1, <4>1 DEF WritesBounded
    <3>2. CASE ReachGate(w) \/ GiveUp(w)
      <4>1. \A v \in Writer : Pending(v)' = Pending(v)
          BY <3>2 DEF ReachGate, GiveUp, WriterGoto, Pending, TypeOK
      <4> QED
          BY <1>1, <3>2, <4>1 DEF ReachGate, GiveUp, WritesBounded, countVars
    <3> QED
        BY <1>2, <3>1, <3>2
  <2> QED
      BY <2>1, <2>3, <2>4
<1>3. CASE BreakGate(w)
  <2>1. TypeOK'
      BY <1>3 DEF BreakGate, WriterGoto, TypeOK, semVars, masterVars
  <2>2. Inside' = Inside /\ UNCHANGED semVars
      BY <1>3 DEF BreakGate, WriterGoto, Inside, TypeOK
  <2>3. SemsExact'
      BY <1>1, <2>2, SameInside
  <2>4. \A v \in Writer \ {w} : Pending(v)' = Pending(v) /\ breaks'[v] = breaks[v]
      BY <1>3 DEF BreakGate, WriterGoto, Pending, TypeOK
  <2>5. Pending(w) = 0 /\ Pending(w)' = 1 /\ breaks'[w] = breaks[w] + 1
      BY <1>3 DEF BreakGate, WriterGoto, Pending, TypeOK
  <2>6. UNCHANGED writes
      BY <1>3 DEF BreakGate
  <2>7. WritesBounded'
      BY <1>1, <2>4, <2>5, <2>6 DEF WritesBounded, TypeOK
  <2> QED
      BY <2>1, <2>3, <2>7
<1>4. CASE Enter(w)
  <2>1. TypeOK'
      BY <1>4 DEF Enter, WriterGoto, TypeOK, masterVars, countVars
  <2>2. w \notin Inside /\ Inside' = Inside \cup {w}
      BY <1>4 DEF Enter, WriterGoto, Inside, TypeOK
  <2>3. Cardinality(Inside') = Cardinality(Inside) + 1
      BY <2>2, InsideCount
  <2>4. SemsExact'
      BY <1>1, <1>4, <2>3 DEF Enter, SemsExact
  <2>5. \A v \in Writer : Pending(v)' = Pending(v)
      BY <1>4 DEF Enter, WriterGoto, Pending, TypeOK
  <2>6. WritesBounded'
      BY <1>1, <1>4, <2>5 DEF Enter, WritesBounded, countVars
  <2> QED
      BY <2>1, <2>4, <2>6
<1>5. CASE Write(w)
  <2>1. TypeOK'
      BY <1>5 DEF Write, WriterGoto, TypeOK, semVars, masterVars
  <2>2. Inside' = Inside /\ UNCHANGED semVars
      BY <1>5 DEF Write, WriterGoto, Inside, TypeOK
  <2>3. SemsExact'
      BY <1>1, <2>2, SameInside
  <2>4. \A v \in Writer \ {w} : Pending(v)' = Pending(v) /\ writes'[v] = writes[v]
      BY <1>5 DEF Write, WriterGoto, Pending, TypeOK
  <2>5. Pending(w) = 1 /\ Pending(w)' = 0 /\ writes'[w] <= writes[w] + 1
      BY <1>5 DEF Write, WriterGoto, Pending, TypeOK
  <2>6. UNCHANGED breaks
      BY <1>5 DEF Write
  <2>7. WritesBounded'
      BY <1>1, <2>1, <2>4, <2>5, <2>6 DEF WritesBounded, TypeOK
  <2> QED
      BY <2>1, <2>3, <2>7
<1>6. CASE Leave(w)
  <2>1. TypeOK'
      BY <1>6 DEF Leave, WriterGoto, TypeOK, masterVars, countVars
  <2>2. w \in Inside /\ Inside' = Inside \ {w}
      BY <1>6 DEF Leave, WriterGoto, Inside, TypeOK
  <2>3. Cardinality(Inside') = Cardinality(Inside) - 1
      BY <2>2, InsideCount
  <2>4. SemsExact'
      BY <1>1, <1>6, <2>3 DEF Leave, SemsExact
  <2>5. \A v \in Writer : Pending(v)' = Pending(v)
      BY <1>6 DEF Leave, WriterGoto, Pending, TypeOK
  <2>6. WritesBounded'
      BY <1>1, <1>6, <2>5 DEF Leave, WritesBounded, countVars
  <2> QED
      BY <2>1, <2>4, <2>6
<1> QED
    BY <1>2, <1>3, <1>4, <1>5, <1>6 DEF WriterStep

-----------------------------------------------------------------------------
\* IInv holds in every reachable state.
LEMMA Inductive == Spec => []IInv
<1>1. IInv /\ UNCHANGED vars => IInv'
  <2> SUFFICES ASSUME IInv, UNCHANGED vars PROVE IInv'
      OBVIOUS
  <2>1. TypeOK' /\ Inside' = Inside /\ WritesBounded'
      BY DEF IInv, vars, semVars, masterVars, writerVars, countVars, TypeOK,
         Inside, WritesBounded, Pending, GateClosed
  <2>2. SemsExact'
      BY <2>1, SameInside DEF IInv, vars, masterVars, GateClosed
  <2> QED
      BY <2>1, <2>2 DEF IInv
<1>2. IInv /\ [Next]_vars => IInv'
    BY <1>1, MasterIInv, WriterIInv DEF Next
<1> QED
    BY InitIInv, <1>2, PTL DEF Spec

\* The semaphores count exactly the master's closings and the writers inside.
THEOREM SemaphoresExact == Spec => [](TypeOK /\ SemsExact)
<1>1. IInv => TypeOK /\ SemsExact
    BY DEF IInv
<1> QED
    BY Inductive, <1>1, PTL

\* Every reachable state of the gate, the master and the writers is well typed.
THEOREM TypesCorrect == Spec => []TypeOK
    BY SemaphoresExact, PTL

\* However many writers there are, each changes the memory at most once in a
\* closing of the gate, and once more for each of its waits a signal broke.
THEOREM AtMostOneWrite == Spec => []OneWritePerClosing
<1>1. IInv => OneWritePerClosing
    BY DEF IInv, WritesBounded, OneWritePerClosing, TypeOK, Pending
<1> QED
    BY Inductive, <1>1, PTL

-----------------------------------------------------------------------------
(***************************************************************************)
(* The pass of print_summary.                                              *)
(***************************************************************************)

\* A user left out had Proc others that reached what it had at its lowest.
Outdone(u, hi, lo) == Cardinality({k \in User \ {u} : hi[k] >= lo[u]}) >= Proc

\* What the arrays us of users and v of their copied budgets are worth after
\* the first n users, when hi and lo bound the budgets the users had.
Stands(us, v, n, hi, lo) ==
    /\ us \in [1 .. Proc -> User] /\ v \in [1 .. Proc -> Int]
    /\ \A a, b \in 1 .. Proc : us[a] = us[b] => a = b
    /\ \A a \in 1 .. Proc : us[a] <= n /\ lo[us[a]] <= v[a] /\ v[a] <= hi[us[a]]
    /\ \A u \in User : (u <= n /\ \A a \in 1 .. Proc : us[a] # u) =>
          /\ Outdone(u, hi, lo)
          /\ hi = lo => \A a \in 1 .. Proc : hi[u] <= hi[us[a]]

\* The users are an interval.
LEMMA UserRange ==
    /\ \A u \in User : u \in Int /\ 1 <= u /\ u <= Count
    /\ \A n \in 0 .. Count - 1 : n + 1 \in User
    /\ Count \in Nat /\ Proc \in Nat \ {0}
    /\ \A a \in 1 .. Proc : a \in User /\ a <= Proc
    BY SummaryAssumption DEF User

\* An array without repetitions holds Proc users.
LEMMA HeldCount ==
    ASSUME NEW us \in [1 .. Proc -> User],
           \A a, b \in 1 .. Proc : us[a] = us[b] => a = b
    PROVE  Cardinality({us[a] : a \in 1 .. Proc}) = Proc
<1> DEFINE T == {us[a] : a \in 1 .. Proc}
<1>1. us \in Bijection(1 .. Proc, T)
  <2>1. us \in [1 .. Proc -> T] /\ \A t \in T : \E a \in 1 .. Proc : us[a] = t
    OBVIOUS
  <2> HIDE DEF T
  <2> QED BY <2>1, Fun_IsBij
<1>2. ExistsBijection(1 .. Proc, T)
    BY <1>1 DEF ExistsBijection
<1>3. IsFiniteSet(1 .. Proc) /\ Cardinality(1 .. Proc) = Proc
  <2>1. Proc \in Nat /\ 1 <= Proc
    BY SummaryAssumption
  <2> QED BY <2>1, FS_Interval
<1>4. Cardinality(T) = Proc
  <2> HIDE DEF T
  <2> QED BY <1>2, <1>3, FS_Bijection
<1> QED BY <1>4

\* Sets of users are finite.
LEMMA UserSets ==
    ASSUME NEW S, S \subseteq User
    PROVE  /\ IsFiniteSet(S) /\ Cardinality(S) \in Nat
           /\ \A T \in SUBSET S : Cardinality(T) <= Cardinality(S)
<1>1. IsFiniteSet(User)
    BY SummaryAssumption, FS_Interval DEF User
<1> QED BY <1>1, FS_Subset, FS_CardinalityType

\* Proc users of an array, none of them u, that reached lo[u], outdo u.
LEMMA ArrayOutdoes ==
    ASSUME NEW hi \in [User -> Int], NEW lo \in [User -> Int], NEW u \in User,
           NEW us \in [1 .. Proc -> User],
           \A a, b \in 1 .. Proc : us[a] = us[b] => a = b,
           \A a \in 1 .. Proc : us[a] # u /\ hi[us[a]] >= lo[u]
    PROVE  Outdone(u, hi, lo)
<1> DEFINE T == {us[a] : a \in 1 .. Proc}
           S == {k \in User \ {u} : hi[k] >= lo[u]}
<1>1. T \in SUBSET S /\ S \subseteq User
    OBVIOUS
<1>2. Cardinality(T) = Proc
    BY HeldCount
<1>3. Cardinality(T) <= Cardinality(S)
  <2> HIDE DEF S, T
  <2> QED BY <1>1, UserSets
<1> QED BY <1>2, <1>3 DEF Outdone

\* A pass that goes on, and users that write, keep a user outdone.
LEMMA StaysOutdone ==
    ASSUME NEW hi \in [User -> Int], NEW lo \in [User -> Int],
           NEW hi2 \in [User -> Int], NEW lo2 \in [User -> Int],
           \A k \in User : hi[k] <= hi2[k] /\ lo2[k] <= lo[k],
           NEW u \in User, Outdone(u, hi, lo)
    PROVE  Outdone(u, hi2, lo2)
<1> DEFINE T == {k \in User \ {u} : hi[k] >= lo[u]}
           S == {k \in User \ {u} : hi2[k] >= lo2[u]}
<1>1. T \in SUBSET S /\ S \subseteq User
    OBVIOUS
<1>2. Cardinality(T) <= Cardinality(S) /\ Cardinality(T) \in Nat /\ Cardinality(S) \in Nat
  <2> HIDE DEF S, T
  <2> QED BY <1>1, UserSets
<1> QED BY <1>2, SummaryAssumption DEF Outdone

\* The first Proc users fill the array.
LEMMA StandsFilled ==
    ASSUME NEW hi, NEW lo, NEW us, NEW v \in [1 .. Proc -> Int],
           us = [a \in 1 .. Proc |-> a],
           \A a \in 1 .. Proc : lo[a] <= v[a] /\ v[a] <= hi[a]
    PROVE  Stands(us, v, Proc, hi, lo)
<1>1. \A u \in User : u <= Proc => u \in 1 .. Proc
    BY UserRange
<1> QED BY <1>1, UserRange DEF Stands

\* A user that does not exceed the lowest copy is left out.
LEMMA StandsKept ==
    ASSUME NEW hi \in [User -> Int], NEW lo \in [User -> Int],
           NEW us, NEW v, NEW n \in 0 .. Count - 1, Stands(us, v, n, hi, lo),
           \A a \in 1 .. Proc : lo[n + 1] <= v[a]
    PROVE  Stands(us, v, n + 1, hi, lo)
<1>1. n \in Int /\ n + 1 \in User
    BY UserRange
<1>2. ASSUME NEW a \in 1 .. Proc
      PROVE  us[a] # n + 1 /\ us[a] <= n + 1 /\ lo[n + 1] <= hi[us[a]]
  <2>1. /\ us[a] \in User /\ us[a] \in Int /\ v[a] \in Int /\ us[a] <= n
        /\ v[a] <= hi[us[a]] /\ lo[n + 1] <= v[a]
      BY UserRange DEF Stands
  <2>2. hi[us[a]] \in Int /\ lo[n + 1] \in Int
      BY <1>1, <2>1
  <2> QED BY <1>1, <2>1, <2>2
<1>3. Outdone(n + 1, hi, lo)
  <2>1. /\ us \in [1 .. Proc -> User]
        /\ \A a, b \in 1 .. Proc : us[a] = us[b] => a = b
      BY DEF Stands
  <2>2. \A a \in 1 .. Proc : us[a] # n + 1 /\ hi[us[a]] >= lo[n + 1]
    <3> SUFFICES ASSUME NEW a \in 1 .. Proc PROVE us[a] # n + 1 /\ hi[us[a]] >= lo[n + 1]
        OBVIOUS
    <3>1. us[a] \in User
        BY <2>1
    <3>2. hi[us[a]] \in Int /\ lo[n + 1] \in Int
        BY <1>1, <3>1
    <3> QED BY <1>2, <3>2
  <2> QED BY <1>1, <2>1, <2>2, ArrayOutdoes
<1>4. hi = lo => \A a \in 1 .. Proc : hi[n + 1] <= hi[us[a]]
    BY <1>2
<1>5. \A u \in User : u <= n + 1 => u = n + 1 \/ u <= n
    BY <1>1, UserRange
<1> QED BY <1>2, <1>3, <1>4, <1>5 DEF Stands

\* A user that exceeded the lowest copy takes its place, whatever its budget is
\* when it is copied.
LEMMA StandsReplaced ==
    ASSUME NEW hi \in [User -> Int], NEW lo \in [User -> Int],
           NEW us, NEW v, NEW n \in 0 .. Count - 1, Stands(us, v, n, hi, lo),
           NEW x \in 1 .. Proc, \A a \in 1 .. Proc : v[x] <= v[a],
           hi[n + 1] > v[x],
           NEW w \in Int, lo[n + 1] <= w, w <= hi[n + 1]
    PROVE  Stands([us EXCEPT ![x] = n + 1], [v EXCEPT ![x] = w], n + 1, hi, lo)
<1> DEFINE us2 == [us EXCEPT ![x] = n + 1]
           v2 == [v EXCEPT ![x] = w]
<1>1. n \in Int /\ n + 1 \in User /\ hi[n + 1] \in Int /\ lo[n + 1] \in Int
    BY UserRange
<1>2. us \in [1 .. Proc -> User] /\ v \in [1 .. Proc -> Int]
    BY DEF Stands
<1>3. us2 \in [1 .. Proc -> User] /\ v2 \in [1 .. Proc -> Int]
    BY <1>1, <1>2
<1>4. \A a \in 1 .. Proc : /\ us2[a] = IF a = x THEN n + 1 ELSE us[a]
                           /\ v2[a] = IF a = x THEN w ELSE v[a]
    BY <1>2
<1> HIDE DEF us2, v2
<1>5. ASSUME NEW a \in 1 .. Proc
      PROVE  /\ us[a] \in User /\ us[a] \in Int /\ v[a] \in Int /\ us[a] <= n
             /\ us[a] # n + 1 /\ hi[us[a]] \in Int /\ lo[us[a]] \in Int
             /\ lo[us[a]] <= v[a] /\ v[a] <= hi[us[a]] /\ v[x] <= v[a]
  <2>1. us[a] \in User /\ v[a] \in Int
      BY <1>2
  <2>2. us[a] \in Int /\ hi[us[a]] \in Int /\ lo[us[a]] \in Int
      BY <2>1, UserRange
  <2>3. us[a] <= n /\ lo[us[a]] <= v[a] /\ v[a] <= hi[us[a]] /\ v[x] <= v[a]
      BY DEF Stands
  <2> QED BY <1>1, <2>1, <2>2, <2>3
<1>6. \A a, b \in 1 .. Proc : us2[a] = us2[b] => a = b
  <2>1. \A a, b \in 1 .. Proc : us[a] = us[b] => a = b
      BY DEF Stands
  <2> QED BY <1>4, <1>5, <2>1
<1>7. \A a \in 1 .. Proc : us2[a] <= n + 1 /\ lo[us2[a]] <= v2[a] /\ v2[a] <= hi[us2[a]]
    BY <1>1, <1>4, <1>5
<1>8. \A a \in 1 .. Proc : hi[us2[a]] >= v[x] /\ hi[us2[a]] \in Int
    BY <1>1, <1>4, <1>5
<1>9. ASSUME NEW u \in User, u <= n + 1, \A a \in 1 .. Proc : us2[a] # u
      PROVE  /\ Outdone(u, hi, lo)
             /\ hi = lo => \A a \in 1 .. Proc : hi[u] <= hi[us2[a]]
  <2>1. u \in Int /\ u <= n /\ hi[u] \in Int /\ lo[u] \in Int
    <3>1. u # n + 1
        BY <1>4, <1>9
    <3> QED BY <1>1, <1>9, <3>1, UserRange
  <2>2. CASE u = us[x]
    <3>1. lo[u] <= v[x] /\ v[x] \in Int
        BY <1>5, <2>2
    <3>2. \A a \in 1 .. Proc : hi[us2[a]] >= lo[u]
        BY <1>8, <2>1, <3>1
    <3>3. Outdone(u, hi, lo)
        BY <1>3, <1>6, <1>9, <3>2, ArrayOutdoes
    <3> QED BY <3>2, <3>3, <2>1, <1>8
  <2>3. CASE u # us[x]
    <3>1. \A a \in 1 .. Proc : us[a] # u
        BY <1>4, <1>9, <2>3
    <3>2. /\ Outdone(u, hi, lo)
          /\ hi = lo => \A a \in 1 .. Proc : hi[u] <= hi[us[a]]
        BY <2>1, <3>1 DEF Stands
    <3>3. ASSUME hi = lo, NEW a \in 1 .. Proc PROVE hi[u] <= hi[us2[a]]
      <4>1. hi[u] <= hi[us[x]] /\ hi[u] <= hi[us[a]] /\ hi[us[x]] = v[x]
          BY <1>5, <3>2, <3>3
      <4> QED BY <1>1, <1>4, <1>5, <2>1, <4>1
    <3> QED BY <3>2, <3>3
  <2> QED BY <2>2, <2>3
<1>10. Stands(us2, v2, n + 1, hi, lo)
    BY <1>3, <1>6, <1>7, <1>9 DEF Stands
<1> QED BY <1>10 DEF us2, v2

\* A budget written during the pass widens the bounds.
LEMMA StandsWidened ==
    ASSUME NEW hi \in [User -> Int], NEW lo \in [User -> Int],
           NEW hi2 \in [User -> Int], NEW lo2 \in [User -> Int],
           \A k \in User : lo[k] <= hi[k] /\ hi[k] <= hi2[k] /\ lo2[k] <= lo[k],
           NEW us, NEW v, NEW n, Stands(us, v, n, hi, lo)
    PROVE  Stands(us, v, n, hi2, lo2)
<1>1. us \in [1 .. Proc -> User] /\ v \in [1 .. Proc -> Int]
    BY DEF Stands
<1>2. ASSUME NEW a \in 1 .. Proc
      PROVE  us[a] <= n /\ lo2[us[a]] <= v[a] /\ v[a] <= hi2[us[a]]
  <2>1. us[a] \in User /\ v[a] \in Int
      BY <1>1
  <2>2. us[a] <= n /\ lo[us[a]] <= v[a] /\ v[a] <= hi[us[a]]
      BY DEF Stands
  <2>3. /\ hi[us[a]] \in Int /\ lo[us[a]] \in Int
        /\ hi2[us[a]] \in Int /\ lo2[us[a]] \in Int
        /\ hi[us[a]] <= hi2[us[a]] /\ lo2[us[a]] <= lo[us[a]]
      BY <2>1
  <2> QED BY <2>1, <2>2, <2>3
<1>3. hi2 = lo2 => hi = lo /\ hi2 = hi
  <2> SUFFICES ASSUME hi2 = lo2, NEW k \in User PROVE hi[k] = lo[k] /\ hi2[k] = hi[k]
      OBVIOUS
  <2>1. /\ hi2[k] = lo2[k] /\ lo[k] <= hi[k] /\ hi[k] <= hi2[k] /\ lo2[k] <= lo[k]
        /\ hi[k] \in Int /\ lo[k] \in Int /\ hi2[k] \in Int /\ lo2[k] \in Int
      OBVIOUS
  <2> QED BY ONLY <2>1
<1>4. ASSUME NEW u \in User, u <= n, \A a \in 1 .. Proc : us[a] # u
      PROVE  /\ Outdone(u, hi2, lo2)
             /\ hi2 = lo2 => \A a \in 1 .. Proc : hi2[u] <= hi2[us[a]]
  <2>1. /\ Outdone(u, hi, lo)
        /\ hi = lo => \A a \in 1 .. Proc : hi[u] <= hi[us[a]]
      BY <1>4 DEF Stands
  <2>2. Outdone(u, hi2, lo2)
      BY <2>1, StaysOutdone
  <2> QED BY <1>3, <2>1, <2>2
<1>5. \A a, b \in 1 .. Proc : us[a] = us[b] => a = b
    BY DEF Stands
<1> QED BY <1>1, <1>2, <1>4, <1>5 DEF Stands

-----------------------------------------------------------------------------
\* The loop of get_min_idx_from_arr finds the first of the lowest values.
LEMMA FirstLowest ==
    ASSUME NEW v \in [1 .. Proc -> Int]
    PROVE  \E x \in 1 .. Proc :
              \A a \in 1 .. Proc : v[x] <= v[a] /\ (v[x] = v[a] => x <= a)
<1> DEFINE Low(p) == \E x \in 1 .. p :
                        \A a \in 1 .. p : v[x] <= v[a] /\ (v[x] = v[a] => x <= a)
           Bad == {p \in 1 .. Proc : ~ Low(p)}
<1>1. Proc \in Nat \ {0}
    BY SummaryAssumption
<1>2. Low(1)
    BY <1>1
<1>3. ASSUME NEW p \in 2 .. Proc, Low(p - 1) PROVE Low(p)
  <2>1. PICK x \in 1 .. p - 1 :
            \A a \in 1 .. p - 1 : v[x] <= v[a] /\ (v[x] = v[a] => x <= a)
      BY <1>3
  <2>2. /\ \A a \in 1 .. p : a \in 1 .. p - 1 \/ a = p
        /\ p \in 1 .. p /\ x \in 1 .. p /\ x < p
        /\ \A a \in 1 .. p : v[a] \in Int
      BY <1>1
  <2>3. CASE v[p] < v[x]
    <3>1. \A a \in 1 .. p : v[p] <= v[a] /\ (v[p] = v[a] => p <= a)
        BY <2>1, <2>2, <2>3
    <3> QED BY <2>2, <3>1
  <2>4. CASE ~(v[p] < v[x])
    <3>1. \A a \in 1 .. p : v[x] <= v[a] /\ (v[x] = v[a] => x <= a)
        BY <2>1, <2>2, <2>4
    <3> QED BY <2>2, <3>1
  <2> QED BY <2>3, <2>4
<1>4. Bad = {}
  <2> SUFFICES ASSUME Bad # {} PROVE FALSE
    OBVIOUS
  <2>1. PICK p \in Bad : \A y \in Bad : p <= y
    <3>1. Bad \subseteq Nat
        OBVIOUS
    <3> HIDE DEF Bad
    <3> QED BY <3>1, MinOfNats
  <2>2. p \in 1 .. Proc /\ ~ Low(p)
      BY <2>1
  <2>3. p # 1
    <3> HIDE DEF Low
    <3> QED BY <1>2, <2>2
  <2>4. p \in 2 .. Proc /\ p - 1 \in 1 .. Proc /\ ~(p <= p - 1)
      BY <1>1, <2>2, <2>3
  <2>5. Low(p - 1)
    <3> HIDE DEF Low
    <3> QED BY <2>1, <2>4
  <2> HIDE DEF Low, Bad
  <2> QED BY <1>3, <2>2, <2>4, <2>5
<1>5. Proc \in 1 .. Proc
    BY <1>1
<1> QED
  <2>1. Low(Proc)
    <3> HIDE DEF Low
    <3> QED BY <1>4, <1>5
  <2> QED BY <2>1

\* The two searches find a place of the array.
LEMMA IdxFound ==
    ASSUME NEW a, \A i \in 1 .. Proc : a[i].budget \in Int
    PROVE  /\ MinIdx(a) \in 1 .. Proc
           /\ \A i \in 1 .. Proc : a[MinIdx(a)].budget <= a[i].budget
           /\ MaxIdx(a) \in 1 .. Proc
           /\ \A i \in 1 .. Proc : a[MaxIdx(a)].budget >= a[i].budget
<1>1. \E x \in 1 .. Proc :
         \A i \in 1 .. Proc :
            a[x].budget <= a[i].budget /\ (a[x].budget = a[i].budget => x <= i)
  <2> DEFINE v == [i \in 1 .. Proc |-> a[i].budget]
  <2>1. v \in [1 .. Proc -> Int]
      OBVIOUS
  <2> HIDE DEF v
  <2>2. PICK x \in 1 .. Proc :
            \A i \in 1 .. Proc : v[x] <= v[i] /\ (v[x] = v[i] => x <= i)
      BY <2>1, FirstLowest
  <2> QED BY <2>2 DEF v
<1>2. \E y \in 1 .. Proc :
         \A i \in 1 .. Proc :
            a[y].budget >= a[i].budget /\ (a[y].budget = a[i].budget => y <= i)
  <2> DEFINE v == [i \in 1 .. Proc |-> - a[i].budget]
  <2>1. v \in [1 .. Proc -> Int]
      OBVIOUS
  <2> HIDE DEF v
  <2>2. PICK x \in 1 .. Proc :
            \A i \in 1 .. Proc : v[x] <= v[i] /\ (v[x] = v[i] => x <= i)
      BY <2>1, FirstLowest
  <2>3. \A i \in 1 .. Proc :
            a[x].budget >= a[i].budget /\ (a[x].budget = a[i].budget => x <= i)
    <3> SUFFICES ASSUME NEW i \in 1 .. Proc
                 PROVE  a[x].budget >= a[i].budget /\ (a[x].budget = a[i].budget => x <= i)
        OBVIOUS
    <3>1. v[x] = - a[x].budget /\ v[i] = - a[i].budget
        BY DEF v
    <3> QED BY <2>2, <3>1
  <2> QED BY <2>3
<1> QED BY <1>1, <1>2 DEF MinIdx, MaxIdx

-----------------------------------------------------------------------------
\* The users of an array of copies, and their copied budgets.
UsersOf(a) == [i \in 1 .. Proc |-> a[i].user]

BudgetsOf(a) == [i \in 1 .. Proc |-> a[i].budget]

Minus(f) == [x \in DOMAIN f |-> -f[x]]

Copies == [1 .. Proc -> [user : Nat, budget : Int]]

\* The array of the highest, and that of the lowest, after the first n users.
High(a, n, hi, lo) == Stands(UsersOf(a), BudgetsOf(a), n, hi, lo)

Low(a, n, hi, lo) ==
    Stands(UsersOf(a), Minus(BudgetsOf(a)), n, Minus(lo), Minus(hi))

\* Opposite budgets.
LEMMA MinusType ==
    ASSUME NEW S, NEW f \in [S -> Int]
    PROVE  Minus(f) \in [S -> Int] /\ \A x \in S : Minus(f)[x] = -f[x]
    BY DEF Minus

LEMMA BudgetsType ==
    ASSUME NEW a \in Copies
    PROVE  /\ BudgetsOf(a) \in [1 .. Proc -> Int]
           /\ \A i \in 1 .. Proc : a[i].budget \in Int /\ BudgetsOf(a)[i] = a[i].budget
    BY DEF BudgetsOf, Copies

Copy == [user : Nat, budget : Int]

\* A copy replaces one place of the array.
LEMMA CopyViews ==
    ASSUME NEW a \in Copies, NEW x \in 1 .. Proc, NEW e \in Copy,
           NEW c \in Copies,
           \A i \in 1 .. Proc : c[i] = IF i = x THEN e ELSE a[i]
    PROVE  /\ UsersOf(c) = [UsersOf(a) EXCEPT ![x] = e.user]
           /\ BudgetsOf(c) = [BudgetsOf(a) EXCEPT ![x] = e.budget]
           /\ Minus(BudgetsOf(c)) = [Minus(BudgetsOf(a)) EXCEPT ![x] = -e.budget]
<1>3. \A i \in 1 .. Proc : /\ c[i].user = IF i = x THEN e.user ELSE a[i].user
                           /\ c[i].budget = IF i = x THEN e.budget ELSE a[i].budget
    OBVIOUS
<1>4. UsersOf(c) = [UsersOf(a) EXCEPT ![x] = e.user]
    BY <1>3 DEF UsersOf
<1>5. BudgetsOf(c) = [BudgetsOf(a) EXCEPT ![x] = e.budget]
    BY <1>3 DEF BudgetsOf
<1>6. Minus(BudgetsOf(c)) = [Minus(BudgetsOf(a)) EXCEPT ![x] = -e.budget]
  <2>1. /\ BudgetsOf(a) \in [1 .. Proc -> Int]
        /\ BudgetsOf(c) \in [1 .. Proc -> Int]
      BY BudgetsType
  <2> QED BY <1>5, <2>1 DEF Minus
<1> QED BY <1>4, <1>5, <1>6

\* One user of the pass and the array of the highest.
LEMMA HighStep ==
    ASSUME NEW a \in Copies, NEW u \in User, NEW e \in Copy, e.user = u,
           NEW hi \in [User -> Int], NEW lo \in [User -> Int],
           High(a, u - 1, hi, lo), lo[u] <= hi[u]
    PROVE  /\ MinIdx(a) \in 1 .. Proc
           /\ lo[u] <= a[MinIdx(a)].budget => High(a, u, hi, lo)
           /\ (hi[u] > a[MinIdx(a)].budget /\ lo[u] <= e.budget /\ e.budget <= hi[u]) =>
                 High([a EXCEPT ![MinIdx(a)] = e], u, hi, lo)
<1> DEFINE x == MinIdx(a)
<1>1. /\ x \in 1 .. Proc
      /\ \A i \in 1 .. Proc : a[x].budget <= a[i].budget
    BY BudgetsType, IdxFound
<1> HIDE DEF x
<1>2. /\ u - 1 \in 0 .. Count - 1 /\ (u - 1) + 1 = u /\ u \in Nat
      /\ hi[u] \in Int /\ lo[u] \in Int /\ e.budget \in Int
    BY UserRange DEF Copy
<1>3. \A i \in 1 .. Proc : a[i].budget \in Int /\ BudgetsOf(a)[i] = a[i].budget
    BY BudgetsType
<1>4. ASSUME lo[u] <= a[x].budget PROVE High(a, u, hi, lo)
  <2>1. \A i \in 1 .. Proc : lo[u] <= BudgetsOf(a)[i]
      BY <1>1, <1>2, <1>3, <1>4
  <2>2. Stands(UsersOf(a), BudgetsOf(a), u - 1, hi, lo)
      BY DEF High
  <2>3. Stands(UsersOf(a), BudgetsOf(a), (u - 1) + 1, hi, lo)
      BY <1>2, <2>1, <2>2, StandsKept
  <2> QED BY <1>2, <2>3 DEF High
<1>5. ASSUME hi[u] > a[x].budget, lo[u] <= e.budget, e.budget <= hi[u]
      PROVE  High([a EXCEPT ![x] = e], u, hi, lo)
  <2>1. \A i \in 1 .. Proc : BudgetsOf(a)[x] <= BudgetsOf(a)[i]
      BY <1>1, <1>3
  <2>2. Stands(UsersOf(a), BudgetsOf(a), u - 1, hi, lo)
      BY DEF High
  <2>3. Stands([UsersOf(a) EXCEPT ![x] = (u - 1) + 1], [BudgetsOf(a) EXCEPT ![x] = e.budget],
               (u - 1) + 1, hi, lo)
      BY <1>1, <1>2, <1>3, <1>5, <2>1, <2>2, StandsReplaced
  <2> DEFINE c == [a EXCEPT ![x] = e]
  <2>4. c = [a EXCEPT ![x] = e]
      OBVIOUS
  <2> HIDE DEF c
  <2>5. UsersOf(c) = [UsersOf(a) EXCEPT ![x] = u] /\ BudgetsOf(c) = [BudgetsOf(a) EXCEPT ![x] = e.budget]
    <3>1. /\ UsersOf(c) = [UsersOf(a) EXCEPT ![x] = e.user]
          /\ BudgetsOf(c) = [BudgetsOf(a) EXCEPT ![x] = e.budget]
      <4>1. c \in Copies /\ \A i \in 1 .. Proc : c[i] = IF i = x THEN e ELSE a[i]
          BY <1>1, <2>4 DEF Copies, Copy
      <4> QED BY <1>1, <4>1, CopyViews
    <3> QED BY <3>1
  <2>6. High(c, u, hi, lo)
      BY <1>2, <2>3, <2>5 DEF High
  <2> QED BY <2>4, <2>6
<1> QED BY <1>1, <1>4, <1>5 DEF x

\* One user of the pass and the array of the lowest.
LEMMA LowStep ==
    ASSUME NEW a \in Copies, NEW u \in User, NEW e \in Copy, e.user = u,
           NEW hi \in [User -> Int], NEW lo \in [User -> Int],
           Low(a, u - 1, hi, lo), lo[u] <= hi[u]
    PROVE  /\ MaxIdx(a) \in 1 .. Proc
           /\ hi[u] >= a[MaxIdx(a)].budget => Low(a, u, hi, lo)
           /\ (lo[u] < a[MaxIdx(a)].budget /\ lo[u] <= e.budget /\ e.budget <= hi[u]) =>
                 Low([a EXCEPT ![MaxIdx(a)] = e], u, hi, lo)
<1> DEFINE y == MaxIdx(a)
           v == Minus(BudgetsOf(a))
           mhi == Minus(lo)
           mlo == Minus(hi)
<1>1. /\ y \in 1 .. Proc
      /\ \A i \in 1 .. Proc : a[y].budget >= a[i].budget
    BY BudgetsType, IdxFound
<1>2. /\ u - 1 \in 0 .. Count - 1 /\ (u - 1) + 1 = u /\ u \in Nat
      /\ hi[u] \in Int /\ lo[u] \in Int /\ e.budget \in Int
    BY UserRange DEF Copy
<1>3. \A i \in 1 .. Proc : a[i].budget \in Int /\ v[i] = -a[i].budget
  <2>1. /\ BudgetsOf(a) \in [1 .. Proc -> Int]
        /\ \A i \in 1 .. Proc : a[i].budget \in Int /\ BudgetsOf(a)[i] = a[i].budget
      BY BudgetsType
  <2>2. \A i \in 1 .. Proc : v[i] = -BudgetsOf(a)[i]
      BY <2>1, MinusType
  <2> QED BY <2>1, <2>2
<1>4. /\ mhi \in [User -> Int] /\ mlo \in [User -> Int]
      /\ mhi[u] = -lo[u] /\ mlo[u] = -hi[u]
    BY MinusType
<1>5. Stands(UsersOf(a), v, u - 1, mhi, mlo)
    BY DEF Low
<1> HIDE DEF y, v, mhi, mlo
<1>6. ASSUME hi[u] >= a[y].budget PROVE Stands(UsersOf(a), v, u, mhi, mlo)
  <2>1. \A i \in 1 .. Proc : mlo[u] <= v[i]
      BY <1>1, <1>2, <1>3, <1>4, <1>6
  <2>2. Stands(UsersOf(a), v, (u - 1) + 1, mhi, mlo)
      BY <1>2, <1>4, <1>5, <2>1, StandsKept
  <2> QED BY <1>2, <2>2
<1>7. ASSUME lo[u] < a[y].budget, lo[u] <= e.budget, e.budget <= hi[u]
      PROVE  Stands([UsersOf(a) EXCEPT ![y] = u], [v EXCEPT ![y] = -e.budget], u, mhi, mlo)
  <2>1. \A i \in 1 .. Proc : v[y] <= v[i]
      BY <1>1, <1>3
  <2>2. mhi[u] > v[y] /\ mlo[u] <= -e.budget /\ -e.budget <= mhi[u] /\ -e.budget \in Int
      BY <1>1, <1>2, <1>3, <1>4, <1>7
  <2>3. Stands([UsersOf(a) EXCEPT ![y] = (u - 1) + 1], [v EXCEPT ![y] = -e.budget],
               (u - 1) + 1, mhi, mlo)
      BY <1>1, <1>2, <1>4, <1>5, <2>1, <2>2, StandsReplaced
  <2> QED BY <1>2, <2>3
<1>8. ASSUME lo[u] < a[y].budget, lo[u] <= e.budget, e.budget <= hi[u]
      PROVE  Low([a EXCEPT ![y] = e], u, hi, lo)
  <2> DEFINE c == [a EXCEPT ![y] = e]
  <2>1. c = [a EXCEPT ![y] = e]
      OBVIOUS
  <2> HIDE DEF c
  <2>2. UsersOf(c) = [UsersOf(a) EXCEPT ![y] = u] /\ Minus(BudgetsOf(c)) = [v EXCEPT ![y] = -e.budget]
    <3>1. /\ UsersOf(c) = [UsersOf(a) EXCEPT ![y] = e.user]
          /\ Minus(BudgetsOf(c)) = [Minus(BudgetsOf(a)) EXCEPT ![y] = -e.budget]
      <4>1. c \in Copies /\ \A i \in 1 .. Proc : c[i] = IF i = y THEN e ELSE a[i]
          BY <1>1, <2>1 DEF Copies, Copy
      <4> QED BY <1>1, <4>1, CopyViews
    <3> QED BY <3>1 DEF v
  <2>3. Low(c, u, hi, lo)
      BY <1>7, <1>8, <2>2 DEF Low, mhi, mlo
  <2> QED BY <2>1, <2>3
<1> QED BY <1>1, <1>6, <1>8 DEF Low, y, v, mhi, mlo

\* The two arrays after the first Proc users.
LEMMA BothFilled ==
    ASSUME NEW a \in Copies, NEW hi \in [User -> Int], NEW lo \in [User -> Int],
           \A i \in 1 .. Proc : /\ a[i].user = i
                                /\ lo[i] <= a[i].budget /\ a[i].budget <= hi[i]
    PROVE  High(a, Proc, hi, lo) /\ Low(a, Proc, hi, lo)
<1> DEFINE us == UsersOf(a)
           v == BudgetsOf(a)
           mv == Minus(v)
           mhi == Minus(lo)
           mlo == Minus(hi)
<1>1. us = [i \in 1 .. Proc |-> i]
    BY DEF UsersOf
<1>2. /\ v \in [1 .. Proc -> Int]
      /\ \A i \in 1 .. Proc : lo[i] <= v[i] /\ v[i] <= hi[i]
    BY BudgetsType
<1>3. /\ mv \in [1 .. Proc -> Int] /\ mhi \in [User -> Int] /\ mlo \in [User -> Int]
      /\ \A i \in 1 .. Proc : mv[i] = -v[i]
      /\ \A i \in User : mhi[i] = -lo[i] /\ mlo[i] = -hi[i]
  <2>1. mv \in [1 .. Proc -> Int] /\ \A i \in 1 .. Proc : mv[i] = -v[i]
    <3> HIDE DEF v
    <3> QED BY <1>2, MinusType
  <2>2. /\ mhi \in [User -> Int] /\ mlo \in [User -> Int]
        /\ \A i \in User : mhi[i] = -lo[i] /\ mlo[i] = -hi[i]
    BY MinusType
  <2> QED BY <2>1, <2>2
<1> HIDE DEF us, v, mv, mhi, mlo
<1>4. ASSUME NEW i \in 1 .. Proc PROVE mlo[i] <= mv[i] /\ mv[i] <= mhi[i]
  <2>1. i \in User /\ v[i] \in Int
      BY <1>2, UserRange
  <2>2. hi[i] \in Int /\ lo[i] \in Int
      BY <2>1
  <2> QED BY <1>2, <1>3, <2>1, <2>2
<1>5. Stands(us, v, Proc, hi, lo)
    BY <1>1, <1>2, StandsFilled
<1>6. Stands(us, mv, Proc, mhi, mlo)
    BY <1>1, <1>3, <1>4, StandsFilled
<1> QED BY <1>5, <1>6 DEF High, Low, us, v, mv, mhi, mlo

\* Budgets written during the pass widen the bounds of both arrays.
LEMMA BothWidened ==
    ASSUME NEW hi \in [User -> Int], NEW lo \in [User -> Int],
           NEW hi2 \in [User -> Int], NEW lo2 \in [User -> Int],
           \A k \in User : lo[k] <= hi[k] /\ hi[k] <= hi2[k] /\ lo2[k] <= lo[k],
           NEW a, NEW n
    PROVE  /\ High(a, n, hi, lo) => High(a, n, hi2, lo2)
           /\ Low(a, n, hi, lo) => Low(a, n, hi2, lo2)
<1>1. High(a, n, hi, lo) => High(a, n, hi2, lo2)
    BY StandsWidened DEF High
<1> DEFINE m == Minus(hi)
           l == Minus(lo)
           m2 == Minus(hi2)
           l2 == Minus(lo2)
<1>2. /\ m \in [User -> Int] /\ l \in [User -> Int]
      /\ m2 \in [User -> Int] /\ l2 \in [User -> Int]
      /\ \A k \in User : m[k] = -hi[k] /\ l[k] = -lo[k] /\ m2[k] = -hi2[k] /\ l2[k] = -lo2[k]
    BY MinusType
<1> HIDE DEF m, l, m2, l2
<1>3. \A k \in User : m[k] <= l[k] /\ l[k] <= l2[k] /\ m2[k] <= m[k]
  <2> SUFFICES ASSUME NEW k \in User PROVE m[k] <= l[k] /\ l[k] <= l2[k] /\ m2[k] <= m[k]
      OBVIOUS
  <2>1. hi[k] \in Int /\ lo[k] \in Int /\ hi2[k] \in Int /\ lo2[k] \in Int
      OBVIOUS
  <2> QED BY <1>2, <2>1
<1>4. ASSUME NEW us, NEW v, Stands(us, v, n, l, m) PROVE Stands(us, v, n, l2, m2)
    BY <1>2, <1>3, <1>4, StandsWidened
<1> QED BY <1>1, <1>4 DEF Low, m, l, m2, l2

-----------------------------------------------------------------------------
STypes ==
    /\ budget \in [User -> Int]
    /\ max \in Copies /\ min \in Copies
    /\ j \in 0 .. Count + 1
    /\ rpc \in {"max", "copyMax", "min", "copyMin"}
    /\ tops \in [User -> Int] /\ bottoms \in [User -> Int]

Bounds ==
    \A u \in User :
        /\ bottoms[u] <= tops[u]
        /\ mpc = "read" => bottoms[u] <= budget[u] /\ budget[u] <= tops[u]

\* The users that were copied into both arrays.
Filling ==
    j \in 1 .. Proc =>
        /\ rpc = "max"
        /\ \A i \in 1 .. Proc : i < j =>
              /\ max[i].user = i /\ min[i] = max[i]
              /\ bottoms[i] <= max[i].budget /\ max[i].budget <= tops[i]

\* The users tried in max: those before j, and j itself once it was.
Tried == IF rpc \in {"min", "copyMin"} THEN j ELSE j - 1

Passing ==
    j > Proc =>
        /\ rpc # "max" => j <= Count
        /\ High(max, Tried, tops, bottoms)
        /\ Low(min, j - 1, tops, bottoms)
        /\ rpc = "copyMax" => tops[j] > max[MinIdx(max)].budget
        /\ rpc = "copyMin" => bottoms[j] < min[MaxIdx(min)].budget

SInv == STypes /\ Bounds /\ Filling /\ Passing

\* The loop starts with both arrays empty.
LEMMA PassStarts ==
    ASSUME STypes, StartPass PROVE SInv'
<1>1. Proc \in Nat \ {0} /\ Count \in Nat
    BY UserRange
<1>2. NoArray \in Copies
    BY DEF NoArray, Unset, Copies
<1>3. STypes'
    BY <1>1, <1>2 DEF STypes, StartPass
<1>4. Bounds'
    BY DEF STypes, StartPass, Bounds
<1>5. j' = 1 /\ rpc' = "max"
    BY DEF StartPass
<1>6. Filling' /\ Passing'
    BY <1>1, <1>5 DEF Filling, Passing
<1> QED BY <1>3, <1>4, <1>6 DEF SInv

\* The arrays are freed.
LEMMA PassEnds ==
    ASSUME STypes, FreeArrays, mpc' # "read" PROVE SInv'
<1>1. Proc \in Nat \ {0} /\ Count \in Nat
    BY UserRange
<1>2. NoArray \in Copies
    BY DEF NoArray, Unset, Copies
<1>3. STypes'
    BY <1>1, <1>2 DEF STypes, FreeArrays
<1>4. Bounds'
    BY DEF STypes, FreeArrays, Bounds
<1>5. j' = 0 /\ rpc' = "max"
    BY DEF FreeArrays
<1>6. Filling' /\ Passing'
    BY <1>1, <1>5 DEF Filling, Passing
<1> QED BY <1>3, <1>4, <1>6 DEF SInv

\* A step of the master that is not part of the pass.
LEMMA PassWaits ==
    ASSUME SInv, UNCHANGED <<budget, passVars, historyVars>>,
           mpc' = "read" => mpc = "read"
    PROVE  SInv'
<1> USE DEF passVars, historyVars
<1>1. STypes'
    BY DEF SInv, STypes
<1>2. Bounds'
    BY DEF SInv, Bounds
<1>3. Filling'
    BY DEF SInv, Filling
<1>4. Passing'
    BY DEF SInv, Passing, Tried, High, Low, MinIdx, MaxIdx
<1> QED BY <1>1, <1>2, <1>3, <1>4 DEF SInv

\* user_info[j] as the master reads it.
LEMMA HereIs ==
    ASSUME SInv, mpc = "read", j \in 1 .. Count
    PROVE  /\ j \in User /\ Here \in Copy /\ Here.user = j
           /\ bottoms[j] <= Here.budget /\ Here.budget <= tops[j]
           /\ Here.budget = budget[j] /\ budget[j] \in Int
           /\ bottoms[j] \in Int /\ tops[j] \in Int /\ bottoms[j] <= tops[j]
<1>1. j \in User /\ j \in Nat
    BY UserRange DEF User
<1>2. /\ budget[j] \in Int /\ bottoms[j] \in Int /\ tops[j] \in Int
      /\ bottoms[j] <= tops[j] /\ bottoms[j] <= budget[j] /\ budget[j] <= tops[j]
    BY <1>1 DEF SInv, STypes, Bounds
<1> QED BY <1>1, <1>2 DEF Here, Copy

LEMMA FillSInv ==
    ASSUME SInv, Fill, UNCHANGED vars PROVE SInv'
<1>1. /\ mpc = "read" /\ j \in 1 .. Proc /\ rpc' = rpc /\ j' = j + 1
      /\ max' = [max EXCEPT ![j] = Here] /\ min' = [min EXCEPT ![j] = Here]
      /\ UNCHANGED <<budget, tops, bottoms, mpc>>
    BY DEF Fill, historyVars, vars, masterVars
<1>2. Proc \in Nat \ {0} /\ Count \in Nat /\ Proc < Count
    BY SummaryAssumption
<1>3. /\ j \in User /\ Here \in Copy /\ Here.user = j
      /\ bottoms[j] <= Here.budget /\ Here.budget <= tops[j]
    BY <1>1, <1>2, HereIs
<1>4. max \in Copies /\ min \in Copies /\ rpc = "max"
    BY <1>1 DEF SInv, STypes, Filling
<1>5. /\ max' \in Copies /\ min' \in Copies
      /\ \A i \in 1 .. Proc : /\ max'[i] = IF i = j THEN Here ELSE max[i]
                              /\ min'[i] = IF i = j THEN Here ELSE min[i]
    BY <1>1, <1>3, <1>4 DEF Copies, Copy
<1>6. STypes'
    BY <1>1, <1>2, <1>4, <1>5 DEF SInv, STypes
<1>7. Bounds'
    BY <1>1 DEF SInv, Bounds
<1>8. ASSUME NEW i \in 1 .. Proc, i < j'
      PROVE  /\ max'[i].user = i /\ min'[i] = max'[i]
             /\ bottoms[i] <= max'[i].budget /\ max'[i].budget <= tops[i]
  <2>1. CASE i = j
      BY <1>3, <1>5, <2>1
  <2>2. CASE i # j
    <3>1. i < j
        BY <1>1, <1>8, <2>2
    <3>2. max'[i] = max[i] /\ min'[i] = min[i]
        BY <1>5, <2>2
    <3> QED BY <1>1, <3>1, <3>2 DEF SInv, Filling
  <2> QED BY <2>1, <2>2
<1>9. Filling'
    BY <1>1, <1>4, <1>8 DEF Filling
<1>10. Passing'
  <2> SUFFICES ASSUME j' > Proc PROVE Passing'
      BY DEF Passing
  <2>1. j' = Proc + 1 /\ j' - 1 = Proc
      BY <1>1, <1>2
  <2>2. \A i \in 1 .. Proc : i < j'
      BY <2>1, <1>2
  <2>3. max' = min'
    <3>1. \A i \in 1 .. Proc : min'[i] = max'[i]
        BY <1>8, <2>2
    <3>2. max' \in Copies /\ min' \in Copies
        BY <1>5
    <3>3. max' = [i \in 1 .. Proc |-> max'[i]] /\ min' = [i \in 1 .. Proc |-> min'[i]]
        BY <3>2 DEF Copies
    <3>4. [i \in 1 .. Proc |-> max'[i]] = [i \in 1 .. Proc |-> min'[i]]
        BY <3>1
    <3> QED BY <3>3, <3>4
  <2>4. /\ High(max', Proc, tops, bottoms) /\ Low(max', Proc, tops, bottoms)
    <3>1. tops \in [User -> Int] /\ bottoms \in [User -> Int]
        BY DEF SInv, STypes
    <3> QED BY <1>5, <1>8, <2>2, <3>1, BothFilled
  <2>5. rpc' = "max" /\ Tried' = Proc /\ tops' = tops /\ bottoms' = bottoms
      BY <1>1, <1>4, <2>1 DEF Tried
  <2> QED BY <2>1, <2>3, <2>4, <2>5 DEF Passing
<1> QED BY <1>6, <1>7, <1>9, <1>10 DEF SInv

\* A test that leaves the array as it is, a test that announces a copy, a copy.
LEMMA PassSInv ==
    ASSUME SInv, TestMax \/ CopyMax \/ TestMin \/ CopyMin, UNCHANGED vars
    PROVE  SInv'
<1> DEFINE x == MinIdx(max)
           y == MaxIdx(min)
<1>1. /\ mpc = "read" /\ j > Proc /\ j \in 1 .. Count
      /\ ~(j \in 1 .. Proc)
      /\ UNCHANGED <<budget, tops, bottoms, mpc>>
    BY UserRange DEF SInv, STypes, TestMax, CopyMax, TestMin, CopyMin, At, historyVars, vars,
       masterVars
<1>2. /\ j \in User /\ Here \in Copy /\ Here.user = j
      /\ bottoms[j] <= Here.budget /\ Here.budget <= tops[j]
      /\ Here.budget = budget[j] /\ budget[j] \in Int
      /\ bottoms[j] \in Int /\ tops[j] \in Int /\ bottoms[j] <= tops[j]
    BY <1>1, HereIs
<1>3. /\ max \in Copies /\ min \in Copies
      /\ tops \in [User -> Int] /\ bottoms \in [User -> Int]
      /\ j \in Int /\ Proc \in Nat /\ Count \in Nat
    BY UserRange DEF SInv, STypes
<1>4. Bounds'
    BY <1>1 DEF SInv, Bounds
<1>5. /\ High(max, Tried, tops, bottoms) /\ Low(min, j - 1, tops, bottoms)
      /\ rpc = "copyMax" => tops[j] > max[x].budget
      /\ rpc = "copyMin" => bottoms[j] < min[y].budget
    BY <1>1 DEF SInv, Passing
<1>6. \A i \in 1 .. Proc : max[i].budget \in Int /\ min[i].budget \in Int
    BY <1>3, BudgetsType
<1>7. /\ y \in 1 .. Proc
      /\ tops[j] >= min[y].budget => Low(min, j, tops, bottoms)
      /\ bottoms[j] < min[y].budget =>
            Low([min EXCEPT ![y] = Here], j, tops, bottoms)
    BY <1>2, <1>3, <1>5, LowStep
<1>8. rpc \in {"max", "copyMax"} =>
      /\ x \in 1 .. Proc
      /\ bottoms[j] <= max[x].budget => High(max, j, tops, bottoms)
      /\ tops[j] > max[x].budget =>
            High([max EXCEPT ![x] = Here], j, tops, bottoms)
  <2>1. rpc \in {"max", "copyMax"} => High(max, j - 1, tops, bottoms)
      BY <1>5 DEF Tried
  <2> QED BY <1>2, <1>3, <2>1, HighStep
<1>9. CASE TestMax
  <2>1. /\ rpc = "max" /\ UNCHANGED <<max, min, j>>
        /\ rpc' = IF budget[j] > max[x].budget THEN "copyMax" ELSE "min"
      BY <1>9 DEF TestMax, At
  <2>2. x \in 1 .. Proc /\ max[x].budget \in Int
      BY <1>6, <1>8, <2>1
  <2>3. STypes'
      BY <1>1, <2>1 DEF SInv, STypes
  <2>4. Filling'
      BY <1>1, <2>1 DEF Filling
  <2>5. Low(min', j' - 1, tops', bottoms') /\ j' <= Count
      BY <1>1, <1>5, <2>1
  <2>6. CASE budget[j] > max[x].budget
    <3>1. rpc' = "copyMax" /\ Tried' = j - 1 /\ Tried = j - 1
        BY <2>1, <2>6 DEF Tried
    <3>2. High(max', Tried', tops', bottoms')
        BY <1>1, <1>5, <2>1, <3>1
    <3>3. tops'[j'] > max'[MinIdx(max')].budget
        BY <1>1, <1>2, <2>1, <2>2, <2>6
    <3>4. Passing'
        BY <2>5, <3>1, <3>2, <3>3 DEF Passing
    <3> QED BY <1>4, <2>3, <2>4, <3>4 DEF SInv
  <2>7. CASE ~(budget[j] > max[x].budget)
    <3>1. rpc' = "min" /\ Tried' = j
        BY <2>1, <2>7 DEF Tried
    <3>2. bottoms[j] <= max[x].budget
        BY <1>2, <2>2, <2>7
    <3>3. High(max', Tried', tops', bottoms')
        BY <1>1, <1>8, <2>1, <3>1, <3>2
    <3>4. Passing'
        BY <2>5, <3>1, <3>3 DEF Passing
    <3> QED BY <1>4, <2>3, <2>4, <3>4 DEF SInv
  <2> QED BY <2>6, <2>7
<1>10. CASE CopyMax
  <2>1. /\ rpc = "copyMax" /\ UNCHANGED <<min, j>> /\ rpc' = "min"
        /\ max' = [max EXCEPT ![x] = Here]
      BY <1>10 DEF CopyMax, At
  <2>2. max' \in Copies
      BY <1>2, <1>3, <1>8, <2>1 DEF Copies, Copy
  <2>3. STypes'
      BY <1>1, <2>1, <2>2 DEF SInv, STypes
  <2>4. Filling'
      BY <1>1, <2>1 DEF Filling
  <2>5. Tried' = j
      BY <2>1 DEF Tried
  <2>6. High(max', Tried', tops', bottoms')
      BY <1>1, <1>5, <1>8, <2>1, <2>5
  <2>7. Low(min', j' - 1, tops', bottoms') /\ j' <= Count
      BY <1>1, <1>5, <2>1
  <2>8. Passing'
      BY <2>1, <2>6, <2>7 DEF Passing
  <2> QED BY <1>4, <2>3, <2>4, <2>8 DEF SInv
<1>11. CASE TestMin
  <2>1. /\ rpc = "min" /\ UNCHANGED <<max, min>> /\ Tried = j
      BY <1>11 DEF TestMin, At, Tried
  <2>2. min[y].budget \in Int
      BY <1>6, <1>7
  <2>3. CASE budget[j] < min[y].budget
    <3>1. rpc' = "copyMin" /\ j' = j /\ Tried' = j
        BY <1>11, <2>3 DEF TestMin, Tried
    <3>2. STypes'
        BY <1>1, <2>1, <3>1 DEF SInv, STypes
    <3>3. Filling'
        BY <1>1, <3>1 DEF Filling
    <3>4. bottoms'[j'] < min'[MaxIdx(min')].budget
        BY <1>1, <1>2, <2>1, <2>2, <2>3, <3>1
    <3>5. /\ High(max', Tried', tops', bottoms') /\ Low(min', j' - 1, tops', bottoms')
          /\ j' <= Count
        BY <1>1, <1>5, <2>1, <3>1
    <3>6. Passing'
        BY <3>1, <3>4, <3>5 DEF Passing
    <3> QED BY <1>4, <3>2, <3>3, <3>6 DEF SInv
  <2>4. CASE ~(budget[j] < min[y].budget)
    <3>1. rpc' = "max" /\ j' = j + 1 /\ j' - 1 = j /\ Tried' = j
        BY <1>3, <1>11, <2>4 DEF TestMin, Tried
    <3>2. STypes'
        BY <1>1, <1>3, <2>1, <3>1 DEF SInv, STypes
    <3>3. Filling'
        BY <1>1, <1>3, <3>1 DEF Filling
    <3>4. tops[j] >= min[y].budget
        BY <1>2, <2>2, <2>4
    <3>5. High(max', Tried', tops', bottoms') /\ Low(min', j' - 1, tops', bottoms')
        BY <1>1, <1>5, <1>7, <2>1, <3>1, <3>4
    <3>6. Passing'
        BY <3>1, <3>5 DEF Passing
    <3> QED BY <1>4, <3>2, <3>3, <3>6 DEF SInv
  <2> QED BY <2>3, <2>4
<1>12. CASE CopyMin
  <2>1. /\ rpc = "copyMin" /\ UNCHANGED max /\ rpc' = "max" /\ j' = j + 1
        /\ min' = [min EXCEPT ![y] = Here] /\ Tried = j
      BY <1>12 DEF CopyMin, At, Tried
  <2>2. min' \in Copies
      BY <1>2, <1>3, <1>7, <2>1 DEF Copies, Copy
  <2>3. STypes'
      BY <1>1, <1>3, <2>1, <2>2 DEF SInv, STypes
  <2>4. Filling'
      BY <1>1, <1>3, <2>1 DEF Filling
  <2>5. j' - 1 = j /\ Tried' = j
      BY <1>3, <2>1 DEF Tried
  <2>6. High(max', Tried', tops', bottoms') /\ Low(min', j' - 1, tops', bottoms')
      BY <1>1, <1>5, <1>7, <2>1, <2>5
  <2>7. Passing'
      BY <2>1, <2>6 DEF Passing
  <2> QED BY <1>4, <2>3, <2>4, <2>7 DEF SInv
<1> QED BY <1>9, <1>10, <1>11, <1>12

\* A user writes while the master may be reading.
LEMMA WriteSInv ==
    ASSUME SInv, NEW w \in Writer, WriteBudget(w) PROVE SInv'
<1>1. mpc' = mpc /\ UNCHANGED <<max, min, j, rpc>>
    BY DEF WriteBudget, Write, masterVars, passVars
<1>2. CASE w \notin User
    BY <1>1, <1>2, PassWaits DEF WriteBudget, passVars
<1>3. CASE w \in User
  <2>1. PICK b \in Budget :
          /\ budget' = [budget EXCEPT ![w] = b]
          /\ tops' = IF mpc = "read" /\ b > tops[w] THEN [tops EXCEPT ![w] = b] ELSE tops
          /\ bottoms' = IF mpc = "read" /\ b < bottoms[w]
                          THEN [bottoms EXCEPT ![w] = b] ELSE bottoms
      BY <1>3 DEF WriteBudget
  <2>2. b \in Int
      BY SummaryAssumption
  <2>3. /\ budget \in [User -> Int] /\ tops \in [User -> Int] /\ bottoms \in [User -> Int]
      BY DEF SInv, STypes
  <2>4. /\ budget' \in [User -> Int] /\ tops' \in [User -> Int] /\ bottoms' \in [User -> Int]
      BY <1>3, <2>1, <2>2, <2>3
  <2>5. ASSUME NEW k \in User
        PROVE  /\ bottoms[k] <= tops[k] /\ tops[k] <= tops'[k] /\ bottoms'[k] <= bottoms[k]
               /\ mpc = "read" => bottoms'[k] <= budget'[k] /\ budget'[k] <= tops'[k]
    <3>1. /\ budget[k] \in Int /\ tops[k] \in Int /\ bottoms[k] \in Int
          /\ bottoms[k] <= tops[k]
          /\ mpc = "read" => bottoms[k] <= budget[k] /\ budget[k] <= tops[k]
        BY <2>3 DEF SInv, Bounds
    <3>2. /\ budget'[k] = IF k = w THEN b ELSE budget[k]
          /\ tops'[k] = IF mpc = "read" /\ b > tops[w] /\ k = w THEN b ELSE tops[k]
          /\ bottoms'[k] = IF mpc = "read" /\ b < bottoms[w] /\ k = w THEN b ELSE bottoms[k]
        BY <1>3, <2>1, <2>3
    <3> QED BY <2>2, <3>1, <3>2
  <2>6. STypes'
      BY <1>1, <2>4 DEF SInv, STypes
  <2>7. Bounds'
    <3> SUFFICES ASSUME NEW k \in User
                 PROVE  /\ bottoms'[k] <= tops'[k]
                        /\ mpc' = "read" => bottoms'[k] <= budget'[k] /\ budget'[k] <= tops'[k]
        BY DEF Bounds
    <3>1. /\ tops[k] \in Int /\ bottoms[k] \in Int /\ tops'[k] \in Int /\ bottoms'[k] \in Int
        BY <2>3, <2>4
    <3> QED BY <1>1, <2>5, <3>1
  <2>8. ASSUME NEW i \in User, NEW v \in Int, bottoms[i] <= v, v <= tops[i]
        PROVE  bottoms'[i] <= v /\ v <= tops'[i]
    <3>1. /\ tops[i] \in Int /\ bottoms[i] \in Int /\ tops'[i] \in Int /\ bottoms'[i] \in Int
        BY <2>3, <2>4
    <3> QED BY <2>5, <2>8, <3>1
  <2>9. /\ \A i \in 1 .. Proc : i \in User
        /\ \A i \in 1 .. Proc : max[i].budget \in Int /\ min[i].budget \in Int
      BY UserRange, BudgetsType DEF SInv, STypes
  <2>10. Filling'
      BY <1>1, <2>8, <2>9 DEF SInv, Filling
  <2>11. Passing'
    <3> SUFFICES ASSUME j > Proc PROVE Passing'
        BY <1>1 DEF Passing
    <3>1. /\ rpc # "max" => j <= Count
          /\ High(max, Tried, tops, bottoms) /\ Low(min, j - 1, tops, bottoms)
          /\ rpc = "copyMax" => tops[j] > max[MinIdx(max)].budget
          /\ rpc = "copyMin" => bottoms[j] < min[MaxIdx(min)].budget
        BY DEF SInv, Passing
    <3>2. Tried' = Tried /\ MinIdx(max') = MinIdx(max) /\ MaxIdx(min') = MaxIdx(min)
        BY <1>1 DEF Tried
    <3>3. High(max', Tried', tops', bottoms') /\ Low(min', j' - 1, tops', bottoms')
      <4> DEFINE hi == tops
                 lo == bottoms
                 hi2 == tops'
                 lo2 == bottoms'
      <4>1. /\ hi \in [User -> Int] /\ lo \in [User -> Int]
            /\ hi2 \in [User -> Int] /\ lo2 \in [User -> Int]
          BY <2>3, <2>4
      <4>2. \A k \in User : lo[k] <= hi[k] /\ hi[k] <= hi2[k] /\ lo2[k] <= lo[k]
          BY <2>5
      <4>3. High(max, Tried, hi, lo) /\ Low(min, j - 1, hi, lo)
          BY <3>1
      <4> HIDE DEF hi, lo, hi2, lo2
      <4>4. High(max, Tried, hi2, lo2) /\ Low(min, j - 1, hi2, lo2)
          BY <4>1, <4>2, <4>3, BothWidened
      <4> QED BY <1>1, <3>2, <4>4 DEF hi2, lo2
    <3>4. rpc # "max" => j \in User
        BY <3>1, UserRange DEF User, SInv, STypes
    <3>5. MinIdx(max) \in 1 .. Proc /\ MaxIdx(min) \in 1 .. Proc
        BY <2>9, IdxFound
    <3>6. rpc = "copyMax" => tops'[j'] > max'[MinIdx(max')].budget
      <4> SUFFICES ASSUME rpc = "copyMax" PROVE tops'[j] > max[MinIdx(max)].budget
          BY <1>1, <3>2
      <4>1. /\ tops[j] \in Int /\ tops'[j] \in Int /\ tops[j] <= tops'[j]
            /\ max[MinIdx(max)].budget \in Int
          BY <2>3, <2>4, <2>5, <2>9, <3>4, <3>5
      <4> QED BY <3>1, <4>1
    <3>7. rpc = "copyMin" => bottoms'[j'] < min'[MaxIdx(min')].budget
      <4> SUFFICES ASSUME rpc = "copyMin" PROVE bottoms'[j] < min[MaxIdx(min)].budget
          BY <1>1, <3>2
      <4>1. /\ bottoms[j] \in Int /\ bottoms'[j] \in Int /\ bottoms'[j] <= bottoms[j]
            /\ min[MaxIdx(min)].budget \in Int
          BY <2>3, <2>4, <2>5, <2>9, <3>4, <3>5
      <4> QED BY <3>1, <4>1
    <3> QED BY <1>1, <3>1, <3>3, <3>6, <3>7 DEF Passing
  <2> QED BY <2>6, <2>7, <2>10, <2>11 DEF SInv
<1> QED BY <1>2, <1>3

\* SInv holds in every reachable state.
LEMMA PassInductive == SummarySpec => []SInv
<1>1. SummaryInit => SInv
  <2> SUFFICES ASSUME SummaryInit PROVE SInv
      OBVIOUS
  <2>1. /\ mpc = "sleep" /\ j = 0 /\ rpc = "max"
        /\ budget \in [User -> Budget] /\ max = NoArray /\ min = NoArray
        /\ tops = [u \in User |-> 0] /\ bottoms = tops
      BY DEF SummaryInit, Init
  <2>2. NoArray \in Copies /\ Proc \in Nat \ {0} /\ Count \in Nat /\ Budget \subseteq Int
      BY SummaryAssumption DEF NoArray, Unset, Copies
  <2>3. STypes
    <3>1. budget \in [User -> Int]
        BY <2>1, <2>2
    <3> QED BY <2>1, <2>2, <3>1 DEF STypes
  <2>4. Bounds
      BY <2>1 DEF Bounds
  <2>5. Filling /\ Passing
      BY <2>1, <2>2 DEF Filling, Passing
  <2> QED BY <2>3, <2>4, <2>5 DEF SInv
<1>2. ASSUME SInv, [SummaryNext]_summaryVars PROVE SInv'
  <2>0. STypes
      BY <1>2 DEF SInv
  <2>1. CASE UNCHANGED summaryVars
      BY <1>2, <2>1, PassWaits DEF summaryVars, vars, masterVars
  <2>2. CASE PassStep /\ UNCHANGED vars
      BY <1>2, <2>2, FillSInv, PassSInv DEF PassStep
  <2>3. CASE AwaitWriters /\ StartPass
      BY <2>0, <2>3, PassStarts
  <2>4. CASE MasterSignal /\ IF mpc' = mpc THEN UNCHANGED <<budget, passVars, historyVars>>
                                            ELSE StartPass
      BY <1>2, <2>0, <2>4, PassStarts, PassWaits
  <2>5. CASE DropGate /\ j > Count /\ UNCHANGED <<budget, passVars, historyVars>>
    <3>1. mpc' = "nodes"
        BY <2>5 DEF DropGate, MasterGoto
    <3> QED BY <1>2, <2>5, <3>1, PassWaits
  <2>6. CASE PrintNodes /\ FreeArrays
    <3>1. mpc' = "sleep"
        BY <2>6 DEF PrintNodes, MasterGoto
    <3> QED BY <2>0, <2>6, <3>1, PassEnds
  <2>7. CASE /\ StartSummary \/ RaiseGate \/ PrintUngated \/ KillAll
             /\ UNCHANGED <<budget, passVars, historyVars>>
    <3>1. mpc' \in {"print", "wait", "nodes", "reap"}
        BY <2>7 DEF StartSummary, RaiseGate, PrintUngated, KillAll, MasterGoto
    <3> QED BY <1>2, <2>7, <3>1, PassWaits
  <2>8. ASSUME NEW w \in Writer, WriteBudget(w) PROVE SInv'
      BY <1>2, <2>8, WriteSInv
  <2>9. ASSUME NEW w \in Writer,
               ReachGate(w) \/ PassGate(w) \/ BreakGate(w) \/ Enter(w) \/ Leave(w) \/ GiveUp(w),
               UNCHANGED <<budget, passVars, historyVars>>
        PROVE  SInv'
    <3>1. mpc' = mpc
        BY <2>9 DEF ReachGate, PassGate, BreakGate, Enter, Leave, GiveUp, masterVars
    <3> QED BY <1>2, <2>9, <3>1, PassWaits
  <2> QED BY <1>2, <2>1, <2>2, <2>3, <2>4, <2>5, <2>6, <2>7, <2>8, <2>9
      DEF SummaryNext, SummaryMasterStep, SummarySignal, SummaryWriterStep
<1> QED BY <1>1, <1>2, PTL DEF SummarySpec

\* What the arrays are worth when the pass is over.
LEMMA AtTheEnd ==
    ASSUME SInv, Ready
    PROVE  /\ max \in Copies /\ min \in Copies
           /\ tops \in [User -> Int] /\ bottoms \in [User -> Int]
           /\ High(max, Count, tops, bottoms) /\ Low(min, Count, tops, bottoms)
<1>1. j = Count + 1 /\ j > Proc /\ Count \in Nat
    BY SummaryAssumption DEF SInv, STypes, Ready
<1>2. rpc = "max" /\ j - 1 = Count
    BY <1>1 DEF SInv, Passing
<1>3. Tried = Count
    BY <1>2 DEF Tried
<1> QED BY <1>1, <1>2, <1>3 DEF SInv, STypes, Passing

\* The users an array shows are the values of its view.
LEMMA ShownView ==
    ASSUME NEW a, NEW hi, NEW lo, NEW v, NEW n, Stands(UsersOf(a), v, n, hi, lo)
    PROVE  /\ Shown(a) = {UsersOf(a)[i] : i \in 1 .. Proc}
           /\ Cardinality(Shown(a)) = Proc
<1>1. Shown(a) = {UsersOf(a)[i] : i \in 1 .. Proc}
    BY DEF Shown, UsersOf
<1>2. /\ UsersOf(a) \in [1 .. Proc -> User]
      /\ \A i, k \in 1 .. Proc : UsersOf(a)[i] = UsersOf(a)[k] => i = k
    BY DEF Stands
<1> QED BY <1>1, <1>2, HeldCount

\* For any number of users and any budgets, written at any moment of the pass:
\* the summary shows Proc users as highest and Proc as lowest, and no user it
\* leaves out stood out during the whole pass.
THEOREM NobodyMissed == SummarySpec => []NobodyOutstandingMissed
<1>1. SInv => NobodyOutstandingMissed
  <2> SUFFICES ASSUME SInv, Ready
               PROVE  /\ Cardinality(Shown(max)) = Proc /\ Cardinality(Shown(min)) = Proc
                      /\ \A u \in User \ Shown(max) :
                           Cardinality({k \in User \ {u} : tops[k] >= bottoms[u]}) >= Proc
                      /\ \A u \in User \ Shown(min) :
                           Cardinality({k \in User \ {u} : bottoms[k] <= tops[u]}) >= Proc
      BY DEF NobodyOutstandingMissed
  <2>1. High(max, Count, tops, bottoms) /\ Low(min, Count, tops, bottoms)
      BY AtTheEnd
  <2>2. /\ Cardinality(Shown(max)) = Proc
        /\ Shown(max) = {UsersOf(max)[i] : i \in 1 .. Proc}
      BY <2>1, ShownView DEF High
  <2>3. /\ Cardinality(Shown(min)) = Proc
        /\ Shown(min) = {UsersOf(min)[i] : i \in 1 .. Proc}
      BY <2>1, ShownView DEF Low
  <2>4. ASSUME NEW u \in User \ Shown(max)
        PROVE  Cardinality({k \in User \ {u} : tops[k] >= bottoms[u]}) >= Proc
    <3>1. u <= Count /\ \A i \in 1 .. Proc : UsersOf(max)[i] # u
        BY <2>2, UserRange
    <3>2. Outdone(u, tops, bottoms)
        BY <2>1, <3>1 DEF High, Stands
    <3> QED BY <3>2 DEF Outdone
  <2>5. ASSUME NEW u \in User \ Shown(min)
        PROVE  Cardinality({k \in User \ {u} : bottoms[k] <= tops[u]}) >= Proc
    <3>1. u <= Count /\ \A i \in 1 .. Proc : UsersOf(min)[i] # u
        BY <2>3, UserRange
    <3>2. Outdone(u, Minus(bottoms), Minus(tops))
        BY <2>1, <3>1 DEF Low, Stands
    <3>3. {k \in User \ {u} : Minus(bottoms)[k] >= Minus(tops)[u]}
             = {k \in User \ {u} : bottoms[k] <= tops[u]}
      <4>1. \A k \in User : /\ Minus(bottoms)[k] = -bottoms[k] /\ Minus(tops)[k] = -tops[k]
                            /\ bottoms[k] \in Int /\ tops[k] \in Int
          BY AtTheEnd, MinusType
      <4> QED BY <4>1
    <3> QED BY <3>2, <3>3 DEF Outdone
  <2> QED BY <2>2, <2>3, <2>4, <2>5
<1> QED BY PassInductive, <1>1, PTL

\* For any number of users and any budgets: a summary that no write disturbed
\* shows the users with the highest and those with the lowest budgets.
THEOREM UndisturbedExtremes == SummarySpec => []SummaryShowsExtremes
<1>1. SInv => SummaryShowsExtremes
  <2> SUFFICES ASSUME SInv, Ready, tops = bottoms
               PROVE  /\ \A u \in User \ Shown(max), k \in Shown(max) : tops[u] <= tops[k]
                      /\ \A u \in User \ Shown(min), k \in Shown(min) : tops[u] >= tops[k]
      BY DEF SummaryShowsExtremes
  <2>1. /\ High(max, Count, tops, bottoms) /\ Low(min, Count, tops, bottoms)
        /\ tops \in [User -> Int]
      BY AtTheEnd
  <2>2. /\ Shown(max) = {UsersOf(max)[i] : i \in 1 .. Proc}
        /\ Shown(min) = {UsersOf(min)[i] : i \in 1 .. Proc}
      BY <2>1, ShownView DEF High, Low
  <2>3. ASSUME NEW u \in User \ Shown(max), NEW k \in Shown(max)
        PROVE  tops[u] <= tops[k]
    <3>1. u <= Count /\ \A i \in 1 .. Proc : UsersOf(max)[i] # u
        BY <2>2, UserRange
    <3>2. PICK i \in 1 .. Proc : k = UsersOf(max)[i]
        BY <2>2
    <3> QED BY <2>1, <3>1, <3>2 DEF High, Stands
  <2>4. ASSUME NEW u \in User \ Shown(min), NEW k \in Shown(min)
        PROVE  tops[u] >= tops[k]
    <3>1. u <= Count /\ \A i \in 1 .. Proc : UsersOf(min)[i] # u
        BY <2>2, UserRange
    <3>2. PICK i \in 1 .. Proc : k = UsersOf(min)[i]
        BY <2>2
    <3>3. k \in User /\ Minus(tops)[u] <= Minus(tops)[k]
        BY <2>1, <3>1, <3>2 DEF Low, Stands
    <3>4. /\ Minus(tops)[u] = -tops[u] /\ Minus(tops)[k] = -tops[k]
          /\ tops[u] \in Int /\ tops[k] \in Int
        BY <2>1, <3>3, MinusType
    <3> QED BY <3>3, <3>4
  <2> QED BY <2>3, <2>4
<1> QED BY PassInductive, <1>1, PTL

=============================================================================
