------------------------------ MODULE BlockLog ------------------------------
(***************************************************************************)
(* What the shared ledger promises to the processes attached to it: a      *)
(* fixed array of slots, each filled by one author with the transactions   *)
(* it collected.  While ids are left for the slots a filled one keeps its  *)
(* content; later its author, and nobody else, may put other transactions  *)
(* in it.  Ids, semaphores, counters, pointers and signals are the         *)
(* business of the implementation (module Ledger).                         *)
(***************************************************************************)
EXTENDS Integers

CONSTANTS
    Author,     \* the processes that publish blocks
    Nobody,     \* the author of an empty slot
    Slot        \* the positions of the ledger

VARIABLES
    log,        \* the author and the transactions of the block in each slot
    past        \* an id beyond the slots has been taken

Collected == 0  \* the transactions a block was built from; others are above

Init ==
    /\ log = [s \in Slot |-> [by |-> Nobody, txs |-> Collected]]
    /\ past = FALSE

(***************************************************************************)
(* One author fills one empty slot with what it collected.                 *)
(***************************************************************************)
Publish(a, s) ==
    /\ log[s].by = Nobody
    /\ log' = [log EXCEPT ![s] = [by |-> a, txs |-> Collected]]
    /\ UNCHANGED past

RunOut ==
    /\ past' = TRUE
    /\ UNCHANGED log

(***************************************************************************)
(* The author of a filled slot puts other transactions in it.              *)
(***************************************************************************)
Rewrite(a, s) ==
    /\ past
    /\ log[s].by = a
    /\ log' = [log EXCEPT ![s].txs = log'[s].txs]
    /\ UNCHANGED past

Next == RunOut \/ \E a \in Author, s \in Slot : Publish(a, s) \/ Rewrite(a, s)

Spec == Init /\ [][Next]_<<log, past>>

=============================================================================
