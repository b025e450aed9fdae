------------------------------- MODULE TxLife -------------------------------
(***************************************************************************)
(* What the users of the simulation are promised of a transaction: it      *)
(* waits from the moment it is sent, and is then published in a block or   *)
(* refused; a refused one is refunded, unless the message is lost.  Which  *)
(* queues, pools, nodes and hops it goes through is the business of the    *)
(* implementation (module TxFlow).                                         *)
(***************************************************************************)
EXTENDS Integers, FiniteSets

CONSTANTS
    Tx,         \* transactions
    BlockTx     \* transactions in a block, without the reward: SO_BLOCK_SIZE - 1

VARIABLES
    stage,      \* stage[t]: "new", "waiting", "published" or "refused"
    promised,   \* transactions for which a refund was sent
    lost,       \* transactions for which a refund could not be sent
    paid        \* transactions whose refund the user has read

vars == <<stage, promised, lost, paid>>

Init ==
    /\ stage = [t \in Tx |-> "new"]
    /\ promised = {} /\ lost = {} /\ paid = {}

-----------------------------------------------------------------------------
Send(t) ==
    /\ stage[t] = "new"
    /\ stage' = [stage EXCEPT ![t] = "waiting"]
    /\ UNCHANGED <<promised, lost, paid>>

\* A block holds as many transactions as a block can, all of them waiting.
Publish(B) ==
    /\ Cardinality(B) = BlockTx
    /\ \A t \in B : stage[t] = "waiting"
    /\ stage' = [t \in Tx |-> IF t \in B THEN "published" ELSE stage[t]]
    /\ UNCHANGED <<promised, lost, paid>>

\* A refund is sent without waiting, and lost when it does not fit.
Promise(t) ==
    \/ promised' = promised \cup {t} /\ UNCHANGED lost
    \/ lost' = lost \cup {t} /\ UNCHANGED promised

Refuse(t) ==
    /\ Promise(t)
    /\ stage[t] = "waiting"
    /\ stage' = [stage EXCEPT ![t] = "refused"]
    /\ UNCHANGED paid

\* A node that fails to pass a transaction on refunds it and keeps it.
RefundWaiting(t) ==
    /\ Promise(t)
    /\ stage[t] = "waiting"
    /\ UNCHANGED <<stage, paid>>

Pay(t) ==
    /\ t \in promised
    /\ paid' = paid \cup {t}
    /\ UNCHANGED <<stage, promised, lost>>

Next ==
    \/ \E t \in Tx : Send(t) \/ Refuse(t) \/ RefundWaiting(t) \/ Pay(t)
    \/ \E B \in SUBSET Tx : Publish(B)

Spec == Init /\ [][Next]_vars

=============================================================================
