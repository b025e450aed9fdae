------------------------------ MODULE MCTxFlow ------------------------------
(***************************************************************************)
(* Instances of TxFlow for TLC.                                            *)
(***************************************************************************)
EXTENDS TxFlow

TxSymmetry == Permutations(Tx)

FirstSymmetry == Permutations(First)

FlowSymmetry == TxSymmetry \cup FirstSymmetry

=============================================================================
