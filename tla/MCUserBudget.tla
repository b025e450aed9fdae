---------------------------- MODULE MCUserBudget ----------------------------
(***************************************************************************)
(* Instances of UserBudget for TLC.                                        *)
(***************************************************************************)
EXTENDS UserBudget

=============================================================================
