----------------------------- MODULE MCSummary ------------------------------
(***************************************************************************)
(* An instance of Summary for TLC.                                         *)
(***************************************************************************)
EXTENDS Summary

\* Of the two users that do not write, one has the lower and one the higher budget.
MCInit == SummaryInit /\ budget[1] # budget[3]

MCSpec == MCInit /\ [][SummaryNext]_summaryVars /\ SummaryFairness

=============================================================================
