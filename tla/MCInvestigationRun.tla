-------------------------- MODULE MCInvestigationRun --------------------------
(* Instances of InvestigationRun for TLC.                                   *)
EXTENDS InvestigationRun, TLC

CONSTANTS c1, c2, w1, w2

=============================================================================
