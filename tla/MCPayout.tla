------------------------------ MODULE MCPayout ------------------------------
(* Payout on one job.                                                      *)
EXTENDS Payout, TLC

=============================================================================
