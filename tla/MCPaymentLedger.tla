-------------------------- MODULE MCPaymentLedger --------------------------
(* PaymentLedger on three rows of one request and two payment types.       *)
EXTENDS PaymentLedger, TLC

RowSymmetry == Permutations(PaymentIds)
=============================================================================
