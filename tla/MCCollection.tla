---------------------------- MODULE MCCollection ----------------------------
(* Collection on one request.                                              *)
EXTENDS Collection, TLC

=============================================================================
