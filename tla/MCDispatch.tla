----------------------------- MODULE MCDispatch -----------------------------
(* Dispatch of one request among a few operators.                          *)
EXTENDS Dispatch, TLC

CONSTANTS a, b, c

MCReach == [o \in Operators |-> IF o = c THEN 1 ELSE 0]

=============================================================================
