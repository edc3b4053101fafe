----------------------------- MODULE MCAccounts -----------------------------
(* A customer, an operator and its owner, and two handlers at a time.      *)
EXTENDS Accounts, TLC

(* Handlers are interchangeable.                                           *)
HandlerSymmetry == Permutations(Procs)

=============================================================================
