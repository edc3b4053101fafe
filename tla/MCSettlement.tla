---------------------------- MODULE MCSettlement ----------------------------
(* Settlement of one deposit of 6 kobo, 1 of them the platform's: a split  *)
(* in half leaves a half kobo to round.                                    *)
EXTENDS Settlement, TLC

(* The two administrators are interchangeable.                             *)
AdminSymmetry == Permutations(Admins)

=============================================================================
