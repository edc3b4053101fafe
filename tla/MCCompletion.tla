---------------------------- MODULE MCCompletion ----------------------------
(* The end of one job with a balance of 5 kobo.                            *)
EXTENDS Completion, TLC

(* Two deliveries of the customer's messages are interchangeable.          *)
DeliverySymmetry == Permutations(Handlers)

=============================================================================
