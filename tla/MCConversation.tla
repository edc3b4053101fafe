--------------------------- MODULE MCConversation ---------------------------
(* Two accounts, one of them masked, and one operator.                     *)
EXTENDS Conversation, TLC

(* Requests, and webhooks in progress, are interchangeable.                *)
ConversationSymmetry == Permutations(Requests) \cup Permutations(Deliveries)

=============================================================================
