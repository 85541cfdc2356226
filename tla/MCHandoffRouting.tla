-------------------------- MODULE MCHandoffRouting --------------------------
(* Small instances of HandoffRouting for TLC. *)
EXTENDS HandoffRouting, TLC

ConversationSymmetry == Permutations(Conversations)
=============================================================================
