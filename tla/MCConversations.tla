-------------------------- MODULE MCConversations --------------------------
(* Conversations for TLC.  Users and request slots are interchangeable.    *)
EXTENDS Conversations, TLC

Symmetry == Permutations(User) \cup Permutations(BlockRequest)
            \cup Permutations(ChatRequest)
============================================================================
