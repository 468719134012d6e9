---------------------------- MODULE MCMessaging ----------------------------
(* Messaging for TLC.  Users, texts and request slots are interchangeable. *)
EXTENDS MessagingMailbox, TLC

Symmetry == Permutations(User) \cup Permutations(Text)
            \cup Permutations(Request)
============================================================================
