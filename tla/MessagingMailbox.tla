-------------------------- MODULE MessagingMailbox --------------------------
(***************************************************************************)
(* Messaging implements Mailbox: the requests in progress are what was     *)
(* asked, a row is a message without its deletion status, and the notices  *)
(* in a room that mention a message are what its member was told.          *)
(***************************************************************************)
EXTENDS Messaging

BoxAsks == {call[r] : r \in {q \in Request : pc[q] # "idle"}}

BoxRow == [m \in Id |-> [there  |-> messages[m].status # "none",
                         author |-> messages[m].sender,
                         text   |-> messages[m].text,
                         cid    |-> messages[m].cid,
                         shadow |-> messages[m].shadow]]

(* "seen" names a message the room's members may all know of, and          *)
(* "deletedForMe" goes to the one who asked.                               *)
Mentions == {"created", "edited", "deletedForEveryone"}
BoxTold == [u \in User |-> {n.msg : n \in {k \in inbox[u] :
                                             k.kind \in Mentions}}]

Box == INSTANCE Mailbox WITH asks <- BoxAsks, row <- BoxRow,
                             hidden <- deletedFor, told <- BoxTold

(* Whatever handlers overlap, lose their transaction or their events, the  *)
(* members see atomic operations that somebody entitled asked for.         *)
ImplementsMailbox == Box!Spec

----------------------------------------------------------------------------
(* What a handler holds is what it was asked for: the text of its call,    *)
(* a message of its user, nobody hidden that is not hidden already or that *)
(* did not ask for it.                                                     *)
AskedFor(r) ==
  /\ pc[r] \in {"insert", "saveMessage", "updateMessage"} =>
       entity[r].text = call[r].text
  /\ pc[r] = "updateMessage" =>
       messages[entity[r].id].sender = call[r].user
  /\ pc[r] \in {"beginDeletion", "saveDeletion"} =>
       IF call[r].op = "deleteForMe"
       THEN deletedFor[entity[r].id] \cup entity[r].hidden
              = deletedFor[entity[r].id] \cup {call[r].user}
       ELSE entity[r].hidden \subseteq deletedFor[entity[r].id]

AskedForInv == \A r \in Request : AskedFor(r)
============================================================================
