------------------------------ MODULE Mailbox ------------------------------
(***************************************************************************)
(* What the messages of a conversation promise to its members, whatever    *)
(* the handlers, transactions and events behind them do: nothing changes   *)
(* that nobody entitled asked for, a send is stored and answered once, and *)
(* a message withheld from a member is never mentioned to that member.     *)
(* Every operation is one atomic step.  Messaging implements it            *)
(* (MessagingMailbox).                                                     *)
(***************************************************************************)
CONSTANTS User, ClientId, None, Id

VARIABLES
  asks,    \* what clients have asked for and were not answered yet
  row,     \* the messages, by id
  hidden,  \* the members a message is hidden from
  told,    \* the messages a member was told of
  acks     \* the answers to sends that carried a client id

boxVars == <<asks, row, hidden, told, acks>>

Blank == [there |-> FALSE, author |-> None, text |-> None, cid |-> None,
          shadow |-> {}]

Init ==
  /\ asks = {}
  /\ row = [m \in Id |-> Blank]
  /\ hidden = [m \in Id |-> {}]
  /\ told = [u \in User |-> {}]
  /\ acks = {}

(* A client asks; nobody asks to withhold a message from its author.       *)
Ask(c) == /\ c.user \in User \ c.shadow
          /\ asks' = asks \cup {c}
          /\ UNCHANGED <<row, hidden, told, acks>>

(* A request ends, granted or not.                                         *)
Leave == asks' \subseteq asks /\ UNCHANGED <<row, hidden, told, acks>>

(* A message is stored for a send, under an id nobody was told of yet, and *)
(* once for a client id of its author.                                     *)
Post(m, c) ==
  /\ c \in asks
  /\ c.op = "send"
  /\ ~row[m].there
  /\ \A u \in User : m \notin told[u]
  /\ c.cid # None => \A k \in Id : row[k].there /\ row[k].author = c.user
                                     => row[k].cid # c.cid
  /\ row' = [row EXCEPT ![m] = [there |-> TRUE, author |-> c.user,
                                text |-> c.text, cid |-> c.cid,
                                shadow |-> c.shadow]]
  /\ hidden' = [hidden EXCEPT ![m] = c.shadow]
  /\ UNCHANGED <<asks, told, acks>>

(* The author, and nobody else, changes the text.                          *)
Edit(m, c) ==
  /\ c \in asks
  /\ c.op = "edit" /\ c.target = m
  /\ row[m].there /\ row[m].author = c.user
  /\ row' = [row EXCEPT ![m].text = c.text]
  /\ UNCHANGED <<asks, hidden, told, acks>>

(* A member hides a message from that member, and from nobody else.        *)
Hide(m, c) ==
  /\ c \in asks
  /\ c.op = "deleteForMe" /\ c.target = m
  /\ row[m].there
  /\ hidden' = [hidden EXCEPT ![m] = @ \cup {c.user}]
  /\ UNCHANGED <<asks, row, told, acks>>

(* Members are told of a message that was not withheld from them.          *)
Tell(m, rooms) ==
  /\ rooms \cap row[m].shadow = {}
  /\ told' = [u \in User |-> IF u \in rooms THEN told[u] \cup {m}
                             ELSE told[u]]
  /\ UNCHANGED <<asks, row, hidden, acks>>

(* A send is answered with the message stored for its client id.           *)
Answer(m, c) ==
  /\ c \in asks
  /\ c.op = "send" /\ c.cid # None
  /\ row[m].there /\ row[m].author = c.user /\ row[m].cid = c.cid
  /\ acks' = acks \cup {[user |-> c.user, cid |-> c.cid, msg |-> m]}
  /\ asks' \subseteq asks
  /\ UNCHANGED <<row, hidden, told>>

Next ==
  \/ Leave
  \/ \E c \in asks' : Ask(c)
  \/ \E m \in Id, c \in asks : Post(m, c) \/ Edit(m, c) \/ Hide(m, c)
                               \/ Answer(m, c)
  \/ \E m \in Id, rooms \in SUBSET User : Tell(m, rooms)

Spec == Init /\ [][Next]_boxVars

----------------------------------------------------------------------------
(* What follows from the promise alone.                                    *)

(* All answers to one client id of one member name one stored message.     *)
OneAnswer ==
  \A a, b \in acks : a.user = b.user /\ a.cid = b.cid => a.msg = b.msg

(* Nobody is told of a message withheld from them, and it stays hidden.    *)
Withheld ==
  /\ \A u \in User : \A m \in told[u] : u \notin row[m].shadow
  /\ \A m \in Id : row[m].shadow \subseteq hidden[m]

(* The inductive invariant: the acknowledged rows are there under their    *)
(* key, and a key names one row.                                           *)
Shape ==
  /\ told \in [User -> SUBSET Id]
  /\ row = [m \in Id |-> row[m]]
  /\ hidden = [m \in Id |-> hidden[m]]
  /\ \A m \in Id : /\ DOMAIN row[m] = DOMAIN Blank
                  /\ row[m] = [k \in DOMAIN Blank |-> row[m][k]]

AnswersNameRows ==
  \A a \in acks : /\ a.msg \in Id /\ a.cid # None
                 /\ row[a.msg].there
                 /\ row[a.msg].author = a.user /\ row[a.msg].cid = a.cid

KeysNameOneRow ==
  \A m, k \in Id : /\ row[m].there /\ row[k].there
                  /\ row[m].author = row[k].author
                  /\ row[m].cid = row[k].cid /\ row[m].cid # None
                  => m = k

BoxInv == Shape /\ Withheld /\ AnswersNameRows /\ KeysNameOneRow
============================================================================
