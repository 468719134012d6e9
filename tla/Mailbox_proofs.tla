--------------------------- MODULE Mailbox_proofs ---------------------------
(***************************************************************************)
(* What follows from the promise of Mailbox alone, and so for whatever     *)
(* implements it: one client id has one answer, and what is withheld from  *)
(* a member stays hidden and is not mentioned.                             *)
(***************************************************************************)
EXTENDS Mailbox, TLAPS

(* The invariant depends on what is stored, told and answered only.        *)
LEMMA InvKeeps ==
  ASSUME BoxInv, UNCHANGED <<row, hidden, told, acks>>
  PROVE  BoxInv'
  BY DEF BoxInv, Shape, Withheld, AnswersNameRows, KeysNameOneRow

(* An empty mailbox.                                                       *)
LEMMA InitOK == Init => BoxInv
  <1> SUFFICES ASSUME Init PROVE BoxInv
    OBVIOUS
  <1>1. /\ \A m \in Id : row[m] = Blank /\ hidden[m] = {}
        /\ \A u \in User : told[u] = {}
        /\ acks = {}
    BY DEF Init
  <1>2. /\ ~Blank.there /\ Blank.shadow = {}
        /\ Blank = [k \in DOMAIN Blank |-> Blank[k]]
    BY DEF Blank
  <1>3. Shape
    BY <1>1, <1>2 DEF Init, Shape
  <1>4. Withheld /\ AnswersNameRows /\ KeysNameOneRow
    BY <1>1, <1>2 DEF Withheld, AnswersNameRows, KeysNameOneRow
  <1> QED
    BY <1>3, <1>4 DEF BoxInv

(* A posted message has an id and a key of its own.                        *)
LEMMA PostOK ==
  ASSUME BoxInv, NEW m \in Id, NEW c, Post(m, c)
  PROVE  BoxInv'
  <1> DEFINE new == [there |-> TRUE, author |-> c.user, text |-> c.text,
                     cid |-> c.cid, shadow |-> c.shadow]
  <1>1. /\ ~row[m].there /\ \A u \in User : m \notin told[u]
        /\ c.cid # None => \A k \in Id :
             row[k].there /\ row[k].author = c.user => row[k].cid # c.cid
        /\ row' = [row EXCEPT ![m] = new]
        /\ hidden' = [hidden EXCEPT ![m] = c.shadow]
        /\ UNCHANGED <<told, acks>>
    BY DEF Post
  <1>2. /\ new.there /\ new.author = c.user /\ new.cid = c.cid
        /\ new.shadow = c.shadow
        /\ DOMAIN new = DOMAIN Blank
        /\ new = [k \in DOMAIN Blank |-> new[k]]
    BY DEF Blank
  <1> HIDE DEF new
  <1>3. /\ row'[m] = new /\ hidden'[m] = c.shadow
        /\ row' = [k \in Id |-> row'[k]] /\ hidden' = [k \in Id |-> hidden'[k]]
        /\ \A k \in Id \ {m} : row'[k] = row[k] /\ hidden'[k] = hidden[k]
    BY <1>1 DEF BoxInv, Shape
  <1>4. Shape'
    BY <1>1, <1>2, <1>3 DEF BoxInv, Shape
  <1>5. \A u \in User : \A k \in told'[u] : k \in Id /\ k # m
    BY <1>1 DEF BoxInv, Shape
  <1>6. Withheld'
    <2>1. \A u \in User : \A k \in told'[u] : u \notin row'[k].shadow
      BY <1>1, <1>3, <1>5 DEF BoxInv, Withheld
    <2>2. \A k \in Id : row'[k].shadow \subseteq hidden'[k]
      BY <1>2, <1>3 DEF BoxInv, Withheld
    <2> QED
      BY <2>1, <2>2 DEF Withheld
  <1>7. AnswersNameRows'
    BY <1>1, <1>3 DEF BoxInv, AnswersNameRows
  <1>8. KeysNameOneRow'
    <2> SUFFICES ASSUME NEW i \in Id, NEW j \in Id,
                        row'[i].there, row'[j].there,
                        row'[i].author = row'[j].author,
                        row'[i].cid = row'[j].cid, row'[i].cid # None
                 PROVE  i = j
      BY DEF KeysNameOneRow
    <2>1. CASE i = m /\ j # m
      BY <2>1, <1>1, <1>2, <1>3
    <2>2. CASE j = m /\ i # m
      BY <2>2, <1>1, <1>2, <1>3
    <2>3. CASE i # m /\ j # m
      BY <2>3, <1>3 DEF BoxInv, KeysNameOneRow
    <2> QED
      BY <2>1, <2>2, <2>3
  <1> QED
    BY <1>4, <1>6, <1>7, <1>8 DEF BoxInv

(* An edit changes neither the author, nor the key, nor the shadow.        *)
LEMMA EditOK ==
  ASSUME BoxInv, NEW m \in Id, NEW c, Edit(m, c)
  PROVE  BoxInv'
  <1> DEFINE new == [row[m] EXCEPT !.text = c.text]
  <1>1. /\ row' = [row EXCEPT ![m] = new]
        /\ UNCHANGED <<hidden, told, acks>>
    BY DEF Edit
  <1>2. /\ new.there = row[m].there /\ new.author = row[m].author
        /\ new.cid = row[m].cid /\ new.shadow = row[m].shadow
        /\ DOMAIN new = DOMAIN Blank
        /\ new = [k \in DOMAIN Blank |-> new[k]]
    BY DEF BoxInv, Shape, Blank
  <1> HIDE DEF new
  <1>3. /\ row' = [k \in Id |-> row'[k]] /\ row'[m] = new
        /\ \A k \in Id \ {m} : row'[k] = row[k]
    BY <1>1 DEF BoxInv, Shape
  <1>4. \A k \in Id : /\ row'[k].there = row[k].there
                     /\ row'[k].author = row[k].author
                     /\ row'[k].cid = row[k].cid
                     /\ row'[k].shadow = row[k].shadow
    BY <1>2, <1>3
  <1>5. Shape'
    BY <1>1, <1>2, <1>3 DEF BoxInv, Shape
  <1>6. \A u \in User : told[u] \subseteq Id
    BY DEF BoxInv, Shape
  <1>7. Withheld'
    BY <1>1, <1>4, <1>6 DEF BoxInv, Withheld
  <1>8. AnswersNameRows' /\ KeysNameOneRow'
    BY <1>1, <1>4 DEF BoxInv, AnswersNameRows, KeysNameOneRow
  <1> QED
    BY <1>5, <1>7, <1>8 DEF BoxInv

(* What a member hides is hidden besides what was.                         *)
LEMMA HideOK ==
  ASSUME BoxInv, NEW m \in Id, NEW c, Hide(m, c)
  PROVE  BoxInv'
  <1>1. /\ hidden' = [hidden EXCEPT ![m] = @ \cup {c.user}]
        /\ UNCHANGED <<row, told, acks>>
    BY DEF Hide
  <1>2. /\ hidden' = [k \in Id |-> hidden'[k]]
        /\ \A k \in Id : hidden[k] \subseteq hidden'[k]
    BY <1>1 DEF BoxInv, Shape
  <1>3. Shape' /\ Withheld'
    BY <1>1, <1>2 DEF BoxInv, Shape, Withheld
  <1>4. AnswersNameRows' /\ KeysNameOneRow'
    BY <1>1 DEF BoxInv, AnswersNameRows, KeysNameOneRow
  <1> QED
    BY <1>3, <1>4 DEF BoxInv

(* Nobody is told of what is withheld.                                     *)
LEMMA TellOK ==
  ASSUME BoxInv, NEW m \in Id, NEW rooms \in SUBSET User, Tell(m, rooms)
  PROVE  BoxInv'
  <1>1. /\ told' \in [User -> SUBSET Id]
        /\ \A u \in User : \A k \in told'[u] :
             k \in told[u] \/ (k = m /\ u \in rooms)
        /\ rooms \cap row[m].shadow = {}
        /\ UNCHANGED <<row, hidden, acks>>
    BY DEF Tell, BoxInv, Shape
  <1>2. Shape'
    BY <1>1 DEF BoxInv, Shape
  <1>3. Withheld'
    BY <1>1 DEF BoxInv, Shape, Withheld
  <1>4. AnswersNameRows' /\ KeysNameOneRow'
    BY <1>1 DEF BoxInv, AnswersNameRows, KeysNameOneRow
  <1> QED
    BY <1>2, <1>3, <1>4 DEF BoxInv

(* An answer names the row of its key.                                     *)
LEMMA AnswerOK ==
  ASSUME BoxInv, NEW m \in Id, NEW c, Answer(m, c)
  PROVE  BoxInv'
  <1> DEFINE a == [user |-> c.user, cid |-> c.cid, msg |-> m]
  <1>1. /\ acks' = acks \cup {a} /\ UNCHANGED <<row, hidden, told>>
        /\ row[m].there /\ row[m].author = c.user /\ row[m].cid = c.cid
        /\ c.cid # None
    BY DEF Answer
  <1>2. a.user = c.user /\ a.cid = c.cid /\ a.msg = m
    OBVIOUS
  <1> HIDE DEF a
  <1>3. Shape' /\ Withheld'
    BY <1>1 DEF BoxInv, Shape, Withheld
  <1>4. AnswersNameRows'
    BY <1>1, <1>2 DEF BoxInv, AnswersNameRows
  <1>5. KeysNameOneRow'
    BY <1>1 DEF BoxInv, KeysNameOneRow
  <1> QED
    BY <1>3, <1>4, <1>5 DEF BoxInv

(* BoxInv holds in every reachable state.                                  *)
THEOREM BoxInvariance == Spec => []BoxInv
  <1>1. BoxInv /\ [Next]_boxVars => BoxInv'
    <2> SUFFICES ASSUME BoxInv, [Next]_boxVars PROVE BoxInv'
      OBVIOUS
    <2>1. CASE Leave
      BY <2>1, InvKeeps DEF Leave
    <2>2. ASSUME NEW c, Ask(c)
          PROVE  BoxInv'
      BY <2>2, InvKeeps DEF Ask
    <2>3. CASE UNCHANGED boxVars
      BY <2>3, InvKeeps DEF boxVars
    <2> QED
      BY <2>1, <2>2, <2>3, PostOK, EditOK, HideOK, TellOK, AnswerOK DEF Next
  <1> QED
    BY <1>1, InitOK, PTL DEF Spec

(* All answers to one client id of one member name one message.            *)
THEOREM AnswersAgree == Spec => []OneAnswer
  <1>1. BoxInv => OneAnswer
    BY DEF BoxInv, OneAnswer, AnswersNameRows, KeysNameOneRow
  <1> QED
    BY <1>1, BoxInvariance, PTL

(* What is withheld from a member stays hidden and is not mentioned.       *)
THEOREM WithheldStaysWithheld == Spec => []Withheld
  <1>1. BoxInv => Withheld
    BY DEF BoxInv
  <1> QED
    BY <1>1, BoxInvariance, PTL
=============================================================================
