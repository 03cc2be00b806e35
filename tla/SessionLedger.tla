--------------------------- MODULE SessionLedger ----------------------------
(***************************************************************************)
(* What the session store promises, without its heap: a table of           *)
(* conversations with the turns each has spent, its history and the one    *)
(* caller that may touch it.  Nothing here can be released late: a caller  *)
(* whose conversation was forgotten simply is not in the table any more,   *)
(* even when the same id has been taken up again.                          *)
(***************************************************************************)
EXTENDS Naturals, FiniteSets

CONSTANTS Ids, Callers, Histories, NoHistory, MaxTurns, MaxSessions, Nobody

VARIABLE table

Present == DOMAIN table
Idle == {i \in Present : table[i].holder = Nobody}
Holding(c) == \E i \in Present : table[i].holder = c

Without(gone) == [i \in Present \ gone |-> table[i]]

(* A conversation starts; a full table lets go of one idle conversation.   *)
Start(c, id) ==
  /\ id \notin Present
  /\ \E gone \in SUBSET Idle :
       /\ Cardinality(gone) = IF Cardinality(Present) >= MaxSessions THEN 1 ELSE 0
       /\ table' = [i \in (Present \ gone) \cup {id} |->
                      IF i = id
                      THEN [turns |-> 1, history |-> NoHistory, holder |-> c]
                      ELSE table[i]]

(* An idle conversation is taken up again, at the cost of a turn. *)
Resume(c, id) ==
  /\ id \in Idle
  /\ table[id].turns < MaxTurns
  /\ table' = [table EXCEPT ![id].turns = @ + 1, ![id].holder = c]

Record(c, id, h) ==
  /\ id \in Present /\ table[id].holder = c
  /\ table' = [table EXCEPT ![id].history = h]

Finish(c, id) ==
  /\ id \in Present /\ table[id].holder = c
  /\ table' = [table EXCEPT ![id].holder = Nobody]

(* The store may forget idle and held conversations alike. *)
Forget(gone) == table' = Without(gone)

Init == table = [i \in {} |-> Nobody]

Next ==
  \/ \E c \in Callers, id \in Ids :
       \/ ~Holding(c) /\ (Start(c, id) \/ Resume(c, id))
       \/ \E h \in Histories : Record(c, id, h)
       \/ Finish(c, id)
  \/ \E gone \in SUBSET Present : Forget(gone)

Spec == Init /\ [][Next]_table
=============================================================================
