---------------------------- MODULE Conversation ----------------------------
(***************************************************************************)
(* What a visitor's conversation is, to whoever sends it upstream again:   *)
(* a sequence that grows by whole exchanges.  An exchange is a question,   *)
(* then rounds of tool calls each followed by its results in the order     *)
(* asked, then an answer that asks for nothing.                            *)
(***************************************************************************)
EXTENDS Integers, Sequences, FiniteSets

CONSTANTS Calls, NoCall, MaxToolRounds

VARIABLE history

IsQuestion(m) == m.role = "user"
Asks(m) == m.role = "assistant" /\ m.calls # <<>>
IsAnswer(m) == m.role = "assistant" /\ m.calls = <<>>

(* The reply at i asks for tools and the messages behind it answer, in order. *)
RoundAt(e, i) ==
  /\ Asks(e[i])
  /\ i + Len(e[i].calls) < Len(e)
  /\ \A k \in 1..Len(e[i].calls) :
       e[i + k].role = "tool" /\ e[i + k].answers = e[i].calls[k]

IsExchange(e) ==
  /\ Len(e) >= 2
  /\ IsQuestion(e[1])
  /\ IsAnswer(e[Len(e)])
  /\ \A i \in 2..(Len(e) - 1) :
       \/ RoundAt(e, i)
       \/ /\ e[i].role = "tool"
          /\ \E j \in 2..(i - 1) : RoundAt(e, j) /\ i <= j + Len(e[j].calls)
  /\ Cardinality({i \in DOMAIN e : Asks(e[i])}) <= MaxToolRounds

Init == history = <<>>

Exchange ==
  /\ Len(history') > Len(history)
  /\ SubSeq(history', 1, Len(history)) = history
  /\ IsExchange(SubSeq(history', Len(history) + 1, Len(history')))

Spec == Init /\ [][Exchange]_history
=============================================================================
