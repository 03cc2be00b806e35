--------------------------- MODULE AgentLoopProofs ---------------------------
(***************************************************************************)
(* What agentloop.Run keeps of a turn, for any number of tool rounds, any  *)
(* lists of calls and any number of turns: the state's type, the usage     *)
(* accounts, the bound on model calls, and that the conversation grows by  *)
(* whole exchanges (AgentLoop implements Conversation).                    *)
(***************************************************************************)
EXTENDS AgentLoop, SequenceTheorems, FiniteSetTheorems, TLAPS

(* Whatever has a call to answer is between a reply and the next. *)
CallsToAnswer == pc \in {"toolStart", "toolRun"} => pending # <<>>

(* The accounts, with the open turn's tokens and the open turn counted. *)
Accounts ==
  /\ usage.total + (IF pc = "idle" THEN 0 ELSE total) = billed
  /\ usage.turns + (IF pc = "idle" THEN 0 ELSE 1) <= turns

LInv == TypeOK /\ CallsToAnswer /\ Accounts

LEMMA InitLInv == Init => LInv
<1> SUFFICES ASSUME Init PROVE LInv
  OBVIOUS
<1>1. TypeOK
  <2>1. <<>> \in Seq(Message) /\ <<>> \in Seq(Calls) /\ <<>> \in Seq(Events)
    OBVIOUS
  <2>2. usage \in [turns: Nat, total: Nat]
    BY DEF Init
  <2> QED BY <2>1, <2>2 DEF Init, TypeOK, Steps
<1>2. CallsToAnswer /\ Accounts
  BY DEF Init, CallsToAnswer, Accounts
<1> QED BY <1>1, <1>2 DEF LInv

LEMMA Messages ==
  /\ User \in Message
  /\ \A calls \in Seq(Calls) : Assistant(calls) \in Message
  /\ \A call \in Calls : ToolResult(call) \in Message
<1> <<>> \in Seq(Calls)
  OBVIOUS
<1> QED BY DEF User, Assistant, ToolResult, Message

LEMMA Appended ==
  /\ \A s \in Seq(Message), m \in Message : Append(s, m) \in Seq(Message)
  /\ \A s \in Seq(Events), e \in Events : Append(s, e) \in Seq(Events)
OBVIOUS

LEMMA SumGrows == \A a, b, c, d \in Nat : a + b = c => a + (b + d) = c + d
OBVIOUS

LEMMA StepLInv == LInv /\ [Next]_vars => LInv'
<1> SUFFICES ASSUME LInv, [Next]_vars PROVE LInv'
  OBVIOUS
<1> USE LoopAssumption DEF LoopParameters
<1>0. TypeOK /\ CallsToAnswer /\ Accounts
  BY DEF LInv
<1>1. CASE Begin
  <2>1. TypeOK'
    <3>1. cut' \in BOOLEAN /\ pc' \in Steps
      BY <1>1, Zenon DEF Begin, Steps
    <3>2. convo' \in Seq(Message)
      BY <1>0, <1>1, Messages, Appended DEF Begin, TypeOK
    <3>3. <<>> \in Seq(Calls) /\ <<>> \in Seq(Events)
      OBVIOUS
    <3> QED
      BY <1>0, <1>1, <3>1, <3>2, <3>3 DEF Begin, TypeOK
  <2>2. CallsToAnswer' /\ Accounts'
    BY <1>0, <1>1 DEF Begin, TypeOK, CallsToAnswer, Accounts
  <2> QED BY <2>1, <2>2 DEF LInv
<1>2. CASE ModelFails \/ EmitFails
  BY <1>0, <1>2 DEF ModelFails, EmitFails, Fail, LInv, TypeOK, CallsToAnswer, Accounts, Steps
<1>3. ASSUME NEW calls \in CallLists, NEW long \in BOOLEAN, NEW tokens \in Tokens,
             ModelReplies(calls, long, tokens)
      PROVE  LInv'
  <2>1. tokens \in Nat /\ calls \in Seq(Calls) /\ Assistant(calls) \in Message
    BY Messages
  <2>2. convo' \in Seq(Message) /\ total' \in Nat /\ billed' \in Nat
    BY <1>0, <1>3, <2>1, Appended DEF ModelReplies, TypeOK
  <2>3. cut' \in BOOLEAN /\ pc' \in Steps
    BY <1>3, Zenon DEF ModelReplies, Steps
  <2>4. TypeOK'
    <3>1. /\ history' = history /\ turns' = turns /\ round' = round /\ usage' = usage
          /\ sent' = sent /\ pending' = calls
      BY <1>3 DEF ModelReplies
    <3>2. /\ history' \in Seq(Message) /\ turns' \in Nat /\ round' \in Nat
          /\ usage' \in [turns: Nat, total: Nat] /\ sent' \in Seq(Events) /\ pending' \in Seq(Calls)
      BY <1>0, <2>1, <3>1 DEF TypeOK
    <3> QED
      BY <2>2, <2>3, <3>2, Zenon DEF TypeOK
  <2>5. CallsToAnswer'
    BY <1>3, Zenon DEF ModelReplies, CallsToAnswer
  <2>6. Accounts'
    <3>1. /\ total \in Nat /\ billed \in Nat /\ usage.total \in Nat
          /\ usage.turns \in Nat /\ turns \in Nat
      BY <1>0 DEF TypeOK
    <3>2. pc = "model" /\ usage' = usage /\ turns' = turns
          /\ total' = total + tokens /\ billed' = billed + tokens
      BY <1>3 DEF ModelReplies
    <3>3. pc' # "idle"
      BY <1>3 DEF ModelReplies
    <3>4. usage.total + total = billed /\ usage.turns + 1 <= turns
      BY <1>0, <3>2 DEF Accounts
    <3>5. usage.total + (total + tokens) = billed + tokens
      <4>1. usage.total \in Nat /\ total \in Nat /\ billed \in Nat /\ tokens \in Nat
        BY <2>1, <3>1
      <4>2. usage.total + total = billed
        BY <3>4
      <4> HIDE LoopAssumption DEF LoopParameters
      <4> QED BY <4>1, <4>2, SumGrows
    <3>6. (usage.total + (IF pc = "idle" THEN 0 ELSE total) = billed)'
      BY <3>2, <3>3, <3>5
    <3>7. (usage.turns + (IF pc = "idle" THEN 0 ELSE 1) <= turns)'
      BY <3>2, <3>3, <3>4
    <3> QED BY <3>6, <3>7 DEF Accounts
  <2> QED BY <2>4, <2>5, <2>6 DEF LInv
<1>4. CASE Notice
  <2>1. sent' \in Seq(Events)
    BY <1>0, <1>4, Appended DEF Notice, TypeOK, Events
  <2> QED
    BY <1>0, <1>4, <2>1 DEF Notice, LInv, TypeOK, CallsToAnswer, Accounts, Steps
<1>5. CASE EmitToolStart
  <2>1. sent' \in Seq(Events)
    BY <1>0, <1>5, Appended DEF EmitToolStart, TypeOK, Events
  <2> QED
    BY <1>0, <1>5, <2>1 DEF EmitToolStart, LInv, TypeOK, CallsToAnswer, Accounts, Steps
<1>6. CASE RunTool
  <2>1. pending # <<>> /\ pending \in Seq(Calls)
    BY <1>0, <1>6 DEF RunTool, CallsToAnswer, TypeOK
  <2>2. Head(pending) \in Calls /\ Tail(pending) \in Seq(Calls) /\ Len(Tail(pending)) = Len(pending) - 1
    BY <2>1
  <2>3. convo' \in Seq(Message) /\ sent' \in Seq(Events)
    BY <1>0, <1>6, <2>2, Messages, Appended DEF RunTool, TypeOK, Events
  <2>4. TypeOK'
    <3>1. cut' \in BOOLEAN /\ pc' \in Steps
      BY <1>0, <1>6, Zenon DEF RunTool, TypeOK, Steps
    <3>2. round' \in Nat
      BY <1>0, <1>6 DEF RunTool, TypeOK
    <3> QED
      BY <1>0, <1>6, <2>2, <2>3, <3>1, <3>2 DEF RunTool, TypeOK
  <2>5. CallsToAnswer'
    <3>1. Len(pending) # 1 => Tail(pending) # <<>>
      <4>1. Len(pending) # 0
        BY <2>1, EmptySeq
      <4>2. Len(pending) \in Nat
        BY <2>1
      <4> QED BY <2>2, <4>1, <4>2
    <3> QED BY <1>6, <3>1, Zenon DEF RunTool, CallsToAnswer
  <2>6. Accounts'
    BY <1>0, <1>6 DEF RunTool, Accounts
  <2> QED BY <2>4, <2>5, <2>6 DEF LInv
<1>7. CASE Return
  <2>1. sent' \in Seq(Events)
    BY <1>0, <1>7, Appended DEF Return, Farewell, TypeOK, Events
  <2>2. usage' \in [turns: Nat, total: Nat]
    <3>1. usage.turns \in Nat /\ usage.total \in Nat /\ total \in Nat
      BY <1>0 DEF TypeOK
    <3>2. usage.turns + 1 \in Nat /\ usage.total + total \in Nat
      BY <3>1
    <3>3. usage \in [turns: Nat, total: Nat]
      BY <1>0 DEF TypeOK
    <3> QED BY <1>7, <3>2, <3>3, Zenon DEF Return, ReportUsage
  <2>3. TypeOK'
    BY <1>0, <1>7, <2>1, <2>2 DEF Return, TypeOK, Steps
  <2>4. CallsToAnswer' /\ Accounts'
    BY <1>0, <1>7 DEF Return, ReportUsage, TypeOK, CallsToAnswer, Accounts
  <2> QED BY <2>3, <2>4 DEF LInv
<1>8. CASE UNCHANGED vars
  BY <1>0, <1>8 DEF vars, LInv, TypeOK, CallsToAnswer, Accounts
<1> QED
  BY <1>1, <1>2, <1>3, <1>4, <1>5, <1>6, <1>7, <1>8 DEF Next, Step

(* The state of the loop and of the server's totals keeps its type. *)
THEOREM TypeCorrect == Spec => []TypeOK
BY InitLInv, StepLInv, PTL DEF Spec, LInv

LEMMA LInvAccounts == LInv => UsageAccounted
BY DEF LInv, TypeOK, Accounts, UsageAccounted

(* Every whole reply's tokens are reported, once. *)
THEOREM UsageIsAccounted == Spec => []UsageAccounted
BY InitLInv, StepLInv, LInvAccounts, PTL DEF Spec

-----------------------------------------------------------------------------
(* The shape of a turn.  In a sequence of messages t, the reply at i asks  *)
(* for tools and the messages behind it, up to n, answer it in order.      *)
AnsweredBy(t, i, n) ==
  /\ Talk!Asks(t[i])
  /\ i + Len(t[i].calls) <= n
  /\ \A k \in 1..Len(t[i].calls) :
       t[i + k].role = "tool" /\ t[i + k].answers = t[i].calls[k]

(* From 2 to n there are nothing but answered rounds of calls. *)
Settled(t, n) ==
  \A i \in 2..n :
    \/ AnsweredBy(t, i, n)
    \/ /\ t[i].role = "tool"
       /\ \E j \in 2..(i - 1) : AnsweredBy(t, j, n) /\ i <= j + Len(t[j].calls)

(* The reply at a is being answered: todo are its calls not yet answered. *)
Asking(t, a, todo) ==
  /\ a \in 2..Len(t)
  /\ Talk!Asks(t[a])
  /\ Settled(t, a - 1)
  /\ Len(t[a].calls) = (Len(t) - a) + Len(todo)
  /\ \A k \in 1..(Len(t) - a) :
       t[a + k].role = "tool" /\ t[a + k].answers = t[a].calls[k]
  /\ \A k \in 1..Len(todo) : todo[k] = t[a].calls[(Len(t) - a) + k]

Replies(t) == {i \in DOMAIN t : t[i].role = "assistant"}

(* What is in convo while a turn runs: the history, a question, ... *)
Opened ==
  /\ Len(history) < Len(convo)
  /\ SubSeq(convo, 1, Len(history)) = history
  /\ Talk!IsQuestion(ThisTurn[1])

(* ... then rounds, the last of them perhaps open, then the answer; ...    *)
Shape ==
  /\ pc = "model" => Settled(ThisTurn, Len(ThisTurn))
  /\ pc \in {"toolStart", "toolRun"} => \E a \in DOMAIN ThisTurn : Asking(ThisTurn, a, pending)
  /\ pc \in {"notice", "ok"} =>
       /\ Len(ThisTurn) >= 2
       /\ Talk!IsAnswer(ThisTurn[Len(ThisTurn)])
       /\ Settled(ThisTurn, Len(ThisTurn) - 1)

(* ... a reply for each round completed, and one for the open round or the *)
(* answer, in which tools were not on offer for ever.                      *)
Counts ==
  LET n == Cardinality(Replies(ThisTurn)) IN
  /\ pc = "model" => n = round /\ round <= MaxToolRounds
  /\ pc \in {"toolStart", "toolRun"} => n = round + 1 /\ round < MaxToolRounds
  /\ pc \in {"notice", "ok"} => n = round + 1 /\ round <= MaxToolRounds
  /\ pc = "error" => n <= MaxToolRounds + 1

TurnInv == pc # "idle" => Opened /\ Shape /\ Counts

-----------------------------------------------------------------------------
(* Sequences of messages *)

LEMMA MessageOf ==
  ASSUME NEW t \in Seq(Message), NEW i \in 1..Len(t)
  PROVE  t[i] \in Message /\ t[i].calls \in Seq(Calls) /\ Len(t[i].calls) \in Nat
<1>1. t[i] \in Message
  BY ElementOfSeq
<1>2. t[i].calls \in Seq(Calls)
  BY <1>1 DEF Message
<1> QED BY <1>1, <1>2, LenProperties

LEMMA TurnGrows ==
  ASSUME TypeOK, Len(history) <= Len(convo), NEW m \in Message,
         convo' = Append(convo, m), history' = history
  PROVE  ThisTurn \in Seq(Message) /\ ThisTurn' = Append(ThisTurn, m)
<1> DEFINE h == Len(history)
           c == Len(convo)
           new == Append(convo, m)
<1>1. convo \in Seq(Message) /\ h \in Nat /\ c \in Nat /\ h <= c
  BY LenProperties DEF TypeOK
<1>2. /\ new \in Seq(Message) /\ Len(new) = c + 1
      /\ \A i \in 1..c : new[i] = convo[i]
      /\ new[c + 1] = m
  BY <1>1, AppendProperties
<1>3. \A i \in 1..c : convo[i] \in Message
  BY <1>1, ElementOfSeq
<1>4. \A i \in 1..(c + 1) : new[i] \in Message
  BY <1>2, ElementOfSeq
<1> HIDE DEF h, c, new
<1>5. LET t == SubSeq(convo, h + 1, c) IN
      t \in Seq(Message) /\ Len(t) = c - h /\ \A i \in 1..(c - h) : t[i] = convo[h + i]
  <2> DEFINE t == SubSeq(convo, h + 1, c)
  <2>1. h + 1 \in Int /\ c \in Int /\ \A i \in (h + 1)..c : convo[i] \in Message
    BY <1>1, <1>3
  <2>2. /\ t \in Seq(Message)
        /\ Len(t) = IF h + 1 <= c THEN c - (h + 1) + 1 ELSE 0
        /\ \A i \in 1..(c - (h + 1) + 1) : t[i] = convo[(h + 1) + i - 1]
    BY <2>1, SubSeqProperties
  <2> HIDE DEF t
  <2>3. Len(t) = c - h
    BY <1>1, <2>2
  <2>4. ASSUME NEW i \in 1..(c - h) PROVE t[i] = convo[h + i]
    <3>1. i \in 1..(c - (h + 1) + 1) /\ (h + 1) + i - 1 = h + i
      BY <1>1
    <3> QED BY <2>2, <3>1
  <2> QED BY <2>2, <2>3, <2>4 DEF t
<1>6. LET t == SubSeq(new, h + 1, c + 1) IN
      /\ t \in Seq(Message) /\ Len(t) = (c - h) + 1
      /\ \A i \in 1..((c - h) + 1) : t[i] = new[h + i]
  <2> DEFINE t == SubSeq(new, h + 1, c + 1)
  <2>1. h + 1 \in Int /\ c + 1 \in Int /\ \A i \in (h + 1)..(c + 1) : new[i] \in Message
    BY <1>1, <1>4
  <2>2. /\ t \in Seq(Message)
        /\ Len(t) = IF h + 1 <= c + 1 THEN (c + 1) - (h + 1) + 1 ELSE 0
        /\ \A i \in 1..((c + 1) - (h + 1) + 1) : t[i] = new[(h + 1) + i - 1]
    BY <2>1, SubSeqProperties
  <2> HIDE DEF t
  <2>3. Len(t) = (c - h) + 1
    BY <1>1, <2>2
  <2>4. ASSUME NEW i \in 1..((c - h) + 1) PROVE t[i] = new[h + i]
    <3>1. i \in 1..((c + 1) - (h + 1) + 1) /\ (h + 1) + i - 1 = h + i
      BY <1>1
    <3> QED BY <2>2, <3>1
  <2> QED BY <2>2, <2>3, <2>4 DEF t
<1> DEFINE old == SubSeq(convo, h + 1, c)
           grown == SubSeq(new, h + 1, c + 1)
<1>7. ThisTurn = old /\ ThisTurn' = grown
  BY <1>2 DEF ThisTurn, h, c, new
<1>8. grown = Append(old, m)
  <2> HIDE DEF old, grown
  <2>1. /\ Append(old, m) \in Seq(Message) /\ Len(Append(old, m)) = (c - h) + 1
        /\ \A i \in 1..(c - h) : Append(old, m)[i] = old[i]
        /\ Append(old, m)[(c - h) + 1] = m
    BY <1>5, AppendProperties DEF old
  <2>2. \A i \in 1..((c - h) + 1) : grown[i] = Append(old, m)[i]
    <3> SUFFICES ASSUME NEW i \in 1..((c - h) + 1) PROVE grown[i] = Append(old, m)[i]
      OBVIOUS
    <3>1. grown[i] = new[h + i]
      BY <1>6 DEF grown
    <3>2. CASE i = (c - h) + 1
      <4>1. h + i = c + 1
        BY <1>1, <3>2
      <4> QED BY <1>2, <2>1, <3>1, <3>2, <4>1
    <3>3. CASE i # (c - h) + 1
      <4>1. i \in 1..(c - h) /\ h + i \in 1..c
        BY <1>1, <3>3
      <4>2. old[i] = convo[h + i]
        BY <1>5, <4>1 DEF old
      <4> QED BY <1>2, <2>1, <3>1, <4>1, <4>2
    <3> QED BY <3>2, <3>3
  <2>3. grown \in Seq(Message) /\ Len(grown) = (c - h) + 1
    BY <1>6 DEF grown
  <2> QED BY <2>1, <2>2, <2>3, SeqEqual
<1> QED BY <1>5, <1>7, <1>8

(* The history stays in front of what a turn adds. *)
LEMMA PrefixKept ==
  ASSUME NEW s \in Seq(Message), NEW n \in 0..Len(s), NEW m \in Message
  PROVE  SubSeq(Append(s, m), 1, n) = SubSeq(s, 1, n)
<1> DEFINE new == Append(s, m)
<1>1. /\ new \in Seq(Message) /\ Len(new) = Len(s) + 1
      /\ \A i \in 1..Len(s) : new[i] = s[i]
  BY AppendProperties
<1>2. Len(s) \in Nat /\ n \in Nat /\ n <= Len(s) /\ 1 \in Int /\ n \in Int
  BY LenProperties
<1>3. \A i \in 1..n : s[i] \in Message /\ new[i] = s[i]
  BY <1>1, <1>2, ElementOfSeq
<1> HIDE DEF new
<1>4. /\ SubSeq(s, 1, n) \in Seq(Message)
      /\ Len(SubSeq(s, 1, n)) = IF 1 <= n THEN n - 1 + 1 ELSE 0
      /\ \A i \in 1..(n - 1 + 1) : SubSeq(s, 1, n)[i] = s[1 + i - 1]
  BY <1>2, <1>3, SubSeqProperties
<1>5. /\ SubSeq(new, 1, n) \in Seq(Message)
      /\ Len(SubSeq(new, 1, n)) = IF 1 <= n THEN n - 1 + 1 ELSE 0
      /\ \A i \in 1..(n - 1 + 1) : SubSeq(new, 1, n)[i] = new[1 + i - 1]
  BY <1>2, <1>3, SubSeqProperties
<1>6. /\ (IF 1 <= n THEN n - 1 + 1 ELSE 0) = n /\ n - 1 + 1 = n
      /\ \A i \in Int : 1 + i - 1 = i
  BY <1>2
<1>7. \A i \in 1..n : SubSeq(new, 1, n)[i] = SubSeq(s, 1, n)[i]
  BY <1>3, <1>4, <1>5, <1>6
<1> QED BY <1>4, <1>5, <1>6, <1>7, SeqEqual DEF new

(* What a message added behind does to the rounds in front. *)
LEMMA AnsweredGrows ==
  ASSUME NEW t \in Seq(Message), NEW m \in Message, NEW n \in 0..Len(t),
         NEW i \in 1..n, NEW p \in Nat, n <= p, AnsweredBy(t, i, n)
  PROVE  AnsweredBy(Append(t, m), i, p)
<1> DEFINE u == Append(t, m)
<1>1. \A k \in 1..Len(t) : u[k] = t[k]
  BY AppendProperties
<1>2. Len(t) \in Nat /\ i \in 1..Len(t)
  BY LenProperties
<1>3. Len(t[i].calls) \in Nat
  BY <1>2, MessageOf
<1>4. u[i] = t[i]
  BY <1>1, <1>2
<1>5. \A k \in 1..Len(t[i].calls) : u[i + k] = t[i + k]
  BY <1>1, <1>2, <1>3 DEF AnsweredBy
<1> HIDE DEF u
<1>6. i + Len(t[i].calls) <= p
  BY <1>2, <1>3 DEF AnsweredBy
<1> QED BY <1>4, <1>5, <1>6 DEF AnsweredBy, u

LEMMA SettledGrows ==
  ASSUME NEW t \in Seq(Message), NEW m \in Message, NEW n \in 0..Len(t), Settled(t, n)
  PROVE  Settled(Append(t, m), n)
<1> DEFINE u == Append(t, m)
<1>1. \A k \in 1..Len(t) : u[k] = t[k]
  BY AppendProperties
<1>2. Len(t) \in Nat /\ n \in Nat
  BY LenProperties
<1>3. \A i \in 1..n : AnsweredBy(t, i, n) => AnsweredBy(u, i, n)
  BY <1>2, AnsweredGrows
<1> HIDE DEF u
<1> SUFFICES ASSUME NEW i \in 2..n
             PROVE  \/ AnsweredBy(u, i, n)
                    \/ /\ u[i].role = "tool"
                       /\ \E j \in 2..(i - 1) :
                            AnsweredBy(u, j, n) /\ i <= j + Len(u[j].calls)
  BY DEF Settled, u
<1>4. i \in 1..n /\ u[i] = t[i]
  BY <1>1, <1>2
<1>5. CASE AnsweredBy(t, i, n)
  BY <1>3, <1>4, <1>5
<1>6. CASE t[i].role = "tool" /\ \E j \in 2..(i - 1) : AnsweredBy(t, j, n) /\ i <= j + Len(t[j].calls)
  <2>1. PICK j \in 2..(i - 1) : AnsweredBy(t, j, n) /\ i <= j + Len(t[j].calls)
    BY <1>6
  <2>2. j \in 1..n /\ u[j] = t[j]
    BY <1>1, <1>2
  <2> QED BY <1>3, <1>4, <1>6, <2>1, <2>2
<1> QED BY <1>5, <1>6 DEF Settled

LEMMA RepliesFinite ==
  ASSUME NEW t \in Seq(Message)
  PROVE  IsFiniteSet(Replies(t)) /\ Cardinality(Replies(t)) \in Nat
<1>1. Len(t) \in Nat /\ DOMAIN t = 1..Len(t)
  BY LenProperties
<1>2. IsFiniteSet(1..Len(t))
  BY <1>1, FS_Interval
<1> QED BY <1>1, <1>2, FS_Subset, FS_CardinalityType DEF Replies

LEMMA RepliesGrow ==
  ASSUME NEW t \in Seq(Message), NEW m \in Message
  PROVE  /\ Cardinality(Replies(t)) \in Nat
         /\ m.role # "assistant" =>
              Cardinality(Replies(Append(t, m))) = Cardinality(Replies(t))
         /\ m.role = "assistant" =>
              Cardinality(Replies(Append(t, m))) = Cardinality(Replies(t)) + 1
<1> DEFINE u == Append(t, m)
<1>1. /\ u \in Seq(Message) /\ Len(u) = Len(t) + 1
      /\ \A k \in 1..Len(t) : u[k] = t[k]
      /\ u[Len(t) + 1] = m
  BY AppendProperties
<1>2. Len(t) \in Nat /\ DOMAIN t = 1..Len(t) /\ DOMAIN u = 1..Len(u)
  BY <1>1, LenProperties
<1> HIDE DEF u
<1>3. IsFiniteSet(Replies(t)) /\ Cardinality(Replies(t)) \in Nat
  BY RepliesFinite
<1>4. ASSUME m.role # "assistant" PROVE Replies(u) = Replies(t)
  BY <1>1, <1>2, <1>4 DEF Replies
<1>5. ASSUME m.role = "assistant"
      PROVE  Replies(u) = Replies(t) \cup {Len(t) + 1} /\ Len(t) + 1 \notin Replies(t)
  BY <1>1, <1>2, <1>5 DEF Replies
<1>6. ASSUME m.role = "assistant"
      PROVE  Cardinality(Replies(u)) = Cardinality(Replies(t)) + 1
  BY <1>3, <1>5, <1>6, FS_AddElement
<1> QED BY <1>3, <1>4, <1>6 DEF u

(* A reply that asks for tools opens a round; *)
LEMMA ReplyAsks ==
  ASSUME NEW t \in Seq(Message), Len(t) >= 1, Settled(t, Len(t)),
         NEW calls \in Seq(Calls), calls # <<>>
  PROVE  LET u == Append(t, Assistant(calls)) IN
         Len(t) + 1 \in DOMAIN u /\ Asking(u, Len(t) + 1, calls)
<1> DEFINE m == Assistant(calls)
           u == Append(t, m)
           n == Len(t)
<1>1. m \in Message
  BY Messages
<1>2. /\ u \in Seq(Message) /\ Len(u) = n + 1 /\ u[n + 1] = m
  BY <1>1, AppendProperties
<1>3. n \in Nat /\ DOMAIN u = 1..Len(u) /\ Len(calls) \in Nat
  BY <1>2, LenProperties
<1>4. Settled(u, n)
  BY <1>1, <1>3, SettledGrows
<1>5. m.calls = calls /\ Talk!Asks(m)
  BY DEF Assistant, Talk!Asks
<1> HIDE DEF u, m, n
<1>6. (n + 1) - 1 = n /\ Len(u) - (n + 1) = 0 /\ n + 1 \in 2..Len(u)
  BY <1>2, <1>3 DEF n
<1>7. Asking(u, n + 1, calls)
  <2>1. Settled(u, (n + 1) - 1) /\ Talk!Asks(u[n + 1]) /\ u[n + 1].calls = calls
    BY <1>2, <1>4, <1>5, <1>6
  <2>2. Len(calls) = (Len(u) - (n + 1)) + Len(calls)
    BY <1>3, <1>6
  <2>3. \A k \in 1..(Len(u) - (n + 1)) : FALSE
    BY <1>6
  <2>4. \A k \in 1..Len(calls) : (Len(u) - (n + 1)) + k = k
    BY <1>3, <1>6
  <2> QED BY <1>6, <2>1, <2>2, <2>3, <2>4 DEF Asking
<1> QED BY <1>3, <1>6, <1>7 DEF u, m, n

(* a result answers its first call left; *)
LEMMA ResultAnswers ==
  ASSUME NEW t \in Seq(Message), NEW a, NEW todo \in Seq(Calls), todo # <<>>,
         Asking(t, a, todo)
  PROVE  LET u == Append(t, ToolResult(Head(todo))) IN
         /\ Len(todo) # 1 => a \in DOMAIN u /\ Asking(u, a, Tail(todo))
         /\ Len(todo) = 1 => Settled(u, Len(u))
<1> DEFINE m == ToolResult(Head(todo))
           u == Append(t, m)
           n == Len(t)
           rest == Tail(todo)
           asked == t[a].calls
<1>1. /\ Head(todo) \in Calls /\ rest \in Seq(Calls) /\ Len(rest) = Len(todo) - 1
      /\ \A k \in 1..Len(rest) : rest[k] = todo[k + 1]
  BY HeadTailProperties
<1>2. Len(todo) \in Nat \ {0} /\ Head(todo) = todo[1]
  BY EmptySeq
<1>3. m \in Message /\ m.role = "tool" /\ m.answers = Head(todo)
  BY <1>1, Messages DEF ToolResult
<1>4. /\ u \in Seq(Message) /\ Len(u) = n + 1 /\ u[n + 1] = m
      /\ \A k \in 1..n : u[k] = t[k]
  BY <1>3, AppendProperties
<1>5. n \in Nat /\ DOMAIN u = 1..Len(u) /\ a \in 2..n
  BY <1>4, LenProperties DEF Asking
<1>6. a \in 1..n /\ asked \in Seq(Calls) /\ Len(asked) \in Nat
  BY <1>5, MessageOf
<1>7. /\ Talk!Asks(t[a]) /\ Settled(t, a - 1) /\ Len(asked) = (n - a) + Len(todo)
      /\ \A k \in 1..(n - a) : t[a + k].role = "tool" /\ t[a + k].answers = asked[k]
      /\ \A k \in 1..Len(todo) : todo[k] = asked[(n - a) + k]
  BY DEF Asking
<1>8. Settled(u, a - 1)
  <2>1. a - 1 \in 0..Len(t)
    BY <1>5
  <2> QED BY <1>3, <1>7, <2>1, SettledGrows
<1> HIDE DEF u, m, n, rest, asked
<1>9. u[a] = t[a] /\ u[a].calls = asked
  BY <1>4, <1>6 DEF asked
<1>10. ASSUME NEW k \in 1..((n - a) + 1)
       PROVE  u[a + k].role = "tool" /\ u[a + k].answers = asked[k]
  <2>1. CASE k = (n - a) + 1
    <3>1. a + k = n + 1 /\ 1 \in 1..Len(todo)
      BY <1>2, <1>5, <2>1
    <3>2. asked[k] = todo[1]
      BY <1>7, <2>1, <3>1
    <3> QED BY <1>2, <1>3, <1>4, <3>1, <3>2
  <2>2. CASE k # (n - a) + 1
    <3>1. k \in 1..(n - a) /\ a + k \in 1..n
      BY <1>5, <2>2
    <3> QED BY <1>4, <1>7, <3>1
  <2> QED BY <2>1, <2>2
<1>11. ASSUME Len(todo) # 1 PROVE a \in DOMAIN u /\ Asking(u, a, rest)
  <2>1. a \in 2..Len(u) /\ a \in DOMAIN u /\ Len(u) - a = (n - a) + 1
    BY <1>4, <1>5
  <2>2. Len(asked) = (Len(u) - a) + Len(rest)
    BY <1>1, <1>2, <1>5, <1>7, <2>1
  <2>3. \A k \in 1..Len(rest) : rest[k] = asked[(Len(u) - a) + k]
    <3> SUFFICES ASSUME NEW k \in 1..Len(rest) PROVE rest[k] = asked[(Len(u) - a) + k]
      OBVIOUS
    <3>1. k \in Nat /\ k + 1 \in 1..Len(todo)
      BY <1>1, <1>2
    <3>2. (n - a) + (k + 1) = (Len(u) - a) + k
      <4>1. n - a \in Int
        BY <1>5
      <4> QED BY <2>1, <3>1, <4>1
    <3>3. todo[k + 1] = asked[(n - a) + (k + 1)]
      BY <1>7, <3>1
    <3> QED BY <1>1, <3>2, <3>3
  <2>4. \A k \in 1..(Len(u) - a) : u[a + k].role = "tool" /\ u[a + k].answers = asked[k]
    BY <1>10, <2>1
  <2> QED BY <1>7, <1>8, <1>9, <2>1, <2>2, <2>3, <2>4 DEF Asking
<1>12. ASSUME Len(todo) = 1 PROVE Settled(u, Len(u))
  <2>1. Len(asked) = (n - a) + 1 /\ a + Len(asked) = Len(u)
    BY <1>4, <1>5, <1>7, <1>12
  <2>2. AnsweredBy(u, a, Len(u))
    <3>1. a + Len(u[a].calls) <= Len(u)
      BY <1>4, <1>5, <1>9, <2>1
    <3>2. \A k \in 1..Len(u[a].calls) :
            u[a + k].role = "tool" /\ u[a + k].answers = u[a].calls[k]
      BY <1>9, <1>10, <2>1
    <3>3. Talk!Asks(u[a])
      BY <1>7, <1>9
    <3> QED BY <3>1, <3>2, <3>3 DEF AnsweredBy
  <2>3. \A i \in 2..(a - 1) : AnsweredBy(u, i, a - 1) => AnsweredBy(u, i, Len(u))
    <3> SUFFICES ASSUME NEW i \in 2..(a - 1), AnsweredBy(u, i, a - 1)
                 PROVE  AnsweredBy(u, i, Len(u))
      OBVIOUS
    <3>1. i \in 1..Len(u)
      BY <1>4, <1>5
    <3>2. Len(u[i].calls) \in Nat
      BY <1>4, <3>1, MessageOf
    <3>3. i + Len(u[i].calls) <= Len(u)
      BY <1>4, <1>5, <3>2 DEF AnsweredBy
    <3> QED BY <3>3 DEF AnsweredBy
  <2>4. ASSUME NEW i \in 2..Len(u)
        PROVE  \/ AnsweredBy(u, i, Len(u))
               \/ /\ u[i].role = "tool"
                  /\ \E j \in 2..(i - 1) :
                       AnsweredBy(u, j, Len(u)) /\ i <= j + Len(u[j].calls)
    <3>1. CASE i < a
      <4>1. i \in 2..(a - 1)
        BY <1>5, <3>1
      <4>2. \A j \in 2..(i - 1) : j \in 2..(a - 1)
        BY <1>5, <4>1
      <4> QED BY <1>8, <2>3, <4>1, <4>2 DEF Settled
    <3>2. CASE i = a
      BY <2>2, <3>2
    <3>3. CASE i > a
      <4>1. i - a \in 1..((n - a) + 1) /\ a + (i - a) = i /\ a \in 2..(i - 1)
        BY <1>4, <1>5, <3>3
      <4>2. u[i].role = "tool"
        BY <1>10, <4>1
      <4>3. i <= a + Len(u[a].calls)
        BY <1>9, <2>1
      <4> QED BY <2>2, <4>1, <4>2, <4>3
    <3> QED BY <1>5, <3>1, <3>2, <3>3
  <2> QED BY <2>4 DEF Settled
<1> QED BY <1>11, <1>12 DEF u, m, rest

(* and a reply that asks for nothing, after whole rounds, ends an exchange. *)
LEMMA WholeExchange ==
  ASSUME NEW t \in Seq(Message), Len(t) >= 2,
         Talk!IsQuestion(t[1]), Talk!IsAnswer(t[Len(t)]), Settled(t, Len(t) - 1),
         Cardinality(Replies(t)) <= MaxToolRounds + 1
  PROVE  Talk!IsExchange(t)
<1> DEFINE n == Len(t)
           asks == {i \in DOMAIN t : Talk!Asks(t[i])}
<1>1. n \in Nat /\ DOMAIN t = 1..n /\ n >= 2
  BY LenProperties
<1>2. ASSUME NEW i \in 2..(n - 1), AnsweredBy(t, i, n - 1)
      PROVE  Talk!RoundAt(t, i)
  <2>1. i \in 1..n
    BY <1>1
  <2>2. Len(t[i].calls) \in Nat
    BY <2>1, MessageOf
  <2>3. i + Len(t[i].calls) < n
    BY <1>1, <1>2, <2>2 DEF AnsweredBy
  <2> QED BY <1>2, <2>3 DEF AnsweredBy, Talk!RoundAt, Talk!Asks
<1>3. ASSUME NEW i \in 2..(n - 1)
      PROVE  \/ Talk!RoundAt(t, i)
             \/ /\ t[i].role = "tool"
                /\ \E j \in 2..(i - 1) : Talk!RoundAt(t, j) /\ i <= j + Len(t[j].calls)
  <2>1. \/ AnsweredBy(t, i, n - 1)
        \/ /\ t[i].role = "tool"
           /\ \E j \in 2..(i - 1) : AnsweredBy(t, j, n - 1) /\ i <= j + Len(t[j].calls)
    BY DEF Settled
  <2>2. \A j \in 2..(i - 1) : j \in 2..(n - 1)
    BY <1>1
  <2> HIDE DEF n
  <2> QED BY <1>2, <2>1, <2>2
<1>4. Cardinality(asks) <= MaxToolRounds
  <2>1. IsFiniteSet(Replies(t))
    BY RepliesFinite
  <2>2. n \in Replies(t) /\ n \notin asks
    BY <1>1 DEF Replies, Talk!IsAnswer, Talk!Asks
  <2>3. asks \subseteq Replies(t) \ {n}
    BY <2>2 DEF Replies, Talk!Asks
  <2>4. /\ IsFiniteSet(Replies(t) \ {n})
        /\ Cardinality(Replies(t) \ {n}) = Cardinality(Replies(t)) - 1
    BY <2>1, <2>2, FS_RemoveElement
  <2> HIDE DEF asks, n
  <2>5. /\ IsFiniteSet(asks)
        /\ Cardinality(asks) <= Cardinality(Replies(t) \ {n})
    BY <2>3, <2>4, FS_Subset
  <2>6. Cardinality(asks) \in Nat /\ Cardinality(Replies(t)) \in Nat /\ MaxToolRounds \in Nat
    BY <2>1, <2>5, FS_CardinalityType, LoopAssumption DEF LoopParameters
  <2> QED BY <2>4, <2>5, <2>6
<1>5. Talk!Cardinality({i \in DOMAIN t : Talk!Asks(t[i])}) <= MaxToolRounds
  BY <1>4 DEF Talk!Cardinality, Cardinality
<1> QED BY <1>1, <1>3, <1>5 DEF Talk!IsExchange

-----------------------------------------------------------------------------
(* The shape is kept *)

LEMMA TurnType ==
  ASSUME TypeOK, Len(history) <= Len(convo)
  PROVE  ThisTurn \in Seq(Message)
<1>1. User \in Message
  BY Messages
<1>2. /\ convo \in Seq(Message) /\ Len(history) \in Nat /\ Len(convo) \in Nat
  BY LenProperties DEF TypeOK
<1>3. \A i \in (Len(history) + 1)..Len(convo) : convo[i] \in Message
  BY <1>2, ElementOfSeq
<1> QED BY <1>2, <1>3, SubSeqProperties DEF ThisTurn

LEMMA OpenedStep ==
  ASSUME TypeOK, Opened, NEW m \in Message, convo' = Append(convo, m), history' = history
  PROVE  /\ ThisTurn \in Seq(Message) /\ Len(ThisTurn) >= 1
         /\ ThisTurn' = Append(ThisTurn, m)
         /\ Opened'
<1>1. /\ convo \in Seq(Message) /\ Len(history) \in Nat /\ Len(convo) \in Nat
      /\ Len(history) < Len(convo)
  BY LenProperties DEF TypeOK, Opened
<1>2. ThisTurn \in Seq(Message) /\ ThisTurn' = Append(ThisTurn, m)
  BY <1>1, TurnGrows
<1>3. Len(ThisTurn) >= 1
  <2>1. \A i \in (Len(history) + 1)..Len(convo) : convo[i] \in Message
    BY <1>1, ElementOfSeq
  <2>2. Len(ThisTurn) = IF Len(history) + 1 <= Len(convo)
                        THEN Len(convo) - (Len(history) + 1) + 1 ELSE 0
    BY <1>1, <2>1, SubSeqProperties DEF ThisTurn
  <2> QED BY <1>1, <2>2
<1>4. Len(convo') = Len(convo) + 1
  BY <1>1, AppendProperties
<1>5. SubSeq(convo', 1, Len(history)) = history
  <2>1. Len(history) \in 0..Len(convo)
    BY <1>1
  <2> QED BY <1>1, <2>1, PrefixKept DEF Opened
<1>6. ThisTurn'[1] = ThisTurn[1]
  <2>1. 1 \in 1..Len(ThisTurn)
    BY <1>2, <1>3, LenProperties
  <2> QED BY <1>2, <2>1, AppendProperties
<1>7. (Len(history) < Len(convo))'
  BY <1>1, <1>4
<1>8. (SubSeq(convo, 1, Len(history)) = history)'
  BY <1>5
<1>9. Talk!IsQuestion(ThisTurn[1])'
  BY <1>6 DEF Opened, Talk!IsQuestion
<1> QED BY <1>2, <1>3, <1>7, <1>8, <1>9 DEF Opened

LEMMA BeginTurn == TypeOK /\ Begin => TurnInv'
<1> SUFFICES ASSUME TypeOK, Begin PROVE TurnInv'
  OBVIOUS
<1> DEFINE none == SubSeq(history, Len(history) + 1, Len(history))
           t == ThisTurn'
<1>1. /\ history \in Seq(Message) /\ Len(history) \in Nat /\ User \in Message
      /\ convo' = Append(history, User) /\ history' = history
      /\ pc' = "model" /\ round' = 0
  BY Messages, LenProperties DEF TypeOK, Begin
<1>2. /\ convo' \in Seq(Message) /\ Len(convo') = Len(history) + 1
      /\ convo'[Len(history) + 1] = User
      /\ \A i \in 1..Len(history) : convo'[i] = history[i]
  BY <1>1, AppendProperties
<1>3. t \in Seq(Message) /\ Len(t) = 1 /\ t[1] = User
  <2>1. t = SubSeq(convo', Len(history) + 1, Len(history) + 1)
    BY <1>1, <1>2 DEF ThisTurn
  <2>2. /\ Len(history) + 1 \in Int
        /\ \A i \in (Len(history) + 1)..(Len(history) + 1) : convo'[i] \in Message
    BY <1>1, <1>2
  <2> HIDE DEF t
  <2>3. /\ t \in Seq(Message)
        /\ Len(t) = IF Len(history) + 1 <= Len(history) + 1
                    THEN (Len(history) + 1) - (Len(history) + 1) + 1 ELSE 0
        /\ \A i \in 1..((Len(history) + 1) - (Len(history) + 1) + 1) :
             t[i] = convo'[(Len(history) + 1) + i - 1]
    BY <2>1, <2>2, SubSeqProperties
  <2>4. Len(t) = 1 /\ 1 \in 1..((Len(history) + 1) - (Len(history) + 1) + 1)
        /\ (Len(history) + 1) + 1 - 1 = Len(history) + 1
    BY <1>1, <2>3
  <2> QED BY <1>2, <2>3, <2>4
<1>4. Opened'
  <2>1. (Len(history) < Len(convo))'
    BY <1>1, <1>2
  <2>2. (SubSeq(convo, 1, Len(history)) = history)'
    <3>1. SubSeq(Append(history, User), 1, Len(history)) = SubSeq(history, 1, Len(history))
      <4>1. Len(history) \in 0..Len(history)
        BY <1>1
      <4> QED BY <1>1, <4>1, PrefixKept
    <3>2. SubSeq(history, 1, Len(history)) = history
      BY <1>1, SubSeqFull
    <3> QED BY <1>1, <3>1, <3>2
  <2>3. Talk!IsQuestion(ThisTurn[1])'
    BY <1>3 DEF Talk!IsQuestion, User
  <2> QED BY <2>1, <2>2, <2>3 DEF Opened
<1>5. Shape'
  <2>1. Settled(t, Len(t))
    <3> HIDE DEF t
    <3> QED BY <1>3 DEF Settled
  <2> QED BY <1>1, <2>1 DEF Shape
<1>6. Counts'
  <2>1. Replies(t) = {}
    <3>1. DOMAIN t = 1..1
      BY <1>3, LenProperties
    <3> HIDE DEF t
    <3> QED BY <1>3, <3>1 DEF Replies, User
  <2>2. Cardinality(Replies(t)) = 0
    BY <2>1, FS_EmptySet
  <2>3. MaxToolRounds \in Nat
    BY LoopAssumption DEF LoopParameters
  <2> QED BY <1>1, <2>2, <2>3 DEF Counts
<1> QED BY <1>4, <1>5, <1>6 DEF TurnInv

LEMMA ReplyTurn ==
  ASSUME TypeOK, TurnInv, NEW calls \in CallLists, NEW long \in BOOLEAN, NEW tokens \in Tokens,
         ModelReplies(calls, long, tokens)
  PROVE  TurnInv'
<1> DEFINE m == Assistant(calls)
           t == ThisTurn
<1>1. /\ pc = "model" /\ Opened /\ Shape /\ Counts
      /\ convo' = Append(convo, m) /\ history' = history /\ round' = round
      /\ pending' = calls /\ (round < MaxToolRounds \/ calls = <<>>)
      /\ pc' = IF calls = <<>> THEN "notice" ELSE "toolStart"
  BY DEF ModelReplies, TurnInv, Offered
<1>2. calls \in Seq(Calls) /\ m \in Message /\ m.role = "assistant" /\ m.calls = calls
  BY Messages, LoopAssumption DEF LoopParameters, Assistant
<1>3. /\ t \in Seq(Message) /\ Len(t) >= 1 /\ Len(t) \in Nat
      /\ ThisTurn' = Append(t, m) /\ Opened'
  BY <1>1, <1>2, OpenedStep, LenProperties
<1>4. Settled(t, Len(t)) /\ Cardinality(Replies(t)) = round /\ round <= MaxToolRounds
  BY <1>1 DEF Shape, Counts
<1>5. Cardinality(Replies(Append(t, m))) = round + 1
  BY <1>2, <1>3, <1>4, RepliesGrow
<1> HIDE DEF m, t
<1>6. CASE calls = <<>>
  <2>1. pc' = "notice"
    BY <1>1, <1>6
  <2>2. /\ Len(Append(t, m)) = Len(t) + 1 /\ Append(t, m)[Len(t) + 1] = m
    BY <1>2, <1>3, AppendProperties
  <2>3. Settled(Append(t, m), Len(t))
    BY <1>2, <1>3, <1>4, SettledGrows
  <2>4. Talk!IsAnswer(m)
    BY <1>2, <1>6 DEF Talk!IsAnswer
  <2>5. (Len(t) + 1) - 1 = Len(t) /\ Len(t) + 1 >= 2
    BY <1>3
  <2>6. Shape'
    BY <1>3, <2>1, <2>2, <2>3, <2>4, <2>5 DEF Shape
  <2>7. Counts'
    BY <1>1, <1>3, <1>4, <1>5, <2>1 DEF Counts
  <2> QED BY <1>3, <2>6, <2>7 DEF TurnInv
<1>7. CASE calls # <<>>
  <2>1. pc' = "toolStart" /\ round < MaxToolRounds
    BY <1>1, <1>7
  <2>2. Len(t) + 1 \in DOMAIN Append(t, m) /\ Asking(Append(t, m), Len(t) + 1, calls)
    BY <1>2, <1>3, <1>4, <1>7, ReplyAsks DEF m
  <2>3. Shape'
    BY <1>1, <1>3, <2>1, <2>2 DEF Shape
  <2>4. Counts'
    BY <1>1, <1>3, <1>5, <2>1 DEF Counts
  <2> QED BY <1>3, <2>3, <2>4 DEF TurnInv
<1> QED BY <1>6, <1>7

LEMMA ToolTurn == LInv /\ TurnInv /\ RunTool => TurnInv'
<1> SUFFICES ASSUME LInv, TurnInv, RunTool PROVE TurnInv'
  OBVIOUS
<1> DEFINE m == ToolResult(Head(pending))
           t == ThisTurn
<1>1. /\ pc = "toolRun" /\ Opened /\ Shape /\ Counts /\ TypeOK
      /\ convo' = Append(convo, m) /\ history' = history
      /\ pending' = Tail(pending) /\ pending \in Seq(Calls) /\ pending # <<>>
      /\ round' = IF Len(pending) = 1 THEN round + 1 ELSE round
      /\ pc' = IF Len(pending) = 1 THEN "model" ELSE "toolStart"
  BY DEF RunTool, TurnInv, LInv, TypeOK, CallsToAnswer
<1>2. m \in Message /\ m.role = "tool"
  BY <1>1, HeadTailProperties, Messages DEF ToolResult
<1>3. t \in Seq(Message) /\ ThisTurn' = Append(t, m) /\ Opened'
  BY <1>1, <1>2, OpenedStep
<1>4. PICK a \in DOMAIN t : Asking(t, a, pending)
  BY <1>1 DEF Shape
<1>5. /\ Len(pending) # 1 => a \in DOMAIN Append(t, m) /\ Asking(Append(t, m), a, Tail(pending))
      /\ Len(pending) = 1 => Settled(Append(t, m), Len(Append(t, m)))
  BY <1>1, <1>3, <1>4, ResultAnswers
<1>6. Cardinality(Replies(Append(t, m))) = round + 1 /\ round < MaxToolRounds /\ round \in Nat
      /\ MaxToolRounds \in Nat
  BY <1>1, <1>2, <1>3, RepliesGrow, LoopAssumption DEF LoopParameters, Counts, TypeOK
<1> HIDE DEF m, t
<1>7. Shape'
  BY <1>1, <1>3, <1>5 DEF Shape
<1>8. Counts'
  <2>1. CASE Len(pending) = 1
    <3>1. pc' = "model" /\ round' = round + 1 /\ round + 1 <= MaxToolRounds
      BY <1>1, <1>6, <2>1
    <3> QED BY <1>3, <1>6, <3>1 DEF Counts
  <2>2. CASE Len(pending) # 1
    <3>1. pc' = "toolStart" /\ round' = round
      BY <1>1, <2>2
    <3> QED BY <1>3, <1>6, <3>1 DEF Counts
  <2> QED BY <2>1, <2>2
<1> QED BY <1>3, <1>7, <1>8 DEF TurnInv

LEMMA StepTurn == LInv /\ TurnInv /\ [Next]_vars => TurnInv'
<1> SUFFICES ASSUME LInv, TurnInv, [Next]_vars PROVE TurnInv'
  OBVIOUS
<1>0. TypeOK
  BY DEF LInv
<1>1. ASSUME UNCHANGED <<history, convo>> PROVE UNCHANGED ThisTurn /\ (Opened => Opened')
  BY <1>1 DEF ThisTurn, Opened, Talk!IsQuestion
<1>2. CASE Begin
  BY <1>0, <1>2, BeginTurn
<1>3. ASSUME pc # "idle", UNCHANGED <<history, convo, round>>, pc' = "error" PROVE TurnInv'
  <2>1. Opened' /\ UNCHANGED ThisTurn
    BY <1>1, <1>3 DEF TurnInv
  <2>2. Shape'
    BY <1>3 DEF Shape
  <2>3. Cardinality(Replies(ThisTurn)) \in Nat
    <3>1. Len(history) <= Len(convo)
      <4>1. Len(history) \in Nat /\ Len(convo) \in Nat
        BY <1>0, LenProperties DEF TypeOK
      <4> QED BY <1>3, <4>1 DEF TurnInv, Opened
    <3> QED BY <1>0, <3>1, TurnType, RepliesFinite
  <2>4. Cardinality(Replies(ThisTurn)) <= MaxToolRounds + 1
    <3>1. pc \in {"model", "notice", "toolStart", "toolRun", "ok", "error"}
      BY <1>0, <1>3 DEF TypeOK, Steps
    <3>2. round \in Nat /\ MaxToolRounds \in Nat
      BY <1>0, LoopAssumption DEF LoopParameters, TypeOK
    <3> QED BY <1>3, <2>3, <3>1, <3>2 DEF TurnInv, Counts
  <2>5. Counts'
    BY <1>3, <2>1, <2>4 DEF Counts
  <2> QED BY <2>1, <2>2, <2>5 DEF TurnInv
<1>4. CASE ModelFails \/ EmitFails
  <2>1. pc # "idle" /\ UNCHANGED <<history, convo, round>> /\ pc' = "error"
    BY <1>4 DEF ModelFails, EmitFails, Fail
  <2> QED BY <1>3, <2>1
<1>5. ASSUME NEW calls \in CallLists, NEW long \in BOOLEAN, NEW tokens \in Tokens,
             ModelReplies(calls, long, tokens)
      PROVE  TurnInv'
  BY <1>0, <1>5, ReplyTurn
<1>6. CASE Notice \/ EmitToolStart \/ UNCHANGED vars
  <2>1. /\ UNCHANGED <<history, convo, round, pending>>
        /\ \/ pc = "notice" /\ pc' = "ok"
           \/ pc = "toolStart" /\ pc' = "toolRun"
           \/ pc' = pc
    BY <1>6 DEF Notice, EmitToolStart, vars
  <2>2. UNCHANGED ThisTurn /\ (Opened => Opened')
    BY <1>1, <2>1
  <2>3. Shape => Shape'
    BY <2>1, <2>2 DEF Shape
  <2>4. Counts => Counts'
    BY <2>1, <2>2 DEF Counts
  <2> QED BY <2>1, <2>2, <2>3, <2>4 DEF TurnInv
<1>7. CASE RunTool
  BY <1>7, ToolTurn
<1>8. CASE Return
  BY <1>8 DEF Return, TurnInv
<1> QED BY <1>2, <1>4, <1>5, <1>6, <1>7, <1>8 DEF Next, Step

LEMMA TurnInvariance == Spec => [](LInv /\ TurnInv)
<1>1. Init => TurnInv
  BY DEF Init, TurnInv
<1> QED BY <1>1, InitLInv, StepLInv, StepTurn, PTL DEF Spec

(* loop.go:122-124 and 148: whatever the model asks for, a turn has at     *)
(* most MaxToolRounds + 1 replies of it.                                   *)
THEOREM CallsAreBounded == Spec => []ModelCallsBounded
<1>1. LInv /\ TurnInv => ModelCallsBounded
  <2> SUFFICES ASSUME LInv, TurnInv, pc # "idle"
               PROVE  Cardinality(Replies(ThisTurn))
                        <= MaxToolRounds + (IF pc \in {"notice", "ok", "error"} THEN 1 ELSE 0)
    BY DEF ModelCallsBounded, Replies
  <2>1. round \in Nat /\ MaxToolRounds \in Nat /\ pc \in Steps
    BY LoopAssumption DEF LoopParameters, LInv, TypeOK
  <2> QED BY <2>1 DEF TurnInv, Counts, Steps
<1> QED BY <1>1, TurnInvariance, PTL

(* loop.go:117-131 and server.go:207-217: the conversation a visitor's     *)
(* next turn starts from has grown by one whole exchange, in which every   *)
(* tool call has its result behind it, or is as it was.                    *)
THEOREM TurnsAreWhole == Spec => ImplementsConversation
<1>1. Init => Talk!Init
  BY DEF Init, Talk!Init
<1>2. LInv /\ TurnInv /\ [Next]_vars => [Talk!Exchange]_history
  <2> SUFFICES ASSUME LInv, TurnInv, Next, history' # history PROVE Talk!Exchange
    BY DEF vars
  <2>1. pc = "ok" /\ history' = convo
    BY DEF Next, Step, Begin, ModelFails, Fail, ModelReplies, Notice, EmitToolStart,
           RunTool, EmitFails, Return
  <2>2. Opened /\ Shape /\ Counts /\ TypeOK
    BY <2>1 DEF TurnInv, LInv
  <2>3. Len(history) <= Len(convo)
    <3>1. Len(history) \in Nat /\ Len(convo) \in Nat
      BY <2>2, LenProperties DEF TypeOK
    <3> QED BY <2>2, <3>1 DEF Opened
  <2>4. ThisTurn \in Seq(Message)
    BY <2>2, <2>3, TurnType
  <2>5. Cardinality(Replies(ThisTurn)) <= MaxToolRounds + 1
    <3>1. round \in Nat /\ MaxToolRounds \in Nat
      BY <2>2, LoopAssumption DEF LoopParameters, TypeOK
    <3> QED BY <2>1, <2>2, <3>1 DEF Counts
  <2>6. Talk!IsExchange(ThisTurn)
    BY <2>1, <2>2, <2>4, <2>5, WholeExchange DEF Opened, Shape
  <2>7. ThisTurn = SubSeq(history', Len(history) + 1, Len(history'))
    BY <2>1 DEF ThisTurn
  <2> QED BY <2>1, <2>2, <2>6, <2>7 DEF Opened, Talk!Exchange
<1> QED BY <1>1, <1>2, TurnInvariance, PTL DEF Spec, Talk!Spec, ImplementsConversation

-----------------------------------------------------------------------------
(* What the visitor is shown *)

(* n tool calls, each announced and then answered. *)
Shown(n) == [i \in 1..(2 * n) |-> IF i % 2 = 1 THEN "tool_start" ELSE "tool_result"]

(* The turn's tool results, by their places in convo. *)
TurnTools == {i \in DOMAIN convo : i > Len(history) /\ convo[i].role = "tool"}

OneQuestion ==
  /\ Len(history) < Len(convo)
  /\ convo[Len(history) + 1].role = "user"
  /\ \A i \in DOMAIN convo : i > Len(history) + 1 => convo[i].role # "user"

Showing ==
  LET n == Cardinality(TurnTools) IN
  /\ \A i \in DOMAIN sent : sent[i] # "done"
  /\ pc \in {"model", "toolStart", "notice"} => sent = Shown(n)
  /\ pc = "toolRun" => sent = Append(Shown(n), "tool_start")
  /\ pc = "ok" => sent = Shown(n) \o (IF cut THEN <<"truncated">> ELSE <<>>)

ShowInv ==
  /\ pc # "idle" => OneQuestion /\ Showing
  /\ VisitorSawTheTurn

LEMMA ShownIsSeq == \A n \in Nat : Shown(n) \in Seq(Events) /\ Len(Shown(n)) = 2 * n
<1> SUFFICES ASSUME NEW n \in Nat PROVE Shown(n) \in Seq(Events) /\ Len(Shown(n)) = 2 * n
  OBVIOUS
<1>1. 2 * n \in Nat
  OBVIOUS
<1>2. Shown(n) \in [1..(2 * n) -> Events]
  BY DEF Shown, Events
<1> QED BY <1>1, <1>2

LEMMA ShownGrows ==
  ASSUME NEW n \in Nat
  PROVE  Append(Append(Shown(n), "tool_start"), "tool_result") = Shown(n + 1)
<1> DEFINE s == Shown(n)
           a == Append(s, "tool_start")
           b == Append(a, "tool_result")
           g == Shown(n + 1)
<1>1. /\ s \in Seq(Events) /\ Len(s) = 2 * n
      /\ g \in Seq(Events) /\ Len(g) = 2 * (n + 1)
  BY ShownIsSeq
<1>2. "tool_start" \in Events /\ "tool_result" \in Events
  BY DEF Events
<1>3. /\ a \in Seq(Events) /\ Len(a) = 2 * n + 1 /\ a[2 * n + 1] = "tool_start"
      /\ \A i \in 1..(2 * n) : a[i] = s[i]
  BY <1>1, <1>2, AppendProperties
<1> HIDE DEF a
<1>4. /\ b \in Seq(Events) /\ Len(b) = 2 * n + 2 /\ b[2 * n + 2] = "tool_result"
      /\ \A i \in 1..(2 * n + 1) : b[i] = a[i]
  <2>1. Len(a) + 1 = 2 * n + 2
    BY <1>3
  <2> QED BY <1>2, <1>3, <2>1, AppendProperties
<1> HIDE DEF b
<1>5. \A i \in 1..(2 * n) : s[i] = IF i % 2 = 1 THEN "tool_start" ELSE "tool_result"
  BY DEF Shown
<1>6. \A i \in 1..(2 * (n + 1)) : g[i] = IF i % 2 = 1 THEN "tool_start" ELSE "tool_result"
  BY DEF Shown
<1> HIDE DEF s, g
<1>7. (2 * n + 1) % 2 = 1 /\ (2 * n + 2) % 2 = 0 /\ 2 * (n + 1) = 2 * n + 2
  OBVIOUS
<1>8. ASSUME NEW i \in 1..(2 * n + 2) PROVE b[i] = g[i]
  <2>1. CASE i = 2 * n + 2
    BY <1>4, <1>6, <1>7, <2>1
  <2>2. CASE i = 2 * n + 1
    <3>1. i \in 1..(2 * n + 1)
      BY <2>2
    <3> QED BY <1>3, <1>4, <1>6, <1>7, <2>2, <3>1
  <2>3. CASE i \in 1..(2 * n)
    <3>1. i \in 1..(2 * n + 1) /\ i \in 1..(2 * (n + 1))
      BY <2>3
    <3> QED BY <1>3, <1>4, <1>5, <1>6, <2>3, <3>1
  <2> QED BY <2>1, <2>2, <2>3
<1>9. b = g
  BY <1>1, <1>4, <1>7, <1>8, SeqEqual
<1> QED BY <1>9 DEF a, b, s, g

(* A message added behind the turn is counted if it is a tool result. *)
LEMMA ToolsGrow ==
  ASSUME TypeOK, OneQuestion, NEW m \in Message, m.role # "user",
         convo' = Append(convo, m), history' = history
  PROVE  /\ OneQuestion'
         /\ Cardinality(TurnTools) \in Nat
         /\ m.role # "tool" => TurnTools' = TurnTools
         /\ m.role = "tool" => Cardinality(TurnTools') = Cardinality(TurnTools) + 1
<1> DEFINE c == Len(convo)
           h == Len(history)
<1>1. /\ convo \in Seq(Message) /\ c \in Nat /\ h \in Nat /\ h < c /\ DOMAIN convo = 1..c
  BY LenProperties DEF TypeOK, OneQuestion
<1>2. /\ convo' \in Seq(Message) /\ Len(convo') = c + 1 /\ convo'[c + 1] = m
      /\ \A i \in 1..c : convo'[i] = convo[i]
  BY <1>1, AppendProperties
<1>3. DOMAIN convo' = 1..(c + 1)
  BY <1>2, LenProperties
<1>4. OneQuestion'
  <2>1. h + 1 \in 1..c
    BY <1>1
  <2>2. convo'[h + 1].role = "user"
    BY <1>2, <2>1 DEF OneQuestion
  <2>3. \A i \in 1..(c + 1) : i > h + 1 => convo'[i].role # "user"
    BY <1>1, <1>2 DEF OneQuestion
  <2>4. h < Len(convo')
    BY <1>1, <1>2
  <2> QED BY <1>3, <2>2, <2>3, <2>4 DEF OneQuestion
<1>5. IsFiniteSet(TurnTools) /\ Cardinality(TurnTools) \in Nat
  <2>1. IsFiniteSet(1..c)
    BY <1>1, FS_Interval
  <2> QED BY <1>1, <2>1, FS_Subset, FS_CardinalityType DEF TurnTools
<1>6. TurnTools' = TurnTools \cup (IF m.role = "tool" THEN {c + 1} ELSE {})
  BY <1>1, <1>2, <1>3 DEF TurnTools
<1>7. c + 1 \notin TurnTools
  BY <1>1 DEF TurnTools
<1>8. ASSUME m.role = "tool" PROVE Cardinality(TurnTools') = Cardinality(TurnTools) + 1
  <2>1. TurnTools' = TurnTools \cup {c + 1}
    BY <1>6, <1>8
  <2> QED BY <1>5, <1>7, <2>1, FS_AddElement
<1> QED BY <1>4, <1>5, <1>6, <1>8

(* Events other than "done" leave "done" unsaid. *)
LEMMA NotDoneYet ==
  ASSUME NEW s \in Seq(Events), NEW e \in Events, e # "done",
         \A i \in DOMAIN s : s[i] # "done"
  PROVE  \A i \in DOMAIN Append(s, e) : Append(s, e)[i] # "done"
<1> DEFINE u == Append(s, e)
<1>1. /\ u \in Seq(Events) /\ Len(u) = Len(s) + 1 /\ u[Len(s) + 1] = e
      /\ \A i \in 1..Len(s) : u[i] = s[i]
  BY AppendProperties
<1>2. Len(s) \in Nat /\ DOMAIN s = 1..Len(s) /\ DOMAIN u = 1..Len(u)
  BY <1>1, LenProperties
<1> HIDE DEF u
<1>3. \A i \in DOMAIN u : u[i] # "done"
  BY <1>1, <1>2
<1> QED BY <1>3 DEF u

(* Once a whole turn is kept, it is the history's last exchange. *)
LEMMA TurnIsLast ==
  ASSUME TypeOK, OneQuestion, history' = convo
  PROVE  {i \in LastExchange' : history'[i].role = "tool"} = TurnTools
<1> DEFINE c == Len(convo)
           h == Len(history)
<1>1. c \in Nat /\ h \in Nat /\ h < c /\ DOMAIN convo = 1..c
  BY LenProperties DEF TypeOK, OneQuestion
<1>2. LastExchange' = {i \in 1..c : \A j \in {k \in 1..c : convo[k].role = "user"} : j <= i}
  BY <1>1 DEF LastExchange
<1>3. h + 1 \in {k \in 1..c : convo[k].role = "user"}
  BY <1>1 DEF OneQuestion
<1>4. \A j \in {k \in 1..c : convo[k].role = "user"} : j <= h + 1
  BY <1>1 DEF OneQuestion
<1>5. LastExchange' = {i \in 1..c : i > h}
  BY <1>1, <1>2, <1>3, <1>4
<1> QED BY <1>1, <1>5 DEF TurnTools

LEMMA ReturnShows == LInv /\ ShowInv /\ Return => ShowInv'
<1> SUFFICES ASSUME LInv, ShowInv, Return PROVE ShowInv'
  OBVIOUS
<1>1. /\ TypeOK /\ pc \in {"ok", "error"} /\ OneQuestion /\ Showing
      /\ pc' = "idle" /\ cut' = cut
      /\ sent' = sent \/ sent' = Append(sent, IF pc = "ok" THEN "done" ELSE "error")
      /\ sent \in Seq(Events)
  BY DEF Return, Farewell, LInv, ShowInv, TypeOK
<1>2. "error" \in Events /\ "done" \in Events /\ "truncated" \in Events
  BY DEF Events
<1>3. CASE \A i \in DOMAIN sent' : sent'[i] # "done"
  <2>1. sent' \in Seq(Events)
    BY <1>1, <1>2, AppendProperties
  <2>2. sent' # <<>> => Len(sent') \in DOMAIN sent'
    BY <2>1, EmptySeq, LenProperties
  <2>3. VisitorSawTheTurn'
    BY <1>3, <2>2 DEF VisitorSawTheTurn
  <2> QED BY <1>1, <2>3 DEF ShowInv
<1>4. CASE sent' = sent \/ pc = "error"
  <2>1. \A i \in DOMAIN sent' : sent'[i] # "done"
    BY <1>1, <1>2, <1>4, NotDoneYet DEF Showing
  <2> QED BY <1>3, <2>1
<1>5. CASE pc = "ok" /\ sent' = Append(sent, "done")
  <2> DEFINE n == Cardinality(TurnTools)
             note == IF cut THEN <<"truncated">> ELSE <<>>
  <2>1. history' = convo
    BY <1>5 DEF Return
  <2>2. {i \in LastExchange' : history'[i].role = "tool"} = TurnTools
    BY <1>1, <2>1, TurnIsLast
  <2>3. sent = Shown(n) \o note
    BY <1>1, <1>5 DEF Showing
  <2>4. sent' = Shown(n) \o note \o <<"done">>
    BY <1>1, <1>2, <1>5, <2>3, AppendIsConcat
  <2>5. VisitorSawTheTurn'
    BY <1>1, <2>2, <2>4 DEF VisitorSawTheTurn, Shown
  <2> QED BY <1>1, <2>5 DEF ShowInv
<1> QED BY <1>1, <1>4, <1>5

LEMMA StepShows == LInv /\ ShowInv /\ [Next]_vars => ShowInv'
<1> SUFFICES ASSUME LInv, ShowInv, [Next]_vars PROVE ShowInv'
  OBVIOUS
<1>0. TypeOK /\ sent \in Seq(Events) /\ \A n \in Nat : Shown(n) \in Seq(Events)
  BY ShownIsSeq DEF LInv, TypeOK
<1>1. ASSUME pc' # "idle", OneQuestion', Showing' PROVE ShowInv'
  BY <1>1 DEF ShowInv, VisitorSawTheTurn
<1>2. CASE Begin
  <2>1. /\ history \in Seq(Message) /\ Len(history) \in Nat /\ User \in Message
        /\ convo' = Append(history, User) /\ history' = history
        /\ pc' = "model" /\ sent' = <<>>
    BY <1>0, <1>2, Messages, LenProperties DEF TypeOK, Begin
  <2>2. /\ convo' \in Seq(Message) /\ Len(convo') = Len(history) + 1
        /\ convo'[Len(history) + 1] = User
    BY <2>1, AppendProperties
  <2>3. DOMAIN convo' = 1..(Len(history) + 1)
    BY <2>2, LenProperties
  <2>4. OneQuestion'
    <3>1. Len(history) < Len(convo')
      BY <2>1, <2>2
    <3>2. \A i \in DOMAIN convo' : ~(i > Len(history) + 1)
      BY <2>1, <2>3
    <3>3. convo'[Len(history) + 1].role = "user"
      BY <2>2 DEF User
    <3> QED BY <2>1, <3>1, <3>2, <3>3 DEF OneQuestion
  <2>5. TurnTools' = {}
    BY <2>1, <2>2, <2>3 DEF TurnTools, User
  <2>6. Showing'
    <3>1. Cardinality(TurnTools') = 0
      BY <2>5, FS_EmptySet
    <3>2. Shown(0) = <<>>
      <4>1. Shown(0) \in Seq(Events) /\ Len(Shown(0)) = 0
        BY ShownIsSeq
      <4> QED BY <4>1
    <3> QED BY <2>1, <3>1, <3>2 DEF Showing
  <2> QED BY <1>1, <2>1, <2>4, <2>6
<1>3. CASE ModelFails \/ EmitFails
  <2>1. /\ UNCHANGED <<history, convo, sent>> /\ pc # "idle" /\ pc' = "error"
    BY <1>3 DEF ModelFails, EmitFails, Fail
  <2>2. OneQuestion' /\ Showing'
    BY <2>1 DEF OneQuestion, Showing, ShowInv
  <2> QED BY <1>1, <2>1, <2>2
<1>4. ASSUME NEW calls \in CallLists, NEW long \in BOOLEAN, NEW tokens \in Tokens,
             ModelReplies(calls, long, tokens)
      PROVE  ShowInv'
  <2>1. /\ pc = "model" /\ pc' \in {"notice", "toolStart"} /\ sent' = sent
        /\ convo' = Append(convo, Assistant(calls)) /\ history' = history
    BY <1>4 DEF ModelReplies
  <2>2. Assistant(calls) \in Message /\ Assistant(calls).role = "assistant"
    BY Messages, LoopAssumption DEF LoopParameters, Assistant
  <2>3. OneQuestion /\ Showing
    BY <2>1 DEF ShowInv
  <2>4. OneQuestion' /\ TurnTools' = TurnTools
    BY <1>0, <2>1, <2>2, <2>3, ToolsGrow
  <2>5. Showing'
    BY <2>1, <2>3, <2>4 DEF Showing
  <2> QED BY <1>1, <2>1, <2>4, <2>5
<1>5. ASSUME UNCHANGED <<history, convo>> PROVE (OneQuestion => OneQuestion') /\ TurnTools' = TurnTools
  BY <1>5 DEF OneQuestion, TurnTools
<1>6. CASE Notice
  <2>1. /\ UNCHANGED <<history, convo, cut>> /\ pc = "notice" /\ pc' = "ok"
        /\ sent' = IF cut THEN Append(sent, "truncated") ELSE sent
    BY <1>6 DEF Notice
  <2>2. OneQuestion /\ Showing
    BY <2>1 DEF ShowInv
  <2>3. OneQuestion' /\ TurnTools' = TurnTools
    BY <1>5, <2>1, <2>2
  <2>4. "truncated" \in Events
    BY DEF Events
  <2>5. \A i \in DOMAIN sent' : sent'[i] # "done"
    BY <1>0, <2>1, <2>2, <2>4, NotDoneYet DEF Showing
  <2>6. sent' = sent \o (IF cut THEN <<"truncated">> ELSE <<>>)
    BY <1>0, <2>1, <2>4, AppendIsConcat, ConcatEmptySeq
  <2>7. Showing'
    BY <2>1, <2>2, <2>3, <2>5, <2>6 DEF Showing
  <2> QED BY <1>1, <2>1, <2>3, <2>7
<1>7. CASE EmitToolStart
  <2>1. /\ UNCHANGED <<history, convo>> /\ pc = "toolStart" /\ pc' = "toolRun"
        /\ sent' = Append(sent, "tool_start")
    BY <1>7 DEF EmitToolStart
  <2>2. OneQuestion /\ Showing
    BY <2>1 DEF ShowInv
  <2>3. OneQuestion' /\ TurnTools' = TurnTools
    BY <1>5, <2>1, <2>2
  <2>4. "tool_start" \in Events
    BY DEF Events
  <2>5. \A i \in DOMAIN sent' : sent'[i] # "done"
    BY <1>0, <2>1, <2>2, <2>4, NotDoneYet DEF Showing
  <2>6. Showing'
    BY <2>1, <2>2, <2>3, <2>5 DEF Showing
  <2> QED BY <1>1, <2>1, <2>3, <2>6
<1>8. CASE RunTool
  <2> DEFINE m == ToolResult(Head(pending))
             n == Cardinality(TurnTools)
  <2>1. /\ convo' = Append(convo, m) /\ history' = history
        /\ pc = "toolRun" /\ pc' \in {"model", "toolStart"}
        /\ sent' = Append(sent, "tool_result")
        /\ pending \in Seq(Calls) /\ pending # <<>>
    BY <1>0, <1>8 DEF RunTool, LInv, CallsToAnswer, TypeOK
  <2>2. m \in Message /\ m.role = "tool"
    BY <2>1, HeadTailProperties, Messages DEF ToolResult
  <2>3. OneQuestion /\ Showing
    BY <2>1 DEF ShowInv
  <2> HIDE DEF m
  <2>4. OneQuestion' /\ n \in Nat /\ Cardinality(TurnTools') = n + 1
    BY <1>0, <2>1, <2>2, <2>3, ToolsGrow
  <2>5. "tool_result" \in Events
    BY DEF Events
  <2>6. \A i \in DOMAIN sent' : sent'[i] # "done"
    BY <1>0, <2>1, <2>3, <2>5, NotDoneYet DEF Showing
  <2>7. sent' = Shown(n + 1)
    BY <2>1, <2>3, <2>4, ShownGrows DEF Showing
  <2>8. Showing'
    BY <2>1, <2>4, <2>6, <2>7 DEF Showing
  <2> QED BY <1>1, <2>1, <2>4, <2>8
<1>9. CASE Return
  BY <1>9, ReturnShows
<1>10. CASE UNCHANGED vars
  <2>1. UNCHANGED <<history, convo, sent, pc, cut>>
    BY <1>10 DEF vars
  <2>2. VisitorSawTheTurn'
    BY <2>1 DEF ShowInv, VisitorSawTheTurn, LastExchange
  <2> QED BY <2>1, <2>2 DEF ShowInv, OneQuestion, Showing, TurnTools
<1> QED BY <1>2, <1>3, <1>4, <1>6, <1>7, <1>8, <1>9, <1>10 DEF Next, Step

(* loop.go:43-57 and 156-181: whoever is told "done" has been shown every  *)
(* tool call of the turn that was kept, and that its reply was cut short   *)
(* just when it was.                                                       *)
THEOREM DoneMeansShown == Spec => []VisitorSawTheTurn
<1>1. Init => ShowInv
  BY DEF Init, ShowInv, VisitorSawTheTurn
<1>2. ShowInv => VisitorSawTheTurn
  BY DEF ShowInv
<1> QED BY <1>1, <1>2, InitLInv, StepLInv, StepShows, PTL DEF Spec
=============================================================================
