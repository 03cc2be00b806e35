----------------------------- MODULE AgentLoop ------------------------------
(***************************************************************************)
(* One visitor's turns through internal/agentloop/loop.go: Run, the        *)
(* model it calls round after round, the tools it runs for it, the events  *)
(* it emits to the visitor, and what handleStream does with its result.    *)
(* A message is abstracted to its role, the tool calls it asks for and the *)
(* call it answers.  Any emit may fail: the visitor has gone.              *)
(***************************************************************************)
EXTENDS Integers, Sequences, FiniteSets

CONSTANTS
  Calls,             \* tool-call ids the model may use
  CallLists,         \* the ToolCalls a reply may carry, <<>> among them
  NoCall,            \* the empty ToolCallID
  Tokens,            \* Usage.TotalTokens of one reply; 0 stands for no report
  MaxToolRounds,
  MaxTurns           \* the session's allowance, which bounds the history

LoopParameters ==
  /\ CallLists \subseteq Seq(Calls)
  /\ <<>> \in CallLists
  /\ NoCall \notin Calls
  /\ Tokens \subseteq Nat
  /\ MaxToolRounds \in Nat \ {0}
  /\ MaxTurns \in Nat
ASSUME LoopAssumption == LoopParameters

VARIABLES
  history,           \* Session.Messages between turns
  turns,             \* turns begun
  convo,             \* Run: the conversation being built
  round,             \* Run: tool rounds completed
  pending,           \* Run: tool calls of the last reply still to be answered
  cut,               \* Run: the last reply's FinishReason is "length"
  total,             \* Run: tokens of this turn
  usage,             \* UsageTotals: [turns, total]
  sent,              \* events sent to this turn's visitor, text deltas aside
  pc,
  billed             \* history: tokens of all whole replies

vars == <<history, turns, convo, round, pending, cut, total, usage, sent, pc,
          billed>>

Message == [role: {"user", "assistant", "tool"}, calls: Seq(Calls),
            answers: Calls \cup {NoCall}]

User == [role |-> "user", calls |-> <<>>, answers |-> NoCall]
Assistant(calls) == [role |-> "assistant", calls |-> calls, answers |-> NoCall]
ToolResultOldRole(call) ==           \* the API's former name of the role
  [role |-> "function", calls |-> <<>>, answers |-> call]
ToolResult(call) == [role |-> "tool", calls |-> <<>>, answers |-> call]

Events == {"tool_start", "tool_result", "truncated", "done", "error"}

Steps == {"idle", "model", "notice", "toolStart", "toolRun", "ok", "error"}

(* The model is offered the tools except in the last call. *)
Offered == round < MaxToolRounds

-----------------------------------------------------------------------------
Begin ==
  /\ pc = "idle"
  /\ turns < MaxTurns
  /\ turns' = turns + 1
  /\ convo' = Append(history, User)
  /\ round' = 0 /\ pending' = <<>> /\ cut' = FALSE /\ total' = 0 /\ sent' = <<>>
  /\ pc' = "model"
  /\ UNCHANGED <<history, usage, billed>>

Fail ==
  /\ pc' = "error"
  /\ UNCHANGED <<history, turns, convo, round, pending, cut, total, usage, sent,
                 billed>>

(* Stream fails: upstream, the deadline of the HTTP client, the request's  *)
(* context, or a text delta the visitor was not there to receive.          *)
ModelFails == pc = "model" /\ Fail

(* Stream returns a whole message.  Without tools on offer the upstream    *)
(* API returns no tool calls; the loop itself does not look.               *)
ModelReplies(calls, long, tokens) ==
  /\ pc = "model"
  /\ Offered \/ calls = <<>>
  /\ convo' = Append(convo, Assistant(calls))
  /\ total' = total + tokens
  /\ billed' = billed + tokens
  /\ cut' = long
  /\ pending' = calls
  /\ pc' = IF calls = <<>> THEN "notice" ELSE "toolStart"
  /\ UNCHANGED <<history, turns, round, usage, sent>>

(* emitTruncationNotice, for the reply that ends the turn. *)
NoticeAlways ==                      \* without the look at FinishReason
  /\ pc = "notice"
  /\ pc' = "ok"
  /\ sent' = Append(sent, "truncated")
  /\ UNCHANGED <<history, turns, convo, round, pending, cut, total, usage, billed>>
Notice ==
  /\ pc = "notice"
  /\ pc' = "ok"
  /\ sent' = IF cut THEN Append(sent, "truncated") ELSE sent
  /\ UNCHANGED <<history, turns, convo, round, pending, cut, total, usage, billed>>

EmitToolStart ==
  /\ pc = "toolStart"
  /\ sent' = Append(sent, "tool_start")
  /\ pc' = "toolRun"
  /\ UNCHANGED <<history, turns, convo, round, pending, cut, total, usage, billed>>

(* The tool runs, its result is announced, and only then appended. *)
RunToolUncounted ==                  \* round++ is lost
  /\ pc = "toolRun"
  /\ sent' = Append(sent, "tool_result")
  /\ convo' = Append(convo, ToolResult(Head(pending)))
  /\ pending' = Tail(pending)
  /\ pc' = IF Len(pending) = 1 THEN "model" ELSE "toolStart"
  /\ UNCHANGED <<history, turns, round, cut, total, usage, billed>>
RunTool ==
  /\ pc = "toolRun"
  /\ sent' = Append(sent, "tool_result")
  /\ convo' = Append(convo, ToolResult(Head(pending)))
  /\ pending' = Tail(pending)
  /\ round' = IF Len(pending) = 1 THEN round + 1 ELSE round
  /\ pc' = IF Len(pending) = 1 THEN "model" ELSE "toolStart"
  /\ UNCHANGED <<history, turns, cut, total, usage, billed>>

(* The visitor is not there for an event.  A tool announced has run by then. *)
EmitFails ==
  /\ pc \in {"toolStart", "toolRun"} \/ (pc = "notice" /\ cut)
  /\ Fail

(* The deferred OnUsage, which runs however the turn ends. *)
ReportUsageOnSuccess ==              \* called at the end of Run, not deferred
  usage' = IF total > 0 /\ pc = "ok"
           THEN [turns |-> usage.turns + 1, total |-> usage.total + total]
           ELSE usage
ReportUsage ==
  usage' = IF total > 0
           THEN [turns |-> usage.turns + 1, total |-> usage.total + total]
           ELSE usage

(* The last event; whether it is delivered is not looked at. *)
Farewell(event) == sent' \in {sent, Append(sent, event)}

(* Run returns and handleStream answers: "done" after the history is kept, *)
(* "error" with the history as it was.                                     *)
ReturnKeepsPartial ==                \* Run returns convo, and it is kept, on an error
  /\ pc \in {"ok", "error"}
  /\ history' = convo
  /\ Farewell(IF pc = "ok" THEN "done" ELSE "error")
  /\ pc' = "idle"
  /\ ReportUsage
  /\ UNCHANGED <<turns, convo, round, pending, cut, total, billed>>
Return ==
  /\ pc \in {"ok", "error"}
  /\ history' = IF pc = "ok" THEN convo ELSE history
  /\ Farewell(IF pc = "ok" THEN "done" ELSE "error")
  /\ pc' = "idle"
  /\ ReportUsage
  /\ UNCHANGED <<turns, convo, round, pending, cut, total, billed>>

-----------------------------------------------------------------------------
Init ==
  /\ history = <<>> /\ turns = 0
  /\ convo = <<>> /\ round = 0 /\ pending = <<>> /\ cut = FALSE
  /\ total = 0 /\ usage = [turns |-> 0, total |-> 0]
  /\ sent = <<>>
  /\ pc = "idle"
  /\ billed = 0

Step ==
  \/ ModelFails
  \/ \E calls \in CallLists, long \in BOOLEAN, tokens \in Tokens :
       ModelReplies(calls, long, tokens)
  \/ Notice
  \/ EmitToolStart
  \/ RunTool
  \/ EmitFails
  \/ Return

Next == Begin \/ Step

Spec == Init /\ [][Next]_vars

-----------------------------------------------------------------------------
(* Properties *)

TypeOK ==
  /\ history \in Seq(Message) /\ convo \in Seq(Message)
  /\ turns \in Nat /\ round \in Nat /\ total \in Nat /\ billed \in Nat
  /\ pending \in Seq(Calls)
  /\ cut \in BOOLEAN
  /\ usage \in [turns: Nat, total: Nat]
  /\ sent \in Seq(Events)
  /\ pc \in Steps

(* loop.go:117-131 and server.go:207-217: a turn adds one whole exchange   *)
(* to the conversation or nothing at all, and in an exchange every tool    *)
(* call is followed by its own result.                                     *)
Talk == INSTANCE Conversation
ImplementsConversation == Talk!Spec

(* loop.go:122-124 and 148: however often the model asks for tools, a turn *)
(* gets at most MaxToolRounds + 1 replies out of it.                       *)
ThisTurn == SubSeq(convo, Len(history) + 1, Len(convo))
ModelCallsBounded ==
  pc # "idle" =>
    Cardinality({i \in DOMAIN ThisTurn : ThisTurn[i].role = "assistant"})
      <= MaxToolRounds + (IF pc \in {"notice", "ok", "error"} THEN 1 ELSE 0)

(* loop.go:43-57 and 156-181: a visitor told "done" has been shown the turn *)
(* that was kept: one start and one result, in turn, for every tool call   *)
(* answered in it, and the notice just when its last reply was cut short.  *)
LastExchange ==
  LET starts == {i \in DOMAIN history : history[i].role = "user"}
  IN {i \in DOMAIN history : \A j \in starts : j <= i}
VisitorSawTheTurn ==
  pc = "idle" /\ sent # <<>> /\ sent[Len(sent)] = "done" =>
    LET tools == Cardinality({i \in LastExchange : history[i].role = "tool"})
    IN sent = [i \in 1..(2 * tools) |-> IF i % 2 = 1 THEN "tool_start" ELSE "tool_result"]
              \o (IF cut THEN <<"truncated">> ELSE <<>>) \o <<"done">>

(* loop.go:136-142: the tokens of every whole reply are reported, however  *)
(* the turn ends, none twice and no turn twice.                            *)
UsageAccounted ==
  /\ usage.total + (IF pc = "idle" THEN 0 ELSE total) = billed
  /\ usage.turns <= turns
=============================================================================
