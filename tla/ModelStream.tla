---------------------------- MODULE ModelStream -----------------------------
(***************************************************************************)
(* moonshot.Client.Stream, internal/moonshot/stream.go: one whole reply    *)
(* put together from the chunks of an SSE response.  `script` is what the  *)
(* upstream means to send; the connection may end anywhere in it, with or  *)
(* without an error, and the visitor may be gone at any text delta.        *)
(* Blank lines, comments and data that is not JSON are skipped by the code *)
(* and left out here.                                                      *)
(***************************************************************************)
EXTENDS Integers, Sequences, FiniteSets, SequencesExt

CONSTANTS
  Scripts,           \* sequences of chunks an upstream may send before [DONE]
  Pieces,            \* non-empty pieces of text and of arguments
  Ids,               \* non-empty tool-call ids
  Nothing            \* the empty string, the absent usage

(* A chunk carries a usage of its own or none, and the choices with a      *)
(* piece of text, fragments of tool calls and a usage.  A fragment's       *)
(* function name is merged as its id is, and a choice's finish_reason as   *)
(* its usage; both are left out.                                           *)
Fragment == [index: Nat, id: Ids \cup {Nothing}, args: Pieces \cup {Nothing}]
Choice == [text: Pieces \cup {Nothing}, frags: Seq(Fragment), usage: Nat \cup {Nothing}]
Chunk == [usage: Nat \cup {Nothing}, choices: Seq(Choice)]

ASSUME StreamAssumption ==
  /\ Nothing \notin Pieces \cup Ids \cup Nat
  /\ \A s \in Scripts : s \in Seq(Chunk)

VARIABLES
  script,            \* what the upstream sends
  pos,               \* chunks consumed
  text,              \* the text builder
  partials,          \* tool calls by index
  usage,
  shown,             \* pieces passed to onText
  outcome,           \* "reading", "message", or one of the errors
  message            \* what Stream returned

vars == <<script, pos, text, partials, usage, shown, outcome, message>>

Put(s, x) == IF x = Nothing THEN s ELSE Append(s, x)
Latest(old, new) == IF new = Nothing THEN old ELSE new

NoCalls == [i \in {} |-> Nothing]

(* A fragment is added to the call of its index; an id that is not sent    *)
(* again stays, arguments are concatenated.                                *)
Merge(parts, f) ==
  LET old == IF f.index \in DOMAIN parts THEN parts[f.index]
             ELSE [id |-> Nothing, args |-> <<>>]
  IN [i \in DOMAIN parts \cup {f.index} |->
        IF i = f.index
        THEN [id |-> Latest(old.id, f.id), args |-> Put(old.args, f.args)]
        ELSE parts[i]]

(* The chunk's own usage is read before the choices are looked at. *)
UsageAfter(c, old) ==
  LET own == Latest(old, c.usage)
  IN IF c.choices = <<>> THEN own ELSE Latest(own, Head(c.choices).usage)

(* The numbers of a set from the smallest up, and what f has for them. *)
Kth(S, k) == CHOOSE i \in {i \in S : Cardinality({j \in S : j < i}) = k - 1} : TRUE
InOrder(S, f) == [k \in 1..Cardinality(S) |-> f[Kth(S, k)]]

(* What Stream returns after [DONE]: the calls in the order of their index. *)
Assembled == [text |-> text, usage |-> usage, calls |-> InOrder(DOMAIN partials, partials)]

-----------------------------------------------------------------------------
Give(what, why) ==
  /\ outcome' = why
  /\ message' = what
  /\ UNCHANGED <<script, pos, text, partials, usage, shown>>

(* One chunk.  Only the first choice is ours.  A chunk with text reaches   *)
(* its fragments only if the visitor was there for the text.               *)
ReadChunk ==
  /\ outcome = "reading"
  /\ pos < Len(script)
  /\ pos' = pos + 1
  /\ LET c == script[pos + 1]
     IN /\ usage' = UsageAfter(c, usage)
        /\ IF c.choices = <<>>
           THEN UNCHANGED <<text, shown, partials>>
           ELSE LET own == Head(c.choices)
                IN /\ text' = Put(text, own.text)
                   /\ shown' = Put(shown, own.text)
                   /\ partials' = FoldLeft(Merge, partials, own.frags)
  /\ UNCHANGED <<script, outcome, message>>

(* onText fails: the visitor has gone.  The delta was for nobody. *)
VisitorGoneIgnored ==                \* onText's error is dropped
  /\ outcome = "reading"
  /\ pos < Len(script)
  /\ script[pos + 1].choices # <<>>
  /\ text' = Put(text, Head(script[pos + 1].choices).text)
  /\ pos' = pos + 1
  /\ UNCHANGED <<script, partials, usage, shown, outcome, message>>
VisitorGone ==
  /\ outcome = "reading"
  /\ pos < Len(script)
  /\ script[pos + 1].choices # <<>>
  /\ Head(script[pos + 1].choices).text # Nothing
  /\ Give(Nothing, "gone")

ReadDone ==
  /\ outcome = "reading"
  /\ pos = Len(script)
  /\ Give(Assembled, "message")

(* The body ends before [DONE], cleanly or with an error; at the very start *)
(* this is also the request that fails or is answered other than 200.       *)
EndEarlyAccepted ==                  \* without the look at sawDone
  /\ outcome = "reading"
  /\ Give(Assembled, "message")
EndEarly ==
  /\ outcome = "reading"
  /\ Give(Nothing, "cut")

Init ==
  /\ script \in Scripts
  /\ pos = 0 /\ text = <<>> /\ partials = NoCalls /\ usage = Nothing
  /\ shown = <<>>
  /\ outcome = "reading" /\ message = Nothing

Next == ReadChunk \/ VisitorGone \/ ReadDone \/ EndEarly

Spec == Init /\ [][Next]_vars

-----------------------------------------------------------------------------
(* What the whole script says, read all at once *)

Ours == {n \in DOMAIN script : script[n].choices # <<>>}
Own(n) == Head(script[n].choices)

TextAt == {n \in Ours : Own(n).text # Nothing}
TextSent == InOrder(TextAt, [n \in TextAt |-> Own(n).text])

(* The usage beside a choice comes after that of its chunk. *)
UsageIn(n) ==
  IF n \in Ours /\ Own(n).usage # Nothing THEN Own(n).usage ELSE script[n].usage
UsageAt == {n \in DOMAIN script : UsageIn(n) # Nothing}
UsageSent == IF UsageAt = {} THEN Nothing ELSE UsageIn(Max(UsageAt))

FragsSent ==
  FlattenSeq([n \in DOMAIN script |-> IF n \in Ours THEN Own(n).frags ELSE <<>>])

(* The call that the fragments fs of index i make up. *)
IndexesIn(fs) == {fs[p].index : p \in DOMAIN fs}
CallIn(fs, i) ==
  LET mine == {p \in DOMAIN fs : fs[p].index = i}
      named == {p \in mine : fs[p].id # Nothing}
      said == {p \in mine : fs[p].args # Nothing}
  IN [id |-> IF named = {} THEN Nothing ELSE fs[Max(named)].id,
      args |-> InOrder(said, [p \in said |-> fs[p].args])]
CallsIn(fs) == [i \in IndexesIn(fs) |-> CallIn(fs, i)]

Whole == [text |-> TextSent, usage |-> UsageSent,
          calls |-> InOrder(IndexesIn(FragsSent), CallsIn(FragsSent))]

-----------------------------------------------------------------------------
(* Properties *)

(* stream.go:116-118 and 237-245: what Stream hands on is the whole reply, *)
(* with its calls in index order and the last usage reported, or nothing:  *)
(* a stream cut anywhere gives no message.                                 *)
WholeOrNothing ==
  message # Nothing => outcome = "message" /\ message = Whole

(* stream.go:214-221: the visitor has seen a prefix of the text, and all   *)
(* of what the message records.                                            *)
VisitorSawTheText ==
  /\ IsPrefix(shown, TextSent)
  /\ message # Nothing => shown = message.text
=============================================================================
