----------------------------- MODULE TurnTiming -----------------------------
(***************************************************************************)
(* StreamServer with a clock on agentloop.Run: a turn is up to             *)
(* MaxToolRounds + 1 calls of the model, one after the other, each ended   *)
(* by the HTTP client's timeout (main.go:158) at the latest.  The tools    *)
(* and the writes to the visitor take no time to speak of.  A tick is some *)
(* fraction of an hour in which CallTimeout and CheckoutDeadline are whole.*)
(***************************************************************************)
EXTENDS StreamServer

CONSTANTS
  MaxToolRounds,
  CallTimeout        \* http.Client.Timeout

ASSUME TimingAssumption == MaxToolRounds \in Nat /\ CallTimeout \in Nat \ {0}

VARIABLES
  calls,             \* model calls begun in the handler's turn
  callStart          \* when the last of them began

timedVars == <<vars, calls, callStart>>

CallBegins(h) ==
  /\ calls' = [calls EXCEPT ![h] = @ + 1]
  /\ callStart' = [callStart EXCEPT ![h] = clock]

TimedStart(h) ==
  /\ StartRun(h)
  /\ calls' = [calls EXCEPT ![h] = 1]
  /\ callStart' = [callStart EXCEPT ![h] = clock]

(* The model answered in time and asked for tools, which have run: it is   *)
(* called again.                                                           *)
InTime(h) == pc[h] = "running" /\ clock - callStart[h] < CallTimeout

NextCallUncapped(h) ==               \* one round too many
  /\ InTime(h)
  /\ calls[h] <= MaxToolRounds + 1
  /\ CallBegins(h)
  /\ UNCHANGED vars
NextCall(h) ==
  /\ InTime(h)
  /\ calls[h] <= MaxToolRounds
  /\ CallBegins(h)
  /\ UNCHANGED vars

(* No call outlasts its timeout, and nothing else in a handler takes time. *)
Punctual(h) == pc[h] \in {"idle", "acquire", "checkout"} \/ InTime(h)

TimedTick ==
  /\ \A h \in Handlers : Punctual(h)
  /\ Tick
  /\ UNCHANGED <<calls, callStart>>

Untimed(h) ==
  \/ \E ip \in IPs, id \in Ids : Arrive(h, ip, id)
  \/ Acquire(h) \/ Checkout(h) \/ NoFlusher(h) \/ EndRun(h) \/ Epilogue(h)

TimedNext ==
  \/ \E h \in Handlers :
       \/ Untimed(h) /\ UNCHANGED <<calls, callStart>>
       \/ TimedStart(h)
       \/ NextCall(h)
  \/ \E now \in Time :
       (SweepSessions(now) \/ SweepWindows(now)) /\ UNCHANGED <<calls, callStart>>
  \/ TimedTick

TimedInit ==
  /\ Init
  /\ calls = [h \in Handlers |-> 0]
  /\ callStart = [h \in Handlers |-> 0]

TimedSpec == TimedInit /\ [][TimedNext]_timedVars

-----------------------------------------------------------------------------
(* Properties *)

(* store.go:226-230: the forced-eviction count "should stay at zero in     *)
(* normal operation": here every holder releases, only slowly.             *)
NeverForced == forcedEvictions = 0
=============================================================================
