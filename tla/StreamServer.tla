---------------------------- MODULE StreamServer ----------------------------
(***************************************************************************)
(* POST /stream of internal/httpapi/server.go over one session store and   *)
(* one limiter, with the clock and the two sweepers that cmd starts.       *)
(*                                                                         *)
(* A handler goroutine reads the clock once, when the request has been     *)
(* validated, and passes that instant to the limiter and then to the       *)
(* store; other goroutines run in between.  Its deferred calls run last in *)
(* first out on every return: the session is released before the slot.     *)
(* A history is abstracted to the number of exchanges it records.          *)
(***************************************************************************)
EXTENDS Integers, FiniteSets

CONSTANTS
  Handlers,          \* handler goroutines
  Ids, Entries, Nil, \* as in SessionStore
  IPs,               \* as in Limiter
  MaxTime,           \* bound on the clock
  MaxLag,            \* bound on the delay between reading the clock and Checkout
  MaxTurns, TTL, CheckoutDeadline, MaxSessions,
  Hour, PerIPPerHour, MaxConcurrent

ASSUME ServerAssumption ==
  /\ IsFiniteSet(Handlers)
  /\ IsFiniteSet(Ids) /\ Ids # {} /\ IPs # {}
  /\ Nil \notin Entries \cup Handlers
  /\ {MaxTurns, MaxSessions, Hour, PerIPPerHour, MaxConcurrent} \subseteq Nat \ {0}
  /\ {MaxTime, MaxLag, TTL, CheckoutDeadline} \subseteq Nat

VARIABLES
  sessions, heap, grant, forcedEvictions,    \* the store
  perIP, inFlight, slot,                     \* the limiter
  clock,
  pc,                \* where each handler is
  req,               \* what it read from its request, and when
  base,              \* sess.Messages as it was handed to agentloop.Run
  since              \* history: when each handler's Checkout succeeded

storeVars == <<sessions, heap, grant, forcedEvictions>>
limiterVars == <<perIP, inFlight, slot>>
vars == <<storeVars, limiterVars, clock, pc, req, base, since>>

Time == 0..MaxTime
Histories == Nat

Store == INSTANCE SessionStore WITH Callers <- Handlers, NoHistory <- 0
Lim == INSTANCE Limiter WITH Requests <- Handlers

Steps == {"idle", "acquire", "checkout", "prepare", "running", "commit",
          "done", "freeSession", "freeSlot", "leave"}

Request == [ip: IPs, id: Ids, now: Time]

Goto(h, step) == pc' = [pc EXCEPT ![h] = step]

-----------------------------------------------------------------------------
(* handleStream, from the validated request on *)

Arrive(h, ip, id) ==
  /\ pc[h] = "idle"
  /\ req' = [req EXCEPT ![h] = [ip |-> ip, id |-> id, now |-> clock]]
  /\ Goto(h, "acquire")
  /\ UNCHANGED <<storeVars, limiterVars, clock, base, since>>

(* A refusal is answered 429 or 503 before anything is deferred. *)
Acquire(h) ==
  /\ pc[h] = "acquire"
  /\ Lim!Acquire(h, req[h].ip, req[h].now)
  /\ Goto(h, IF slot'[h] = "held" THEN "checkout" ELSE "leave")
  /\ UNCHANGED <<storeVars, clock, req, base, since>>

(* releaseSession is deferred before err is looked at. *)
Checkout(h) ==
  /\ pc[h] = "checkout"
  /\ Store!Checkout(h, req[h].id, req[h].now)
  /\ Goto(h, IF grant'[h].err = "none" THEN "prepare" ELSE "freeSession")
  /\ since' = [since EXCEPT ![h] = clock]
  /\ UNCHANGED <<limiterVars, clock, req, base>>

(* The writer cannot stream: 500, with the turn spent and nothing run. *)
NoFlusher(h) ==
  /\ pc[h] = "prepare"
  /\ Goto(h, "freeSession")
  /\ UNCHANGED <<storeVars, limiterVars, clock, req, base, since>>

StartRun(h) ==
  /\ pc[h] = "prepare"
  /\ base' = [base EXCEPT ![h] = heap[grant[h].entry].messages]
  /\ Goto(h, "running")
  /\ UNCHANGED <<storeVars, limiterVars, clock, req, since>>

(* agentloop.Run returns, with a history or with an error. *)
EndRunKeepsSession(h) ==             \* released inline, so not on an error
  /\ pc[h] = "running"
  /\ Goto(h, "commit") \/ Goto(h, "freeSlot")
  /\ UNCHANGED <<storeVars, limiterVars, clock, req, base, since>>
EndRun(h) ==
  /\ pc[h] = "running"
  /\ Goto(h, "commit") \/ Goto(h, "freeSession")
  /\ UNCHANGED <<storeVars, limiterVars, clock, req, base, since>>

(* sess.Messages = history, outside any lock. *)
Commit(h) ==
  /\ pc[h] = "commit"
  /\ Store!WriteMessages(h, base[h] + 1)
  /\ Goto(h, "done")
  /\ UNCHANGED <<limiterVars, clock, req, base, since>>

SendDone(h) ==
  /\ pc[h] = "done"
  /\ Goto(h, "freeSession")
  /\ UNCHANGED <<storeVars, limiterVars, clock, req, base, since>>

FreeSession(h) ==
  /\ pc[h] = "freeSession"
  /\ IF grant[h].entry = Nil THEN UNCHANGED storeVars ELSE Store!Release(h)
  /\ Goto(h, "freeSlot")
  /\ UNCHANGED <<limiterVars, clock, req, base, since>>

FreeSlot(h) ==
  /\ pc[h] = "freeSlot"
  /\ Lim!Release(h)
  /\ Goto(h, "leave")
  /\ UNCHANGED <<storeVars, clock, req, base, since>>

Leave(h) ==
  /\ pc[h] = "leave"
  /\ Store!Drop(h)
  /\ Lim!Drop(h)
  /\ Goto(h, "idle")
  /\ UNCHANGED <<clock, req, base, since>>

-----------------------------------------------------------------------------
(* The sweepers and the clock.  A ticker sends its own instant, and the    *)
(* sweeper may get round to it any time later.                             *)

SweepSessions(now) ==
  /\ now <= clock
  /\ Store!Sweep(now)
  /\ UNCHANGED <<limiterVars, clock, pc, req, base, since>>

SweepWindows(now) ==
  /\ now <= clock
  /\ Lim!Sweep(now)
  /\ UNCHANGED <<storeVars, clock, pc, req, base, since>>

(* Between its read of the clock and Checkout a handler does nothing slow. *)
Prompt(h) == pc[h] \in {"acquire", "checkout"} => clock - req[h].now < MaxLag

Tick ==
  /\ clock < MaxTime
  /\ \A h \in Handlers : Prompt(h)
  /\ clock' = clock + 1
  /\ UNCHANGED <<storeVars, limiterVars, pc, req, base, since>>

-----------------------------------------------------------------------------
Init ==
  /\ Store!Init
  /\ Lim!Init
  /\ clock = 0
  /\ pc = [h \in Handlers |-> "idle"]
  /\ req = [h \in Handlers |-> [ip |-> CHOOSE i \in IPs : TRUE,
                              id |-> CHOOSE i \in Ids : TRUE, now |-> 0]]
  /\ base = [h \in Handlers |-> 0]
  /\ since = [h \in Handlers |-> 0]

(* The steps a handler takes without waiting for the model's API. *)
Prologue(h) == Acquire(h) \/ Checkout(h) \/ NoFlusher(h) \/ StartRun(h)
Epilogue(h) == Commit(h) \/ SendDone(h) \/ FreeSession(h) \/ FreeSlot(h) \/ Leave(h)

Next ==
  \/ \E h \in Handlers, ip \in IPs, id \in Ids : Arrive(h, ip, id)
  \/ \E h \in Handlers : Prologue(h) \/ EndRun(h) \/ Epilogue(h)
  \/ \E now \in Time : SweepSessions(now) \/ SweepWindows(now)
  \/ Tick

Spec == Init /\ [][Next]_vars

-----------------------------------------------------------------------------
(* Properties *)

LocalsOK ==
  /\ clock \in Time
  /\ pc \in [Handlers -> Steps]
  /\ req \in [Handlers -> Request]
  /\ base \in [Handlers -> Histories]
  /\ since \in [Handlers -> Time]

TypeOK == Store!TypeOK /\ Lim!TypeOK /\ LocalsOK

(* What a handler has in hand, by where it is. *)
Hands(h) ==
  /\ pc[h] \in {"idle", "acquire"} => slot[h] = "none" /\ grant[h].entry = Nil
  /\ pc[h] = "checkout" => slot[h] = "held" /\ grant[h].entry = Nil
  /\ pc[h] \in {"prepare", "running", "commit", "done"} =>
       slot[h] = "held" /\ ~grant[h].released
  /\ pc[h] = "freeSession" => slot[h] = "held"
  /\ pc[h] = "freeSlot" => slot[h] = "held" /\ grant[h].released
  /\ pc[h] = "leave" =>
       slot[h] \in {"released", "quota", "busy"} /\ grant[h].released
HandsMatchPc == \A h \in Handlers : Hands(h)

(* store.go:19-26: the concurrency cap upstream bounds how many sessions   *)
(* can be checked out at once, so a store at least that large always has   *)
(* an idle session to evict: no visitor is ever refused as "store full".   *)
StoreNeverFull ==
  MaxConcurrent <= MaxSessions => \A h \in Handlers : grant[h].err # "storeFull"

(* server.go:145-151: whoever holds a session still holds its slot, since  *)
(* the deferred calls give the session back first.                         *)
HoldersHaveSlots == Store!Holders \subseteq Lim!Inside

(* server.go:203-217: the history a turn writes back extends the one it    *)
(* read.  No other turn of the same conversation was recorded meanwhile.   *)
ExtendsWhatItRead ==
  \A h \in Handlers :
    pc[h] = "commit" /\ pc'[h] = "done" => heap[grant[h].entry].messages = base[h]
NoLostUpdate == [][ExtendsWhatItRead]_vars

(* The handler has had its session for longer than CheckoutDeadline, less  *)
(* the time its request's clock reading was old when it got it.            *)
Overran(h) == clock - since[h] > CheckoutDeadline - MaxLag

(* server.go:217-219: when a visitor is told "done" the exchange is in the *)
(* conversation the next request will find, whatever befell the others'    *)
(* sessions; unless this very turn had overrun its deadline, and then the  *)
(* backstop that took its session away has been counted.                   *)
DoneIsRecorded ==
  \A h \in Handlers :
    pc[h] = "done" =>
      /\ heap[grant[h].entry].messages = base[h] + 1
      /\ grant[h].entry \in Store!Mapped \/ (Overran(h) /\ forcedEvictions > 0)

(* server.go:145-164: whichever way the handlers returned, once none is    *)
(* running no slot is taken and no session is locked.                      *)
QuiescentIsFree ==
  (\A h \in Handlers : pc[h] = "idle") =>
    /\ inFlight = 0
    /\ \A i \in Store!Live : ~Store!At(i).checkedOut

(* store.go:203-208: the backstop never cuts a checkout short: a holder    *)
(* loses its session no sooner than CheckoutDeadline after it got it, less *)
(* the time its request's clock reading was old by then.                   *)
LeaseRespected ==
  \A h \in Store!Holders :
    grant[h].entry \in Store!Mapped /\ grant[h].entry \notin Store!Mapped' => Overran(h)
LeaseLasts == [][LeaseRespected]_vars

-----------------------------------------------------------------------------
(* Liveness.  Goroutines that wait for nothing run; the sweeper's ticks    *)
(* are delivered; time passes however often a request makes Tick wait for  *)
(* it, hence strong fairness.  Nothing is assumed of agentloop.Run: a run  *)
(* may hang for ever.                                                      *)
Fairness ==
  /\ \A h \in Handlers : WF_vars(Prologue(h)) /\ WF_vars(Epilogue(h))
  /\ SF_vars(Tick)
  /\ WF_vars(SweepSessions(clock))

FairSpec == Spec /\ Fairness

(* store.go:35 and 203-208: a session whose holder never comes back is not *)
(* locked for ever (for the checkouts whose deadline the instance's clock  *)
(* can reach).                                                             *)
LockedInReach(i) ==
  /\ i \in Store!Live
  /\ Store!At(i).checkedOut
  /\ Store!At(i).checkedOutAt + CheckoutDeadline < MaxTime
LocksAreReclaimed == \A i \in Ids : LockedInReach(i) ~> ~LockedInReach(i)
=============================================================================
