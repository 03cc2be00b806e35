----------------------------- MODULE Supervisor -----------------------------
(***************************************************************************)
(* The container's supervisor (cmd/barrahome-agent/main.go supervise with  *)
(* sandbox.RunWorker), its confined worker (main.go serve) and Docker,     *)
(* which is outside the repository and known by compose.yaml: it restarts  *)
(* what exits unless it was asked to stop, sends SIGTERM to the supervisor *)
(* when it is, and kills the container StopGrace later.                    *)
(*                                                                         *)
(* Time is counted from the stop request.  A step that waits for nothing   *)
(* is prompt: all such steps of one shutdown together are kept waiting for *)
(* no more than Lag ticks.  A wedged worker takes no step at all, ever.    *)
(***************************************************************************)
EXTENDS Integers, FiniteSets

CONSTANTS
  Streams,           \* connections the worker may be serving at once
  ShutdownTimeout,   \* config.ShutdownTimeout
  Margin,            \* workerKillGraceMargin
  StopGrace,         \* compose.yaml's stop_grace_period
  Lag                \* bound on the lateness of prompt steps in a shutdown

(* "stop_grace_period must exceed the supervisor's worker-kill grace"      *)
(* (compose.yaml), and the margins have to cover the lateness they are for.*)
ASSUME SupervisorAssumption ==
  /\ ShutdownTimeout \in Nat /\ Margin \in Nat /\ StopGrace \in Nat /\ Lag \in Nat
  /\ Lag < Margin
  /\ StopGrace > ShutdownTimeout + Margin + Lag

VARIABLES
  docker,            \* what was asked of the container: "up" or "stop"
  sup,               \* the supervisor process: "up" or "gone"
  watcher,           \* RunWorker's goroutine: "waiting" for ctx, or the "grace" it gives
  worker,            \* where the worker's main goroutine is, or how the worker ended
  drain,             \* the worker's drain goroutine
  wedged,            \* the worker is alive and makes no progress
  streams,           \* the worker's connections
  now,               \* ticks since the stop request
  termAt, drainAt,   \* when the worker was sent SIGTERM, when its drain began
  slack              \* ticks prompt steps were kept waiting

times == <<now, termAt, drainAt, slack>>
vars == <<docker, sup, watcher, worker, drain, wedged, streams, times>>

Alive == {"starting", "binding", "serving", "waiting"}
Ends == {"clean", "failed", "termed", "killed"}

Open == {s \in Streams : streams[s] = "open"}

(* The worker is alive and its goroutines are scheduled. *)
Runs == worker \in Alive /\ ~wedged

(* The worker ends, and with it whatever it was still serving. *)
WorkerEnds(how) ==
  /\ worker' = how
  /\ streams' = [s \in Streams |-> IF s \in Open THEN "cut" ELSE streams[s]]

-----------------------------------------------------------------------------
(* The worker: serve *)

(* signal.NotifyContext and the drain goroutine; until then a SIGTERM has  *)
(* its default effect.                                                     *)
Notify ==
  /\ Runs /\ worker = "starting"
  /\ worker' = "binding"
  /\ UNCHANGED <<docker, sup, watcher, drain, wedged, streams, times>>

Listen ==
  /\ Runs /\ worker = "binding" /\ drain = "waiting"
  /\ worker' = "serving"
  /\ UNCHANGED <<docker, sup, watcher, drain, wedged, streams, times>>

Accept(s) ==
  /\ Runs /\ worker = "serving" /\ drain = "waiting"
  /\ streams[s] # "open"
  /\ streams' = [streams EXCEPT ![s] = "open"]
  /\ UNCHANGED <<docker, sup, watcher, worker, drain, wedged, times>>

(* The reply is complete, or the visitor hung up. *)
Finish(s) ==
  /\ Runs /\ streams[s] = "open"
  /\ streams' = [streams EXCEPT ![s] = "done"]
  /\ UNCHANGED <<docker, sup, watcher, worker, drain, wedged, times>>

(* The signal has arrived: srv.Shutdown closes the listener. *)
BeginDrain ==
  /\ Runs /\ watcher = "grace" /\ drain = "waiting"
  /\ drain' = "draining"
  /\ drainAt' = now
  /\ UNCHANGED <<docker, sup, watcher, worker, wedged, streams, now, termAt, slack>>

(* Shutdown waits for the connections, and gives up at its deadline. *)
DrainOver == Open = {} \/ now >= drainAt + ShutdownTimeout

EndDrain ==
  /\ Runs /\ drain = "draining" /\ DrainOver
  /\ drain' = "drained"
  /\ UNCHANGED <<docker, sup, watcher, worker, wedged, streams, times>>

(* ListenAndServe returns ErrServerClosed as soon as Shutdown was called,  *)
(* and at once if it was called before it.                                 *)
ListenReturns ==
  /\ Runs /\ worker \in {"binding", "serving"} /\ drain # "waiting"
  /\ worker' = "waiting"
  /\ UNCHANGED <<docker, sup, watcher, drain, wedged, streams, times>>

ExitUndrained ==                     \* serve does not wait for the drain
  /\ Runs /\ worker = "waiting"
  /\ WorkerEnds("clean")
  /\ UNCHANGED <<docker, sup, watcher, drain, wedged, times>>
Exit ==
  /\ Runs /\ worker = "waiting" /\ drain = "drained"
  /\ WorkerEnds("clean")
  /\ UNCHANGED <<docker, sup, watcher, drain, wedged, times>>

(* A configuration or sandbox error, any other error of ListenAndServe, or *)
(* a crash.                                                                *)
Fail ==
  /\ Runs
  /\ WorkerEnds("failed")
  /\ UNCHANGED <<docker, sup, watcher, drain, wedged, times>>

Wedge ==
  /\ Runs
  /\ wedged' = TRUE
  /\ UNCHANGED <<docker, sup, watcher, worker, drain, streams, times>>

-----------------------------------------------------------------------------
(* The supervisor: RunWorker *)

(* ctx is done: the worker's process group is signalled, even if the worker*)
(* ended a moment ago and Wait has not returned yet.                       *)
SendTerm ==
  /\ docker = "stop" /\ sup = "up" /\ watcher = "waiting"
  /\ watcher' = "grace"
  /\ termAt' = now
  /\ IF Runs /\ worker = "starting" THEN WorkerEnds("termed")
                                    ELSE UNCHANGED <<worker, streams>>
  /\ UNCHANGED <<docker, sup, drain, wedged, now, drainAt, slack>>

KillGraceBare == ShutdownTimeout     \* without the margin
KillGraceTwice ==                    \* with the margin counted twice
  ShutdownTimeout + 2 * Margin
KillGrace == ShutdownTimeout + Margin

KillDue == worker \in Alive /\ watcher = "grace" /\ now >= termAt + KillGrace

KillByTerm ==                        \* SIGTERM again, instead of SIGKILL
  /\ sup = "up" /\ KillDue
  /\ IF Runs THEN WorkerEnds("killed") ELSE UNCHANGED <<worker, streams>>
  /\ UNCHANGED <<docker, sup, watcher, drain, wedged, times>>
(* proc.Kill *)
Kill ==
  /\ sup = "up" /\ KillDue
  /\ WorkerEnds("killed")
  /\ UNCHANGED <<docker, sup, watcher, drain, wedged, times>>

(* proc.Wait returns, RunWorker and supervise after it, whatever the       *)
(* goroutine of RunWorker is at.                                           *)
SupExitJoined ==                     \* waits for that goroutine to finish first
  /\ sup = "up" /\ worker \in Ends /\ watcher = "grace"
  /\ sup' = "gone"
  /\ UNCHANGED <<docker, watcher, worker, drain, wedged, streams, times>>
SupExit ==
  /\ sup = "up" /\ worker \in Ends
  /\ sup' = "gone"
  /\ UNCHANGED <<docker, watcher, worker, drain, wedged, streams, times>>

-----------------------------------------------------------------------------
(* Docker, and time *)

Boot ==
  /\ sup = "gone"
  /\ docker' = "up" /\ sup' = "up"
  /\ watcher' = "waiting" /\ worker' = "starting" /\ drain' = "waiting"
  /\ wedged' = FALSE
  /\ streams' = [s \in Streams |-> "none"]
  /\ now' = 0 /\ termAt' = 0 /\ drainAt' = 0 /\ slack' = 0

Restart == docker = "up" /\ Boot

(* Somebody starts the stopped container again. *)
Start == docker = "stop" /\ Boot

Stop ==
  /\ docker = "up"
  /\ docker' = "stop"
  /\ UNCHANGED <<sup, watcher, worker, drain, wedged, streams, times>>

(* The worker waits, for its visitors or for the drain's deadline. *)
Waits == worker = "waiting" /\ drain = "draining" /\ ~DrainOver

(* Somebody has a step to take that waits for nothing. *)
Pending ==
  \/ worker \in Ends
  \/ watcher = "waiting"
  \/ KillDue
  \/ Runs /\ ~Waits

Tick ==
  /\ docker = "stop" /\ sup = "up"
  /\ now' = now + 1
  /\ slack' = IF Pending THEN slack + 1 ELSE slack
  /\ slack' <= Lag
  /\ UNCHANGED <<docker, sup, watcher, worker, drain, wedged, streams, termAt, drainAt>>

Init ==
  /\ docker = "up" /\ sup = "up"
  /\ watcher = "waiting" /\ worker = "starting" /\ drain = "waiting"
  /\ wedged = FALSE
  /\ streams = [s \in Streams |-> "none"]
  /\ now = 0 /\ termAt = 0 /\ drainAt = 0 /\ slack = 0

(* What goes on by itself. *)
Progress ==
  \/ Notify \/ Listen \/ BeginDrain \/ EndDrain \/ ListenReturns \/ Exit
  \/ SendTerm \/ Kill \/ SupExit \/ Restart

Next ==
  \/ Progress
  \/ \E s \in Streams : Accept(s) \/ Finish(s)
  \/ Fail \/ Wedge \/ Stop \/ Start \/ Tick

Spec == Init /\ [][Next]_vars

Fairness == WF_vars(Progress) /\ WF_vars(Tick)

LiveSpec == Spec /\ Fairness

-----------------------------------------------------------------------------
(* Properties *)

TypeOK ==
  /\ docker \in {"up", "stop"} /\ sup \in {"up", "gone"}
  /\ watcher \in {"waiting", "grace"}
  /\ worker \in Alive \cup Ends
  /\ drain \in {"waiting", "draining", "drained"}
  /\ wedged \in BOOLEAN
  /\ streams \in [Streams -> {"none", "open", "done", "cut"}]
  /\ now \in Nat /\ termAt \in Nat /\ drainAt \in Nat /\ slack \in Nat

(* policy.go:93-96, main.go:107-109: the supervisor's SIGKILL "never races *)
(* the worker's own graceful drain": however late every step of the        *)
(* hand-over is, only a worker that makes no progress is killed.           *)
KillOnlyTheWedged == worker = "killed" => wedged

(* compose.yaml:41-44: the supervisor is gone before Docker would kill the *)
(* container, wedged worker or not.                                        *)
StopFitsGrace == docker = "stop" /\ sup = "up" => now < StopGrace

(* main.go:185-189: a worker that leaves in good order cuts no stream short*)
(* before the drain's deadline, and one that the signal finds unprepared   *)
(* has no stream to cut.                                                   *)
OrderlyEnd ==
  Open # {} => /\ worker' = "clean" => now >= drainAt + ShutdownTimeout
               /\ worker' # "termed"
StreamsGetTheirTime == [][OrderlyEnd]_vars

(* A stop request is honoured by the supervisor itself, whatever state the *)
(* worker is in and however long its streams are.                          *)
StopCompletes == docker = "stop" ~> sup = "gone"

(* supervise does not outlive its worker: one that ends by itself is       *)
(* replaced, without anybody asking.                                       *)
ServiceReturns == docker = "up" /\ worker \in Ends ~> worker = "starting" \/ docker = "stop"
=============================================================================
