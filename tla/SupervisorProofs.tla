-------------------------- MODULE SupervisorProofs --------------------------
(***************************************************************************)
(* The three timeouts of a shutdown fit into one another, for any timeouts *)
(* with the margins of SupervisorAssumption and any number of streams.     *)
(***************************************************************************)
EXTENDS Supervisor, TLAPS

(* What each process may have done before anybody asked it to stop. *)
Unasked ==
  /\ docker = "up" => watcher = "waiting" /\ now = 0 /\ slack = 0
  /\ watcher = "waiting" => drain = "waiting"
  /\ sup = "gone" => worker \in Ends

(* The time since the request is what the supervisor grants, and lateness. *)
SupervisorInTime ==
  docker = "stop" /\ sup = "up" =>
    /\ watcher = "waiting" => now <= slack
    /\ watcher = "grace" => termAt <= slack /\ now <= KillGrace + slack

(* While the worker runs it is the worker's own deadline, and lateness. *)
WorkerInTime ==
  watcher = "grace" /\ Runs =>
    /\ worker # "starting"
    /\ drain = "waiting" => now <= slack
    /\ drain # "waiting" => drainAt <= slack /\ now <= ShutdownTimeout + slack

(* The drain ends with streams open at its deadline only. *)
DrainKept ==
  /\ worker = "starting" => Open = {}
  /\ worker \in Ends => Open = {}
  /\ drain = "drained" /\ worker \in Alive /\ Open # {} => now >= drainAt + ShutdownTimeout

IInv ==
  /\ TypeOK
  /\ slack <= Lag
  /\ Unasked
  /\ SupervisorInTime
  /\ WorkerInTime
  /\ DrainKept
  /\ KillOnlyTheWedged

(* Init establishes the invariant. *)
LEMMA InitInv == Init => IInv
<1> SUFFICES ASSUME Init PROVE IInv
  OBVIOUS
<1>1. Open = {} /\ streams \in [Streams -> {"none", "open", "done", "cut"}]
  BY DEF Init, Open
<1>2. TypeOK
  BY <1>1 DEF Init, TypeOK, Alive, Ends
<1>3. slack <= Lag /\ Unasked /\ SupervisorInTime /\ WorkerInTime
  BY SupervisorAssumption DEF Init, Unasked, SupervisorInTime, WorkerInTime
<1>4. DrainKept /\ KillOnlyTheWedged
  BY <1>1 DEF Init, DrainKept, KillOnlyTheWedged, Ends
<1> QED
  BY <1>2, <1>3, <1>4 DEF IInv

(* A worker that runs when the kill is due would have been in time. *)
LEMMA DueMeansWedged ==
  ASSUME IInv, KillDue, sup = "up"
  PROVE  wedged
BY SupervisorAssumption
DEF IInv, TypeOK, Unasked, SupervisorInTime, WorkerInTime, KillDue, KillGrace, Runs, Alive

(* The worker's end closes its streams and leaves the rest alone. *)
LEMMA EndKeepsInv ==
  ASSUME IInv, NEW how \in Ends, WorkerEnds(how), worker \in Alive,
         how = "killed" => wedged,
         sup = "up",
         UNCHANGED <<docker, sup, watcher, drain, wedged, times>>
  PROVE  IInv'
BY DEF IInv, TypeOK, Unasked, SupervisorInTime, WorkerInTime, DrainKept, KillOnlyTheWedged,
       WorkerEnds, Runs, Open, Alive, Ends, times, KillGrace

(* Every step keeps the invariant. *)
LEMMA StepInv == IInv /\ [Next]_vars => IInv'
<1> SUFFICES ASSUME IInv, [Next]_vars PROVE IInv'
  OBVIOUS
<1> USE SupervisorAssumption
<1>up. Runs => sup = "up" /\ worker \in Alive
  BY DEF IInv, Unasked, TypeOK, Runs, Alive, Ends
<1>1. CASE Notify
  BY <1>1 DEF Notify, IInv, TypeOK, Unasked, SupervisorInTime, WorkerInTime, DrainKept,
     KillOnlyTheWedged, Runs, Open, Alive, Ends, times, KillGrace
<1>2. CASE Listen
  BY <1>2 DEF Listen, IInv, TypeOK, Unasked, SupervisorInTime, WorkerInTime, DrainKept,
     KillOnlyTheWedged, Runs, Open, Alive, Ends, times, KillGrace
<1>3. ASSUME NEW s \in Streams, Accept(s) PROVE IInv'
  BY <1>3 DEF Accept, IInv, TypeOK, Unasked, SupervisorInTime, WorkerInTime, DrainKept,
     KillOnlyTheWedged, Runs, Open, Alive, Ends, times, KillGrace
<1>4. ASSUME NEW s \in Streams, Finish(s) PROVE IInv'
  <2>1. Open' \subseteq Open
    BY <1>4 DEF Finish, Open, IInv, TypeOK
  <2> QED
    BY <1>4, <2>1 DEF Finish, IInv, TypeOK, Unasked, SupervisorInTime, WorkerInTime, DrainKept,
     KillOnlyTheWedged, Runs, Alive, Ends, times, KillGrace
<1>5. CASE BeginDrain
  BY <1>5 DEF BeginDrain, IInv, TypeOK, Unasked, SupervisorInTime, WorkerInTime, DrainKept,
     KillOnlyTheWedged, Runs, Open, Alive, Ends, KillGrace
<1>6. CASE EndDrain
  BY <1>6 DEF EndDrain, DrainOver, IInv, TypeOK, Unasked, SupervisorInTime, WorkerInTime,
     DrainKept, KillOnlyTheWedged, Runs, Open, Alive, Ends, times, KillGrace
<1>7. CASE ListenReturns
  BY <1>7 DEF ListenReturns, IInv, TypeOK, Unasked, SupervisorInTime, WorkerInTime, DrainKept,
     KillOnlyTheWedged, Runs, Open, Alive, Ends, times, KillGrace
<1>8. CASE Exit
  BY <1>8, <1>up, EndKeepsInv DEF Exit, Ends
<1>9. CASE Fail
  BY <1>9, <1>up, EndKeepsInv DEF Fail, Ends
<1>10. CASE Wedge
  BY <1>10 DEF Wedge, IInv, TypeOK, Unasked, SupervisorInTime, WorkerInTime, DrainKept,
     KillOnlyTheWedged, Runs, Open, Alive, Ends, times, KillGrace
<1>11. CASE SendTerm
  <2>1. CASE Runs /\ worker = "starting"
    BY <1>11, <2>1 DEF SendTerm, WorkerEnds, IInv, TypeOK, Unasked, SupervisorInTime, WorkerInTime,
       DrainKept, KillOnlyTheWedged, Runs, Open, Alive, Ends, KillGrace
  <2>2. CASE ~(Runs /\ worker = "starting")
    BY <1>11, <2>2 DEF SendTerm, IInv, TypeOK, Unasked, SupervisorInTime, WorkerInTime,
       DrainKept, KillOnlyTheWedged, Runs, Open, Alive, Ends, KillGrace
  <2> QED BY <2>1, <2>2
<1>12. CASE Kill
  BY <1>12, DueMeansWedged, EndKeepsInv DEF Kill, KillDue, Ends
<1>13. CASE SupExit
  BY <1>13 DEF SupExit, IInv, TypeOK, Unasked, SupervisorInTime, WorkerInTime, DrainKept,
     KillOnlyTheWedged, Runs, Open, Alive, Ends, times, KillGrace
<1>14. CASE Boot
  <2>1. Open' = {} /\ streams' \in [Streams -> {"none", "open", "done", "cut"}]
    BY <1>14 DEF Boot, Open
  <2>2. TypeOK'
    BY <1>14, <2>1 DEF Boot, TypeOK, Alive, Ends
  <2>3. slack' <= Lag /\ Unasked' /\ SupervisorInTime' /\ WorkerInTime'
    BY <1>14 DEF Boot, Unasked, SupervisorInTime, WorkerInTime
  <2>4. DrainKept' /\ KillOnlyTheWedged'
    BY <1>14, <2>1 DEF Boot, DrainKept, KillOnlyTheWedged, Ends
  <2> QED
    BY <2>2, <2>3, <2>4 DEF IInv
<1>15. CASE Stop
  BY <1>15 DEF Stop, IInv, TypeOK, Unasked, SupervisorInTime, WorkerInTime, DrainKept,
     KillOnlyTheWedged, Runs, Open, Alive, Ends, times, KillGrace
<1>16. CASE Tick
  <2>1. TypeOK' /\ slack' <= Lag /\ Unasked' /\ DrainKept' /\ KillOnlyTheWedged'
    BY <1>16 DEF Tick, IInv, TypeOK, Unasked, DrainKept, KillOnlyTheWedged, Open, Alive, Ends
  <2>2. SupervisorInTime'
    <3>1. CASE Pending
      BY <1>16, <3>1 DEF Tick, IInv, TypeOK, SupervisorInTime, KillGrace
    <3>2. CASE ~Pending
      BY <1>16, <3>2 DEF Tick, Pending, KillDue, IInv, TypeOK, SupervisorInTime, KillGrace, Alive, Ends
    <3> QED BY <3>1, <3>2
  <2>3. WorkerInTime'
    <3>1. CASE Pending
      BY <1>16, <3>1 DEF Tick, IInv, TypeOK, WorkerInTime, Runs
    <3>2. CASE ~Pending
      BY <1>16, <3>2 DEF Tick, Pending, Waits, DrainOver, IInv, TypeOK, WorkerInTime, Runs
    <3> QED BY <3>1, <3>2
  <2> QED BY <2>1, <2>2, <2>3 DEF IInv
<1>17. CASE UNCHANGED vars
  BY <1>17 DEF vars, IInv, TypeOK, Unasked, SupervisorInTime, WorkerInTime, DrainKept,
     KillOnlyTheWedged, Runs, Open, Alive, Ends, times, KillGrace
<1> QED
  BY <1>1, <1>2, <1>3, <1>4, <1>5, <1>6, <1>7, <1>8, <1>9, <1>10, <1>11, <1>12, <1>13, <1>14,
     <1>15, <1>16, <1>17 DEF Next, Progress, Restart, Start

(* IInv holds in every reachable state. *)
THEOREM Invariance == Spec => []IInv
BY InitInv, StepInv, PTL DEF Spec

(* The state keeps its type. *)
THEOREM TypeCorrect == Spec => []TypeOK
BY Invariance, PTL DEF IInv

(* The supervisor's SIGKILL meets wedged workers only. *)
THEOREM KillIsJustified == Spec => []KillOnlyTheWedged
BY Invariance, PTL DEF IInv

LEMMA InvFitsGrace == IInv => StopFitsGrace
BY SupervisorAssumption
DEF IInv, TypeOK, Unasked, SupervisorInTime, StopFitsGrace, KillGrace

(* The supervisor is gone before Docker's patience is. *)
THEOREM NeverKilledByDocker == Spec => []StopFitsGrace
BY Invariance, InvFitsGrace, PTL

(* A clean end comes after the drain; a signal that ends the worker finds  *)
(* it starting, before it has any stream; no other step ends so.           *)
LEMMA StepIsOrderly == IInv /\ [Next]_vars => [OrderlyEnd]_vars
<1> SUFFICES ASSUME IInv, Next, Open # {},
                    worker' = "clean" \/ worker' = "termed"
             PROVE  /\ worker' = "clean" => now >= drainAt + ShutdownTimeout
                    /\ worker' # "termed"
  BY DEF OrderlyEnd
<1>1. CASE worker' # worker
  <2>1. CASE Exit
    BY <2>1 DEF Exit, WorkerEnds, IInv, DrainKept, Runs
  <2>2. CASE SendTerm
    BY <1>1, <2>2 DEF SendTerm, WorkerEnds, IInv, DrainKept
  <2> QED
    BY <1>1, <2>1, <2>2 DEF Next, Progress, Notify, Listen, BeginDrain, EndDrain, ListenReturns,
       Kill, SupExit, Restart, Start, Boot, Stop, Accept, Finish, Fail, Wedge, Tick, WorkerEnds
<1>2. CASE worker' = worker
  <2>1. worker \in Ends => Open = {}
    BY DEF IInv, DrainKept
  <2> QED BY <1>2, <2>1 DEF Ends
<1> QED BY <1>1, <1>2

(* No stream is cut before its time by a worker that leaves in good order. *)
THEOREM OrderlyDrain == Spec => StreamsGetTheirTime
BY Invariance, StepIsOrderly, PTL DEF StreamsGetTheirTime, Spec
=============================================================================
