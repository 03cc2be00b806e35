--------------------------- MODULE LimiterProofs ----------------------------
(***************************************************************************)
(* Proofs about Limiter for any addresses, requests, instants and quotas.  *)
(***************************************************************************)
EXTENDS LimiterTimed, DataInduction

(* The counter tells the truth, and the truth is bounded. *)
IInv == TypeOK /\ SlotsAccounted /\ QuotaBound

(* The requests inside are countable. *)
LEMMA InsideFinite == IsFiniteSet(Inside) /\ Cardinality(Inside) \in Nat
<1>1. IsFiniteSet(Inside)
  BY FS_Subset, LimiterAssumption DEF LimiterParameters, Inside
<1> QED BY <1>1, FS_CardinalityType

(* The window Acquire charges is a window, and within the quota when all   *)
(* stored windows are.                                                     *)
LEMMA WindowAtFacts ==
  ASSUME TypeOK, QuotaBound, NEW ip \in IPs, NEW now \in Time
  PROVE  WindowAt(ip, now) \in Window /\ WindowAt(ip, now).count <= PerIPPerHour
BY LimiterAssumption DEF LimiterParameters, WindowAt, TypeOK, QuotaBound, Window

(* Putting a window within the quota keeps every window within it. *)
LEMMA PutWindowFacts ==
  ASSUME TypeOK, QuotaBound, NEW ip \in IPs, NEW w \in Window,
         w.count <= PerIPPerHour, PutWindow(ip, w)
  PROVE  /\ Known' \subseteq IPs
         /\ perIP' \in [Known' -> Window]
         /\ QuotaBound'
<1>1. perIP' = [i \in Known \cup {ip} |-> IF i = ip THEN w ELSE perIP[i]]
  BY DEF PutWindow
<1>2. Known' = Known \cup {ip}
  BY <1>1 DEF Known
<1> QED BY <1>1, <1>2 DEF TypeOK, QuotaBound

(* A request that is not inside may change its slot to anything but "held" *)
(* without anybody noticing.                                               *)
LEMMA InsideUnchanged ==
  ASSUME TypeOK, NEW q \in Requests, NEW s \in Slots,
         slot[q] # "held", s # "held", slot' = [slot EXCEPT ![q] = s]
  PROVE  Inside' = Inside
BY DEF Inside, TypeOK

LEMMA InvInit == Init => IInv
<1> SUFFICES ASSUME Init PROVE IInv
  OBVIOUS
<1>1. Inside = {} /\ Known = {}
  BY DEF Init, Inside, Known
<1>2. Cardinality(Inside) = 0
  BY <1>1, FS_EmptySet
<1>3. TypeOK
  BY <1>1 DEF Init, TypeOK, Slots
<1> QED
  BY <1>1, <1>2, <1>3, LimiterAssumption
  DEF LimiterParameters, Init, IInv, SlotsAccounted, QuotaBound

LEMMA AdmitStep ==
  ASSUME IInv, NEW q \in Requests, NEW ip \in IPs, NEW now \in Time,
         slot[q] = "none", Admit(q, ip, now)
  PROVE  IInv'
<1> DEFINE w == WindowAt(ip, now)
           v == [w EXCEPT !.count = @ + 1]
<1>1. w \in Window /\ w.count < PerIPPerHour
  BY WindowAtFacts, LimiterAssumption DEF LimiterParameters, IInv, Admit, Exhausted, Window
<1>2. v \in Window /\ v.count <= PerIPPerHour
  <2> HIDE DEF w
  <2> QED BY <1>1, LimiterAssumption DEF LimiterParameters, Window
<1>3. PutWindow(ip, v)
  BY DEF Admit
<1>4. Known' \subseteq IPs /\ perIP' \in [Known' -> Window] /\ QuotaBound'
  <2> HIDE DEF v
  <2> QED BY <1>2, <1>3, PutWindowFacts DEF IInv
<1>5. Inside' = Inside \cup {q} /\ q \notin Inside
  BY DEF Admit, Inside, IInv, TypeOK
<1>6. Cardinality(Inside') = Cardinality(Inside) + 1
  BY <1>5, InsideFinite, FS_AddElement
<1>7. SlotsAccounted'
  BY <1>6, InsideFinite, LimiterAssumption DEF LimiterParameters, Admit, Full, IInv, SlotsAccounted
<1>8. TypeOK'
  BY <1>4 DEF Admit, IInv, TypeOK, Slots
<1> QED BY <1>4, <1>7, <1>8 DEF IInv

LEMMA RefuseStep ==
  ASSUME IInv, NEW q \in Requests, NEW ip \in IPs, NEW now \in Time,
         slot[q] = "none", RefuseQuota(q, ip, now) \/ RefuseBusy(q, ip, now)
  PROVE  IInv'
<1>1. PutWindow(ip, WindowAt(ip, now)) /\ inFlight' = inFlight
  BY DEF RefuseQuota, RefuseBusy
<1>2. Known' \subseteq IPs /\ perIP' \in [Known' -> Window] /\ QuotaBound'
  BY <1>1, WindowAtFacts, PutWindowFacts DEF IInv
<1>3. PICK s \in {"quota", "busy"} : slot' = [slot EXCEPT ![q] = s]
  BY DEF RefuseQuota, RefuseBusy
<1>4. Inside' = Inside
  BY <1>3, InsideUnchanged DEF IInv, Slots
<1>5. TypeOK'
  BY <1>1, <1>2, <1>3 DEF IInv, TypeOK, Slots
<1> QED BY <1>1, <1>2, <1>4, <1>5 DEF IInv, SlotsAccounted

LEMMA ReleaseStep ==
  ASSUME IInv, NEW q \in Requests, Release(q)
  PROVE  IInv'
<1>1. SlotsAccounted' /\ inFlight' \in Nat
  <2>1. CASE slot[q] = "held"
    <3>1. Inside' = Inside \ {q} /\ q \in Inside
      BY <2>1 DEF Release, Inside, IInv, TypeOK
    <3>2. Cardinality(Inside') = Cardinality(Inside) - 1
      BY <3>1, InsideFinite, FS_RemoveElement
    <3>3. IsFiniteSet(Inside') /\ Cardinality(Inside') \in Nat
      BY <3>1, InsideFinite, FS_Subset, FS_CardinalityType
    <3>4. inFlight' = inFlight - 1
      BY <2>1 DEF Release
    <3> QED
      BY <3>2, <3>3, <3>4, InsideFinite, LimiterAssumption
      DEF LimiterParameters, IInv, SlotsAccounted
  <2>2. CASE slot[q] # "held"
    <3>1. Inside' = Inside
      BY <2>2, InsideUnchanged DEF Release, IInv, Slots
    <3> QED BY <2>2, <3>1 DEF Release, IInv, SlotsAccounted, TypeOK
  <2> QED BY <2>1, <2>2
<1>2. TypeOK' /\ QuotaBound'
  BY <1>1 DEF Release, IInv, TypeOK, Slots, QuotaBound, Known
<1> QED BY <1>1, <1>2 DEF IInv

LEMMA DropStep ==
  ASSUME IInv, NEW q \in Requests, Drop(q)
  PROVE  IInv'
<1>1. TypeOK' /\ QuotaBound'
  BY DEF Drop, IInv, TypeOK, Slots, QuotaBound, Known
<1>2. Inside' = Inside
  BY InsideUnchanged DEF Drop, IInv, Slots
<1> QED BY <1>1, <1>2 DEF Drop, IInv, SlotsAccounted

LEMMA SweepStep ==
  ASSUME IInv, NEW now \in Time, Sweep(now)
  PROVE  IInv'
<1>1. Known' \subseteq Known /\ \A ip \in Known' : perIP'[ip] = perIP[ip]
  BY DEF Sweep, Known
<1>2. TypeOK' /\ QuotaBound'
  BY <1>1 DEF Sweep, IInv, TypeOK, QuotaBound, Known
<1>3. Inside' = Inside
  BY DEF Sweep, Inside
<1> QED BY <1>2, <1>3 DEF Sweep, IInv, SlotsAccounted

LEMMA InvStep == IInv /\ [Next]_vars => IInv'
<1> SUFFICES ASSUME IInv, [Next]_vars PROVE IInv'
  OBVIOUS
<1>1. ASSUME NEW q \in Requests, NEW ip \in IPs, NEW now \in Time, Acquire(q, ip, now)
      PROVE  IInv'
  BY <1>1, AdmitStep, RefuseStep DEF Acquire
<1>2. ASSUME NEW q \in Requests, Release(q) PROVE IInv'
  BY <1>2, ReleaseStep
<1>3. ASSUME NEW q \in Requests, Drop(q) PROVE IInv'
  BY <1>3, DropStep
<1>4. ASSUME NEW now \in Time, Sweep(now) PROVE IInv'
  BY <1>4, SweepStep
<1>5. CASE UNCHANGED vars
  BY <1>5 DEF vars, IInv, TypeOK, SlotsAccounted, QuotaBound, Known, Inside
<1> QED BY <1>1, <1>2, <1>3, <1>4, <1>5 DEF Next

LEMMA Invariance == Spec => []IInv
<1> QED BY InvInit, InvStep, PTL DEF Spec

-----------------------------------------------------------------------------
(* What the limiter promises *)

(* The map, the counter and the slots keep their types. *)
THEOREM TypeCorrect == Spec => []TypeOK
<1> QED BY Invariance, PTL DEF IInv

(* limits.go:42-44: the counter is the number of requests inside and never *)
(* exceeds the cap, whoever releases twice.                                *)
THEOREM SlotAccounting == Spec => []SlotsAccounted
<1> QED BY Invariance, PTL DEF IInv

(* No window is charged beyond the quota. *)
THEOREM QuotaKept == Spec => []QuotaBound
<1> QED BY Invariance, PTL DEF IInv

-----------------------------------------------------------------------------
(* Under the clock *)

(* Every step under the clock is a step of the limiter. *)
LEMMA TimedStepIsStep == [TimedNext]_tvars => [Next]_vars
BY DEF TimedNext, TimedAcquire, TimedSweep, Finish, Tick, Next, tvars, vars

LEMMA TimedInvariance == TimedSpec => []IInv
<1>1. TimedInit => IInv
  BY InvInit DEF TimedInit
<1>2. IInv /\ [TimedNext]_tvars => IInv'
  BY InvStep, TimedStepIsStep
<1> QED BY <1>1, <1>2, PTL DEF TimedSpec

ClockInTime == clock \in Time

LEMMA ClockInvariance == TimedSpec => []ClockInTime
<1>1. TimedInit => ClockInTime
  BY TimedAssumption DEF TimedInit, ClockInTime
<1>2. ClockInTime /\ [TimedNext]_tvars => ClockInTime'
  BY DEF ClockInTime, TimedNext, TimedAcquire, TimedSweep, Finish, Tick, tvars
<1> QED BY <1>1, <1>2, PTL DEF TimedSpec

-----------------------------------------------------------------------------
(* The hourly quota, step by step *)

(* The windows the ledger shows. *)
Shown == [ip \in IPs |-> EagerWindow(ip)]

Lasts(ip) == ip \in Known /\ ~Rolled(perIP[ip], clock)

(* A window that has been put for an address shows when its hour lasts,    *)
(* and no other address sees it.                                           *)
LEMMA PutShows ==
  ASSUME TypeOK, NEW ip \in IPs, NEW w \in Window, PutWindow(ip, w),
         clock' = clock, ~Rolled(w, clock)
  PROVE  Shown' = [Shown EXCEPT ![ip] = [count |-> w.count, open |-> TRUE, start |-> w.start]]
<1> DEFINE new == [count |-> w.count, open |-> TRUE, start |-> w.start]
<1>1. perIP' = [i \in Known \cup {ip} |-> IF i = ip THEN w ELSE perIP[i]]
  BY DEF PutWindow
<1>2. Known' = Known \cup {ip}
  BY <1>1 DEF Known
<1>3. EagerWindow(ip)' = new
  BY <1>1, <1>2 DEF EagerWindow, Rolled
<1>4. ASSUME NEW i \in IPs, i # ip
      PROVE  EagerWindow(i)' = EagerWindow(i)
  BY <1>1, <1>2, <1>4 DEF EagerWindow, Rolled
<1>5. Shown' = [i \in IPs |-> EagerWindow(i)']
  BY DEF Shown
<1>6. Shown' = [i \in IPs |-> IF i = ip THEN new ELSE EagerWindow(i)]
  <2> HIDE DEF new
  <2> QED BY <1>3, <1>4, <1>5
<1> HIDE DEF new
<1>7. [Shown EXCEPT ![ip] = new] = [i \in IPs |-> IF i = ip THEN new ELSE EagerWindow(i)]
  BY DEF Shown
<1> QED BY <1>6, <1>7 DEF new

(* The window charged at the present instant is the one the ledger has     *)
(* open, or the fresh one it would open.                                   *)
LEMMA ChargedIsCurrent ==
  ASSUME TypeOK, ClockInTime, NEW ip \in IPs
  PROVE  LET w == WindowAt(ip, clock)
         IN  /\ w \in Window
             /\ ~Rolled(w, clock)
             /\ [count |-> w.count, open |-> TRUE, start |-> w.start]
                  = IF Shown[ip].open THEN Shown[ip] ELSE [count |-> 0, open |-> TRUE, start |-> clock]
<1> DEFINE w == WindowAt(ip, clock)
<1>1. clock \in Nat /\ Hour \in Nat \ {0} /\ clock \in Time
  BY LimiterAssumption DEF LimiterParameters, ClockInTime
<1>2. CASE Lasts(ip)
  <2>1. w = perIP[ip] /\ perIP[ip] \in Window
    BY <1>2 DEF Lasts, WindowAt, TypeOK
  <2>2. Shown[ip] = [count |-> perIP[ip].count, open |-> TRUE, start |-> perIP[ip].start]
    BY <1>2 DEF Lasts, Shown, EagerWindow
  <2> QED BY <1>2, <2>1, <2>2 DEF Lasts
<1>3. CASE ~Lasts(ip)
  <2>1. w = [count |-> 0, start |-> clock]
    BY <1>3 DEF Lasts, WindowAt
  <2>2. Shown[ip] = [count |-> 0, open |-> FALSE, start |-> 0]
    BY <1>3 DEF Lasts, Shown, EagerWindow
  <2> QED BY <1>1, <2>1, <2>2 DEF Window, Rolled
<1> QED BY <1>2, <1>3

LEMMA Recount ==
  ASSUME NEW n, NEW open, NEW start, NEW m
  PROVE  [[count |-> n, open |-> open, start |-> start] EXCEPT !.count = m]
           = [count |-> m, open |-> open, start |-> start]
OBVIOUS

(* A request that is let in is let in by the ledger. *)
LEMMA AdmitShows ==
  ASSUME TypeOK, ClockInTime, NEW q \in Requests, NEW ip \in IPs,
         Admit(q, ip, clock), clock' = clock,
         admitted' = [admitted EXCEPT ![ip][clock] = @ + 1]
  PROVE  Quota!Admit(ip)
<1> DEFINE w == WindowAt(ip, clock)
           v == [w EXCEPT !.count = @ + 1]
           c == [count |-> w.count, open |-> TRUE, start |-> w.start]
<1>1. w \in Window /\ ~Rolled(w, clock) /\ c = Quota!Current(ip)
  BY ChargedIsCurrent DEF Quota!Current, Quota!Opened, Shown
<1>2. w.count < PerIPPerHour /\ PutWindow(ip, v)
  BY <1>1, LimiterAssumption DEF LimiterParameters, Admit, Exhausted, Window
<1> HIDE DEF w
<1>3. v \in Window /\ v.count = w.count + 1 /\ v.start = w.start
  BY <1>1 DEF Window
<1>4. ~Rolled(v, clock)
  BY <1>1, <1>3 DEF Rolled
<1>5. Shown' = [Shown EXCEPT ![ip] = [count |-> v.count, open |-> TRUE, start |-> v.start]]
  <2> HIDE DEF v
  <2> QED BY <1>2, <1>3, <1>4, PutShows
<1>6. [count |-> v.count, open |-> TRUE, start |-> v.start] = [c EXCEPT !.count = @ + 1]
  <2> DEFINE n == w.count + 1
  <2>1. c.count = w.count
    OBVIOUS
  <2>2. c.count + 1 = n
    <3> HIDE DEF c
    <3> QED BY <2>1
  <2> HIDE DEF n
  <2>3. [c EXCEPT !.count = n] = [count |-> n, open |-> TRUE, start |-> w.start]
    BY Recount
  <2> HIDE DEF c, v
  <2> QED BY <1>3, <2>2, <2>3 DEF n
<1>7. Shown' = [Shown EXCEPT ![ip] = [Quota!Current(ip) EXCEPT !.count = @ + 1]]
  <2> HIDE DEF c, v
  <2> QED BY <1>1, <1>5, <1>6
<1>8. Quota!Current(ip).count < PerIPPerHour
  <2>1. c.count = w.count
    OBVIOUS
  <2> QED BY <1>1, <1>2, <2>1
<1> QED BY <1>7, <1>8 DEF Quota!Admit, Shown

(* A request that is refused still opens the address's window. *)
LEMMA RefuseShows ==
  ASSUME TypeOK, ClockInTime, NEW q \in Requests, NEW ip \in IPs,
         RefuseQuota(q, ip, clock) \/ RefuseBusy(q, ip, clock), clock' = clock,
         admitted' = admitted
  PROVE  Quota!Knock(ip)
<1> DEFINE w == WindowAt(ip, clock)
           c == [count |-> w.count, open |-> TRUE, start |-> w.start]
<1>1. w \in Window /\ ~Rolled(w, clock) /\ c = Quota!Current(ip)
  BY ChargedIsCurrent DEF Quota!Current, Quota!Opened, Shown
<1>2. PutWindow(ip, w)
  BY DEF RefuseQuota, RefuseBusy
<1>3. Shown' = [Shown EXCEPT ![ip] = c]
  <2> HIDE DEF w
  <2> QED BY <1>1, <1>2, PutShows
<1> QED BY <1>1, <1>3 DEF Quota!Knock, Shown

(* What the sweeper deletes was over already. *)
LEMMA SweepShowsNothing ==
  ASSUME TypeOK, ClockInTime, NEW now \in Time, TimedSweep(now)
  PROVE  Shown' = Shown /\ clock' = clock /\ admitted' = admitted
<1>1. now \in Nat /\ clock \in Nat /\ now <= clock /\ clock' = clock /\ Hour \in Nat
  BY LimiterAssumption DEF LimiterParameters, ClockInTime, TimedSweep
<1>2. perIP' = [ip \in {i \in Known : ~Rolled(perIP[i], now)} |-> perIP[ip]]
  BY DEF TimedSweep, Sweep
<1>3. Known' = {i \in Known : ~Rolled(perIP[i], now)}
  BY <1>2 DEF Known
<1>4. ASSUME NEW ip \in IPs
      PROVE  EagerWindow(ip)' = EagerWindow(ip)
  <2>1. CASE ip \in Known'
    <3>1. ip \in Known /\ perIP'[ip] = perIP[ip]
      BY <1>2, <1>3, <2>1
    <3> QED BY <1>1, <2>1, <3>1 DEF EagerWindow, Rolled
  <2>2. CASE ip \notin Known'
    <3>1. EagerWindow(ip)' = [count |-> 0, open |-> FALSE, start |-> 0]
      BY <2>2 DEF EagerWindow
    <3>2. ASSUME ip \in Known PROVE Rolled(perIP[ip], clock)
      <4>1. Rolled(perIP[ip], now)
        BY <1>3, <2>2, <3>2
      <4>2. perIP[ip].start \in Nat
        BY <3>2, LimiterAssumption DEF LimiterParameters, TypeOK, Window
      <4> QED BY <1>1, <4>1, <4>2 DEF Rolled
    <3>3. EagerWindow(ip) = [count |-> 0, open |-> FALSE, start |-> 0]
      BY <3>2 DEF EagerWindow
    <3> QED BY <3>1, <3>3
  <2> QED BY <2>1, <2>2
<1>5. admitted' = admitted
  BY DEF TimedSweep
<1> QED BY <1>1, <1>4, <1>5 DEF Shown

(* The clock closes the windows whose hour it ends. *)
LEMMA TickShows ==
  ASSUME TypeOK, ClockInTime, Tick
  PROVE  Quota!Tick
<1>1. clock \in Nat /\ clock' = clock + 1 /\ clock < MaxTime
  BY LimiterAssumption, TimedAssumption DEF LimiterParameters, ClockInTime, Tick
<1>2. perIP' = perIP /\ Known' = Known
  BY DEF Tick, vars, Known
<1>3. ASSUME NEW ip \in IPs
      PROVE  EagerWindow(ip)' = IF Shown[ip].open /\ clock' - Shown[ip].start >= Hour
                                THEN Quota!Closed ELSE Shown[ip]
  <2>1. Shown[ip] = EagerWindow(ip)
    BY DEF Shown
  <2>2. CASE Lasts(ip)
    <3>1. EagerWindow(ip) = [count |-> perIP[ip].count, open |-> TRUE, start |-> perIP[ip].start]
      BY <2>2 DEF Lasts, EagerWindow
    <3>2. Shown[ip].open /\ Shown[ip].start = perIP[ip].start
      BY <2>1, <3>1
    <3>3. EagerWindow(ip)' = IF clock' - perIP[ip].start >= Hour THEN Quota!Closed
                             ELSE EagerWindow(ip)
      BY <1>2, <2>2, <3>1 DEF Lasts, EagerWindow, Rolled, Quota!Closed
    <3> QED BY <2>1, <3>2, <3>3
  <2>3. CASE ~Lasts(ip)
    <3>1. EagerWindow(ip) = Quota!Closed
      BY <2>3 DEF Lasts, EagerWindow, Quota!Closed
    <3>2. ~Shown[ip].open
      BY <2>1, <3>1 DEF Quota!Closed
    <3>3. ASSUME ip \in Known PROVE perIP[ip].start \in Nat /\ Rolled(perIP[ip], clock)
      BY <2>3, <3>3, LimiterAssumption DEF LimiterParameters, TypeOK, Window, Lasts
    <3>4. ASSUME ip \in Known PROVE Rolled(perIP[ip], clock')
      BY <1>1, <3>3, <3>4, LimiterAssumption DEF LimiterParameters, Rolled
    <3>5. EagerWindow(ip)' = Quota!Closed
      BY <1>2, <3>4 DEF EagerWindow, Rolled, Quota!Closed
    <3> QED BY <2>1, <3>1, <3>2, <3>5
  <2> QED BY <2>2, <2>3
<1>4. admitted' = admitted
  BY DEF Tick
<1> QED BY <1>1, <1>3, <1>4 DEF Quota!Tick, Shown

(* limits.go:45-61 and 76-87: the map of windows, rolled at the next       *)
(* request and swept now and then, grants every address exactly what a     *)
(* window that closes on time would, and a request that is turned away,    *)
(* for the quota or for the cap, is not charged.                           *)
THEOREM HourlyQuotaKept ==
  ASSUME MaxLag = 0
  PROVE  TimedSpec => KeepsHourlyQuota
<1> DEFINE shown == <<clock, Shown, admitted>>
<1>1. TimedInit => Quota!Init
  BY TimedAssumption
  DEF TimedInit, Init, Known, Quota!Init, Quota!Closed, EagerWindow
<1>2. IInv /\ ClockInTime /\ [TimedNext]_tvars => [Quota!Next]_shown
  <2> SUFFICES ASSUME TypeOK, ClockInTime, [TimedNext]_tvars
               PROVE  [Quota!Next]_shown
    BY DEF IInv
  <2>1. ASSUME NEW q \in Requests, NEW ip \in IPs, NEW now \in Time, TimedAcquire(q, ip, now)
        PROVE  Quota!Next
    <3>1. now = clock /\ clock' = clock
      BY <2>1, MaxLag = 0, LimiterAssumption
      DEF LimiterParameters, TimedAcquire, ClockInTime
    <3>2. ASSUME Admit(q, ip, now) PROVE Quota!Admit(ip)
      <4>1. slot'[q] = "held"
        BY <3>2 DEF Admit, TypeOK
      <4> QED BY <2>1, <3>1, <3>2, <4>1, AdmitShows DEF TimedAcquire
    <3>3. ASSUME RefuseQuota(q, ip, now) \/ RefuseBusy(q, ip, now) PROVE Quota!Knock(ip)
      <4>1. slot'[q] # "held"
        BY <3>3 DEF RefuseQuota, RefuseBusy, TypeOK
      <4> QED BY <2>1, <3>1, <3>3, <4>1, RefuseShows DEF TimedAcquire
    <3> QED BY <2>1, <3>2, <3>3 DEF TimedAcquire, Acquire, Quota!Next
  <2>2. ASSUME NEW q \in Requests, Finish(q) PROVE UNCHANGED shown
    BY <2>2 DEF Finish, Release, Drop, Shown, EagerWindow, Known, Rolled
  <2>3. ASSUME NEW now \in Time, TimedSweep(now) PROVE UNCHANGED shown
    BY <2>3, SweepShowsNothing
  <2>4. CASE Tick
    BY <2>4, TickShows DEF Quota!Next
  <2>5. CASE UNCHANGED tvars
    BY <2>5 DEF tvars, vars, Shown, EagerWindow, Known, Rolled
  <2> QED BY <2>1, <2>2, <2>3, <2>4, <2>5 DEF TimedNext
<1> QED
  BY <1>1, <1>2, TimedInvariance, ClockInvariance, PTL
  DEF TimedSpec, KeepsHourlyQuota, Quota!Spec, Shown

-----------------------------------------------------------------------------
(* The burst bound.  Each address's hour is followed through the instants  *)
(* t whose span is still growing: what was let in since t, and how that    *)
(* compares with the window the address is charged to.                     *)

SpanSum(ip, t) == SumFunctionOnSet(admitted[ip], Span(t))

Growing(t) == clock < t + Hour - MaxLag

(* Nothing is charged to the address: the spans have room for a window.    *)
Settled(ip) == \A t \in Time : Growing(t) => SpanSum(ip, t) <= PerIPPerHour

(* The window w was put in the map at some instant o, at most MaxLag after *)
(* it starts.  A span that began before o holds at most a window besides;  *)
(* one that began after o holds nothing that w was not charged.            *)
Charged(ip, w) ==
  \E o \in Time :
    /\ o <= clock /\ o <= w.start + MaxLag
    /\ \A t \in Time : Growing(t) =>
         /\ SpanSum(ip, t) <= PerIPPerHour + w.count
         /\ t > o => SpanSum(ip, t) <= w.count

Fits(ip) == IF ip \in Known THEN Charged(ip, perIP[ip]) ELSE Settled(ip)

HistoryOK ==
  /\ clock \in Time
  /\ admitted \in [IPs -> [Time -> Nat]]
  /\ \A ip \in IPs, t \in Time : t > clock => admitted[ip][t] = 0

BurstInv == HistoryOK /\ BurstBound /\ \A ip \in IPs : Fits(ip)

LEMMA Instants ==
  /\ \A t \in Time : t \in Nat
  /\ Hour \in Nat \ {0} /\ MaxLag \in Nat /\ PerIPPerHour \in Nat \ {0}
  /\ MaxTime \in Nat /\ Time = 0..MaxTime /\ IsFiniteSet(Time)
BY LimiterAssumption, TimedAssumption, FS_Interval DEF LimiterParameters

LEMMA SpanFinite == \A t \in Time : Span(t) \in SUBSET Time /\ IsFiniteSet(Span(t))
BY Instants, FS_Subset DEF Span

(* A span yet to begin is empty. *)
LEMMA SpanSumFacts ==
  ASSUME HistoryOK, NEW ip \in IPs, NEW t \in Time
  PROVE  /\ SpanSum(ip, t) \in Nat
         /\ t > clock => SpanSum(ip, t) = 0
<1>1. admitted[ip] \in [Time -> Nat] /\ clock \in Time
  BY DEF HistoryOK
<1>2. SpanSum(ip, t) \in Nat
      /\ ((\A s \in Span(t) : admitted[ip][s] = 0) => SpanSum(ip, t) = 0)
  BY <1>1, SpanFinite, SumOfNaturals DEF SpanSum
<1>3. ASSUME t > clock, NEW s \in Span(t) PROVE admitted[ip][s] = 0
  <2>1. s \in Time /\ s > clock
    BY <1>1, <1>3, Instants DEF Span
  <2> QED BY <2>1 DEF HistoryOK
<1> QED BY <1>2, <1>3

(* When the window's hour is over, or there is none, an address is settled.*)
LEMMA OverMeansSettled ==
  ASSUME IInv, HistoryOK, NEW ip \in IPs, Fits(ip), NEW now \in Time, now <= clock,
         ip \notin Known \/ Rolled(perIP[ip], now)
  PROVE  Settled(ip)
<1> SUFFICES ASSUME ip \in Known PROVE Settled(ip)
  BY DEF Fits
<1> DEFINE w == perIP[ip]
<1>1. w.start \in Time /\ w.count \in Nat /\ w.count <= PerIPPerHour
  BY DEF IInv, TypeOK, QuotaBound, Window
<1>2. PICK o \in Time : /\ o <= w.start + MaxLag
                        /\ \A t \in Time : Growing(t) /\ t > o => SpanSum(ip, t) <= w.count
  BY DEF Fits, Charged
<1>3. now - w.start >= Hour
  BY DEF Rolled
<1>4. clock \in Time
  BY DEF HistoryOK
<1> HIDE DEF w
<1>5. ASSUME NEW t \in Time, Growing(t) PROVE t > o
  BY <1>1, <1>2, <1>3, <1>4, <1>5, Instants DEF Growing
<1> SUFFICES ASSUME NEW t \in Time, Growing(t) PROVE SpanSum(ip, t) <= PerIPPerHour
  BY DEF Settled
<1>6. SpanSum(ip, t) <= w.count /\ SpanSum(ip, t) \in Nat
  BY <1>2, <1>5, SpanSumFacts
<1> QED BY <1>1, <1>6, Instants

(* One more request let in shows in the spans that hold this instant. *)
LEMMA AdmittedOnce ==
  ASSUME HistoryOK, NEW ip \in IPs, clock' = clock,
         admitted' = [admitted EXCEPT ![ip][clock] = @ + 1]
  PROVE  /\ HistoryOK'
         /\ \A i \in IPs, t \in Time :
              SpanSum(i, t)' = SpanSum(i, t) + (IF i = ip /\ t <= clock /\ Growing(t) THEN 1 ELSE 0)
<1> DEFINE f == admitted[ip]
           e == [f EXCEPT ![clock] = @ + 1]
<1>1. clock \in Time /\ f \in [Time -> Nat] /\ admitted \in [IPs -> [Time -> Nat]]
  BY DEF HistoryOK
<1>2. admitted' = [admitted EXCEPT ![ip] = e]
  OBVIOUS
<1>3. e \in [Time -> Nat] /\ e[clock] = f[clock] + 1 /\ \A t \in Time : t # clock => e[t] = f[t]
  <2> HIDE DEF f
  <2> QED BY <1>1
<1>4. /\ admitted' \in [IPs -> [Time -> Nat]]
      /\ admitted'[ip] = e
      /\ \A i \in IPs : i # ip => admitted'[i] = admitted[i]
  <2> HIDE DEF e
  <2> QED BY <1>1, <1>2, <1>3
<1>5. HistoryOK'
  <2>1. ASSUME NEW i \in IPs, NEW t \in Time, t > clock PROVE admitted'[i][t] = 0
    <3>1. admitted[i][t] = 0 /\ t # clock
      BY <1>1, <2>1, Instants DEF HistoryOK
    <3> HIDE DEF e
    <3> QED BY <1>3, <1>4, <3>1
  <2> QED BY <1>1, <1>4, <2>1 DEF HistoryOK
<1>6. ASSUME NEW t \in Time
      PROVE  SpanSum(ip, t)' = SpanSum(ip, t) + (IF t <= clock /\ Growing(t) THEN 1 ELSE 0)
  <2>1. SumFunctionOnSet(e, Span(t)) = SumFunctionOnSet(f, Span(t)) + (IF clock \in Span(t) THEN 1 ELSE 0)
    <3>2. Span(t) \in SUBSET Time /\ IsFiniteSet(Span(t))
      BY SpanFinite
    <3> HIDE DEF e, f
    <3> QED BY <1>1, <1>3, <3>2, SumFacts
  <2>2. clock \in Span(t) <=> t <= clock /\ Growing(t)
    BY <1>1 DEF Span, Growing
  <2>3. SpanSum(ip, t)' = SumFunctionOnSet(e, Span(t))
    <3> HIDE DEF e
    <3> QED BY <1>4 DEF SpanSum, Span
  <2> HIDE DEF e
  <2> QED BY <2>1, <2>2, <2>3 DEF SpanSum
<1>7. ASSUME NEW i \in IPs, i # ip, NEW t \in Time
      PROVE  SpanSum(i, t)' = SpanSum(i, t) /\ SpanSum(i, t) \in Nat
  BY <1>4, <1>7, SpanSumFacts DEF SpanSum, Span
<1> QED BY <1>5, <1>6, <1>7

(* What was let in is unchanged: so are the sums. *)
LEMMA AdmittedNone ==
  ASSUME admitted' = admitted, clock' = clock
  PROVE  /\ HistoryOK => HistoryOK'
         /\ BurstBound => BurstBound'
         /\ \A i \in IPs, t \in Time : SpanSum(i, t)' = SpanSum(i, t)
         /\ \A t \in Time : Growing(t)' = Growing(t)
         /\ \A i \in IPs : Settled(i) => Settled(i)'
BY DEF HistoryOK, BurstBound, SpanSum, Span, Growing, Settled

(* How a window put in the map may come to be: the stored one with as many *)
(* requests, or a fresh one for an address that was settled.               *)
LEMMA PutFits ==
  ASSUME IInv, HistoryOK, NEW ip \in IPs, Fits(ip), NEW now \in Time,
         now <= clock, clock - now <= MaxLag
  PROVE  LET w == WindowAt(ip, now) IN
         /\ w \in Window /\ w.count <= PerIPPerHour
         /\ Charged(ip, w)
<1> DEFINE w == WindowAt(ip, now)
<1>1. w \in Window /\ w.count <= PerIPPerHour
  BY WindowAtFacts DEF IInv
<1>2. CASE ip \in Known /\ ~Rolled(perIP[ip], now)
  BY <1>1, <1>2 DEF WindowAt, Fits
<1>3. CASE ip \notin Known \/ Rolled(perIP[ip], now)
  <2>1. Settled(ip)
    BY <1>3, OverMeansSettled
  <2>2. w.start = now /\ w.count = 0
    BY <1>3 DEF WindowAt
  <2>3. clock \in Time /\ clock <= now + MaxLag
    BY Instants DEF HistoryOK
  <2> HIDE DEF w
  <2>4. ASSUME NEW t \in Time, Growing(t)
        PROVE  /\ SpanSum(ip, t) <= PerIPPerHour + w.count
               /\ t > clock => SpanSum(ip, t) <= w.count
    <3>1. SpanSum(ip, t) \in Nat /\ (t > clock => SpanSum(ip, t) = 0)
      BY SpanSumFacts
    <3>2. SpanSum(ip, t) <= PerIPPerHour
      BY <2>1, <2>4 DEF Settled
    <3> QED BY <2>2, <3>1, <3>2, Instants
  <2>5. Charged(ip, w)
    BY <2>2, <2>3, <2>4, Instants DEF Charged
  <2> QED BY <1>1, <2>5 DEF w
<1> QED BY <1>1, <1>2, <1>3

LEMMA WindowPut ==
  ASSUME TypeOK, NEW ip \in IPs, NEW w, PutWindow(ip, w)
  PROVE  /\ ip \in Known' /\ perIP'[ip] = w
         /\ \A i \in IPs : i # ip => (i \in Known' <=> i \in Known)
         /\ \A i \in Known : i # ip => perIP'[i] = perIP[i]
<1>1. perIP' = [i \in Known \cup {ip} |-> IF i = ip THEN w ELSE perIP[i]]
  BY DEF PutWindow
<1>2. Known' = Known \cup {ip}
  BY <1>1 DEF Known
<1> QED BY <1>1, <1>2

LEMMA AdmitFits ==
  ASSUME BurstInv, IInv, NEW q \in Requests, NEW ip \in IPs, NEW now \in Time,
         TimedAcquire(q, ip, now), Admit(q, ip, now)
  PROVE  BurstInv'
<1> DEFINE w == WindowAt(ip, now)
           v == [w EXCEPT !.count = @ + 1]
<1>1. now <= clock /\ clock - now <= MaxLag /\ clock' = clock
  BY DEF TimedAcquire
<1>2. HistoryOK /\ Fits(ip) /\ BurstBound
  BY DEF BurstInv
<1>3. w \in Window /\ w.count < PerIPPerHour /\ Charged(ip, w)
  <2>1. w \in Window /\ Charged(ip, w)
    BY <1>1, <1>2, PutFits
  <2>2. ~Exhausted(w)
    BY DEF Admit
  <2> HIDE DEF w
  <2> QED BY <2>1, <2>2, Instants DEF Exhausted, Window
<1>4. PutWindow(ip, v) /\ slot'[q] = "held"
  BY DEF Admit, IInv, TypeOK
<1>5. admitted' = [admitted EXCEPT ![ip][clock] = @ + 1]
  BY <1>4 DEF TimedAcquire
<1> HIDE DEF w
<1>6. v.count = w.count + 1 /\ v.start = w.start
  BY <1>3 DEF Window
<1>7. ip \in Known' /\ perIP'[ip] = v
      /\ (\A i \in IPs : i # ip => (i \in Known' <=> i \in Known))
      /\ (\A i \in Known : i # ip => perIP'[i] = perIP[i])
  <2> HIDE DEF v
  <2> QED BY <1>4, WindowPut DEF IInv
<1> HIDE DEF v
<1>8. HistoryOK'
  BY <1>1, <1>2, <1>5, AdmittedOnce
<1>9. \A i \in IPs, t \in Time :
        SpanSum(i, t)' = SpanSum(i, t) + (IF i = ip /\ t <= clock /\ Growing(t) THEN 1 ELSE 0)
  BY <1>1, <1>2, <1>5, AdmittedOnce
<1>10. \A t \in Time : Growing(t)' <=> Growing(t)
  BY <1>1 DEF Growing
<1>11. \A i \in IPs, t \in Time : SpanSum(i, t) \in Nat
  BY <1>2, SpanSumFacts
<1>12. \A i \in IPs, t \in Time : SpanSum(i, t)' <= 2 * PerIPPerHour
  <2> SUFFICES ASSUME NEW i \in IPs, NEW t \in Time PROVE SpanSum(i, t)' <= 2 * PerIPPerHour
    OBVIOUS
  <2>1. SpanSum(i, t) <= 2 * PerIPPerHour
    BY <1>2 DEF BurstBound, SpanSum
  <2>2. CASE i = ip /\ t <= clock /\ Growing(t)
    <3>1. SpanSum(ip, t) <= PerIPPerHour + w.count
      BY <1>3, <2>2 DEF Charged
    <3>2. SpanSum(i, t)' = SpanSum(ip, t) + 1
      BY <1>9, <2>2
    <3>3. w.count \in Nat /\ SpanSum(ip, t) \in Nat
      BY <1>3, <1>11 DEF Window
    <3> QED BY <1>3, <3>1, <3>2, <3>3, Instants
  <2>3. CASE ~(i = ip /\ t <= clock /\ Growing(t))
    BY <1>9, <1>11, <2>1, <2>3
  <2> QED BY <2>2, <2>3
<1>13. BurstBound'
  BY <1>12 DEF BurstBound, SpanSum
<1>14. Charged(ip, perIP[ip])'
  <2>1. PICK o \in Time :
          /\ o <= clock /\ o <= w.start + MaxLag
          /\ \A t \in Time : Growing(t) =>
               /\ SpanSum(ip, t) <= PerIPPerHour + w.count
               /\ t > o => SpanSum(ip, t) <= w.count
    BY <1>3 DEF Charged
  <2>2. ASSUME NEW t \in Time, Growing(t)
        PROVE  /\ SpanSum(ip, t)' <= PerIPPerHour + v.count
               /\ t > o => SpanSum(ip, t)' <= v.count
    <3>1. SpanSum(ip, t)' <= SpanSum(ip, t) + 1
      BY <1>9, <1>11
    <3>2. SpanSum(ip, t)' \in Nat
      BY <1>9, <1>11
    <3>3. w.count \in Nat /\ SpanSum(ip, t) \in Nat
      BY <1>3, <1>11 DEF Window
    <3> QED BY <1>6, <2>1, <2>2, <3>1, <3>2, <3>3, Instants
  <2>3. o <= clock' /\ o <= v.start + MaxLag
    BY <1>1, <1>6, <2>1
  <2> QED BY <1>7, <1>10, <2>2, <2>3 DEF Charged
<1>15. ASSUME NEW i \in IPs PROVE Fits(i)'
  <2>1. CASE i = ip
    BY <1>7, <1>14, <2>1 DEF Fits
  <2>2. CASE i # ip
    <3>1. Fits(i)
      BY DEF BurstInv
    <3>2. \A t \in Time : SpanSum(i, t)' = SpanSum(i, t)
      BY <1>9, <1>11, <2>2
    <3> QED BY <1>1, <1>7, <1>10, <2>2, <3>1, <3>2 DEF Fits, Charged, Settled
  <2> QED BY <2>1, <2>2
<1> QED BY <1>8, <1>13, <1>15 DEF BurstInv

LEMMA RefuseFits ==
  ASSUME BurstInv, IInv, NEW q \in Requests, NEW ip \in IPs, NEW now \in Time,
         TimedAcquire(q, ip, now), RefuseQuota(q, ip, now) \/ RefuseBusy(q, ip, now)
  PROVE  BurstInv'
<1> DEFINE w == WindowAt(ip, now)
<1>1. now <= clock /\ clock - now <= MaxLag /\ clock' = clock
  BY DEF TimedAcquire
<1>2. HistoryOK /\ Fits(ip) /\ BurstBound
  BY DEF BurstInv
<1>3. Charged(ip, w)
  BY <1>1, <1>2, PutFits
<1>4. PutWindow(ip, w) /\ slot'[q] # "held"
  BY DEF RefuseQuota, RefuseBusy, IInv, TypeOK
<1>5. admitted' = admitted
  BY <1>4 DEF TimedAcquire
<1> HIDE DEF w
<1>6. ip \in Known' /\ perIP'[ip] = w
      /\ (\A i \in IPs : i # ip => (i \in Known' <=> i \in Known))
      /\ (\A i \in Known : i # ip => perIP'[i] = perIP[i])
  BY <1>4, WindowPut DEF IInv
<1>7. HistoryOK' /\ BurstBound'
  BY <1>1, <1>2, <1>5, AdmittedNone
<1>8. ASSUME NEW i \in IPs PROVE Settled(i) => Settled(i)'
  BY <1>1, <1>5, AdmittedNone
<1>9. ASSUME NEW i \in IPs PROVE Fits(i)'
  <2>1. Charged(ip, perIP[ip])'
    BY <1>1, <1>3, <1>5, <1>6 DEF Charged, SpanSum, Growing, Span
  <2>2. CASE i = ip
    BY <1>6, <2>1, <2>2 DEF Fits
  <2>3. CASE i # ip
    <3>1. Fits(i)
      BY DEF BurstInv
    <3> QED BY <1>1, <1>5, <1>6, <1>8, <2>3, <3>1 DEF Fits, Charged, SpanSum, Growing, Span
  <2> QED BY <2>2, <2>3
<1> QED BY <1>7, <1>9 DEF BurstInv

LEMMA SweepFits ==
  ASSUME BurstInv, IInv, NEW now \in Time, TimedSweep(now)
  PROVE  BurstInv'
<1>1. now <= clock /\ clock' = clock /\ admitted' = admitted
  BY DEF TimedSweep
<1>2. perIP' = [ip \in {i \in Known : ~Rolled(perIP[i], now)} |-> perIP[ip]]
  BY DEF TimedSweep, Sweep
<1>3. Known' = {i \in Known : ~Rolled(perIP[i], now)}
  BY <1>2 DEF Known
<1>4. HistoryOK' /\ BurstBound'
  BY <1>1, AdmittedNone DEF BurstInv
<1>5. ASSUME NEW i \in IPs PROVE Fits(i)'
  <2>1. Fits(i) /\ HistoryOK
    BY DEF BurstInv
  <2>2. CASE i \in Known'
    <3>1. i \in Known /\ perIP'[i] = perIP[i]
      BY <1>2, <1>3, <2>2
    <3>2. Charged(i, perIP[i])
      BY <2>1, <3>1 DEF Fits
    <3> QED BY <1>1, <2>2, <3>1, <3>2 DEF Fits, Charged, SpanSum, Growing, Span
  <2>3. CASE i \notin Known'
    <3>1. i \notin Known \/ Rolled(perIP[i], now)
      BY <1>3, <2>3
    <3>2. Settled(i)
      BY <1>1, <2>1, <3>1, OverMeansSettled
    <3>3. Settled(i)'
      BY <1>1, <3>2, AdmittedNone
    <3> QED BY <2>3, <3>3 DEF Fits
  <2> QED BY <2>2, <2>3
<1> QED BY <1>4, <1>5 DEF BurstInv

(* As time goes by fewer spans grow, and none holds more. *)
LEMMA TickFits ==
  ASSUME BurstInv, IInv, Tick
  PROVE  BurstInv'
<1>1. clock' = clock + 1 /\ clock' \in Time /\ admitted' = admitted /\ perIP' = perIP
  BY DEF Tick, vars
<1>2. clock \in Nat /\ HistoryOK /\ BurstBound /\ clock' \in Nat
  BY <1>1, Instants DEF BurstInv, HistoryOK
<1>3. HistoryOK'
  BY <1>1, <1>2, Instants DEF HistoryOK
<1>4. BurstBound'
  BY <1>1, <1>2 DEF BurstBound, Span
<1>5. \A i \in IPs, t \in Time : SpanSum(i, t)' = SpanSum(i, t)
  BY <1>1 DEF SpanSum, Span
<1>6. \A t \in Time : Growing(t)' => Growing(t)
  BY <1>1, <1>2, Instants DEF Growing
<1>7. ASSUME NEW i \in IPs PROVE Fits(i)'
  <2>1. Fits(i) /\ Known' = Known
    BY <1>1 DEF BurstInv, Known
  <2>2. CASE i \in Known
    <3>1. PICK o \in Time :
            /\ o <= clock /\ o <= perIP[i].start + MaxLag
            /\ \A t \in Time : Growing(t) =>
                 /\ SpanSum(i, t) <= PerIPPerHour + perIP[i].count
                 /\ t > o => SpanSum(i, t) <= perIP[i].count
      BY <2>1, <2>2 DEF Fits, Charged
    <3>2. o <= clock'
      BY <1>1, <1>2, <3>1, Instants
    <3>3. Charged(i, perIP[i])'
      BY <1>1, <1>5, <1>6, <3>1, <3>2 DEF Charged
    <3> QED BY <2>1, <2>2, <3>3 DEF Fits
  <2>3. CASE i \notin Known
    <3>1. Settled(i)'
      BY <1>5, <1>6, <2>1, <2>3 DEF Fits, Settled
    <3> QED BY <2>1, <2>3, <3>1 DEF Fits
  <2> QED BY <2>2, <2>3
<1> QED BY <1>3, <1>4, <1>7 DEF BurstInv

LEMMA BurstUnchanged ==
  ASSUME BurstInv, perIP' = perIP, clock' = clock, admitted' = admitted
  PROVE  BurstInv'
BY DEF BurstInv, HistoryOK, BurstBound, Span, Fits, Charged, Settled, SpanSum, Growing, Known

LEMMA BurstInit == TimedInit => BurstInv
<1> SUFFICES ASSUME TimedInit PROVE BurstInv
  OBVIOUS
<1>1. clock = 0 /\ admitted = [ip \in IPs |-> [t \in Time |-> 0]] /\ Known = {}
  BY DEF TimedInit, Init, Known
<1>2. HistoryOK
  BY <1>1, Instants DEF HistoryOK
<1>3. ASSUME NEW ip \in IPs, NEW t \in Time PROVE SpanSum(ip, t) = 0
  <2>1. admitted[ip] \in [Time -> Nat] /\ \A s \in Span(t) : admitted[ip][s] = 0
    BY <1>1 DEF Span
  <2> QED BY <2>1, SpanFinite, SumOfNaturals DEF SpanSum
<1>4. BurstBound
  BY <1>3, Instants DEF BurstBound, SpanSum
<1>5. \A ip \in IPs : Fits(ip)
  BY <1>1, <1>3, Instants DEF Fits, Settled
<1> QED BY <1>2, <1>4, <1>5 DEF BurstInv

LEMMA BurstStep == BurstInv /\ IInv /\ [TimedNext]_tvars => BurstInv'
<1> SUFFICES ASSUME BurstInv, IInv, [TimedNext]_tvars PROVE BurstInv'
  OBVIOUS
<1>1. ASSUME NEW q \in Requests, NEW ip \in IPs, NEW now \in Time, TimedAcquire(q, ip, now)
      PROVE  BurstInv'
  BY <1>1, AdmitFits, RefuseFits DEF TimedAcquire, Acquire
<1>2. ASSUME NEW q \in Requests, Finish(q) PROVE BurstInv'
  BY <1>2, BurstUnchanged DEF Finish, Release, Drop
<1>3. ASSUME NEW now \in Time, TimedSweep(now) PROVE BurstInv'
  BY <1>3, SweepFits
<1>4. CASE Tick
  BY <1>4, TickFits
<1>5. CASE UNCHANGED tvars
  BY <1>5, BurstUnchanged DEF tvars, vars
<1> QED BY <1>1, <1>2, <1>3, <1>4, <1>5 DEF TimedNext

(* limits.go:17-22 and 49-61: no hour, less the delay a request may have   *)
(* before it gets the lock, sees more of an address's requests let in than *)
(* two windows admit, wherever it starts and whatever the sweeper deletes. *)
THEOREM BurstsAreBounded == TimedSpec => []BurstBound
<1> QED
  BY BurstInit, BurstStep, TimedInvariance, PTL DEF TimedSpec, BurstInv
=============================================================================
