------------------------------ MODULE Limiter -------------------------------
(***************************************************************************)
(* The admission limiter of internal/limits/limits.go: a fixed-window      *)
(* quota per client address and one cap on requests in flight, both        *)
(* checked and charged in one critical section.  As in SessionStore the    *)
(* instants are read by the callers before they get the lock, so Acquire   *)
(* and Sweep take an arbitrary one.                                        *)
(***************************************************************************)
EXTENDS Integers, FiniteSets

CONSTANTS
  IPs,               \* client addresses
  Requests,          \* goroutines that call Acquire
  Time,              \* the instants a caller or the sweeper may pass
  Hour,              \* time.Hour in ticks of Time
  PerIPPerHour, MaxConcurrent

(* config.envInt admits no quota or cap below one. *)
LimiterParameters ==
  /\ IsFiniteSet(Requests)
  /\ Time \subseteq Nat
  /\ Hour \in Nat \ {0}
  /\ PerIPPerHour \in Nat \ {0}
  /\ MaxConcurrent \in Nat \ {0}
ASSUME LimiterAssumption == LimiterParameters

VARIABLES
  perIP,             \* Limiter.perIP: windows of the addresses in the map
  inFlight,          \* Limiter.inFlight
  slot               \* what each request got from Acquire

vars == <<perIP, inFlight, slot>>

Window == [count: Nat, start: Time]

(* "held" until the first call of the release closure, "released" while    *)
(* the caller still has it; "quota" and "busy" are ErrPerIPQuota, ErrBusy. *)
Slots == {"none", "held", "released", "quota", "busy"}

-----------------------------------------------------------------------------
(* State functions *)

Known == DOMAIN perIP
Inside == {q \in Requests : slot[q] = "held"}

RolledLate(w, now) == now - w.start > Hour        \* off by one
Rolled(w, now) == now - w.start >= Hour

(* The window Acquire charges: the stored one, or a fresh one in its place *)
(* when there is none or its hour is over.                                 *)
WindowAt(ip, now) ==
  IF ip \in Known /\ ~Rolled(perIP[ip], now)
  THEN perIP[ip] ELSE [count |-> 0, start |-> now]

ExhaustedLate(w) == w.count > PerIPPerHour        \* off by one
Exhausted(w) == w.count >= PerIPPerHour

FullLate == inFlight > MaxConcurrent              \* off by one
Full == inFlight >= MaxConcurrent

PutWindow(ip, w) == perIP' = [i \in Known \cup {ip} |-> IF i = ip THEN w ELSE perIP[i]]

-----------------------------------------------------------------------------
(* Acquire: a rolled-over window is replaced even when the request is then *)
(* refused, and the quota is looked at before the cap.                     *)

Admit(q, ip, now) ==
  LET w == WindowAt(ip, now)
  IN /\ ~Exhausted(w)
     /\ ~Full
     /\ PutWindow(ip, [w EXCEPT !.count = @ + 1])
     /\ inFlight' = inFlight + 1
     /\ slot' = [slot EXCEPT ![q] = "held"]

RefuseQuota(q, ip, now) ==
  LET w == WindowAt(ip, now)
  IN /\ Exhausted(w)
     /\ PutWindow(ip, w)
     /\ slot' = [slot EXCEPT ![q] = "quota"]
     /\ UNCHANGED inFlight

RefuseBusyCharges(q, ip, now) ==                  \* charged before the cap is seen
  LET w == WindowAt(ip, now)
  IN /\ ~Exhausted(w)
     /\ Full
     /\ PutWindow(ip, [w EXCEPT !.count = @ + 1])
     /\ slot' = [slot EXCEPT ![q] = "busy"]
     /\ UNCHANGED inFlight
RefuseBusy(q, ip, now) ==
  LET w == WindowAt(ip, now)
  IN /\ ~Exhausted(w)
     /\ Full
     /\ PutWindow(ip, w)
     /\ slot' = [slot EXCEPT ![q] = "busy"]
     /\ UNCHANGED inFlight

Acquire(q, ip, now) ==
  /\ slot[q] = "none"
  /\ \/ Admit(q, ip, now)
     \/ RefuseQuota(q, ip, now)
     \/ RefuseBusy(q, ip, now)

(* The release closure; its `released` flag makes a second call a no-op.   *)
ReleaseEveryCall(q) ==                            \* without the flag
  /\ slot[q] \in {"held", "released"}
  /\ slot' = [slot EXCEPT ![q] = "released"]
  /\ inFlight' = inFlight - 1
  /\ UNCHANGED perIP
Release(q) ==
  /\ slot[q] \in {"held", "released"}
  /\ slot' = [slot EXCEPT ![q] = "released"]
  /\ inFlight' = IF slot[q] = "held" THEN inFlight - 1 ELSE inFlight
  /\ UNCHANGED perIP

(* The request returns; it holds no slot any more. *)
Drop(q) ==
  /\ slot[q] \in {"released", "quota", "busy"}
  /\ slot' = [slot EXCEPT ![q] = "none"]
  /\ UNCHANGED <<perIP, inFlight>>

SweepFresh(now) ==                                \* comparison reversed
  /\ perIP' = [ip \in {i \in Known : Rolled(perIP[i], now)} |-> perIP[ip]]
  /\ UNCHANGED <<inFlight, slot>>
Sweep(now) ==
  /\ perIP' = [ip \in {i \in Known : ~Rolled(perIP[i], now)} |-> perIP[ip]]
  /\ UNCHANGED <<inFlight, slot>>

-----------------------------------------------------------------------------
Init ==
  /\ perIP = [ip \in {} |-> 0]
  /\ inFlight = 0
  /\ slot = [q \in Requests |-> "none"]

Next ==
  \/ \E q \in Requests, ip \in IPs, now \in Time : Acquire(q, ip, now)
  \/ \E q \in Requests : Release(q)
  \/ \E q \in Requests : Drop(q)
  \/ \E now \in Time : Sweep(now)

Spec == Init /\ [][Next]_vars

-----------------------------------------------------------------------------
(* Properties *)

TypeOK ==
  /\ Known \subseteq IPs
  /\ perIP \in [Known -> Window]
  /\ inFlight \in Nat
  /\ slot \in [Requests -> Slots]

(* limits.go:42-44 and 61-73: the counter is the number of requests inside *)
(* (no slot is leaked by a refusal, none freed twice by a second release), *)
(* and never above the cap.                                                *)
SlotsAccounted ==
  /\ inFlight = Cardinality(Inside)
  /\ inFlight <= MaxConcurrent

(* limits.go:49-61: no window is ever charged beyond the quota.            *)
QuotaBound == \A ip \in Known : perIP[ip].count <= PerIPPerHour
=============================================================================
