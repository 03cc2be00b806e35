---------------------------- MODULE LimiterTimed ----------------------------
(***************************************************************************)
(* The limiter under a clock.  A request passes the instant it read at     *)
(* server.go:134, at most MaxLag ticks before it gets the lock; the        *)
(* sweeper passes the instant its tick was sent, at any time after it.     *)
(* `admitted` is a history of the instants at which each address was let   *)
(* in, kept only to state what the hourly quota amounts to.                *)
(***************************************************************************)
EXTENDS Limiter, Functions

CONSTANTS
  MaxTime,           \* last instant of the instance
  MaxLag             \* bound on the delay between reading the clock and Acquire

ASSUME TimedAssumption == MaxTime \in Nat /\ Time = 0..MaxTime /\ MaxLag \in Nat

VARIABLES clock, admitted

tvars == <<vars, clock, admitted>>

TimedInit ==
  /\ Init
  /\ clock = 0
  /\ admitted = [ip \in IPs |-> [t \in Time |-> 0]]

TimedAcquire(q, ip, now) ==
  /\ now <= clock /\ clock - now <= MaxLag
  /\ Acquire(q, ip, now)
  /\ admitted' = IF slot'[q] = "held" THEN [admitted EXCEPT ![ip][clock] = @ + 1]
                                      ELSE admitted
  /\ UNCHANGED clock

TimedSweep(now) ==
  /\ now <= clock
  /\ Sweep(now)
  /\ UNCHANGED <<clock, admitted>>

Finish(q) == (Release(q) \/ Drop(q)) /\ UNCHANGED <<clock, admitted>>

Tick ==
  /\ clock + 1 \in Time
  /\ clock' = clock + 1
  /\ UNCHANGED <<vars, admitted>>

TimedNext ==
  \/ \E q \in Requests, ip \in IPs, now \in Time : TimedAcquire(q, ip, now)
  \/ \E q \in Requests : Finish(q)
  \/ \E now \in Time : TimedSweep(now)
  \/ Tick

TimedSpec == TimedInit /\ [][TimedNext]_tvars

-----------------------------------------------------------------------------
(* Properties *)

Span(t) == {u \in Time : t <= u /\ u < t + Hour - MaxLag}

(* limits.go:17-22 and 49-61: the quota is a fixed window's, so no hour,   *)
(* wherever it starts, sees more than two windows' worth of an address's   *)
(* requests let in, whatever the sweeper deletes meanwhile.  A request     *)
(* that got the lock late can reopen a swept window in the past and can be *)
(* charged to a window already over, so the hour is short of it by the     *)
(* delay.                                                                  *)
BurstBound ==
  \A ip \in IPs, t \in Time :
    SumFunctionOnSet(admitted[ip], Span(t)) <= 2 * PerIPPerHour

(* limits.go:45-61 and 76-87: rolling windows over lazily at the next      *)
(* request and sweeping the rest is the same, to every caller, as closing  *)
(* each window on time; and a window is charged for a request let in, and  *)
(* for no other.                                                           *)
EagerWindow(ip) ==
  IF ip \in Known /\ ~Rolled(perIP[ip], clock)
  THEN [count |-> perIP[ip].count, open |-> TRUE, start |-> perIP[ip].start]
  ELSE [count |-> 0, open |-> FALSE, start |-> 0]
Quota == INSTANCE HourlyQuota WITH window <- [ip \in IPs |-> EagerWindow(ip)]
KeepsHourlyQuota == Quota!Spec
=============================================================================
