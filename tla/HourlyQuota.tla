---------------------------- MODULE HourlyQuota -----------------------------
(***************************************************************************)
(* What the per-address quota of limits.go promises, without its map: an   *)
(* address's window opens with its first request, lets at most             *)
(* PerIPPerHour requests in, and closes by itself an hour after it opened. *)
(* Nothing here rolls lazily, nothing is swept, and who is charged has been*)
(* let in: `admitted` counts an address's requests let in at each instant. *)
(***************************************************************************)
EXTENDS Naturals

CONSTANTS IPs, Hour, PerIPPerHour, MaxTime

VARIABLES clock, window, admitted

Closed == [count |-> 0, open |-> FALSE, start |-> 0]
Opened == [count |-> 0, open |-> TRUE, start |-> clock]

Current(ip) == IF window[ip].open THEN window[ip] ELSE Opened

Init ==
  /\ clock = 0
  /\ window = [ip \in IPs |-> Closed]
  /\ admitted = [ip \in IPs |-> [t \in 0..MaxTime |-> 0]]

(* A request that is let in, and charged. *)
Admit(ip) ==
  /\ Current(ip).count < PerIPPerHour
  /\ window' = [window EXCEPT ![ip] = [Current(ip) EXCEPT !.count = @ + 1]]
  /\ admitted' = [admitted EXCEPT ![ip][clock] = @ + 1]
  /\ UNCHANGED clock

(* A request refused, be it for want of a slot, still opens its window.    *)
Knock(ip) ==
  /\ window' = [window EXCEPT ![ip] = Current(ip)]
  /\ UNCHANGED <<clock, admitted>>

Tick ==
  /\ clock < MaxTime
  /\ clock' = clock + 1
  /\ window' = [ip \in IPs |-> IF window[ip].open /\ clock' - window[ip].start >= Hour
                               THEN Closed ELSE window[ip]]
  /\ UNCHANGED admitted

Next == Tick \/ \E ip \in IPs : Admit(ip) \/ Knock(ip)

Spec == Init /\ [][Next]_<<clock, window, admitted>>
=============================================================================
