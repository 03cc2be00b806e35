----------------------------- MODULE MCLimiter ------------------------------
(* The instance of Limiter and LimiterTimed that TLC checks. *)
EXTENDS LimiterTimed, TLC

Instants == 0..MaxTime

Symmetry == Permutations(Requests) \cup Permutations(IPs)
=============================================================================
