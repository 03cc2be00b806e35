---------------------------- MODULE MCTurnTiming ----------------------------
(* The instances of TurnTiming that TLC checks. *)
EXTENDS TurnTiming, TLC

Symmetry == Permutations(Handlers) \cup Permutations(Ids)

ReqLive(h) == pc[h] \in {"acquire", "checkout"}
BaseLive(h) == pc[h] \in {"running", "commit", "done"}
View ==
  <<sessions, [r \in Store!Reachable \cap Entries |-> heap[r]], grant,
    forcedEvictions, perIP, inFlight, slot, clock, pc,
    [h \in {k \in Handlers : ReqLive(k)} |-> req[h]],
    [h \in {k \in Handlers : BaseLive(k)} |-> <<base[h], calls[h], callStart[h]>>]>>
=============================================================================
