--------------------------- MODULE MCSessionStore ---------------------------
(* The instance of SessionStore that TLC checks. *)
EXTENDS SessionStore, TLC

CONSTANTS
  MaxTime,           \* last instant of the instance
  MaxForced          \* bound on forcedEvictions

Instants == 0..MaxTime

Symmetry == Permutations(Ids) \cup Permutations(Callers)

(* Entries nothing refers to are garbage: states that differ only there    *)
(* are the same state.                                                     *)
View == <<sessions, [r \in Reachable \cap Entries |-> heap[r]], grant, forcedEvictions>>

ForcedBound == forcedEvictions <= MaxForced
=============================================================================
