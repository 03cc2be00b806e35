---------------------------- MODULE SessionStore ----------------------------
(***************************************************************************)
(* The in-memory session store of internal/session/store.go.               *)
(*                                                                         *)
(* The Go map from session ids to *entry is a partial function `sessions`  *)
(* into a heap of entries: an entry is an object with an identity of its   *)
(* own, because a release function closes over the entry itself and can    *)
(* outlive the entry's place in the map.  Each critical section under s.mu *)
(* is one action.  The instants passed to Checkout and Sweep are read by   *)
(* their callers before the lock is taken, so no order between them is     *)
(* assumed here: every action takes an arbitrary instant.                  *)
(***************************************************************************)
EXTENDS Integers, FiniteSets

CONSTANTS
  Ids,               \* session ids visitors may send
  Entries,           \* heap addresses of session entries
  Callers,           \* goroutines that call Checkout
  Time,              \* the instants a caller or the sweeper may pass
  Histories,         \* values of Session.Messages
  NoHistory,         \* the nil slice a new session starts from
  Nil,               \* the nil *entry
  MaxTurns, TTL, CheckoutDeadline, MaxSessions   \* Config, defaults applied

StoreParameters ==
  /\ IsFiniteSet(Ids) /\ Ids # {}
  /\ IsFiniteSet(Callers)
  /\ Nil \notin Entries \cup Callers
  /\ NoHistory \in Histories
  /\ Time \subseteq Nat /\ Time # {}
  /\ MaxTurns \in Nat \ {0}
  /\ MaxSessions \in Nat \ {0}
  /\ TTL \in Nat
  /\ CheckoutDeadline \in Nat
ASSUME StoreAssumption == StoreParameters

VARIABLES
  sessions,          \* Store.sessions
  heap,              \* the entries, in the map or not
  grant,             \* what each caller got back from its last Checkout
  forcedEvictions    \* Store.forcedEvictions

vars == <<sessions, heap, grant, forcedEvictions>>

Entry == [id: Ids, messages: Histories, turns: Nat, turnsLeft: Int,
          lastSeen: Time, checkedOut: BOOLEAN, checkedOutAt: Time]

Errors == {"none", "busy", "turnLimit", "storeFull"}

(* A caller's view of Checkout's results: the error, and the release       *)
(* function as the entry it closes over with its `released` flag.          *)
Grant == [entry: Entries \cup {Nil}, released: BOOLEAN, err: Errors]

(* noopRelease closes over no entry and has nothing left to do. *)
NoopGrant(err) == [entry |-> Nil, released |-> TRUE, err |-> err]

-----------------------------------------------------------------------------
(* State functions *)

Live == DOMAIN sessions
At(id) == heap[sessions[id]]
Mapped == {sessions[i] : i \in Live}

(* The allocator returns some address nothing refers to any more; which    *)
(* one no code can tell.                                                   *)
Reachable == Mapped \cup {grant[c].entry : c \in Callers}
Fresh == Entries \ Reachable
Allocated == CHOOSE r \in Fresh : TRUE

(* The callers between a successful Checkout and their first release. *)
Holders == {c \in Callers : ~grant[c].released}

BusyNever(e) == FALSE                        \* the exclusion check is lost
Busy(e) == e.checkedOut

SpentLate(e) == e.turns > MaxTurns           \* off by one
Spent(e) == e.turns >= MaxTurns

AtCapacityLate == Cardinality(Live) > MaxSessions    \* off by one
AtCapacity == Cardinality(Live) >= MaxSessions

(* lruIdleLocked scans the map in Go's random order and skips checked-out  *)
(* entries, so any least-recently-seen idle id may be its answer.          *)
IdleAny == Live                              \* the checkedOut skip is lost
Idle == {i \in Live : ~At(i).checkedOut}
LruIdle == {i \in Idle : \A j \in Idle : At(i).lastSeen <= At(j).lastSeen}

(* The ids Checkout may delete to make room for a new one. *)
Victims == IF AtCapacity THEN {{v} : v \in LruIdle} ELSE {{}}

NewEntry(id, now) ==
  [id |-> id, messages |-> NoHistory, turns |-> 0, turnsLeft |-> 0,
   lastSeen |-> now, checkedOut |-> FALSE, checkedOutAt |-> now]

(* What an address not yet allocated holds; nothing refers to it.          *)
Unallocated == NewEntry(CHOOSE i \in Ids : TRUE, CHOOSE t \in Time : TRUE)

(* The reservation: the turn is spent in the same critical section. *)
ReserveStaleLeft(e, now) ==                  \* allowance read before Turns++
  [e EXCEPT !.checkedOut = TRUE, !.checkedOutAt = now, !.lastSeen = now,
            !.turns = @ + 1, !.turnsLeft = MaxTurns - e.turns]
ReserveUndated(e, now) ==                    \* checkedOutAt = now is lost
  [e EXCEPT !.checkedOut = TRUE, !.lastSeen = now,
            !.turns = @ + 1, !.turnsLeft = MaxTurns - (e.turns + 1)]
Reserve(e, now) ==
  [e EXCEPT !.checkedOut = TRUE, !.checkedOutAt = now, !.lastSeen = now,
            !.turns = @ + 1, !.turnsLeft = MaxTurns - (e.turns + 1)]

ReturnedRefund(e) ==                         \* a refund path
  [e EXCEPT !.checkedOut = FALSE, !.turns = @ - 1, !.turnsLeft = @ + 1]
ReturnedLeak(e) == e                         \* the flag is never cleared
Returned(e) == [e EXCEPT !.checkedOut = FALSE]

OverdueNever(e, now) == FALSE                \* no deadline backstop
Overdue(e, now) == e.checkedOut /\ now - e.checkedOutAt > CheckoutDeadline
Expired(e, now) == ~e.checkedOut /\ now - e.lastSeen > TTL

-----------------------------------------------------------------------------
(* Checkout: one critical section with five outcomes *)

Take(c, r, e, now) ==
  /\ heap' = [heap EXCEPT ![r] = Reserve(e, now)]
  /\ grant' = [grant EXCEPT ![c] = [entry |-> r, released |-> FALSE, err |-> "none"]]
  /\ UNCHANGED forcedEvictions

Refuse(c, err) ==
  /\ grant' = [grant EXCEPT ![c] = NoopGrant(err)]
  /\ UNCHANGED <<sessions, heap, forcedEvictions>>

CheckoutKnown(c, id, now) ==
  /\ id \in Live
  /\ ~Busy(At(id))
  /\ ~Spent(At(id))
  /\ Take(c, sessions[id], At(id), now)
  /\ UNCHANGED sessions

CheckoutNew(c, id, now) ==
  /\ id \notin Live
  /\ Fresh # {}
  /\ \E gone \in Victims :
       sessions' = [i \in (Live \ gone) \cup {id} |->
                      IF i = id THEN Allocated ELSE sessions[i]]
  /\ Take(c, Allocated, NewEntry(id, now), now)

CheckoutBusy(c, id) ==
  /\ id \in Live
  /\ Busy(At(id))
  /\ Refuse(c, "busy")

CheckoutSpent(c, id) ==
  /\ id \in Live
  /\ ~Busy(At(id))
  /\ Spent(At(id))
  /\ Refuse(c, "turnLimit")

CheckoutFull(c, id) ==
  /\ id \notin Live
  /\ AtCapacity
  /\ Idle = {}
  /\ Refuse(c, "storeFull")

(* A caller asks once it has let go of its previous release function. *)
Checkout(c, id, now) ==
  /\ grant[c].entry = Nil
  /\ \/ CheckoutKnown(c, id, now)
     \/ CheckoutNew(c, id, now)
     \/ CheckoutBusy(c, id)
     \/ CheckoutSpent(c, id)
     \/ CheckoutFull(c, id)

(* The release function: the entry is the one captured at Checkout, never  *)
(* looked up again by id, and a second call finds `released` set.          *)
ReleaseEveryCall(c) ==                       \* without the released flag
  /\ grant[c].entry # Nil
  /\ heap' = [heap EXCEPT ![grant[c].entry] = Returned(@)]
  /\ grant' = [grant EXCEPT ![c].released = TRUE]
  /\ UNCHANGED <<sessions, forcedEvictions>>
ReleaseReinserts(c) ==                       \* writes s.sessions[id] back
  /\ grant[c].entry # Nil
  /\ heap' = [heap EXCEPT ![grant[c].entry] = Returned(@)]
  /\ LET id == heap[grant[c].entry].id
     IN sessions' = [i \in Live \cup {id} |->
                       IF i \in Live THEN sessions[i] ELSE grant[c].entry]
  /\ grant' = [grant EXCEPT ![c].released = TRUE]
  /\ UNCHANGED forcedEvictions
Release(c) ==
  /\ grant[c].entry # Nil
  /\ heap' = IF grant[c].released THEN heap
             ELSE [heap EXCEPT ![grant[c].entry] = Returned(@)]
  /\ grant' = [grant EXCEPT ![c].released = TRUE]
  /\ UNCHANGED <<sessions, forcedEvictions>>

(* What a holder may do with the *Session between Checkout and release.    *)
WriteMessages(c, h) ==
  /\ c \in Holders
  /\ heap' = [heap EXCEPT ![grant[c].entry].messages = h]
  /\ UNCHANGED <<sessions, grant, forcedEvictions>>

(* The caller returns: its release function, already called, is dropped.   *)
Drop(c) ==
  /\ grant[c].released
  /\ grant' = [grant EXCEPT ![c] = NoopGrant("none")]
  /\ UNCHANGED <<sessions, heap, forcedEvictions>>

SweepNils(now) ==                            \* s.sessions[id] = nil, no delete
  LET forced == {i \in Live : Overdue(At(i), now)}
      stale  == {i \in Live : Expired(At(i), now)}
  IN /\ sessions' = [i \in Live |-> IF i \in forced \cup stale THEN Nil ELSE sessions[i]]
     /\ forcedEvictions' = forcedEvictions + Cardinality(forced)
     /\ UNCHANGED <<heap, grant>>
Sweep(now) ==
  LET forced == {i \in Live : Overdue(At(i), now)}
      stale  == {i \in Live : Expired(At(i), now)}
  IN /\ sessions' = [i \in Live \ (forced \cup stale) |-> sessions[i]]
     /\ forcedEvictions' = forcedEvictions + Cardinality(forced)
     /\ UNCHANGED <<heap, grant>>

-----------------------------------------------------------------------------
Init ==
  /\ sessions = [i \in {} |-> Nil]
  /\ heap = [r \in Entries |-> Unallocated]
  /\ grant = [c \in Callers |-> NoopGrant("none")]
  /\ forcedEvictions = 0

Next ==
  \/ \E c \in Callers, id \in Ids, now \in Time : Checkout(c, id, now)
  \/ \E c \in Callers : Release(c)
  \/ \E c \in Callers, h \in Histories : WriteMessages(c, h)
  \/ \E c \in Callers : Drop(c)
  \/ \E now \in Time : Sweep(now)

Spec == Init /\ [][Next]_vars

-----------------------------------------------------------------------------
(* Properties *)

TypeOK ==
  /\ Live \subseteq Ids
  /\ sessions \in [Live -> Entries]
  /\ heap \in [Entries -> Entry]
  /\ grant \in [Callers -> Grant]
  /\ forcedEvictions \in Nat

(* store.go:45-57 and 107-123: a checkout is exclusive.  Two callers never *)
(* hold the same *Session, whatever was evicted, released twice or created *)
(* anew under the same id in between.                                      *)
ExclusiveCheckout ==
  \A c, d \in Holders : grant[c].entry = grant[d].entry => c = d

(* The checkedOut flag tells the truth about the map: a session is refused *)
(* as busy exactly while somebody still owes it a release, so a stale or   *)
(* second release can neither free another holder's session nor leave one  *)
(* locked with nobody to unlock it.                                        *)
FlagMatchesHolder ==
  \A id \in Live :
    At(id).checkedOut <=> \E c \in Holders : grant[c].entry = sessions[id]

(* store.go:130-136: evicting before inserting keeps the map bounded.      *)
CapacityBound == Cardinality(Live) <= MaxSessions

(* Strengthenings that make the properties above inductive.               *)

(* An entry sits in the map under its own id, so never under two ids.      *)
IdsMatch == \A id \in Live : At(id).id = id

(* A caller's entry stays flagged until that caller releases it, even when *)
(* the sweeper has dropped it from the map meanwhile.                      *)
HolderMarked ==
  \A c \in Holders : grant[c].entry # Nil /\ heap[grant[c].entry].checkedOut

(* store.go:51-55: a session in the map has spent between one turn and the *)
(* cap, and the allowance its holder reports is exactly what is left.      *)
TurnsAccounted ==
  \A id \in Live :
    /\ At(id).turns \in 1..MaxTurns
    /\ At(id).turnsLeft = MaxTurns - At(id).turns

IInv ==
  /\ TypeOK
  /\ IdsMatch
  /\ HolderMarked
  /\ ExclusiveCheckout
  /\ FlagMatchesHolder
  /\ CapacityBound
  /\ TurnsAccounted

(* store.go:109-112: a spent turn is never refunded, by a release, by a    *)
(* sweep or by a later checkout, for as long as anything refers to the     *)
(* entry that counts it.                                                   *)
KeepsTurns ==
  \A r \in Reachable \cap Entries : r \in Reachable' => heap'[r].turns >= heap[r].turns
TurnsNeverRefunded == [][KeepsTurns]_vars

(* store.go:175-178 and 192-196: the only thing that takes a session away  *)
(* from its holder is the deadline backstop, and each time it does the     *)
(* forced-eviction counter says so.                                        *)
CountsBrokenLeases ==
  LET broken == {i \in Live : At(i).checkedOut /\ sessions[i] \notin Mapped'}
  IN forcedEvictions' = forcedEvictions + Cardinality(broken)
OnlySweepBreaksLease == [][CountsBrokenLeases]_vars

(* store.go:155-157: an entry that has left the map while a caller still   *)
(* refers to it never comes back, so a stale release resurrects nothing.   *)
StaysEvicted ==
  \A c \in Callers :
    /\ grant[c].entry # Nil
    /\ grant[c].entry \notin Mapped
    /\ grant'[c].entry = grant[c].entry
    => grant[c].entry \notin Mapped'
NoResurrection == [][StaysEvicted]_vars

(* store.go:19-26: the store refuses a new visitor as full only when at    *)
(* least MaxSessions callers are inside a checkout at that moment.         *)
RefusesFullRightly ==
  \A c \in Callers :
    grant'[c].err = "storeFull" /\ grant[c].err # "storeFull"
      => Cardinality(Holders) >= MaxSessions
FullOnlyWhenAllHeld == [][RefusesFullRightly]_vars

(* The store as its callers may think of it: a table of conversations,     *)
(* each with the holder that may touch it.  Evicted entries, the flags on  *)
(* them and the release functions that still point at them do not show.    *)
HolderOf(id) ==
  IF At(id).checkedOut
  THEN CHOOSE c \in Holders : grant[c].entry = sessions[id] ELSE Nil
Conversations ==
  [i \in Live |-> [turns |-> At(i).turns, history |-> At(i).messages,
                   holder |-> HolderOf(i)]]
Ledger == INSTANCE SessionLedger WITH table <- Conversations, Nobody <- Nil
ImplementsLedger == Ledger!Spec
=============================================================================
