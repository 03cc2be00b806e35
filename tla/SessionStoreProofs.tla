------------------------- MODULE SessionStoreProofs -------------------------
(***************************************************************************)
(* Proofs about SessionStore for any number of ids, callers, entries and   *)
(* any instants.  Everything follows from one inductive invariant, IInv.   *)
(***************************************************************************)
EXTENDS SessionStore, FiniteSetTheorems, TLAPS

-----------------------------------------------------------------------------
(* Lemmas on the operators *)

(* The allocator returns an address that neither the map nor any caller    *)
(* refers to.                                                              *)
LEMMA AllocatedIsFresh ==
  ASSUME Fresh # {}
  PROVE  Allocated \in Entries /\ Allocated \notin Reachable
BY DEF Allocated, Fresh

(* A new entry is an entry, idle and unspent, under the id it was made for. *)
LEMMA NewEntryFacts ==
  ASSUME NEW id \in Ids, NEW now \in Time
  PROVE  LET e == NewEntry(id, now)
         IN /\ e \in Entry /\ e.id = id /\ e.turns = 0 /\ ~e.checkedOut
BY StoreAssumption DEF StoreParameters, NewEntry, Entry

(* Reserving keeps an entry an entry, flags it, spends exactly one turn and *)
(* leaves the rest of the allowance in turnsLeft.                           *)
LEMMA ReserveFacts ==
  ASSUME NEW e \in Entry, NEW now \in Time
  PROVE  LET f == Reserve(e, now)
         IN /\ f \in Entry /\ f.id = e.id /\ f.checkedOut
            /\ f.turns = e.turns + 1 /\ f.turnsLeft = MaxTurns - f.turns
<1> DEFINE f == Reserve(e, now)
<1>1. MaxTurns - (e.turns + 1) \in Int /\ e.turns + 1 \in Nat
  BY StoreAssumption DEF StoreParameters, Entry
<1>2. f \in Entry
  BY <1>1 DEF Reserve, Entry
<1>3. f.id = e.id /\ f.checkedOut
  BY DEF Reserve, Entry
<1>4. f.turns = e.turns + 1 /\ f.turnsLeft = MaxTurns - (e.turns + 1)
  BY <1>1 DEF Reserve, Entry
<1> QED BY <1>2, <1>3, <1>4

(* Returning an entry clears its flag and changes nothing else. *)
LEMMA ReturnedFacts ==
  ASSUME NEW e \in Entry
  PROVE  LET f == Returned(e)
         IN /\ f \in Entry /\ f.id = e.id /\ ~f.checkedOut
            /\ f.turns = e.turns /\ f.turnsLeft = e.turnsLeft
BY DEF Returned, Entry

-----------------------------------------------------------------------------
(* Type correctness *)

LEMMA TypeInit == Init => TypeOK
<1> SUFFICES ASSUME Init PROVE TypeOK
  OBVIOUS
<1>1. Unallocated \in Entry
  <2>1. (CHOOSE i \in Ids : TRUE) \in Ids
    BY StoreAssumption DEF StoreParameters
  <2>2. (CHOOSE t \in Time : TRUE) \in Time
    BY StoreAssumption DEF StoreParameters
  <2> QED BY <2>1, <2>2, NewEntryFacts DEF Unallocated
<1>2. NoopGrant("none") \in Grant
  BY DEF NoopGrant, Grant, Errors
<1> QED BY <1>1, <1>2 DEF Init, TypeOK, Live

(* What a successful checkout of address r does to the types. *)
LEMMA TakeType ==
  ASSUME TypeOK, NEW c \in Callers, NEW r \in Entries, NEW e \in Entry,
         NEW now \in Time, Take(c, r, e, now)
  PROVE  /\ heap' \in [Entries -> Entry]
         /\ grant' \in [Callers -> Grant]
         /\ forcedEvictions' \in Nat
<1>1. Reserve(e, now) \in Entry
  BY ReserveFacts
<1>2. [entry |-> r, released |-> FALSE, err |-> "none"] \in Grant
  BY DEF Grant, Errors
<1> QED BY <1>1, <1>2 DEF Take, TypeOK

LEMMA RefuseType ==
  ASSUME TypeOK, NEW c \in Callers, NEW err \in Errors, Refuse(c, err)
  PROVE  TypeOK'
<1>1. NoopGrant(err) \in Grant
  BY DEF NoopGrant, Grant
<1> QED BY <1>1 DEF Refuse, TypeOK, Live

LEMMA TypeStep == TypeOK /\ [Next]_vars => TypeOK'
<1> SUFFICES ASSUME TypeOK, [Next]_vars PROVE TypeOK'
  OBVIOUS
<1>1. ASSUME NEW c \in Callers, NEW id \in Ids, NEW now \in Time,
             CheckoutKnown(c, id, now)
      PROVE  TypeOK'
  <2>1. sessions[id] \in Entries /\ At(id) \in Entry
    BY <1>1 DEF TypeOK, CheckoutKnown, At
  <2> QED BY <1>1, <2>1, TakeType DEF CheckoutKnown, TypeOK, Live
<1>2. ASSUME NEW c \in Callers, NEW id \in Ids, NEW now \in Time,
             CheckoutNew(c, id, now)
      PROVE  TypeOK'
  <2>1. Allocated \in Entries
    BY <1>2, AllocatedIsFresh DEF CheckoutNew
  <2>2. NewEntry(id, now) \in Entry
    BY NewEntryFacts
  <2>3. Live' \subseteq Ids /\ sessions' \in [Live' -> Entries]
    BY <1>2, <2>1 DEF CheckoutNew, TypeOK, Live
  <2> QED BY <1>2, <2>1, <2>2, <2>3, TakeType DEF CheckoutNew, TypeOK
<1>3. ASSUME NEW c \in Callers, NEW id \in Ids,
             CheckoutBusy(c, id) \/ CheckoutSpent(c, id) \/ CheckoutFull(c, id)
      PROVE  TypeOK'
  BY <1>3, RefuseType DEF CheckoutBusy, CheckoutSpent, CheckoutFull, Errors
<1>4. ASSUME NEW c \in Callers, Release(c)
      PROVE  TypeOK'
  <2>1. grant[c].entry \in Entries
    BY <1>4 DEF Release, TypeOK, Grant
  <2>2. Returned(heap[grant[c].entry]) \in Entry
    BY <2>1, ReturnedFacts DEF TypeOK
  <2>3. heap' \in [Entries -> Entry]
    BY <1>4, <2>2 DEF Release, TypeOK
  <2>4. grant' \in [Callers -> Grant]
    BY <1>4 DEF Release, TypeOK, Grant
  <2> QED BY <1>4, <2>3, <2>4 DEF Release, TypeOK, Live
<1>5. ASSUME NEW c \in Callers, NEW h \in Histories, WriteMessages(c, h)
      PROVE  TypeOK'
  BY <1>5 DEF WriteMessages, TypeOK, Entry, Live
<1>6. ASSUME NEW c \in Callers, Drop(c)
      PROVE  TypeOK'
  BY <1>6 DEF Drop, NoopGrant, TypeOK, Grant, Errors, Live
<1>7. ASSUME NEW now \in Time, Sweep(now)
      PROVE  TypeOK'
  <2>1. IsFiniteSet({i \in Live : Overdue(At(i), now)})
    BY FS_Subset, StoreAssumption DEF StoreParameters, TypeOK
  <2>2. forcedEvictions' \in Nat
    BY <1>7, <2>1, FS_CardinalityType DEF Sweep, TypeOK
  <2> QED BY <1>7, <2>2 DEF Sweep, TypeOK, Live
<1>8. CASE UNCHANGED vars
  BY <1>8 DEF vars, TypeOK, Live
<1> QED BY <1>1, <1>2, <1>3, <1>4, <1>5, <1>6, <1>7, <1>8 DEF Next, Checkout

(* store.go: the maps, pointers and counters keep their types on every     *)
(* path, error paths included.                                             *)
THEOREM TypeCorrect == Spec => []TypeOK
<1> QED BY TypeInit, TypeStep, PTL DEF Spec

-----------------------------------------------------------------------------
(* The inductive invariant *)

(* A caller that has let go of its release function holds nothing. *)
LEMMA NilHoldsNothing ==
  ASSUME HolderMarked, NEW c \in Callers, grant[c].entry = Nil
  PROVE  c \notin Holders
BY DEF HolderMarked, Holders

(* Taking an address no holder refers to adds exactly one holder, and the  *)
(* holders stay distinct and flagged.                                      *)
LEMMA TakeHolders ==
  ASSUME TypeOK, HolderMarked, ExclusiveCheckout,
         NEW c \in Callers, NEW r \in Entries, NEW e \in Entry, NEW now \in Time,
         grant[c].entry = Nil,
         \A d \in Holders : grant[d].entry # r,
         Take(c, r, e, now)
  PROVE  /\ Holders' = Holders \cup {c}
         /\ grant'[c].entry = r
         /\ \A d \in Holders : grant'[d] = grant[d]
         /\ heap'[r] = Reserve(e, now)
         /\ \A q \in Entries \ {r} : heap'[q] = heap[q]
         /\ HolderMarked'
         /\ ExclusiveCheckout'
<1>1. c \notin Holders
  BY NilHoldsNothing
<1>2. grant' = [grant EXCEPT ![c] = [entry |-> r, released |-> FALSE, err |-> "none"]]
  BY DEF Take
<1>3. grant'[c].entry = r /\ ~grant'[c].released
  BY <1>2 DEF TypeOK
<1>4. \A d \in Callers \ {c} : grant'[d] = grant[d]
  BY <1>2 DEF TypeOK
<1>5. Holders' = Holders \cup {c}
  BY <1>3, <1>4 DEF Holders
<1>6. \A d \in Holders : grant'[d] = grant[d]
  BY <1>1, <1>4 DEF Holders
<1>7. heap'[r] = Reserve(e, now) /\ \A q \in Entries \ {r} : heap'[q] = heap[q]
  BY DEF Take, TypeOK
<1>8. HolderMarked'
  <2>1. heap'[r].checkedOut /\ r # Nil
    BY <1>7, ReserveFacts, StoreAssumption DEF StoreParameters
  <2>2. \A d \in Holders : grant[d].entry \in Entries \ {r}
    BY DEF HolderMarked, TypeOK, Grant, Holders
  <2>3. \A d \in Holders : grant'[d].entry # Nil /\ heap'[grant'[d].entry].checkedOut
    BY <1>6, <1>7, <2>2 DEF HolderMarked
  <2> QED BY <1>3, <1>5, <2>1, <2>3 DEF HolderMarked
<1>9. ExclusiveCheckout'
  BY <1>3, <1>5, <1>6 DEF ExclusiveCheckout
<1> QED BY <1>3, <1>5, <1>6, <1>7, <1>8, <1>9

(* The same step keeps the flags, the ids and the turn accounts of the map *)
(* right, when every id still in the map keeps its own entry and only the  *)
(* taken entry's id maps to the taken address.                             *)
LEMMA TakeMapped ==
  ASSUME TypeOK, HolderMarked, ExclusiveCheckout, IdsMatch, FlagMatchesHolder,
         TurnsAccounted,
         NEW c \in Callers, NEW r \in Entries, NEW e \in Entry, NEW now \in Time,
         grant[c].entry = Nil,
         \A d \in Holders : grant[d].entry # r,
         e.turns < MaxTurns,
         \A i \in Live' : \/ sessions'[i] = r /\ e.id = i
                          \/ /\ i \in Live /\ sessions'[i] = sessions[i]
                             /\ sessions[i] # r,
         Take(c, r, e, now)
  PROVE  IdsMatch' /\ FlagMatchesHolder' /\ TurnsAccounted'
<1>1. /\ Holders' = Holders \cup {c}
      /\ grant'[c].entry = r
      /\ \A d \in Holders : grant'[d] = grant[d]
      /\ heap'[r] = Reserve(e, now)
      /\ \A q \in Entries \ {r} : heap'[q] = heap[q]
  BY TakeHolders
<1>2. ASSUME NEW i \in Live'
      PROVE  /\ At(i)'.id = i
             /\ At(i)'.checkedOut <=> \E d \in Holders' : grant'[d].entry = sessions'[i]
             /\ At(i)'.turns \in 1..MaxTurns
             /\ At(i)'.turnsLeft = MaxTurns - At(i)'.turns
  <2>1. CASE sessions'[i] = r /\ e.id = i
    <3>1. At(i)' = Reserve(e, now)
      BY <1>1, <2>1 DEF At
    <3>2. At(i)'.turns \in 1..MaxTurns
      BY <3>1, ReserveFacts, StoreAssumption DEF StoreParameters, Entry
    <3> QED BY <1>1, <2>1, <3>1, <3>2, ReserveFacts
  <2>2. CASE i \in Live /\ sessions'[i] = sessions[i] /\ sessions[i] # r
    <3>1. sessions[i] \in Entries \ {r}
      BY <2>2 DEF TypeOK
    <3>2. At(i)' = At(i)
      BY <1>1, <2>2, <3>1 DEF At
    <3>3. (\E d \in Holders' : grant'[d].entry = sessions'[i])
            <=> \E d \in Holders : grant[d].entry = sessions[i]
      BY <1>1, <2>2
    <3> QED BY <2>2, <3>2, <3>3 DEF IdsMatch, FlagMatchesHolder, TurnsAccounted
  <2> QED BY <1>2, <2>1, <2>2
<1> QED BY <1>2 DEF IdsMatch, FlagMatchesHolder, TurnsAccounted

(* Evicting one id when the map is full and then adding one keeps it       *)
(* within bounds.                                                          *)
LEMMA EvictThenInsert ==
  ASSUME TypeOK, CapacityBound, NEW id \in Ids, id \notin Live, NEW gone \in Victims
  PROVE  Cardinality((Live \ gone) \cup {id}) <= MaxSessions
<1>1. IsFiniteSet(Live) /\ Cardinality(Live) \in Nat
  BY FS_Subset, FS_CardinalityType, StoreAssumption DEF StoreParameters, TypeOK
<1>2. CASE AtCapacity
  <2>1. PICK v \in Live : gone = {v}
    BY <1>2 DEF Victims, LruIdle, Idle
  <2>2. IsFiniteSet(Live \ {v}) /\ Cardinality(Live \ {v}) = Cardinality(Live) - 1
    BY <1>1, <2>1, FS_RemoveElement
  <2>3. id \notin Live \ {v}
    OBVIOUS
  <2>4. Cardinality((Live \ {v}) \cup {id}) = Cardinality(Live \ {v}) + 1
    BY <2>2, <2>3, FS_AddElement
  <2> QED BY <1>1, <2>1, <2>2, <2>4 DEF CapacityBound
<1>3. CASE ~AtCapacity
  <2>1. gone = {}
    BY <1>3 DEF Victims
  <2>2. Cardinality(Live \cup {id}) = Cardinality(Live) + 1
    BY <1>1, FS_AddElement
  <2>3. (Live \ gone) \cup {id} = Live \cup {id}
    BY <2>1
  <2> QED BY <1>1, <1>3, <2>2, <2>3, StoreAssumption DEF StoreParameters, AtCapacity
<1> QED BY <1>2, <1>3

LEMMA InvInit == Init => IInv
<1> SUFFICES ASSUME Init PROVE IInv
  OBVIOUS
<1>1. Live = {} /\ Holders = {}
  BY DEF Init, Live, Holders, NoopGrant
<1>2. Cardinality(Live) = 0
  BY <1>1, FS_EmptySet
<1> QED
  BY <1>1, <1>2, TypeInit, StoreAssumption
  DEF StoreParameters, IInv, IdsMatch, HolderMarked, ExclusiveCheckout, FlagMatchesHolder,
      CapacityBound, TurnsAccounted

(* A known, idle session with turns left is reserved. *)
LEMMA KnownStep ==
  ASSUME IInv, TypeOK', NEW c \in Callers, NEW id \in Ids, NEW now \in Time,
         grant[c].entry = Nil, CheckoutKnown(c, id, now)
  PROVE  IInv'
<1> DEFINE r == sessions[id]
<1>1. r \in Entries /\ At(id) \in Entry /\ id \in Live
  BY DEF CheckoutKnown, IInv, TypeOK, At
<1>2. \A d \in Holders : grant[d].entry # r
  BY <1>1 DEF CheckoutKnown, Busy, At, IInv, HolderMarked
<1>3. At(id).turns < MaxTurns
  BY <1>1, StoreAssumption DEF StoreParameters, CheckoutKnown, Spent, Entry
<1>4. sessions' = sessions /\ Live' = Live
  BY DEF CheckoutKnown, Live
<1>5. \A i \in Live' : \/ sessions'[i] = r /\ At(id).id = i
                       \/ i \in Live /\ sessions'[i] = sessions[i] /\ sessions[i] # r
  BY <1>4 DEF IInv, IdsMatch, At
<1>6. Take(c, r, At(id), now)
  BY DEF CheckoutKnown
<1>7. HolderMarked' /\ ExclusiveCheckout'
  <2> HIDE DEF r
  <2> QED BY <1>1, <1>2, <1>6, TakeHolders DEF IInv
<1>8. IdsMatch' /\ FlagMatchesHolder' /\ TurnsAccounted'
  <2> HIDE DEF r
  <2> QED BY <1>1, <1>2, <1>3, <1>5, <1>6, TakeMapped DEF IInv
<1>9. CapacityBound'
  BY <1>4 DEF IInv, CapacityBound
<1> QED BY <1>7, <1>8, <1>9 DEF IInv

(* A new session takes an address nobody refers to, after an idle one has  *)
(* made room for it.                                                       *)
LEMMA NewStep ==
  ASSUME IInv, TypeOK', NEW c \in Callers, NEW id \in Ids, NEW now \in Time,
         grant[c].entry = Nil, CheckoutNew(c, id, now)
  PROVE  IInv'
<1> DEFINE r == Allocated
           e == NewEntry(id, now)
<1>1. r \in Entries /\ r \notin Reachable
  BY AllocatedIsFresh DEF CheckoutNew
<1>2. e \in Entry /\ e.id = id /\ e.turns = 0
  BY NewEntryFacts
<1>3. PICK gone \in Victims :
        sessions' = [i \in (Live \ gone) \cup {id} |-> IF i = id THEN r ELSE sessions[i]]
  BY DEF CheckoutNew
<1>4. \A d \in Holders : grant[d].entry # r
  BY <1>1 DEF Reachable, Holders
<1>5. Live' = (Live \ gone) \cup {id}
  BY <1>3 DEF Live
<1>6. \A i \in Live' : \/ sessions'[i] = r /\ e.id = i
                       \/ i \in Live /\ sessions'[i] = sessions[i] /\ sessions[i] # r
  <2>1. \A i \in Live : sessions[i] # r
    BY <1>1 DEF Reachable, Mapped
  <2> QED BY <1>2, <1>3, <1>5, <2>1
<1>7. e.turns < MaxTurns
  BY <1>2, StoreAssumption DEF StoreParameters
<1>8. Take(c, r, e, now)
  BY DEF CheckoutNew
<1>9. HolderMarked' /\ ExclusiveCheckout'
  <2> HIDE DEF r, e
  <2> QED BY <1>1, <1>2, <1>4, <1>8, TakeHolders DEF IInv
<1>10. IdsMatch' /\ FlagMatchesHolder' /\ TurnsAccounted'
  <2> HIDE DEF r, e
  <2> QED BY <1>1, <1>2, <1>4, <1>6, <1>7, <1>8, TakeMapped DEF IInv
<1>11. CapacityBound'
  BY <1>5, EvictThenInsert DEF CheckoutNew, IInv, CapacityBound
<1> QED BY <1>9, <1>10, <1>11 DEF IInv

(* A step that keeps the map, the heap and who holds what keeps IInv. *)
LEMMA SameHolders ==
  ASSUME IInv, TypeOK', UNCHANGED <<sessions, heap>>,
         Holders' = Holders, \A d \in Holders : grant'[d] = grant[d]
  PROVE  IInv'
<1>1. Live' = Live /\ \A i \in Live : At(i)' = At(i)
  BY DEF Live, At
<1> QED
  BY <1>1 DEF IInv, IdsMatch, HolderMarked, ExclusiveCheckout, FlagMatchesHolder,
              CapacityBound, TurnsAccounted

(* A refusal gives the caller nothing and changes nobody else. *)
LEMMA RefuseStep ==
  ASSUME IInv, TypeOK', NEW c \in Callers, NEW err \in Errors,
         grant[c].entry = Nil, Refuse(c, err)
  PROVE  IInv'
<1>1. c \notin Holders
  BY NilHoldsNothing DEF IInv
<1>2. grant'[c].released /\ \A d \in Callers \ {c} : grant'[d] = grant[d]
  BY DEF Refuse, NoopGrant, IInv, TypeOK
<1>3. Holders' = Holders /\ \A d \in Holders : grant'[d] = grant[d]
  BY <1>1, <1>2 DEF Holders
<1> QED BY <1>3, SameHolders DEF Refuse

(* The first call of a release clears its own entry's flag; a later call   *)
(* does nothing.  Either way no other holder's entry changes.              *)
LEMMA ReleaseStep ==
  ASSUME IInv, TypeOK', NEW c \in Callers, Release(c)
  PROVE  IInv'
<1> DEFINE r == grant[c].entry
<1>1. /\ grant'[c].released /\ grant'[c].entry = r
      /\ \A d \in Callers \ {c} : grant'[d] = grant[d]
  BY DEF Release, IInv, TypeOK, Grant
<1>2. CASE grant[c].released
  <2>1. Holders' = Holders /\ \A d \in Holders : grant'[d] = grant[d]
    BY <1>1, <1>2 DEF Holders
  <2> QED BY <1>2, <2>1, SameHolders DEF Release
<1>3. CASE ~grant[c].released
  <2>1. c \in Holders /\ r \in Entries /\ heap[r] \in Entry
    BY <1>3 DEF Holders, Release, IInv, TypeOK, Grant
  <2>2. heap'[r] = Returned(heap[r]) /\ \A q \in Entries \ {r} : heap'[q] = heap[q]
    BY <1>3, <2>1 DEF Release, IInv, TypeOK
  <2>3. Holders' = Holders \ {c} /\ \A d \in Holders \ {c} : grant'[d] = grant[d]
    BY <1>1 DEF Holders
  <2>4. \A d \in Holders \ {c} : grant[d].entry \in Entries \ {r}
    BY <2>1 DEF IInv, ExclusiveCheckout, HolderMarked, TypeOK, Grant, Holders
  <2>5. sessions' = sessions /\ Live' = Live
    BY DEF Release, Live
  <2>6. HolderMarked' /\ ExclusiveCheckout'
    BY <2>2, <2>3, <2>4 DEF IInv, HolderMarked, ExclusiveCheckout
  <2>7. ASSUME NEW i \in Live
        PROVE  /\ At(i)'.id = At(i).id
               /\ At(i)'.turns = At(i).turns
               /\ At(i)'.turnsLeft = At(i).turnsLeft
               /\ At(i)'.checkedOut <=> \E d \in Holders' : grant'[d].entry = sessions'[i]
    <3>1. sessions[i] \in Entries
      BY DEF IInv, TypeOK
    <3>2. CASE sessions[i] = r
      <4>1. At(i)' = Returned(At(i)) /\ At(i) \in Entry
        BY <2>1, <2>2, <2>5, <3>2 DEF At
      <4>2. ~\E d \in Holders' : grant'[d].entry = sessions'[i]
        BY <2>3, <2>4, <2>5, <3>2
      <4> QED BY <4>1, <4>2, ReturnedFacts
    <3>3. CASE sessions[i] # r
      <4>1. At(i)' = At(i)
        BY <2>2, <2>5, <3>1, <3>3 DEF At
      <4>2. (\E d \in Holders' : grant'[d].entry = sessions'[i])
              <=> \E d \in Holders : grant[d].entry = sessions[i]
        BY <2>3, <2>5, <3>3
      <4> QED BY <4>1, <4>2 DEF IInv, FlagMatchesHolder
    <3> QED BY <3>2, <3>3
  <2>8. IdsMatch' /\ FlagMatchesHolder' /\ TurnsAccounted'
    BY <2>5, <2>7 DEF IInv, IdsMatch, FlagMatchesHolder, TurnsAccounted
  <2> QED BY <2>5, <2>6, <2>8 DEF IInv, CapacityBound
<1> QED BY <1>2, <1>3

(* Writing the history touches neither flags nor turns. *)
LEMMA WriteStep ==
  ASSUME IInv, TypeOK', NEW c \in Callers, NEW h \in Histories, WriteMessages(c, h)
  PROVE  IInv'
<1>1. \A r \in Entries : /\ heap'[r].checkedOut = heap[r].checkedOut
                         /\ heap'[r].id = heap[r].id
                         /\ heap'[r].turns = heap[r].turns
                         /\ heap'[r].turnsLeft = heap[r].turnsLeft
  BY DEF WriteMessages, IInv, TypeOK, Entry
<1>2. Holders' = Holders /\ grant' = grant /\ sessions' = sessions /\ Live' = Live
  BY DEF WriteMessages, Holders, Live
<1>3. /\ \A i \in Live : sessions[i] \in Entries
      /\ \A d \in Holders : grant[d].entry \in Entries
  BY DEF IInv, TypeOK, HolderMarked, Holders, Grant
<1> QED
  BY <1>1, <1>2, <1>3
  DEF IInv, IdsMatch, HolderMarked, ExclusiveCheckout, FlagMatchesHolder,
      CapacityBound, TurnsAccounted, At

LEMMA DropStep ==
  ASSUME IInv, TypeOK', NEW c \in Callers, Drop(c)
  PROVE  IInv'
<1>1. c \notin Holders
  BY DEF Drop, Holders
<1>2. grant'[c].released /\ \A d \in Callers \ {c} : grant'[d] = grant[d]
  BY DEF Drop, NoopGrant, IInv, TypeOK
<1>3. Holders' = Holders /\ \A d \in Holders : grant'[d] = grant[d]
  BY <1>1, <1>2 DEF Holders
<1> QED BY <1>3, SameHolders DEF Drop

(* A sweep only takes ids out of the map. *)
LEMMA SweepStep ==
  ASSUME IInv, TypeOK', NEW now \in Time, Sweep(now)
  PROVE  IInv'
<1>1. Live' \subseteq Live /\ \A i \in Live' : sessions'[i] = sessions[i]
  BY DEF Sweep, Live
<1>2. heap' = heap /\ grant' = grant /\ Holders' = Holders
  BY DEF Sweep, Holders
<1>3. \A i \in Live' : i \in Live /\ At(i)' = At(i)
  BY <1>1, <1>2 DEF At
<1>4. CapacityBound'
  <2>1. IsFiniteSet(Live) /\ Cardinality(Live) \in Nat
    BY FS_Subset, FS_CardinalityType, StoreAssumption DEF StoreParameters, IInv, TypeOK
  <2>2. Cardinality(Live') <= Cardinality(Live) /\ Cardinality(Live') \in Nat
    BY <1>1, <2>1, FS_Subset, FS_CardinalityType
  <2> QED BY <2>1, <2>2, StoreAssumption DEF StoreParameters, IInv, CapacityBound
<1> QED
  BY <1>1, <1>2, <1>3, <1>4
  DEF IInv, IdsMatch, HolderMarked, ExclusiveCheckout, FlagMatchesHolder, TurnsAccounted

LEMMA InvStep == IInv /\ [Next]_vars => IInv'
<1> SUFFICES ASSUME IInv, [Next]_vars PROVE IInv'
  OBVIOUS
<1>0. TypeOK'
  BY TypeStep DEF IInv
<1>1. ASSUME NEW c \in Callers, NEW id \in Ids, NEW now \in Time, Checkout(c, id, now)
      PROVE  IInv'
  <2>1. grant[c].entry = Nil
    BY <1>1 DEF Checkout
  <2>2. CASE CheckoutKnown(c, id, now)
    BY <1>0, <2>1, <2>2, KnownStep
  <2>3. CASE CheckoutNew(c, id, now)
    BY <1>0, <2>1, <2>3, NewStep
  <2>4. CASE CheckoutBusy(c, id) \/ CheckoutSpent(c, id) \/ CheckoutFull(c, id)
    BY <1>0, <2>1, <2>4, RefuseStep
    DEF CheckoutBusy, CheckoutSpent, CheckoutFull, Errors
  <2> QED BY <1>1, <2>2, <2>3, <2>4 DEF Checkout
<1>2. ASSUME NEW c \in Callers, Release(c) PROVE IInv'
  BY <1>0, <1>2, ReleaseStep
<1>3. ASSUME NEW c \in Callers, NEW h \in Histories, WriteMessages(c, h) PROVE IInv'
  BY <1>0, <1>3, WriteStep
<1>4. ASSUME NEW c \in Callers, Drop(c) PROVE IInv'
  BY <1>0, <1>4, DropStep
<1>5. ASSUME NEW now \in Time, Sweep(now) PROVE IInv'
  BY <1>0, <1>5, SweepStep
<1>6. CASE UNCHANGED vars
  BY <1>0, <1>6, SameHolders DEF vars, Holders
<1> QED BY <1>1, <1>2, <1>3, <1>4, <1>5, <1>6 DEF Next

THEOREM Invariance == Spec => []IInv
<1> QED BY InvInit, InvStep, PTL DEF Spec

-----------------------------------------------------------------------------
(* What the store promises *)

(* store.go:45-57 and 107-123: two callers never hold the same session,    *)
(* however evictions, second releases and re-creations interleave.         *)
THEOREM Exclusivity == Spec => []ExclusiveCheckout
<1> QED BY Invariance, PTL DEF IInv

(* A session is refused as busy exactly while somebody owes its release.   *)
THEOREM FlagsTellTheTruth == Spec => []FlagMatchesHolder
<1> QED BY Invariance, PTL DEF IInv

(* The map never holds more than MaxSessions sessions.                     *)
THEOREM Bounded == Spec => []CapacityBound
<1> QED BY Invariance, PTL DEF IInv

(* Every session has spent 1..MaxTurns turns and reports exactly the rest. *)
THEOREM Accounting == Spec => []TurnsAccounted
<1> QED BY Invariance, PTL DEF IInv

(* store.go:109-112: no step gives a turn back to an entry in use.         *)
THEOREM NoRefunds == Spec => TurnsNeverRefunded
<1>1. IInv /\ [Next]_vars => [KeepsTurns]_vars
  <2> SUFFICES ASSUME IInv, Next, NEW r \in Reachable \cap Entries
               PROVE  heap'[r].turns >= heap[r].turns
    BY DEF KeepsTurns
  <2>0. TypeOK /\ heap[r] \in Entry /\ heap[r].turns \in Nat
    BY DEF IInv, TypeOK, Entry
  <2>1. ASSUME NEW c \in Callers, NEW id \in Ids, NEW now \in Time,
               CheckoutKnown(c, id, now)
        PROVE  heap'[r].turns >= heap[r].turns
    <3>1. sessions[id] \in Entries /\ At(id) \in Entry
      BY <2>1 DEF CheckoutKnown, IInv, TypeOK, At
    <3>2. Reserve(At(id), now).turns = At(id).turns + 1 /\ At(id).turns \in Nat
      BY <3>1, ReserveFacts DEF Entry
    <3>3. heap' = [heap EXCEPT ![sessions[id]] = Reserve(At(id), now)]
      BY <2>1 DEF CheckoutKnown, Take
    <3> QED BY <2>0, <3>1, <3>2, <3>3 DEF TypeOK, At
  <2>2. ASSUME NEW c \in Callers, NEW id \in Ids, NEW now \in Time,
               CheckoutNew(c, id, now)
        PROVE  heap'[r].turns >= heap[r].turns
    <3>1. r # Allocated
      BY <2>2, AllocatedIsFresh DEF CheckoutNew
    <3> QED BY <2>0, <2>2, <3>1 DEF CheckoutNew, Take, TypeOK
  <2>3. ASSUME NEW c \in Callers, NEW id \in Ids,
               CheckoutBusy(c, id) \/ CheckoutSpent(c, id) \/ CheckoutFull(c, id)
        PROVE  heap'[r].turns >= heap[r].turns
    BY <2>0, <2>3 DEF CheckoutBusy, CheckoutSpent, CheckoutFull, Refuse
  <2>4. ASSUME NEW c \in Callers, Release(c)
        PROVE  heap'[r].turns >= heap[r].turns
    <3>1. Returned(heap[r]).turns = heap[r].turns
      BY <2>0, ReturnedFacts
    <3> QED BY <2>0, <2>4, <3>1 DEF Release, TypeOK
  <2>5. ASSUME NEW c \in Callers, NEW h \in Histories, WriteMessages(c, h)
        PROVE  heap'[r].turns >= heap[r].turns
    BY <2>0, <2>5 DEF WriteMessages, TypeOK, Entry
  <2>6. ASSUME NEW c \in Callers, Drop(c)
        PROVE  heap'[r].turns >= heap[r].turns
    BY <2>0, <2>6 DEF Drop
  <2>7. ASSUME NEW now \in Time, Sweep(now)
        PROVE  heap'[r].turns >= heap[r].turns
    BY <2>0, <2>7 DEF Sweep
  <2> QED BY <2>1, <2>2, <2>3, <2>4, <2>5, <2>6, <2>7 DEF Next, Checkout
<1> QED BY <1>1, Invariance, PTL DEF Spec, TurnsNeverRefunded

(* store.go:155-157: no step puts an evicted entry back while somebody can *)
(* still call its release function.                                        *)
THEOREM EvictionIsFinal == Spec => NoResurrection
<1>1. IInv /\ [Next]_vars => [StaysEvicted]_vars
  <2> SUFFICES ASSUME IInv, Next, NEW d \in Callers,
                      grant[d].entry # Nil, grant[d].entry \notin Mapped
               PROVE  grant[d].entry \notin Mapped'
    BY DEF StaysEvicted
  <2>1. ASSUME NEW c \in Callers, NEW id \in Ids, NEW now \in Time,
               CheckoutNew(c, id, now)
        PROVE  grant[d].entry \notin Mapped'
    <3>1. grant[d].entry # Allocated
      BY <2>1, AllocatedIsFresh DEF CheckoutNew, Reachable
    <3>2. \A i \in Live' : \/ sessions'[i] = Allocated
                           \/ i \in Live /\ sessions'[i] = sessions[i]
      BY <2>1 DEF CheckoutNew, Live
    <3> QED BY <3>1, <3>2 DEF Mapped
  <2>2. ASSUME NEW now \in Time, Sweep(now)
        PROVE  grant[d].entry \notin Mapped'
    <3>1. \A i \in Live' : i \in Live /\ sessions'[i] = sessions[i]
      BY <2>2 DEF Sweep, Live
    <3> QED BY <3>1 DEF Mapped
  <2>3. CASE UNCHANGED sessions
    BY <2>3 DEF Mapped, Live
  <2> QED
    BY <2>1, <2>2, <2>3
    DEF Next, Checkout, CheckoutKnown, CheckoutBusy, CheckoutSpent, CheckoutFull,
        Refuse, Release, WriteMessages, Drop
<1> QED BY <1>1, Invariance, PTL DEF Spec, NoResurrection

(* Checkout never evicts a checked-out session to make room, and a sweep   *)
(* counts every one it does evict.                                         *)
LEMMA BrokenLeasesCounted == IInv /\ [Next]_vars => [CountsBrokenLeases]_vars
<1> SUFFICES ASSUME IInv, Next PROVE CountsBrokenLeases
  OBVIOUS
<1> DEFINE broken == {i \in Live : At(i).checkedOut /\ sessions[i] \notin Mapped'}
<1>1. ASSUME broken = {}, UNCHANGED forcedEvictions
      PROVE  CountsBrokenLeases
  <2>1. Cardinality(broken) = 0
    BY <1>1, FS_EmptySet
  <2> QED BY <1>1, <2>1 DEF CountsBrokenLeases, IInv, TypeOK
<1>2. ASSUME UNCHANGED <<sessions, forcedEvictions>>
      PROVE  CountsBrokenLeases
  <2>1. broken = {}
    BY <1>2 DEF Mapped, Live
  <2> QED BY <1>1, <1>2, <2>1
<1>3. ASSUME NEW c \in Callers, NEW id \in Ids, NEW now \in Time,
             CheckoutNew(c, id, now)
      PROVE  CountsBrokenLeases
  <2>1. PICK gone \in Victims :
          sessions' = [i \in (Live \ gone) \cup {id} |->
                         IF i = id THEN Allocated ELSE sessions[i]]
    BY <1>3 DEF CheckoutNew
  <2>2. \A i \in gone : ~At(i).checkedOut
    BY DEF Victims, LruIdle, Idle
  <2>3. \A i \in Live \ gone : sessions[i] \in Mapped'
    BY <1>3, <2>1 DEF CheckoutNew, Mapped, Live
  <2>4. broken = {}
    BY <2>2, <2>3
  <2> QED BY <1>1, <1>3, <2>4 DEF CheckoutNew, Take
<1>4. ASSUME NEW now \in Time, Sweep(now)
      PROVE  CountsBrokenLeases
  <2> DEFINE forced == {i \in Live : Overdue(At(i), now)}
             stale  == {i \in Live : Expired(At(i), now)}
  <2>1. Live' = Live \ (forced \cup stale) /\ \A i \in Live' : sessions'[i] = sessions[i]
    BY <1>4 DEF Sweep, Live
  <2>2. \A i, j \in Live : sessions[i] = sessions[j] => i = j
    BY DEF IInv, IdsMatch, At
  <2>3. \A i \in Live : sessions[i] \in Mapped' <=> i \in Live'
    BY <2>1, <2>2 DEF Mapped
  <2>4. \A i \in Live : At(i).checkedOut => (i \in Live' <=> i \notin forced)
    BY <2>1 DEF Overdue, Expired
  <2>5. broken = forced
    BY <2>3, <2>4 DEF Overdue
  <2>6. forcedEvictions' = forcedEvictions + Cardinality(forced)
    BY <1>4 DEF Sweep
  <2>7. forcedEvictions' = forcedEvictions + Cardinality(broken)
    BY <2>5, <2>6
  <2> QED BY <2>7 DEF CountsBrokenLeases
<1> QED
  BY <1>2, <1>3, <1>4
  DEF Next, Checkout, CheckoutKnown, CheckoutBusy, CheckoutSpent, CheckoutFull,
      Take, Refuse, Release, WriteMessages, Drop

(* store.go:175-178 and 192-196: only the deadline backstop takes a        *)
(* session from its holder, and each time the counter says so.             *)
THEOREM LeasesAreKept == Spec => OnlySweepBreaksLease
<1> QED BY BrokenLeasesCounted, Invariance, PTL DEF Spec, OnlySweepBreaksLease

(* When every session in the map is flagged there are at least as many     *)
(* holders as sessions: each session has a holder of its own.              *)
LEMMA HoldersCoverFlagged ==
  ASSUME IInv, Idle = {}
  PROVE  Cardinality(Live) <= Cardinality(Holders)
<1> DEFINE f == [i \in Live |-> CHOOSE c \in Holders : grant[c].entry = sessions[i]]
<1>1. \A i \in Live : f[i] \in Holders /\ grant[f[i]].entry = sessions[i]
  BY DEF IInv, FlagMatchesHolder, Idle
<1>2. \A i, j \in Live : sessions[i] = sessions[j] => i = j
  BY DEF IInv, IdsMatch, At
<1>3. f \in [Live -> Holders]
  BY <1>1
<1>4. \A i, j \in Live : f[i] = f[j] => i = j
  <2> HIDE DEF f
  <2> QED BY <1>1, <1>2
<1>5. f \in Injection(Live, Holders)
  <2> HIDE DEF f
  <2> QED BY <1>3, <1>4 DEF Injection, IsInjective
<1>6. IsFiniteSet(Holders)
  BY FS_Subset, StoreAssumption DEF StoreParameters, Holders
<1> QED BY <1>5, <1>6, FS_Injection

(* store.go:19-26: "store full" is said only when MaxSessions callers are  *)
(* all inside a checkout, never because of a leaked flag.                  *)
THEOREM FullMeansHeld == Spec => FullOnlyWhenAllHeld
<1>1. IInv /\ [Next]_vars => [RefusesFullRightly]_vars
  <2> SUFFICES ASSUME IInv, Next, NEW d \in Callers,
                      grant'[d].err = "storeFull", grant[d].err # "storeFull"
               PROVE  Cardinality(Holders) >= MaxSessions
    BY DEF RefusesFullRightly
  <2>1. ASSUME NEW c \in Callers, NEW id \in Ids, CheckoutFull(c, id)
        PROVE  Cardinality(Holders) >= MaxSessions
    <3>1. Cardinality(Live) <= Cardinality(Holders)
      BY <2>1, HoldersCoverFlagged DEF CheckoutFull
    <3>2. Cardinality(Live) \in Nat /\ Cardinality(Holders) \in Nat
      BY FS_Subset, FS_CardinalityType, StoreAssumption DEF StoreParameters, IInv, TypeOK, Holders
    <3> QED BY <2>1, <3>1, <3>2, StoreAssumption DEF StoreParameters, CheckoutFull, AtCapacity
  <2>2. ASSUME NEW c \in Callers, NEW r, NEW e, NEW now, Take(c, r, e, now)
        PROVE  FALSE
    BY <2>2 DEF Take, IInv, TypeOK
  <2>3. ASSUME NEW c \in Callers, NEW id \in Ids,
               CheckoutBusy(c, id) \/ CheckoutSpent(c, id)
        PROVE  FALSE
    BY <2>3 DEF CheckoutBusy, CheckoutSpent, Refuse, NoopGrant, IInv, TypeOK
  <2>4. ASSUME NEW c \in Callers, Release(c) \/ Drop(c)
        PROVE  FALSE
    BY <2>4 DEF Release, Drop, NoopGrant, IInv, TypeOK, Grant
  <2>5. CASE UNCHANGED grant
    BY <2>5
  <2> QED
    BY <2>1, <2>2, <2>3, <2>4, <2>5
    DEF Next, Checkout, CheckoutKnown, CheckoutNew, WriteMessages, Sweep
<1> QED BY <1>1, Invariance, PTL DEF Spec, FullOnlyWhenAllHeld

-----------------------------------------------------------------------------
(* What a holder can rely on while others use the store *)

(* A step that is not the holder's own write. *)
OthersStep(c) ==
  \/ \E d \in Callers, id \in Ids, now \in Time : Checkout(d, id, now)
  \/ \E d \in Callers : Release(d) \/ Drop(d)
  \/ \E d \in Callers \ {c}, h \in Histories : WriteMessages(d, h)
  \/ \E now \in Time : Sweep(now)
  \/ UNCHANGED vars

(* Nobody but its holder changes the history of a held session, and nobody *)
(* at all the instant it was checked out, mapped or evicted.               *)
LEMMA HeldEntryKept ==
  ASSUME IInv, NEW c \in Holders, OthersStep(c)
  PROVE  LET r == grant[c].entry IN
         /\ grant'[c].entry = r
         /\ heap'[r].messages = heap[r].messages
         /\ heap'[r].checkedOutAt = heap[r].checkedOutAt
<1> DEFINE r == grant[c].entry
           Kept == /\ grant'[c].entry = r
                   /\ heap'[r].messages = heap[r].messages
                   /\ heap'[r].checkedOutAt = heap[r].checkedOutAt
<1>1. /\ c \in Callers /\ r \in Entries /\ heap[r] \in Entry
      /\ heap[r].checkedOut /\ ~grant[c].released /\ r # Nil
  BY DEF IInv, HolderMarked, Holders, TypeOK, Grant
<1>2. grant \in [Callers -> Grant] /\ heap \in [Entries -> Entry]
  BY DEF IInv, TypeOK
<1>3. ASSUME NEW d \in Callers, NEW q \in Entries, NEW e, NEW now,
             d # c, q # r, Take(d, q, e, now)
      PROVE  Kept
  BY <1>1, <1>2, <1>3 DEF Take
<1>4. ASSUME NEW d \in Callers, NEW err, d # c, Refuse(d, err)
      PROVE  Kept
  BY <1>1, <1>2, <1>4 DEF Refuse
<1>5. ASSUME NEW d \in Callers, NEW id \in Ids, NEW now \in Time, Checkout(d, id, now)
      PROVE  Kept
  <2>1. d # c
    BY <1>1, <1>5 DEF Checkout
  <2>2. CASE CheckoutKnown(d, id, now)
    <3>1. sessions[id] \in Entries /\ sessions[id] # r
      BY <1>1, <2>2 DEF CheckoutKnown, Busy, At, IInv, TypeOK
    <3> QED BY <1>3, <2>1, <2>2, <3>1 DEF CheckoutKnown
  <2>3. CASE CheckoutNew(d, id, now)
    <3>1. Allocated \in Entries /\ Allocated # r
      BY <1>1, <2>3, AllocatedIsFresh DEF CheckoutNew, Reachable
    <3> QED BY <1>3, <2>1, <2>3, <3>1 DEF CheckoutNew
  <2>4. CASE CheckoutBusy(d, id) \/ CheckoutSpent(d, id) \/ CheckoutFull(d, id)
    BY <1>4, <2>1, <2>4 DEF CheckoutBusy, CheckoutSpent, CheckoutFull
  <2> QED BY <1>5, <2>2, <2>3, <2>4 DEF Checkout
<1>6. ASSUME NEW d \in Callers, Release(d) PROVE Kept
  <2>1. grant'[c].entry = r
    BY <1>1, <1>2, <1>6 DEF Release, Grant
  <2>2. Returned(heap[r]).messages = heap[r].messages
        /\ Returned(heap[r]).checkedOutAt = heap[r].checkedOutAt
    BY <1>1 DEF Returned, Entry
  <2>3. heap'[r] = heap[r] \/ heap'[r] = Returned(heap[r])
    BY <1>1, <1>2, <1>6 DEF Release
  <2> QED BY <2>1, <2>2, <2>3
<1>7. ASSUME NEW d \in Callers, Drop(d) PROVE Kept
  BY <1>1, <1>2, <1>7 DEF Drop
<1>8. ASSUME NEW d \in Callers \ {c}, NEW h \in Histories, WriteMessages(d, h) PROVE Kept
  <2>1. grant[d].entry # r
    BY <1>8 DEF WriteMessages, IInv, ExclusiveCheckout
  <2> QED BY <1>1, <1>2, <1>8, <2>1 DEF WriteMessages
<1>9. CASE (\E now \in Time : Sweep(now)) \/ UNCHANGED vars
  BY <1>9 DEF Sweep, vars
<1> QED BY <1>5, <1>6, <1>7, <1>8, <1>9 DEF OthersStep

(* What a successful checkout gives: the session of that id in the map,    *)
(* with a lease that starts at the caller's instant.                       *)
LEMMA CheckoutGives ==
  ASSUME IInv, NEW c \in Callers, NEW id \in Ids, NEW now \in Time,
         Checkout(c, id, now), grant'[c].err = "none"
  PROVE  LET r == grant'[c].entry IN
         /\ r \in Entries /\ r \in Mapped'
         /\ heap'[r].checkedOutAt = now
         /\ id \in Live' /\ sessions'[id] = r
<1> DEFINE Given == LET r == grant'[c].entry IN
                    /\ r \in Entries /\ r \in Mapped'
                    /\ heap'[r].checkedOutAt = now
                    /\ id \in Live' /\ sessions'[id] = r
<1>1. grant \in [Callers -> Grant] /\ heap \in [Entries -> Entry]
  BY DEF IInv, TypeOK
<1>2. ASSUME NEW r \in Entries, NEW e \in Entry, Take(c, r, e, now)
      PROVE  grant'[c].entry = r /\ heap'[r].checkedOutAt = now
  <2>1. Reserve(e, now).checkedOutAt = now
    BY DEF Reserve, Entry
  <2> QED BY <1>1, <1>2, <2>1 DEF Take
<1>3. CASE CheckoutKnown(c, id, now)
  <2>1. sessions[id] \in Entries /\ At(id) \in Entry /\ id \in Live
    BY <1>3 DEF CheckoutKnown, IInv, TypeOK, At
  <2>2. Take(c, sessions[id], At(id), now) /\ sessions' = sessions
    BY <1>3 DEF CheckoutKnown
  <2>3. grant'[c].entry = sessions[id] /\ heap'[sessions[id]].checkedOutAt = now
    BY <1>2, <2>1, <2>2
  <2> QED BY <2>1, <2>2, <2>3 DEF Mapped, Live
<1>4. CASE CheckoutNew(c, id, now)
  <2>1. Allocated \in Entries /\ NewEntry(id, now) \in Entry
    BY <1>4, AllocatedIsFresh, NewEntryFacts DEF CheckoutNew
  <2>2. Take(c, Allocated, NewEntry(id, now), now)
    BY <1>4 DEF CheckoutNew
  <2>3. grant'[c].entry = Allocated /\ heap'[Allocated].checkedOutAt = now
    BY <1>2, <2>1, <2>2
  <2>4. id \in Live' /\ sessions'[id] = Allocated
    BY <1>4 DEF CheckoutNew, Live
  <2> QED BY <2>1, <2>3, <2>4 DEF Mapped
<1>5. CASE CheckoutBusy(c, id) \/ CheckoutSpent(c, id) \/ CheckoutFull(c, id)
  BY <1>1, <1>5 DEF CheckoutBusy, CheckoutSpent, CheckoutFull, Refuse, NoopGrant
<1> QED BY <1>3, <1>4, <1>5 DEF Checkout

(* A holder loses its session to a sweep past its deadline only, and the   *)
(* counter moves.                                                          *)
LEMMA LeaseEndsLate ==
  ASSUME IInv, [Next]_vars, NEW c \in Holders,
         grant[c].entry \in Mapped, grant[c].entry \notin Mapped'
  PROVE  /\ \A d \in Callers, id \in Ids, now \in Time : ~Checkout(d, id, now)
         /\ sessions' # sessions
         /\ \A now \in Time :
              Sweep(now) => now - heap[grant[c].entry].checkedOutAt > CheckoutDeadline
         /\ forcedEvictions' > forcedEvictions
<1> DEFINE r == grant[c].entry
<1>1. PICK i \in Live : sessions[i] = r
  BY DEF Mapped
<1>2. At(i).checkedOut
  BY <1>1 DEF IInv, HolderMarked, At
<1>3. sessions' # sessions
  BY DEF Mapped, Live
<1>4. ASSUME NEW d \in Callers, NEW id \in Ids, NEW now \in Time, Checkout(d, id, now)
      PROVE  FALSE
  <2>1. CheckoutNew(d, id, now)
    BY <1>3, <1>4 DEF Checkout, CheckoutKnown, CheckoutBusy, CheckoutSpent, CheckoutFull,
                      Refuse
  <2>2. PICK gone \in Victims :
          sessions' = [j \in (Live \ gone) \cup {id} |->
                         IF j = id THEN Allocated ELSE sessions[j]]
    BY <2>1 DEF CheckoutNew
  <2>3. i \notin gone /\ i # id
    BY <1>2, <2>1 DEF Victims, LruIdle, Idle, CheckoutNew
  <2>4. i \in Live' /\ sessions'[i] = sessions[i]
    BY <2>2, <2>3 DEF Live
  <2> QED BY <1>1, <2>4 DEF Mapped
<1>5. ASSUME NEW now \in Time, Sweep(now)
      PROVE  now - heap[r].checkedOutAt > CheckoutDeadline
  <2>1. i \notin Live'
    BY <1>1, <1>5 DEF Sweep, Mapped, Live
  <2>2. Overdue(At(i), now) \/ Expired(At(i), now)
    BY <1>5, <2>1 DEF Sweep, Live
  <2> QED BY <1>1, <1>2, <2>2 DEF Overdue, Expired, At
<1>6. forcedEvictions' > forcedEvictions
  <2> DEFINE broken == {j \in Live : At(j).checkedOut /\ sessions[j] \notin Mapped'}
  <2>1. IsFiniteSet(broken) /\ Cardinality(broken) \in Nat
    BY FS_Subset, FS_CardinalityType, StoreAssumption DEF StoreParameters, IInv, TypeOK
  <2>2. Cardinality(broken) # 0
    <3>1. i \in broken
      BY <1>1, <1>2
    <3> HIDE DEF broken
    <3> QED BY <2>1, <3>1, FS_EmptySet
  <2>3. forcedEvictions' = forcedEvictions + Cardinality(broken)
    <3>1. CountsBrokenLeases
      <4>1. vars' # vars
        BY <1>3 DEF vars
      <4> QED BY <4>1, BrokenLeasesCounted
    <3> QED BY <3>1 DEF CountsBrokenLeases
  <2>4. forcedEvictions \in Nat
    BY DEF IInv, TypeOK
  <2> HIDE DEF broken
  <2> QED BY <2>1, <2>2, <2>3, <2>4
<1> QED BY <1>3, <1>4, <1>5, <1>6

(* The counter of forced evictions never goes back. *)
LEMMA EvictionsGrow ==
  ASSUME IInv, [Next]_vars
  PROVE  forcedEvictions' >= forcedEvictions
<1> DEFINE broken == {j \in Live : At(j).checkedOut /\ sessions[j] \notin Mapped'}
<1>1. IsFiniteSet(broken) /\ Cardinality(broken) \in Nat
  BY FS_Subset, FS_CardinalityType, StoreAssumption DEF StoreParameters, IInv, TypeOK
<1>2. forcedEvictions \in Nat
  BY DEF IInv, TypeOK
<1>3. forcedEvictions' = forcedEvictions + Cardinality(broken) \/ UNCHANGED vars
  BY BrokenLeasesCounted DEF CountsBrokenLeases
<1> HIDE DEF broken
<1> QED BY <1>1, <1>2, <1>3 DEF vars

-----------------------------------------------------------------------------
(* The store implements the ledger *)

(* A session's row names the caller that holds it: none while it is idle,  *)
(* and otherwise the one holder its entry has.                             *)
LEMMA TableReads ==
  IInv => \A i \in Live :
            /\ ~At(i).checkedOut => HolderOf(i) = Nil
            /\ At(i).checkedOut => /\ HolderOf(i) \in Holders
                                   /\ grant[HolderOf(i)].entry = sessions[i]
            /\ \A c \in Holders : grant[c].entry = sessions[i] => HolderOf(i) = c
<1> SUFFICES ASSUME IInv, NEW i \in Live
             PROVE  /\ ~At(i).checkedOut => HolderOf(i) = Nil
                    /\ At(i).checkedOut => /\ HolderOf(i) \in Holders
                                           /\ grant[HolderOf(i)].entry = sessions[i]
                    /\ \A c \in Holders : grant[c].entry = sessions[i] => HolderOf(i) = c
  OBVIOUS
<1>1. ~At(i).checkedOut => HolderOf(i) = Nil
  BY DEF HolderOf
<1>2. ASSUME At(i).checkedOut
      PROVE  HolderOf(i) \in Holders /\ grant[HolderOf(i)].entry = sessions[i]
  <2>1. \E c \in Holders : grant[c].entry = sessions[i]
    BY <1>2 DEF IInv, FlagMatchesHolder
  <2> QED BY <1>2, <2>1 DEF HolderOf
<1>3. ASSUME NEW c \in Holders, grant[c].entry = sessions[i] PROVE HolderOf(i) = c
  <2>1. At(i).checkedOut
    BY <1>3 DEF IInv, FlagMatchesHolder
  <2> QED BY <1>2, <1>3, <2>1 DEF IInv, ExclusiveCheckout
<1> QED BY <1>1, <1>2, <1>3

LEMMA TableReadsNext ==
  IInv' => \A i \in Live' :
             /\ ~At(i)'.checkedOut => HolderOf(i)' = Nil
             /\ \A c \in Holders' : grant'[c].entry = sessions'[i] => HolderOf(i)' = c
<1>1. (IInv => \A i \in Live :
                 /\ ~At(i).checkedOut => HolderOf(i) = Nil
                 /\ \A c \in Holders : grant[c].entry = sessions[i] => HolderOf(i) = c)'
  <2>1. IInv => \A i \in Live :
                  /\ ~At(i).checkedOut => HolderOf(i) = Nil
                  /\ \A c \in Holders : grant[c].entry = sessions[i] => HolderOf(i) = c
    BY TableReads
  <2> QED BY <2>1, PTL
<1> QED BY <1>1

(* Two ids never share an entry. *)
LEMMA EntriesDiffer ==
  ASSUME IInv, NEW i \in Live, NEW j \in Live, sessions[i] = sessions[j]
  PROVE  i = j
BY DEF IInv, IdsMatch, At

(* A session nobody touches keeps its row. *)
LEMMA RowKept ==
  ASSUME IInv, IInv', NEW i \in Live, i \in Live', sessions'[i] = sessions[i],
         heap'[sessions[i]] = heap[sessions[i]],
         \A c \in Holders : grant[c].entry = sessions[i] => grant'[c] = grant[c]
  PROVE  Conversations'[i] = Conversations[i]
<1>1. At(i)' = At(i)
  BY DEF At
<1>2. HolderOf(i)' = HolderOf(i)
  <2>1. CASE ~At(i).checkedOut
    BY <1>1, <2>1, TableReads, TableReadsNext
  <2>2. CASE At(i).checkedOut
    <3>1. HolderOf(i) \in Holders /\ grant[HolderOf(i)].entry = sessions[i]
      BY <2>2, TableReads
    <3>2. grant'[HolderOf(i)] = grant[HolderOf(i)]
      BY <3>1
    <3>3. HolderOf(i) \in Holders' /\ grant'[HolderOf(i)].entry = sessions'[i]
      BY <3>1, <3>2 DEF Holders
    <3> QED BY <3>3, TableReadsNext
  <2> QED BY <2>1, <2>2
<1> QED BY <1>1, <1>2 DEF Conversations

LEMMA RowsKept ==
  ASSUME IInv, IInv', sessions' = sessions, heap' = heap,
         \A c \in Holders : grant'[c] = grant[c]
  PROVE  Conversations' = Conversations
<1>1. Live' = Live
  BY DEF Live
<1>2. \A i \in Live : Conversations'[i] = Conversations[i]
  BY <1>1, RowKept
<1> QED BY <1>1, <1>2 DEF Conversations

(* A caller with nothing in hand holds no row. *)
LEMMA HoldsNoRow ==
  ASSUME IInv, NEW c \in Callers, grant[c].entry = Nil
  PROVE  c \notin Holders /\ ~Ledger!Holding(c)
<1>1. c \notin Holders
  BY DEF IInv, HolderMarked
<1>2. ASSUME NEW i \in Live PROVE HolderOf(i) # c
  BY <1>1, TableReads, StoreAssumption DEF StoreParameters
<1> QED BY <1>1, <1>2 DEF Ledger!Holding, Ledger!Present, Conversations

(* A checkout that takes entry r for session id gives the caller that row. *)
LEMMA TakenRow ==
  ASSUME IInv, IInv', NEW c \in Callers, NEW id \in Ids, NEW r \in Entries,
         NEW e \in Entry, NEW now \in Time,
         Take(c, r, e, now), id \in Live', sessions'[id] = r
  PROVE  Conversations'[id] = [turns |-> e.turns + 1, history |-> e.messages, holder |-> c]
<1>1. At(id)' = Reserve(e, now)
  BY DEF Take, At, IInv, TypeOK
<1>2. Reserve(e, now).turns = e.turns + 1 /\ Reserve(e, now).messages = e.messages
  BY DEF Reserve, Entry
<1>3. c \in Holders' /\ grant'[c].entry = sessions'[id]
  BY DEF Take, Holders, IInv, TypeOK
<1>4. HolderOf(id)' = c
  BY <1>3, TableReadsNext
<1> QED BY <1>1, <1>2, <1>4 DEF Conversations

LEMMA KnownResumes ==
  ASSUME IInv, IInv', NEW c \in Callers, NEW id \in Ids, NEW now \in Time,
         grant[c].entry = Nil, CheckoutKnown(c, id, now)
  PROVE  Ledger!Resume(c, id)
<1>1. id \in Live /\ ~At(id).checkedOut /\ At(id).turns < MaxTurns
  BY StoreAssumption DEF CheckoutKnown, Busy, Spent, StoreParameters, IInv, TurnsAccounted
<1>2. sessions' = sessions /\ Live' = Live /\ Take(c, sessions[id], At(id), now)
  BY DEF CheckoutKnown, Live
<1>3. sessions[id] \in Entries /\ At(id) \in Entry
  BY <1>1 DEF IInv, TypeOK, At
<1>4. Conversations'[id] = [turns |-> At(id).turns + 1, history |-> At(id).messages,
                            holder |-> c]
  BY <1>1, <1>2, <1>3, TakenRow
<1>5. ASSUME NEW i \in Live, i # id PROVE Conversations'[i] = Conversations[i]
  <2>1. sessions[i] # sessions[id]
    BY <1>1, <1>5, EntriesDiffer
  <2>2. heap'[sessions[i]] = heap[sessions[i]]
    BY <1>2, <1>3, <2>1 DEF Take, IInv, TypeOK
  <2>3. \A d \in Holders : grant'[d] = grant[d]
    BY <1>2, HoldsNoRow DEF Take, IInv, TypeOK, Holders
  <2> QED BY <1>2, <2>2, <2>3, RowKept
<1>6. Conversations[id] = [turns |-> At(id).turns, history |-> At(id).messages, holder |-> Nil]
  BY <1>1, TableReads DEF Conversations
<1>7. Conversations' = [Conversations EXCEPT ![id].turns = @ + 1, ![id].holder = c]
  <2>1. DOMAIN Conversations = Live /\ DOMAIN Conversations' = Live
    BY <1>2 DEF Conversations
  <2>2. Conversations' = [i \in Live |-> Conversations'[i]]
    BY <1>2 DEF Conversations
  <2> DEFINE n == At(id).turns
             m == At(id).messages
             spent == [turns |-> n + 1, history |-> m, holder |-> Nil]
             taken == [turns |-> n + 1, history |-> m, holder |-> c]
             u == [Conversations EXCEPT ![id].turns = @ + 1]
  <2>3. [Conversations[id] EXCEPT !.turns = Conversations[id].turns + 1] = spent
    <3> HIDE DEF n, m
    <3>1. Conversations[id] = [turns |-> n, history |-> m, holder |-> Nil]
      BY <1>6 DEF n, m
    <3>2. Conversations[id].turns + 1 = n + 1
      BY <3>1
    <3>3. [Conversations[id] EXCEPT !.turns = n + 1] = spent
      BY <3>1
    <3> QED BY <3>2, <3>3
  <2> HIDE DEF n, m
  <2>4. u = [i \in Live |-> IF i = id THEN spent ELSE Conversations[i]]
    <3>1. u = [Conversations EXCEPT ![id] = spent]
      BY <2>3
    <3> HIDE DEF u, spent
    <3> QED BY <2>1, <3>1
  <2>5. [Conversations EXCEPT ![id].turns = @ + 1, ![id].holder = c] = [u EXCEPT ![id].holder = c]
    OBVIOUS
  <2>6. [spent EXCEPT !.holder = c] = taken
    OBVIOUS
  <2>7. [u EXCEPT ![id].holder = c] = [u EXCEPT ![id] = taken]
    <3>1. u[id] = spent
      BY <1>1, <2>4
    <3> HIDE DEF u, spent, taken
    <3> QED BY <2>6, <3>1
  <2>8. [u EXCEPT ![id] = taken] = [i \in Live |-> IF i = id THEN taken ELSE Conversations[i]]
    <3> HIDE DEF u, spent, taken
    <3> QED BY <2>4
  <2>9. Conversations'[id] = taken
    BY <1>4 DEF n, m
  <2>10. Conversations' = [i \in Live |-> IF i = id THEN taken ELSE Conversations[i]]
    <3> HIDE DEF taken
    <3> QED BY <1>5, <2>2, <2>9
  <2> HIDE DEF u, taken
  <2> QED BY <2>5, <2>7, <2>8, <2>10
<1> QED BY <1>1, <1>6, <1>7 DEF Ledger!Resume, Ledger!Idle, Ledger!Present, Conversations

LEMMA NewStarts ==
  ASSUME IInv, IInv', NEW c \in Callers, NEW id \in Ids, NEW now \in Time,
         grant[c].entry = Nil, CheckoutNew(c, id, now)
  PROVE  Ledger!Start(c, id)
<1>1. id \notin Live /\ Take(c, Allocated, NewEntry(id, now), now)
  BY DEF CheckoutNew
<1>2. /\ Allocated \in Entries /\ Allocated \notin Mapped
      /\ NewEntry(id, now) \in Entry
  BY AllocatedIsFresh, NewEntryFacts DEF CheckoutNew, Reachable
<1>3. PICK gone \in Victims :
        sessions' = [i \in (Live \ gone) \cup {id} |->
                       IF i = id THEN Allocated ELSE sessions[i]]
  BY DEF CheckoutNew
<1>4. gone \subseteq Idle /\ IF AtCapacity THEN \E v \in Idle : gone = {v} ELSE gone = {}
  BY DEF Victims, LruIdle
<1>5. gone \subseteq Ledger!Idle
  BY <1>4, TableReads DEF Idle, Ledger!Idle, Ledger!Present, Conversations
<1>6. Ledger!Cardinality(gone)
      = IF Ledger!Cardinality(Ledger!Present) >= MaxSessions THEN 1 ELSE 0
  <2>1. Ledger!Present = Live
    BY DEF Ledger!Present, Conversations
  <2>2. Cardinality(gone) = IF Cardinality(Live) >= MaxSessions THEN 1 ELSE 0
    BY <1>4, FS_EmptySet, FS_Singleton DEF AtCapacity
  <2> QED BY <2>1, <2>2 DEF Ledger!Cardinality, Cardinality
<1>7. Live' = (Live \ gone) \cup {id}
  BY <1>3 DEF Live
<1>8. Conversations'[id] = [turns |-> 1, history |-> NoHistory, holder |-> c]
  <2>1. id \in Live' /\ sessions'[id] = Allocated
    BY <1>3, <1>7
  <2>2. NewEntry(id, now).turns + 1 = 1 /\ NewEntry(id, now).messages = NoHistory
    BY DEF NewEntry
  <2>3. Conversations'[id] = [turns |-> NewEntry(id, now).turns + 1,
                              history |-> NewEntry(id, now).messages, holder |-> c]
    BY <1>1, <1>2, <2>1, TakenRow
  <2> QED BY <2>2, <2>3
<1>9. ASSUME NEW i \in Live \ gone PROVE Conversations'[i] = Conversations[i]
  <2>1. i \in Live' /\ sessions'[i] = sessions[i] /\ sessions[i] # Allocated
    BY <1>1, <1>2, <1>3, <1>7 DEF Mapped
  <2>2. heap'[sessions[i]] = heap[sessions[i]]
    BY <1>1, <1>2, <2>1 DEF Take, IInv, TypeOK
  <2>3. \A d \in Holders : grant'[d] = grant[d]
    BY <1>1, HoldsNoRow DEF Take, IInv, TypeOK, Holders
  <2> QED BY <2>1, <2>2, <2>3, RowKept
<1>10. Conversations' = [i \in (Live \ gone) \cup {id} |->
                           IF i = id THEN [turns |-> 1, history |-> NoHistory, holder |-> c]
                           ELSE Conversations[i]]
  <2>1. Conversations' = [i \in (Live \ gone) \cup {id} |-> Conversations'[i]]
    BY <1>7 DEF Conversations
  <2> QED BY <1>8, <1>9, <2>1
<1>11. Ledger!Present = Live
  BY DEF Ledger!Present, Conversations
<1> QED BY <1>1, <1>5, <1>6, <1>10, <1>11 DEF Ledger!Start

(* What a holder does to its entry shows in its session's row, or not at   *)
(* all once the entry has left the map.                                    *)
LEMMA HolderTouches ==
  ASSUME IInv, IInv', NEW c \in Holders, NEW e, sessions' = sessions,
         heap' = [heap EXCEPT ![grant[c].entry] = e],
         \A d \in Holders \ {c} : grant'[d] = grant[d]
  PROVE  \/ Conversations' = Conversations
         \/ \E id \in Live :
              /\ sessions[id] = grant[c].entry /\ Conversations[id].holder = c
              /\ At(id)' = e
              /\ Conversations' = [Conversations EXCEPT ![id] = Conversations'[id]]
<1> DEFINE r == grant[c].entry
<1>1. Live' = Live /\ r \in Entries /\ heap \in [Entries -> Entry]
  BY DEF Live, IInv, HolderMarked, TypeOK, Grant, Holders
<1>2. ASSUME NEW i \in Live, sessions[i] # r PROVE Conversations'[i] = Conversations[i]
  <2>1. heap'[sessions[i]] = heap[sessions[i]]
    BY <1>1, <1>2
  <2>2. \A d \in Holders : grant[d].entry = sessions[i] => grant'[d] = grant[d]
    BY <1>2
  <2> QED BY <1>1, <2>1, <2>2, RowKept
<1>3. /\ DOMAIN Conversations = Live
      /\ Conversations = [i \in Live |-> Conversations[i]]
      /\ Conversations' = [i \in Live |-> Conversations'[i]]
  BY <1>1 DEF Conversations
<1>4. CASE \A i \in Live : sessions[i] # r
  BY <1>2, <1>3, <1>4
<1>5. CASE \E i \in Live : sessions[i] = r
  <2>1. PICK id \in Live : sessions[id] = r
    BY <1>5
  <2>2. Conversations[id].holder = c
    BY <2>1, TableReads DEF Conversations
  <2>3. At(id)' = e
    BY <1>1, <2>1 DEF At
  <2>4. \A i \in Live : i # id => sessions[i] # r
    BY <2>1, EntriesDiffer
  <2>5. Conversations' = [Conversations EXCEPT ![id] = Conversations'[id]]
    <3>1. [Conversations EXCEPT ![id] = Conversations'[id]]
          = [i \in Live |-> IF i = id THEN Conversations'[id] ELSE Conversations[i]]
      BY <1>3
    <3> QED BY <1>2, <1>3, <2>4, <3>1
  <2> QED BY <2>1, <2>2, <2>3, <2>5
<1> QED BY <1>4, <1>5

LEMMA ReleaseFinishes ==
  ASSUME IInv, IInv', NEW c \in Callers, Release(c)
  PROVE  Conversations' = Conversations \/ \E id \in Ids : Ledger!Finish(c, id)
<1>1. /\ sessions' = sessions /\ grant \in [Callers -> Grant]
      /\ \A d \in Callers \ {c} : grant'[d] = grant[d]
      /\ Live \subseteq Ids
  BY DEF Release, IInv, TypeOK
<1>2. CASE grant[c].released
  BY <1>1, <1>2, RowsKept DEF Release, Holders
<1>3. CASE ~grant[c].released
  <2> DEFINE r == grant[c].entry
             e == Returned(heap[r])
  <2>1. c \in Holders /\ heap' = [heap EXCEPT ![r] = e] /\ heap[r] \in Entry
    BY <1>3 DEF Release, Holders, IInv, HolderMarked, TypeOK, Grant
  <2>2. e.turns = heap[r].turns /\ e.messages = heap[r].messages /\ ~e.checkedOut
    BY <2>1 DEF Returned, Entry
  <2>3. \/ Conversations' = Conversations
        \/ \E id \in Live :
             /\ sessions[id] = r /\ Conversations[id].holder = c
             /\ At(id)' = e
             /\ Conversations' = [Conversations EXCEPT ![id] = Conversations'[id]]
    <3>1. \A d \in Holders \ {c} : grant'[d] = grant[d]
      BY <1>1 DEF Holders
    <3> HIDE DEF e
    <3> QED BY <1>1, <2>1, <3>1, HolderTouches
  <2>4. ASSUME NEW id \in Live, sessions[id] = r, Conversations[id].holder = c, At(id)' = e,
               Conversations' = [Conversations EXCEPT ![id] = Conversations'[id]]
        PROVE  Ledger!Finish(c, id)
    <3>1. id \in Live' /\ ~At(id)'.checkedOut
      BY <1>1, <2>2, <2>4 DEF Live
    <3>2. HolderOf(id)' = Nil
      BY <3>1, TableReadsNext
    <3>3. Conversations'[id] = [turns |-> heap[r].turns, history |-> heap[r].messages,
                                holder |-> Nil]
      BY <2>2, <2>4, <3>1, <3>2 DEF Conversations
    <3>4. Conversations[id] = [turns |-> heap[r].turns, history |-> heap[r].messages,
                               holder |-> HolderOf(id)]
      BY <2>4 DEF Conversations, At
    <3>5. Conversations' = [Conversations EXCEPT ![id].holder = Nil]
      <4>1. Conversations = [i \in Live |-> Conversations[i]]
        BY DEF Conversations
      <4> QED BY <2>4, <3>3, <3>4, <4>1
    <3>6. id \in Ledger!Present
      BY DEF Ledger!Present, Conversations
    <3> QED BY <2>4, <3>5, <3>6 DEF Ledger!Finish
  <2> QED BY <1>1, <2>3, <2>4
<1> QED BY <1>2, <1>3

LEMMA WriteRecords ==
  ASSUME IInv, IInv', NEW c \in Callers, NEW h \in Histories, WriteMessages(c, h)
  PROVE  Conversations' = Conversations \/ \E id \in Ids : Ledger!Record(c, id, h)
<1> DEFINE r == grant[c].entry
           e == [heap[r] EXCEPT !.messages = h]
<1>1. /\ sessions' = sessions /\ grant' = grant /\ c \in Holders
      /\ heap' = [heap EXCEPT ![r] = e]
      /\ Live \subseteq Ids
  BY DEF WriteMessages, IInv, TypeOK
<1>2. heap[r] \in Entry
  BY <1>1 DEF Holders, IInv, HolderMarked, TypeOK, Grant
<1>3. e.turns = heap[r].turns /\ e.messages = h /\ e.checkedOut = heap[r].checkedOut
  BY <1>2 DEF Entry
<1>4. \/ Conversations' = Conversations
      \/ \E id \in Live :
           /\ sessions[id] = r /\ Conversations[id].holder = c
           /\ At(id)' = e
           /\ Conversations' = [Conversations EXCEPT ![id] = Conversations'[id]]
  <2> HIDE DEF e
  <2> QED BY <1>1, HolderTouches
<1>5. ASSUME NEW id \in Live, sessions[id] = r, Conversations[id].holder = c, At(id)' = e,
             Conversations' = [Conversations EXCEPT ![id] = Conversations'[id]]
      PROVE  Ledger!Record(c, id, h)
  <2>1. id \in Live' /\ c \in Holders' /\ grant'[c].entry = sessions'[id]
    BY <1>1, <1>5 DEF Live, Holders
  <2>2. HolderOf(id)' = c
    BY <2>1, TableReadsNext
  <2>3. Conversations'[id] = [turns |-> heap[r].turns, history |-> h, holder |-> c]
    BY <1>3, <1>5, <2>1, <2>2 DEF Conversations
  <2>4. Conversations[id] = [turns |-> heap[r].turns, history |-> heap[r].messages,
                             holder |-> c]
    BY <1>5 DEF Conversations, At
  <2>5. Conversations' = [Conversations EXCEPT ![id].history = h]
    <3>1. Conversations = [i \in Live |-> Conversations[i]]
      BY DEF Conversations
    <3> QED BY <1>5, <2>3, <2>4, <3>1
  <2>6. id \in Ledger!Present
    BY DEF Ledger!Present, Conversations
  <2> QED BY <1>5, <2>5, <2>6 DEF Ledger!Record
<1> QED BY <1>1, <1>4, <1>5

LEMMA SweepForgets ==
  ASSUME IInv, IInv', NEW now \in Time, Sweep(now)
  PROVE  \E gone \in SUBSET Ledger!Present : Ledger!Forget(gone)
<1> DEFINE gone == {i \in Live : Overdue(At(i), now)} \cup {i \in Live : Expired(At(i), now)}
<1>1. /\ sessions' = [i \in Live \ gone |-> sessions[i]]
      /\ heap' = heap /\ grant' = grant
  BY DEF Sweep
<1>2. gone \subseteq Live
  OBVIOUS
<1> HIDE DEF gone
<1>3. Live' = Live \ gone /\ \A i \in Live' : sessions'[i] = sessions[i]
  BY <1>1 DEF Live
<1>4. \A i \in Live \ gone : Conversations'[i] = Conversations[i]
  BY <1>1, <1>3, RowKept
<1>5. Conversations' = [i \in Live \ gone |-> Conversations'[i]]
  BY <1>3 DEF Conversations
<1>6. Ledger!Present = Live
  BY DEF Ledger!Present, Conversations
<1>7. Conversations' = [i \in Ledger!Present \ gone |-> Conversations[i]]
  BY <1>4, <1>5, <1>6
<1> QED BY <1>2, <1>6, <1>7 DEF Ledger!Forget, Ledger!Without

(* store.go:19-57: the store is a table of conversations, each with at     *)
(* most one caller that may touch it: no late or second release, evicted   *)
(* entry or reused id ever shows through.                                  *)
THEOREM StoreImplementsLedger == Spec => ImplementsLedger
<1>1. Init => Ledger!Init
  <2> SUFFICES ASSUME Init PROVE Ledger!Init
    OBVIOUS
  <2>1. Live = {}
    BY DEF Init, Live
  <2>2. Conversations = [i \in {} |-> Nil]
    BY <2>1 DEF Conversations
  <2> QED BY <2>2 DEF Ledger!Init
<1>2. IInv /\ IInv' /\ [Next]_vars => [Ledger!Next]_Conversations
  <2> SUFFICES ASSUME IInv, IInv', [Next]_vars PROVE [Ledger!Next]_Conversations
    OBVIOUS
  <2>1. ASSUME NEW c \in Callers, NEW id \in Ids, NEW now \in Time, Checkout(c, id, now)
        PROVE  [Ledger!Next]_Conversations
    <3>1. grant[c].entry = Nil /\ ~Ledger!Holding(c) /\ c \notin Holders
      BY <2>1, HoldsNoRow DEF Checkout
    <3>2. CASE CheckoutKnown(c, id, now)
      BY <3>1, <3>2, KnownResumes DEF Ledger!Next
    <3>3. CASE CheckoutNew(c, id, now)
      BY <3>1, <3>3, NewStarts DEF Ledger!Next
    <3>4. CASE CheckoutBusy(c, id) \/ CheckoutSpent(c, id) \/ CheckoutFull(c, id)
      <4>1. /\ sessions' = sessions /\ heap' = heap
            /\ \A d \in Holders : grant'[d] = grant[d]
        BY <3>1, <3>4 DEF CheckoutBusy, CheckoutSpent, CheckoutFull, Refuse, IInv, TypeOK,
                          Holders
      <4> QED BY <4>1, RowsKept
    <3> QED BY <2>1, <3>2, <3>3, <3>4 DEF Checkout
  <2>2. ASSUME NEW c \in Callers, Release(c) PROVE [Ledger!Next]_Conversations
    BY <2>2, ReleaseFinishes DEF Ledger!Next
  <2>3. ASSUME NEW c \in Callers, NEW h \in Histories, WriteMessages(c, h)
        PROVE  [Ledger!Next]_Conversations
    BY <2>3, WriteRecords DEF Ledger!Next
  <2>4. ASSUME NEW c \in Callers, Drop(c) PROVE [Ledger!Next]_Conversations
    <3>1. /\ sessions' = sessions /\ heap' = heap
          /\ \A d \in Holders : grant'[d] = grant[d]
      BY <2>4 DEF Drop, IInv, TypeOK, Holders
    <3> QED BY <3>1, RowsKept
  <2>5. ASSUME NEW now \in Time, Sweep(now) PROVE [Ledger!Next]_Conversations
    BY <2>5, SweepForgets DEF Ledger!Next
  <2>6. CASE UNCHANGED vars
    BY <2>6, RowsKept DEF vars
  <2> QED BY <2>1, <2>2, <2>3, <2>4, <2>5, <2>6 DEF Next
<1> QED BY <1>1, <1>2, Invariance, PTL DEF Spec, Ledger!Spec, ImplementsLedger
=============================================================================
