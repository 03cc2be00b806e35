------------------------ MODULE StreamServerProofs --------------------------
(***************************************************************************)
(* Proofs about StreamServer: every step of the server is a step of the    *)
(* store and a step of the limiter, so what was proved of each holds in    *)
(* the composition; together they show that no visitor is refused as       *)
(* "store full" and that nothing stays locked once every handler is gone.  *)
(* Last, of TurnTiming: how long a turn can last, and so how long the      *)
(* checkout deadline has to be for the sweeper never to take a session     *)
(* away from a handler that is merely slow.                                *)
(***************************************************************************)
EXTENDS TurnTiming, FiniteSetTheorems, TLAPS

SP == INSTANCE SessionStoreProofs WITH Callers <- Handlers, NoHistory <- 0
LP == INSTANCE LimiterProofs WITH Requests <- Handlers,
                                  admitted <- <<>>   \* a history the server has no use for

-----------------------------------------------------------------------------
(* The components' assumptions hold of the server's constants. *)

LEMMA StoreConstants == SP!StoreAssumption
<1>1. 0 \in Time /\ Time \subseteq Nat /\ 0 \in Histories
  BY ServerAssumption DEF Time, Histories
<1>2. SP!StoreParameters
  BY <1>1, ServerAssumption DEF SP!StoreParameters, SP!IsFiniteSet, IsFiniteSet
<1> QED BY <1>2 DEF SP!StoreAssumption

LEMMA LimiterConstants == LP!LimiterAssumption
<1>1. Time \subseteq Nat
  BY ServerAssumption DEF Time
<1>2. LP!LimiterParameters
  BY <1>1, ServerAssumption DEF LP!LimiterParameters, LP!IsFiniteSet, IsFiniteSet
<1> QED BY <1>2 DEF LP!LimiterAssumption

LEMMA LimiterClock == LP!TimedAssumption
BY ServerAssumption DEF LP!TimedAssumption, Time

-----------------------------------------------------------------------------
(* StreamServer's instances of the components and this module's are the    *)
(* same: their definitions expand to the same formulas.                    *)

LEMMA SameCheckout ==
  ASSUME NEW h \in Handlers, NEW id \in Ids, NEW now \in Time
  PROVE  Store!Checkout(h, id, now) <=> SP!Checkout(h, id, now)
BY DEF Store!Checkout, Store!CheckoutKnown, Store!CheckoutNew, Store!CheckoutBusy,
       Store!CheckoutSpent, Store!CheckoutFull, Store!Take, Store!Refuse,
       Store!NoopGrant, Store!Live, Store!At, Store!Busy, Store!Spent, Store!Fresh,
       Store!Reachable, Store!Mapped, Store!Victims, Store!LruIdle, Store!Idle,
       Store!AtCapacity, Store!Allocated, Store!NewEntry, Store!Reserve,
       Store!Cardinality,
       SP!Checkout, SP!CheckoutKnown, SP!CheckoutNew, SP!CheckoutBusy,
       SP!CheckoutSpent, SP!CheckoutFull, SP!Take, SP!Refuse,
       SP!NoopGrant, SP!Live, SP!At, SP!Busy, SP!Spent, SP!Fresh,
       SP!Reachable, SP!Mapped, SP!Victims, SP!LruIdle, SP!Idle,
       SP!AtCapacity, SP!Allocated, SP!NewEntry, SP!Reserve, SP!Cardinality

LEMMA SameStoreSteps ==
  ASSUME NEW h \in Handlers
  PROVE  /\ Store!Release(h) <=> SP!Release(h)
         /\ Store!Drop(h) <=> SP!Drop(h)
         /\ \A m \in Histories : Store!WriteMessages(h, m) <=> SP!WriteMessages(h, m)
BY DEF Store!Release, SP!Release, Store!Returned, SP!Returned, Store!Drop, SP!Drop,
       Store!NoopGrant, SP!NoopGrant, Store!WriteMessages, SP!WriteMessages,
       Store!Holders, SP!Holders

LEMMA SameSweep ==
  ASSUME NEW now \in Time
  PROVE  Store!Sweep(now) <=> SP!Sweep(now)
BY DEF Store!Sweep, SP!Sweep, Store!Live, SP!Live, Store!At, SP!At, Store!Overdue,
       SP!Overdue, Store!Expired, SP!Expired, Store!Cardinality, SP!Cardinality

LEMMA SameStoreInit == Store!Init <=> SP!Init
BY DEF Store!Init, SP!Init, Store!Unallocated, SP!Unallocated, Store!NewEntry,
       SP!NewEntry, Store!NoopGrant, SP!NoopGrant

LEMMA SameLimiterSteps ==
  /\ \A h \in Handlers, ip \in IPs, now \in Time :
       Lim!Acquire(h, ip, now) <=> LP!Acquire(h, ip, now)
  /\ \A h \in Handlers : Lim!Release(h) <=> LP!Release(h)
  /\ \A h \in Handlers : Lim!Drop(h) <=> LP!Drop(h)
  /\ \A now \in Time : Lim!Sweep(now) <=> LP!Sweep(now)
  /\ Lim!Init <=> LP!Init
BY DEF Lim!Acquire, LP!Acquire, Lim!Admit, LP!Admit, Lim!RefuseQuota, LP!RefuseQuota,
       Lim!RefuseBusy, LP!RefuseBusy, Lim!WindowAt, LP!WindowAt, Lim!Rolled, LP!Rolled,
       Lim!Known, LP!Known, Lim!Exhausted, LP!Exhausted, Lim!Full, LP!Full,
       Lim!PutWindow, LP!PutWindow, Lim!Release, LP!Release, Lim!Drop, LP!Drop,
       Lim!Sweep, LP!Sweep, Lim!Init, LP!Init

-----------------------------------------------------------------------------
(* Every step of the server is a step of each component *)

LEMMA StepIsStoreStep == LocalsOK /\ [Next]_vars => [SP!Next]_(SP!vars)
<1> SUFFICES ASSUME LocalsOK, [Next]_vars PROVE [SP!Next]_(SP!vars)
  OBVIOUS
<1>1. ASSUME UNCHANGED storeVars PROVE [SP!Next]_(SP!vars)
  BY <1>1 DEF storeVars, SP!vars
<1>2. ASSUME NEW h \in Handlers, Checkout(h) PROVE SP!Next
  <2>1. req[h].id \in Ids /\ req[h].now \in Time
    BY DEF LocalsOK, Request
  <2> QED BY <1>2, <2>1, SameCheckout DEF Checkout, SP!Next
<1>3. ASSUME NEW h \in Handlers, Commit(h) PROVE SP!Next
  <2>1. base[h] + 1 \in Histories
    BY DEF LocalsOK, Histories
  <2> QED BY <1>3, <2>1, SameStoreSteps DEF Commit, SP!Next
<1>4. ASSUME NEW h \in Handlers, FreeSession(h) PROVE [SP!Next]_(SP!vars)
  BY <1>1, <1>4, SameStoreSteps DEF FreeSession, SP!Next
<1>5. ASSUME NEW h \in Handlers, Leave(h) PROVE SP!Next
  BY <1>5, SameStoreSteps DEF Leave, SP!Next
<1>6. ASSUME NEW now \in Time, SweepSessions(now) PROVE SP!Next
  BY <1>6, SameSweep DEF SweepSessions, SP!Next
<1> QED
  BY <1>1, <1>2, <1>3, <1>4, <1>5, <1>6
  DEF Next, Prologue, Epilogue, Arrive, Acquire, NoFlusher, StartRun, EndRun, SendDone,
      FreeSlot, SweepWindows, Tick, vars

LEMMA StepIsLimiterStep == LocalsOK /\ [Next]_vars => [LP!Next]_(LP!vars)
<1> SUFFICES ASSUME LocalsOK, [Next]_vars PROVE [LP!Next]_(LP!vars)
  OBVIOUS
<1>1. ASSUME UNCHANGED limiterVars PROVE [LP!Next]_(LP!vars)
  BY <1>1 DEF limiterVars, LP!vars
<1>2. ASSUME NEW h \in Handlers, Acquire(h) PROVE LP!Next
  <2>1. req[h].ip \in IPs /\ req[h].now \in Time
    BY DEF LocalsOK, Request
  <2> QED BY <1>2, <2>1, SameLimiterSteps DEF Acquire, LP!Next
<1>3. ASSUME NEW h \in Handlers, FreeSlot(h) PROVE LP!Next
  BY <1>3, SameLimiterSteps DEF FreeSlot, LP!Next
<1>4. ASSUME NEW h \in Handlers, Leave(h) PROVE LP!Next
  BY <1>4, SameLimiterSteps DEF Leave, LP!Next
<1>5. ASSUME NEW now \in Time, SweepWindows(now) PROVE LP!Next
  BY <1>5, SameLimiterSteps DEF SweepWindows, LP!Next
<1> QED
  BY <1>1, <1>2, <1>3, <1>4, <1>5
  DEF Next, Prologue, Epilogue, Arrive, Checkout, NoFlusher, StartRun, EndRun, Commit,
      SendDone, FreeSession, SweepSessions, Tick, vars

-----------------------------------------------------------------------------
(* What the components' steps do to a handler's hands *)

LEMMA CheckoutGrant ==
  ASSUME SP!TypeOK, NEW h \in Handlers, NEW id \in Ids, NEW now \in Time,
         SP!Checkout(h, id, now)
  PROVE  /\ \A k \in Handlers \ {h} : grant'[k] = grant[k]
         /\ grant'[h].err = "none" => ~grant'[h].released
         /\ grant'[h].err # "none" => grant'[h].released /\ grant'[h].entry = Nil
         /\ grant'[h].err = "storeFull" => SP!CheckoutFull(h, id)
<1>1. grant \in [Handlers -> SP!Grant]
  BY DEF SP!TypeOK
<1>2. ASSUME NEW r, NEW e, SP!Take(h, r, e, now)
      PROVE  /\ \A k \in Handlers \ {h} : grant'[k] = grant[k]
             /\ grant'[h].err = "none" /\ ~grant'[h].released
  BY <1>1, <1>2 DEF SP!Take
<1>3. ASSUME NEW err, SP!Refuse(h, err)
      PROVE  /\ \A k \in Handlers \ {h} : grant'[k] = grant[k]
             /\ grant'[h].err = err /\ grant'[h].released /\ grant'[h].entry = Nil
  BY <1>1, <1>3 DEF SP!Refuse, SP!NoopGrant
<1>4. CASE SP!CheckoutKnown(h, id, now) \/ SP!CheckoutNew(h, id, now)
  BY <1>2, <1>4 DEF SP!CheckoutKnown, SP!CheckoutNew
<1>5. CASE SP!CheckoutBusy(h, id)
  BY <1>3, <1>5 DEF SP!CheckoutBusy
<1>6. CASE SP!CheckoutSpent(h, id)
  BY <1>3, <1>6 DEF SP!CheckoutSpent
<1>7. CASE SP!CheckoutFull(h, id)
  BY <1>3, <1>7 DEF SP!CheckoutFull
<1> QED BY <1>4, <1>5, <1>6, <1>7 DEF SP!Checkout

LEMMA ReleaseGrant ==
  ASSUME SP!TypeOK, NEW h \in Handlers, SP!Release(h)
  PROVE  /\ \A k \in Handlers \ {h} : grant'[k] = grant[k]
         /\ grant'[h].released /\ grant'[h].err = grant[h].err
BY DEF SP!TypeOK, SP!Release, SP!Grant

LEMMA DropGrant ==
  ASSUME SP!TypeOK, NEW h \in Handlers, SP!Drop(h)
  PROVE  /\ \A k \in Handlers \ {h} : grant'[k] = grant[k]
         /\ grant'[h].entry = Nil /\ grant'[h].err = "none"
BY DEF SP!TypeOK, SP!Drop, SP!NoopGrant

LEMMA AcquireSlot ==
  ASSUME LP!TypeOK, NEW h \in Handlers, NEW ip \in IPs, NEW now \in Time,
         LP!Acquire(h, ip, now)
  PROVE  /\ \A k \in Handlers \ {h} : slot'[k] = slot[k]
         /\ slot'[h] \in {"held", "quota", "busy"}
BY DEF LP!TypeOK, LP!Acquire, LP!Admit, LP!RefuseQuota, LP!RefuseBusy

LEMMA FreedSlot ==
  ASSUME LP!TypeOK, NEW h \in Handlers
  PROVE  /\ LP!Release(h) => /\ \A k \in Handlers \ {h} : slot'[k] = slot[k]
                             /\ slot'[h] = "released"
         /\ LP!Drop(h) => /\ \A k \in Handlers \ {h} : slot'[k] = slot[k]
                          /\ slot'[h] = "none"
BY DEF LP!TypeOK, LP!Release, LP!Drop

(* A caller that gave its entry back, or never got one, has nothing to     *)
(* release.                                                                *)
LEMMA NilIsReleased ==
  ASSUME SP!IInv, NEW h \in Handlers, grant[h].entry = Nil
  PROVE  grant[h].released
BY DEF SP!IInv, SP!HolderMarked, SP!Holders

-----------------------------------------------------------------------------
(* The server's inductive invariant *)

Inv == SP!IInv /\ LP!IInv /\ LocalsOK /\ HandsMatchPc /\ StoreNeverFull

(* Holders and the handler about to check out occupy different slots, so   *)
(* the store cannot be full of held sessions.                              *)
LEMMA RoomToCheckOut ==
  ASSUME Inv, MaxConcurrent <= MaxSessions, NEW h \in Handlers, pc[h] = "checkout",
         NEW id \in Ids, SP!CheckoutFull(h, id)
  PROVE  FALSE
<1>1. Cardinality(SP!Live) <= Cardinality(SP!Holders)
  <2>1. SP!Cardinality(SP!Live) <= SP!Cardinality(SP!Holders)
    BY StoreConstants, SP!HoldersCoverFlagged DEF SP!CheckoutFull, Inv
  <2> QED BY <2>1 DEF SP!Cardinality, Cardinality
<1>2. Cardinality(SP!Live) >= MaxSessions
  <2>1. SP!Cardinality(SP!Live) >= MaxSessions
    BY DEF SP!CheckoutFull, SP!AtCapacity
  <2> QED BY <2>1 DEF SP!Cardinality, Cardinality
<1>3. SP!Holders \cup {h} \subseteq LP!Inside /\ h \notin SP!Holders
  <2>1. \A k \in Handlers : ~grant[k].released => slot[k] = "held"
    BY DEF Inv, HandsMatchPc, Hands, LocalsOK, Steps, SP!IInv, SP!HolderMarked, SP!Holders
  <2> QED
    BY <2>1, NilIsReleased DEF Inv, HandsMatchPc, Hands, SP!Holders, LP!Inside
<1>4. inFlight = Cardinality(LP!Inside) /\ inFlight <= MaxConcurrent
  <2>1. inFlight = LP!Cardinality(LP!Inside) /\ inFlight <= MaxConcurrent
    BY DEF Inv, LP!IInv, LP!SlotsAccounted
  <2> QED BY <2>1 DEF LP!Cardinality, Cardinality
<1>5. IsFiniteSet(LP!Inside) /\ IsFiniteSet(SP!Holders)
  BY ServerAssumption, FS_Subset DEF LP!Inside, SP!Holders
<1>6. Cardinality(SP!Holders \cup {h}) = Cardinality(SP!Holders) + 1
  BY <1>3, <1>5, FS_AddElement
<1>7. Cardinality(SP!Holders \cup {h}) <= Cardinality(LP!Inside)
  BY <1>3, <1>5, FS_Subset
<1>8. Cardinality(SP!Holders) \in Nat /\ Cardinality(LP!Inside) \in Nat
  BY <1>5, FS_CardinalityType
<1>9. IsFiniteSet(SP!Live)
  BY ServerAssumption, FS_Subset DEF Inv, SP!IInv, SP!TypeOK
<1>10. Cardinality(SP!Live) \in Nat
  BY <1>9, FS_CardinalityType
<1> QED
  BY <1>1, <1>2, <1>4, <1>6, <1>7, <1>8, <1>10, ServerAssumption

LEMMA InvInit == Init => Inv
<1> SUFFICES ASSUME Init PROVE Inv
  OBVIOUS
<1>1. SP!IInv
  BY StoreConstants, SP!InvInit, SameStoreInit DEF Init
<1>2. LP!IInv
  BY LimiterConstants, LimiterClock, LP!InvInit, SameLimiterSteps DEF Init
<1>3. LocalsOK
  <2>1. (CHOOSE i \in IPs : TRUE) \in IPs /\ (CHOOSE i \in Ids : TRUE) \in Ids
    BY ServerAssumption
  <2>2. 0 \in Time /\ 0 \in Histories
    BY ServerAssumption DEF Time, Histories
  <2> QED BY <2>1, <2>2 DEF Init, LocalsOK, Steps, Request
<1>4. \A h \in Handlers : /\ grant[h].entry = Nil /\ grant[h].err = "none"
                          /\ slot[h] = "none" /\ pc[h] = "idle"
  BY DEF Init, Store!Init, Store!NoopGrant, Lim!Init
<1>5. HandsMatchPc
  BY <1>4 DEF HandsMatchPc, Hands
<1>6. StoreNeverFull
  BY <1>4 DEF StoreNeverFull
<1> QED BY <1>1, <1>2, <1>3, <1>5, <1>6 DEF Inv

LEMMA LocalsStep == Inv /\ [Next]_vars => LocalsOK'
<1> SUFFICES ASSUME Inv, [Next]_vars PROVE LocalsOK'
  OBVIOUS
<1> USE DEF LocalsOK, Steps, Goto
<1>0. LocalsOK
  BY DEF Inv
<1>1. ASSUME NEW h \in Handlers, NEW ip \in IPs, NEW id \in Ids, Arrive(h, ip, id)
      PROVE  LocalsOK'
  BY <1>0, <1>1 DEF Arrive, Request
<1>2. ASSUME NEW h \in Handlers, Prologue(h) PROVE LocalsOK'
  <2>1. CASE Acquire(h)
    BY <1>0, <2>1 DEF Acquire
  <2>2. CASE Checkout(h)
    BY <1>0, <2>2 DEF Checkout
  <2>3. CASE NoFlusher(h)
    BY <1>0, <2>3 DEF NoFlusher
  <2>4. CASE StartRun(h)
    <3>1. ~grant[h].released
      BY <2>4 DEF StartRun, Inv, HandsMatchPc, Hands
    <3>2. grant[h].entry \in Entries
      BY <3>1 DEF Inv, SP!IInv, SP!HolderMarked, SP!Holders, SP!TypeOK, SP!Grant
    <3>3. heap[grant[h].entry].messages \in Histories
      BY <3>2 DEF Inv, SP!IInv, SP!TypeOK, SP!Entry
    <3> QED BY <1>0, <2>4, <3>3 DEF StartRun
  <2> QED BY <1>2, <2>1, <2>2, <2>3, <2>4 DEF Prologue
<1>3. ASSUME NEW h \in Handlers, EndRun(h) PROVE LocalsOK'
  BY <1>0, <1>3 DEF EndRun
<1>4. ASSUME NEW h \in Handlers, Epilogue(h) PROVE LocalsOK'
  BY <1>0, <1>4 DEF Epilogue, Commit, SendDone, FreeSession, FreeSlot, Leave
<1>5. ASSUME NEW now \in Time, SweepSessions(now) \/ SweepWindows(now) PROVE LocalsOK'
  BY <1>0, <1>5 DEF SweepSessions, SweepWindows
<1>6. ASSUME Tick PROVE LocalsOK'
  BY <1>0, <1>6, ServerAssumption DEF Tick, Time
<1>7. ASSUME UNCHANGED vars PROVE LocalsOK'
  BY <1>0, <1>7 DEF vars
<1> QED BY <1>1, <1>2, <1>3, <1>4, <1>5, <1>6, <1>7 DEF Next

(* A step of handler h leaves what the others have in hand alone. *)
LEMMA OtherHands ==
  ASSUME HandsMatchPc, NEW h \in Handlers, Hands(h)',
         \A k \in Handlers \ {h} : /\ pc'[k] = pc[k]
                                   /\ slot'[k] = slot[k]
                                   /\ grant'[k] = grant[k]
  PROVE  HandsMatchPc'
<1>1. \A k \in Handlers \ {h} : Hands(k)'
  BY DEF HandsMatchPc, Hands
<1> QED BY <1>1 DEF HandsMatchPc

LEMMA HandsStep == Inv /\ [Next]_vars => HandsMatchPc'
<1> SUFFICES ASSUME Inv, [Next]_vars PROVE HandsMatchPc'
  OBVIOUS
<1>0. /\ HandsMatchPc /\ LocalsOK /\ SP!TypeOK /\ LP!TypeOK
      /\ pc \in [Handlers -> Steps]
      /\ \A h \in Handlers : Hands(h)
  BY DEF Inv, SP!IInv, LP!IInv, LocalsOK, HandsMatchPc
<1>1. ASSUME NEW h \in Handlers, NEW ip \in IPs, NEW id \in Ids, Arrive(h, ip, id)
      PROVE  HandsMatchPc'
  <2>1. Hands(h)'
    BY <1>0, <1>1 DEF Arrive, Goto, Hands, limiterVars, storeVars
  <2> QED BY <1>0, <1>1, <2>1, OtherHands DEF Arrive, Goto, limiterVars, storeVars
<1>2. ASSUME NEW h \in Handlers, Acquire(h) PROVE HandsMatchPc'
  <2>1. req[h].ip \in IPs /\ req[h].now \in Time
    BY <1>0 DEF LocalsOK, Request
  <2>2. LP!Acquire(h, req[h].ip, req[h].now)
    BY <1>2, <2>1, SameLimiterSteps DEF Acquire
  <2>3. /\ \A k \in Handlers \ {h} : slot'[k] = slot[k]
        /\ slot'[h] \in {"held", "quota", "busy"}
    BY <1>0, <2>1, <2>2, AcquireSlot
  <2>4. grant[h].entry = Nil /\ grant[h].released
    BY <1>0, <1>2, NilIsReleased DEF Acquire, Hands, Inv
  <2>5. Hands(h)'
    BY <1>0, <1>2, <2>3, <2>4 DEF Acquire, Goto, Hands, storeVars
  <2> QED BY <1>0, <1>2, <2>3, <2>5, OtherHands DEF Acquire, Goto, storeVars
<1>3. ASSUME NEW h \in Handlers, Checkout(h) PROVE HandsMatchPc'
  <2>1. req[h].id \in Ids /\ req[h].now \in Time
    BY <1>0 DEF LocalsOK, Request
  <2>2. SP!Checkout(h, req[h].id, req[h].now)
    BY <1>3, <2>1, SameCheckout DEF Checkout
  <2>3. /\ \A k \in Handlers \ {h} : grant'[k] = grant[k]
        /\ grant'[h].err = "none" => ~grant'[h].released
    BY <1>0, <2>1, <2>2, CheckoutGrant
  <2>4. Hands(h)'
    BY <1>0, <1>3, <2>3 DEF Checkout, Goto, Hands, limiterVars
  <2> QED BY <1>0, <1>3, <2>3, <2>4, OtherHands DEF Checkout, Goto, limiterVars
<1>4. ASSUME NEW h \in Handlers, NoFlusher(h) \/ StartRun(h) \/ EndRun(h) \/ SendDone(h)
      PROVE  HandsMatchPc'
  <2>1. Hands(h)'
    BY <1>0, <1>4 DEF NoFlusher, StartRun, EndRun, SendDone, Goto, Hands, limiterVars,
                      storeVars
  <2> QED
    BY <1>0, <1>4, <2>1, OtherHands
    DEF NoFlusher, StartRun, EndRun, SendDone, Goto, limiterVars, storeVars
<1>5. ASSUME NEW h \in Handlers, Commit(h) PROVE HandsMatchPc'
  <2>1. grant' = grant /\ slot' = slot
    BY <1>5 DEF Commit, Store!WriteMessages, limiterVars
  <2>2. Hands(h)'
    BY <1>0, <1>5, <2>1 DEF Commit, Goto, Hands
  <2> QED BY <1>0, <1>5, <2>1, <2>2, OtherHands DEF Commit, Goto
<1>6. ASSUME NEW h \in Handlers, FreeSession(h) PROVE HandsMatchPc'
  <2>1. /\ \A k \in Handlers \ {h} : grant'[k] = grant[k]
        /\ grant'[h].released
    <3>1. CASE grant[h].entry = Nil
      BY <1>6, <3>1, NilIsReleased DEF FreeSession, storeVars, Inv
    <3>2. CASE grant[h].entry # Nil
      <4>1. SP!Release(h)
        BY <1>6, <3>2, SameStoreSteps DEF FreeSession
      <4> QED BY <1>0, <4>1, ReleaseGrant
    <3> QED BY <3>1, <3>2
  <2>2. Hands(h)'
    BY <1>0, <1>6, <2>1 DEF FreeSession, Goto, Hands, limiterVars
  <2> QED BY <1>0, <1>6, <2>1, <2>2, OtherHands DEF FreeSession, Goto, limiterVars
<1>7. ASSUME NEW h \in Handlers, FreeSlot(h) PROVE HandsMatchPc'
  <2>1. LP!Release(h)
    BY <1>7, SameLimiterSteps DEF FreeSlot
  <2>2. slot'[h] = "released" /\ \A k \in Handlers \ {h} : slot'[k] = slot[k]
    BY <1>0, <2>1, FreedSlot
  <2>3. Hands(h)'
    BY <1>0, <1>7, <2>2 DEF FreeSlot, Goto, Hands, storeVars
  <2> QED BY <1>0, <1>7, <2>2, <2>3, OtherHands DEF FreeSlot, Goto, storeVars
<1>8. ASSUME NEW h \in Handlers, Leave(h) PROVE HandsMatchPc'
  <2>1. SP!Drop(h) /\ LP!Drop(h)
    BY <1>8, SameStoreSteps, SameLimiterSteps DEF Leave
  <2>2. slot'[h] = "none" /\ \A k \in Handlers \ {h} : slot'[k] = slot[k]
    BY <1>0, <2>1, FreedSlot
  <2>3. grant'[h].entry = Nil /\ \A k \in Handlers \ {h} : grant'[k] = grant[k]
    BY <1>0, <2>1, DropGrant
  <2>4. Hands(h)'
    BY <1>0, <1>8, <2>2, <2>3 DEF Leave, Goto, Hands
  <2> QED BY <1>0, <1>8, <2>2, <2>3, <2>4, OtherHands DEF Leave, Goto
<1>9. ASSUME UNCHANGED <<pc, slot, grant>> PROVE HandsMatchPc'
  BY <1>0, <1>9 DEF HandsMatchPc, Hands
<1>10. ASSUME NEW now \in Time, SweepSessions(now) \/ SweepWindows(now)
       PROVE  UNCHANGED <<pc, slot, grant>>
  BY <1>10 DEF SweepSessions, SweepWindows, Store!Sweep, Lim!Sweep, storeVars, limiterVars
<1>11. ASSUME Tick \/ UNCHANGED vars PROVE UNCHANGED <<pc, slot, grant>>
  BY <1>11 DEF Tick, vars, storeVars, limiterVars
<1> QED
  BY <1>1, <1>2, <1>3, <1>4, <1>5, <1>6, <1>7, <1>8, <1>9, <1>10, <1>11
  DEF Next, Prologue, Epilogue

LEMMA NeverFullStep == Inv /\ [Next]_vars => StoreNeverFull'
<1> SUFFICES ASSUME Inv, [Next]_vars, MaxConcurrent <= MaxSessions
             PROVE  \A h \in Handlers : grant'[h].err # "storeFull"
  BY DEF StoreNeverFull
<1>0. /\ \A h \in Handlers : grant[h].err # "storeFull"
      /\ LocalsOK /\ SP!TypeOK
  BY DEF Inv, StoreNeverFull, SP!IInv
<1>1. ASSUME UNCHANGED grant PROVE \A h \in Handlers : grant'[h].err # "storeFull"
  BY <1>0, <1>1
<1>2. ASSUME NEW h \in Handlers, Checkout(h)
      PROVE  \A k \in Handlers : grant'[k].err # "storeFull"
  <2>1. req[h].id \in Ids /\ req[h].now \in Time
    BY <1>0 DEF LocalsOK, Request
  <2>2. SP!Checkout(h, req[h].id, req[h].now) /\ pc[h] = "checkout"
    BY <1>2, <2>1, SameCheckout DEF Checkout
  <2>3. /\ \A k \in Handlers \ {h} : grant'[k] = grant[k]
        /\ grant'[h].err = "storeFull" => SP!CheckoutFull(h, req[h].id)
    BY <1>0, <2>1, <2>2, CheckoutGrant
  <2>4. grant'[h].err # "storeFull"
    BY <2>1, <2>2, <2>3, RoomToCheckOut
  <2> QED BY <1>0, <2>3, <2>4
<1>3. ASSUME NEW h \in Handlers, FreeSession(h)
      PROVE  \A k \in Handlers : grant'[k].err # "storeFull"
  <2>1. CASE grant[h].entry = Nil
    BY <1>1, <1>3, <2>1 DEF FreeSession, storeVars
  <2>2. CASE grant[h].entry # Nil
    <3>1. SP!Release(h)
      BY <1>3, <2>2, SameStoreSteps DEF FreeSession
    <3> QED BY <1>0, <3>1, ReleaseGrant
  <2> QED BY <2>1, <2>2
<1>4. ASSUME NEW h \in Handlers, Leave(h)
      PROVE  \A k \in Handlers : grant'[k].err # "storeFull"
  <2>1. SP!Drop(h)
    BY <1>4, SameStoreSteps DEF Leave
  <2>2. grant'[h].err = "none" /\ \A k \in Handlers \ {h} : grant'[k] = grant[k]
    BY <1>0, <2>1, DropGrant
  <2> QED BY <1>0, <2>2
<1>5. ASSUME NEW h \in Handlers, Commit(h) PROVE UNCHANGED grant
  BY <1>5 DEF Commit, Store!WriteMessages
<1>6. ASSUME NEW now \in Time, SweepSessions(now) PROVE UNCHANGED grant
  BY <1>6 DEF SweepSessions, Store!Sweep
<1> QED
  BY <1>1, <1>2, <1>3, <1>4, <1>5, <1>6
  DEF Next, Prologue, Epilogue, Arrive, Acquire, NoFlusher, StartRun, EndRun, SendDone,
      FreeSlot, SweepWindows, Tick, vars, storeVars

LEMMA InvStep == Inv /\ [Next]_vars => Inv'
<1> SUFFICES ASSUME Inv, [Next]_vars PROVE Inv'
  OBVIOUS
<1>1. SP!IInv'
  <2>1. SP!IInv /\ [SP!Next]_(SP!vars)
    BY StepIsStoreStep DEF Inv
  <2> QED BY <2>1, StoreConstants, SP!InvStep
<1>2. LP!IInv'
  <2>1. LP!IInv /\ [LP!Next]_(LP!vars)
    BY StepIsLimiterStep DEF Inv
  <2> QED BY <2>1, LimiterConstants, LimiterClock, LP!InvStep
<1> QED BY <1>1, <1>2, LocalsStep, HandsStep, NeverFullStep DEF Inv

LEMMA Invariance == Spec => []Inv
<1> QED BY InvInit, InvStep, PTL DEF Spec

-----------------------------------------------------------------------------
(* What the server promises *)

(* The state of the server has its type: that of its store, of its         *)
(* limiter and of its handlers' locals.                                    *)
THEOREM TypeCorrect == Spec => []TypeOK
<1>1. Inv => TypeOK
  <2> SUFFICES ASSUME Inv PROVE TypeOK
    OBVIOUS
  <2>1. Store!TypeOK
    BY DEF Inv, SP!IInv, SP!TypeOK, Store!TypeOK, SP!Live, Store!Live, SP!Entry,
           Store!Entry, SP!Grant, Store!Grant, SP!Errors, Store!Errors
  <2>2. Lim!TypeOK
    BY DEF Inv, LP!IInv, LP!TypeOK, Lim!TypeOK, LP!Known, Lim!Known, LP!Window,
           Lim!Window, LP!Slots, Lim!Slots
  <2> QED BY <2>1, <2>2 DEF Inv, TypeOK
<1> QED BY <1>1, Invariance, PTL

(* store.go:19-26: with the concurrency cap at most the session cap, no    *)
(* visitor is ever refused because every session is checked out.           *)
THEOREM NeverFull == Spec => []StoreNeverFull
<1> QED BY Invariance, PTL DEF Inv

(* server.go:145-151: a handler that holds a session holds its slot too.   *)
THEOREM SlotsCoverSessions == Spec => []HoldersHaveSlots
<1>1. Inv => HoldersHaveSlots
  <2> SUFFICES ASSUME Inv, NEW h \in Handlers, ~grant[h].released
               PROVE  slot[h] = "held"
    BY DEF HoldersHaveSlots, Store!Holders, Lim!Inside
  <2>1. grant[h].entry # Nil
    BY NilIsReleased DEF Inv
  <2> QED BY <2>1 DEF Inv, HandsMatchPc, Hands, LocalsOK, Steps
<1> QED BY <1>1, Invariance, PTL

(* server.go:145-164: when no handler is running every slot is free and    *)
(* every session in the store can be checked out.                          *)
THEOREM NothingLeaks == Spec => []QuiescentIsFree
<1>1. Inv => QuiescentIsFree
  <2> SUFFICES ASSUME Inv, \A h \in Handlers : pc[h] = "idle" PROVE QuiescentIsFree
    BY DEF QuiescentIsFree
  <2>1. \A h \in Handlers : slot[h] = "none" /\ grant[h].released
    BY NilIsReleased DEF Inv, HandsMatchPc, Hands
  <2>2. inFlight = 0
    <3>1. inFlight = LP!Cardinality(LP!Inside)
      BY DEF Inv, LP!IInv, LP!SlotsAccounted
    <3>2. inFlight = Cardinality(LP!Inside)
      BY <3>1 DEF LP!Cardinality, Cardinality
    <3>3. LP!Inside = {}
      BY <2>1 DEF LP!Inside
    <3> QED BY <3>2, <3>3, FS_EmptySet
  <2>3. \A i \in Store!Live : ~Store!At(i).checkedOut
    <3>1. SP!FlagMatchesHolder /\ SP!Holders = {}
      BY <2>1 DEF Inv, SP!IInv, SP!Holders
    <3>2. SP!TypeOK
      BY DEF Inv, SP!IInv
    <3>3. \A i \in SP!Live : ~SP!At(i).checkedOut
      BY <3>1 DEF SP!FlagMatchesHolder
    <3> QED BY <3>3 DEF SP!Live, Store!Live, SP!At, Store!At
  <2> QED BY <2>2, <2>3 DEF QuiescentIsFree
<1> QED BY <1>1, Invariance, PTL

(* The server drives the store as the store's own specification allows: it *)
(* checks out with nothing in hand, writes only what it holds, and so on.  *)
THEOREM ServerUsesStore == Spec => SP!Spec
<1>1. Init => SP!Init
  BY SameStoreInit DEF Init
<1>2. Inv /\ [Next]_vars => [SP!Next]_(SP!vars)
  BY StepIsStoreStep DEF Inv
<1> QED BY <1>1, <1>2, Invariance, PTL DEF Spec, SP!Spec

-----------------------------------------------------------------------------
(* What a handler can rely on while it has its session *)

(* The clock reading a handler checks out with is at most MaxLag old. *)
Recent(h) == pc[h] \in {"acquire", "checkout"} =>
               req[h].now <= clock /\ clock <= req[h].now + MaxLag

(* A holder's lease runs from its request's clock reading; its session is  *)
(* in the map unless it has overrun, with its eviction counted; and the    *)
(* history in it is the one its run started from, then the one it wrote.   *)
Lease(h) ==
  LET r == grant[h].entry IN
  /\ since[h] <= clock /\ since[h] <= heap[r].checkedOutAt + MaxLag
  /\ r \in SP!Mapped \/ (Overran(h) /\ forcedEvictions > 0)
  /\ pc[h] \in {"running", "commit"} => heap[r].messages = base[h]
  /\ pc[h] = "done" => heap[r].messages = base[h] + 1

LeaseInv ==
  /\ \A h \in Handlers : Recent(h)
  /\ \A h \in SP!Holders : Lease(h)

LEMMA ClockAdvances == LocalsOK /\ [Next]_vars => clock \in Nat /\ clock' \in Nat /\ clock' >= clock
<1> SUFFICES ASSUME LocalsOK, [Next]_vars
             PROVE  clock \in Nat /\ clock' \in Nat /\ clock' >= clock
  OBVIOUS
<1>1. clock \in Nat
  BY ServerAssumption DEF LocalsOK, Time
<1>2. clock' = clock \/ clock' = clock + 1
  BY DEF Next, Prologue, Epilogue, Arrive, Acquire, Checkout, NoFlusher, StartRun,
         EndRun, Commit, SendDone, FreeSession, FreeSlot, Leave, SweepSessions,
         SweepWindows, Tick, vars
<1> QED BY <1>1, <1>2

LEMMA RecentStep == Inv /\ LeaseInv /\ [Next]_vars => \A h \in Handlers : Recent(h)'
<1> SUFFICES ASSUME Inv, LeaseInv, [Next]_vars, NEW h \in Handlers PROVE Recent(h)'
  OBVIOUS
<1>1. /\ pc \in [Handlers -> Steps] /\ req \in [Handlers -> Request]
      /\ clock \in Nat /\ req[h].now \in Nat /\ Recent(h) /\ MaxLag \in Nat
  BY ServerAssumption DEF Inv, LocalsOK, LeaseInv, Time, Request
<1>2. ASSUME NEW k \in Handlers, NEW ip \in IPs, NEW id \in Ids, Arrive(k, ip, id)
      PROVE  Recent(h)'
  BY <1>1, <1>2 DEF Arrive, Goto, Recent
<1>3. ASSUME UNCHANGED clock, UNCHANGED req,
             pc'[h] = pc[h] \/ pc'[h] \notin {"acquire", "checkout"} \/ pc[h] = "acquire"
      PROVE  Recent(h)'
  BY <1>1, <1>3 DEF Recent
<1>4. ASSUME Tick PROVE Recent(h)'
  BY <1>1, <1>4 DEF Tick, Prompt, Recent
<1>5. ASSUME NEW k \in Handlers, Prologue(k) \/ EndRun(k) \/ Epilogue(k) PROVE Recent(h)'
  <2>1. UNCHANGED clock /\ UNCHANGED req
    BY <1>5 DEF Prologue, Epilogue, Acquire, Checkout, NoFlusher, StartRun, EndRun,
                Commit, SendDone, FreeSession, FreeSlot, Leave
  <2>2. pc'[h] = pc[h] \/ pc'[h] \notin {"acquire", "checkout"} \/ pc[h] = "acquire"
    BY <1>1, <1>5 DEF Prologue, Epilogue, Acquire, Checkout, NoFlusher, StartRun, EndRun,
                      Commit, SendDone, FreeSession, FreeSlot, Leave, Goto
  <2> QED BY <1>3, <2>1, <2>2
<1>6. ASSUME NEW now \in Time, SweepSessions(now) \/ SweepWindows(now) PROVE Recent(h)'
  BY <1>3, <1>6 DEF SweepSessions, SweepWindows
<1>7. ASSUME UNCHANGED vars PROVE Recent(h)'
  BY <1>3, <1>7 DEF vars
<1> QED BY <1>2, <1>4, <1>5, <1>6, <1>7 DEF Next

(* A holder has an entry of the heap. *)
LEMMA HolderHasEntry ==
  ASSUME Inv, NEW h \in SP!Holders
  PROVE  /\ h \in Handlers /\ ~grant[h].released
         /\ grant[h].entry \in Entries /\ grant[h].entry # Nil
         /\ heap[grant[h].entry].checkedOutAt \in Nat
         /\ heap[grant[h].entry].messages \in Nat
<1>1. grant[h].entry \in Entries /\ h \in Handlers /\ grant[h].entry # Nil
      /\ ~grant[h].released
  BY DEF Inv, SP!IInv, SP!HolderMarked, SP!Holders, SP!TypeOK, SP!Grant
<1>2. heap[grant[h].entry] \in SP!Entry
  BY <1>1 DEF Inv, SP!IInv, SP!TypeOK
<1>3. Time \subseteq Nat
  BY ServerAssumption DEF Time
<1> QED BY <1>1, <1>2, <1>3 DEF SP!Entry, Histories

(* A session that leaves the map while it is held had its handler overrun. *)
LEMMA LeaseEndsOverrun ==
  ASSUME Inv, LeaseInv, [Next]_vars, NEW h \in SP!Holders,
         grant[h].entry \in SP!Mapped, grant[h].entry \notin SP!Mapped'
  PROVE  Overran(h)
<1> DEFINE at == heap[grant[h].entry].checkedOutAt
<1>1. [SP!Next]_(SP!vars) /\ SP!IInv
  BY StepIsStoreStep DEF Inv
<1>2. /\ \A k \in Handlers, id \in Ids, now \in Time : ~SP!Checkout(k, id, now)
      /\ sessions' # sessions
      /\ \A now \in Time : SP!Sweep(now) => now - at > CheckoutDeadline
  BY <1>1, StoreConstants, SP!LeaseEndsLate
<1>3. PICK now \in Time : SweepSessions(now)
  <2>1. ASSUME NEW k \in Handlers, Checkout(k) PROVE FALSE
    <3>1. req[k].id \in Ids /\ req[k].now \in Time
      BY DEF Inv, LocalsOK, Request
    <3> QED BY <1>2, <2>1, <3>1, SameCheckout DEF Checkout
  <2> QED
    BY <1>2, <2>1 DEF Next, Prologue, Epilogue, Arrive, Acquire, NoFlusher, StartRun,
                      EndRun, Commit, SendDone, FreeSession, FreeSlot, Leave,
                      SweepWindows, Tick, vars, storeVars, Store!WriteMessages,
                      Store!Release, Store!Drop
<1>4. now <= clock /\ now - at > CheckoutDeadline
  BY <1>2, <1>3, SameSweep DEF SweepSessions
<1>5. since[h] <= at + MaxLag
  BY DEF LeaseInv, Lease
<1>6. {now, clock, since[h], at, MaxLag, CheckoutDeadline} \subseteq Nat
  BY HolderHasEntry, ServerAssumption DEF Inv, LocalsOK, Time
<1> HIDE DEF at
<1> QED BY <1>4, <1>5, <1>6 DEF Overran

(* A step that neither moves a holder nor writes for it keeps its lease. *)
LEMMA LeaseKept ==
  ASSUME Inv, LeaseInv, [Next]_vars, NEW h \in SP!Holders, SP!OthersStep(h),
         pc'[h] = pc[h], base'[h] = base[h], since'[h] = since[h]
  PROVE  Lease(h)'
<1> DEFINE r == grant[h].entry
<1>1. /\ grant'[h].entry = r
      /\ heap'[r].messages = heap[r].messages
      /\ heap'[r].checkedOutAt = heap[r].checkedOutAt
  BY StoreConstants, SP!HeldEntryKept DEF Inv
<1>2. since[h] <= clock /\ since[h] \in Nat
  BY HolderHasEntry, ServerAssumption DEF LeaseInv, Lease, Inv, LocalsOK, Time
<1>3. Overran(h) => Overran(h)'
  <2>1. {MaxLag, CheckoutDeadline} \subseteq Nat /\ clock \in Nat /\ clock' \in Nat /\ clock' >= clock
    BY ServerAssumption, ClockAdvances DEF Inv
  <2> QED BY <1>2, <2>1 DEF Overran
<1>4. r \in SP!Mapped' \/ (Overran(h)' /\ forcedEvictions' > 0)
  <2>1. [SP!Next]_(SP!vars) /\ SP!IInv
    BY StepIsStoreStep DEF Inv
  <2>2. forcedEvictions \in Nat /\ forcedEvictions' \in Nat
    BY InvStep DEF Inv, SP!IInv, SP!TypeOK
  <2>3. forcedEvictions' >= forcedEvictions
    BY <2>1, StoreConstants, SP!EvictionsGrow
  <2>4. CASE r \in SP!Mapped /\ r \notin SP!Mapped'
    <3>1. forcedEvictions' > 0
      BY <2>1, <2>2, <2>4, StoreConstants, SP!LeaseEndsLate
    <3> QED BY <1>3, <2>4, <3>1, LeaseEndsOverrun
  <2>5. r \in SP!Mapped \/ (Overran(h) /\ forcedEvictions > 0)
    BY DEF LeaseInv, Lease
  <2> QED BY <1>3, <2>2, <2>3, <2>4, <2>5
<1>5. since'[h] <= clock'
  BY <1>2, ClockAdvances DEF Inv
<1>6. /\ since[h] <= heap[r].checkedOutAt + MaxLag
      /\ pc[h] \in {"running", "commit"} => heap[r].messages = base[h]
      /\ pc[h] = "done" => heap[r].messages = base[h] + 1
  BY DEF LeaseInv, Lease
<1> QED BY <1>1, <1>4, <1>5, <1>6 DEF Lease

(* What the others' steps are to the store. *)
LEMMA StepOfOthers ==
  ASSUME Inv, NEW h \in Handlers,
         \/ UNCHANGED storeVars
         \/ \E k \in Handlers : Checkout(k) \/ FreeSession(k) \/ Leave(k)
         \/ \E k \in Handlers \ {h} : Commit(k)
         \/ \E now \in Time : SweepSessions(now)
  PROVE  SP!OthersStep(h)
<1>1. CASE UNCHANGED storeVars
  BY <1>1 DEF storeVars, SP!vars, SP!OthersStep
<1>2. ASSUME NEW k \in Handlers, Checkout(k) PROVE SP!OthersStep(h)
  <2>1. req[k].id \in Ids /\ req[k].now \in Time
    BY DEF Inv, LocalsOK, Request
  <2> QED BY <1>2, <2>1, SameCheckout DEF Checkout, SP!OthersStep
<1>3. ASSUME NEW k \in Handlers, FreeSession(k) PROVE SP!OthersStep(h)
  BY <1>1, <1>3, SameStoreSteps DEF FreeSession, SP!OthersStep
<1>4. ASSUME NEW k \in Handlers, Leave(k) PROVE SP!OthersStep(h)
  BY <1>4, SameStoreSteps DEF Leave, SP!OthersStep
<1>5. ASSUME NEW k \in Handlers \ {h}, Commit(k) PROVE SP!OthersStep(h)
  <2>1. base[k] + 1 \in Histories
    BY DEF Inv, LocalsOK, Histories
  <2> QED BY <1>5, <2>1, SameStoreSteps DEF Commit, SP!OthersStep
<1>6. ASSUME NEW now \in Time, SweepSessions(now) PROVE SP!OthersStep(h)
  BY <1>6, SameSweep DEF SweepSessions, SP!OthersStep
<1> QED BY <1>1, <1>2, <1>3, <1>4, <1>5, <1>6

(* A step of another, or of nobody: h is a holder after it only if it was  *)
(* one before.                                                             *)
LEMMA BystanderLease ==
  ASSUME Inv, LeaseInv, [Next]_vars, NEW h \in Handlers, h \in SP!Holders',
         grant'[h] = grant[h], SP!OthersStep(h),
         pc'[h] = pc[h], base'[h] = base[h], since'[h] = since[h]
  PROVE  Lease(h)'
<1>1. h \in SP!Holders
  BY DEF SP!Holders
<1> QED BY <1>1, LeaseKept

(* A successful checkout starts a lease. *)
LEMMA LeaseStarts ==
  ASSUME Inv, LeaseInv, NEW h \in Handlers, Checkout(h), h \in SP!Holders'
  PROVE  Lease(h)'
<1>1. req[h].id \in Ids /\ req[h].now \in Time /\ grant \in [Handlers -> SP!Grant]
      /\ SP!TypeOK /\ SP!IInv
  BY DEF Inv, SP!IInv, SP!TypeOK, LocalsOK, Request
<1>2. SP!Checkout(h, req[h].id, req[h].now) /\ pc[h] = "checkout"
  BY <1>1, SameCheckout DEF Checkout
<1>3. grant'[h].err = "none"
  BY <1>1, <1>2, CheckoutGrant DEF SP!Holders
<1>4. /\ grant'[h].entry \in SP!Mapped'
      /\ heap'[grant'[h].entry].checkedOutAt = req[h].now
  BY <1>1, <1>2, <1>3, StoreConstants, SP!CheckoutGives
<1>5. clock <= req[h].now + MaxLag
  BY <1>2 DEF LeaseInv, Recent
<1>6. since'[h] = clock /\ clock' = clock /\ pc'[h] = "prepare"
  BY <1>3 DEF Checkout, Goto, Inv, LocalsOK
<1>7. clock \in Nat
  BY ServerAssumption DEF Inv, LocalsOK, Time
<1> QED BY <1>4, <1>5, <1>6, <1>7 DEF Lease

(* The holder's own steps between checkout and release. *)
LEMMA LeaseUsed ==
  ASSUME Inv, LeaseInv, NEW h \in Handlers, h \in SP!Holders',
         NoFlusher(h) \/ StartRun(h) \/ EndRun(h) \/ Commit(h) \/ SendDone(h)
  PROVE  Lease(h)'
<1> DEFINE r == grant[h].entry
<1>1. /\ UNCHANGED <<sessions, grant, forcedEvictions, clock, since>>
      /\ pc \in [Handlers -> Steps] /\ base \in [Handlers -> Histories]
  BY DEF NoFlusher, StartRun, EndRun, Commit, SendDone, storeVars, Store!WriteMessages,
         Inv, LocalsOK
<1>2. h \in SP!Holders /\ Lease(h) /\ SP!Mapped' = SP!Mapped
  BY <1>1 DEF SP!Holders, LeaseInv, SP!Mapped, SP!Live
<1>3. r \in Entries /\ heap \in [Entries -> SP!Entry]
  BY <1>2, HolderHasEntry DEF Inv, SP!IInv, SP!TypeOK
<1>4. CASE NoFlusher(h)
  BY <1>1, <1>2, <1>4 DEF NoFlusher, Goto, Lease, Overran, storeVars
<1>5. CASE StartRun(h)
  BY <1>1, <1>2, <1>5 DEF StartRun, Goto, Lease, Overran, storeVars
<1>6. CASE EndRun(h)
  BY <1>1, <1>2, <1>6 DEF EndRun, Goto, Lease, Overran, storeVars
<1>7. CASE Commit(h)
  <2>1. heap' = [heap EXCEPT ![r].messages = base[h] + 1]
    BY <1>7 DEF Commit, Store!WriteMessages
  <2>2. heap'[r].messages = base[h] + 1 /\ heap'[r].checkedOutAt = heap[r].checkedOutAt
    BY <1>3, <2>1 DEF SP!Entry
  <2>3. pc'[h] = "done" /\ base' = base
    BY <1>1, <1>7 DEF Commit, Goto
  <2> QED BY <1>1, <1>2, <2>2, <2>3 DEF Lease, Overran
<1>8. CASE SendDone(h)
  BY <1>1, <1>2, <1>8 DEF SendDone, Goto, Lease, Overran, storeVars
<1> QED BY <1>4, <1>5, <1>6, <1>7, <1>8

LEMMA LeaseStep == Inv /\ LeaseInv /\ [Next]_vars => LeaseInv'
<1> SUFFICES ASSUME Inv, LeaseInv, [Next]_vars PROVE LeaseInv'
  OBVIOUS
<1> SUFFICES ASSUME NEW h \in Handlers, h \in SP!Holders' PROVE Lease(h)'
  <2>1. \A h \in Handlers : Recent(h)'
    BY RecentStep
  <2>2. SP!Holders' \subseteq Handlers
    BY DEF SP!Holders
  <2> QED BY <2>1, <2>2 DEF LeaseInv
<1>0. /\ pc \in [Handlers -> Steps] /\ base \in [Handlers -> Histories]
      /\ since \in [Handlers -> Time] /\ SP!TypeOK
  BY DEF Inv, LocalsOK, SP!IInv
<1>1. ASSUME NEW k \in Handlers, NEW ip \in IPs, NEW id \in Ids, Arrive(k, ip, id)
      PROVE  Lease(h)'
  <2>1. UNCHANGED <<storeVars, base, since>> /\ pc[k] = "idle"
    BY <1>1 DEF Arrive
  <2>2. h \in SP!Holders
    BY <2>1 DEF SP!Holders, storeVars
  <2>3. h # k
    BY <2>1, <2>2, HolderHasEntry DEF Inv, HandsMatchPc, Hands
  <2>4. pc'[h] = pc[h]
    BY <1>0, <1>1, <2>3 DEF Arrive, Goto
  <2> QED BY <2>1, <2>2, <2>4, StepOfOthers, LeaseKept
<1>2. ASSUME NEW k \in Handlers, Acquire(k) \/ FreeSlot(k) PROVE Lease(h)'
  <2>1. UNCHANGED <<storeVars, base, since>> /\ pc[k] \in {"acquire", "freeSlot"}
    BY <1>2 DEF Acquire, FreeSlot
  <2>2. h \in SP!Holders
    BY <2>1 DEF SP!Holders, storeVars
  <2>3. h # k
    BY <2>1, <2>2, HolderHasEntry DEF Inv, HandsMatchPc, Hands
  <2>4. pc'[h] = pc[h]
    BY <1>0, <1>2, <2>3 DEF Acquire, FreeSlot, Goto
  <2> QED BY <2>1, <2>2, <2>4, StepOfOthers, LeaseKept
<1>3. ASSUME NEW k \in Handlers, Checkout(k) PROVE Lease(h)'
  <2>1. CASE h = k
    BY <1>3, <2>1, LeaseStarts
  <2>2. CASE h # k
    <3>1. req[k].id \in Ids /\ req[k].now \in Time
      BY DEF Inv, LocalsOK, Request
    <3>2. SP!Checkout(k, req[k].id, req[k].now)
      BY <1>3, <3>1, SameCheckout DEF Checkout
    <3>3. grant'[h] = grant[h]
      BY <1>0, <2>2, <3>1, <3>2, CheckoutGrant
    <3>4. pc'[h] = pc[h] /\ base'[h] = base[h] /\ since'[h] = since[h]
      BY <1>0, <1>3, <2>2 DEF Checkout, Goto
    <3>5. SP!OthersStep(h)
      BY <1>3, StepOfOthers
    <3> QED BY <3>3, <3>4, <3>5, BystanderLease
  <2> QED BY <2>1, <2>2
<1>4. ASSUME NEW k \in Handlers,
             NoFlusher(k) \/ StartRun(k) \/ EndRun(k) \/ Commit(k) \/ SendDone(k)
      PROVE  Lease(h)'
  <2>1. CASE h = k
    BY <1>4, <2>1, LeaseUsed
  <2>2. CASE h # k
    <3>1. UNCHANGED <<grant, since>> /\ pc'[h] = pc[h] /\ base'[h] = base[h]
      BY <1>0, <1>4, <2>2 DEF NoFlusher, StartRun, EndRun, Commit, SendDone, Goto,
                              storeVars, Store!WriteMessages
    <3>2. SP!OthersStep(h)
      <4>1. UNCHANGED storeVars \/ \E j \in Handlers \ {h} : Commit(j)
        BY <1>4, <2>2 DEF NoFlusher, StartRun, EndRun, SendDone
      <4> QED BY <4>1, StepOfOthers
    <3> QED BY <3>1, <3>2, BystanderLease
  <2> QED BY <2>1, <2>2
<1>5. ASSUME NEW k \in Handlers, FreeSession(k) \/ Leave(k) PROVE Lease(h)'
  <2>1. /\ grant'[k].released
        /\ \A j \in Handlers \ {k} : grant'[j] = grant[j]
    <3>1. CASE Leave(k)
      <4>1. SP!Drop(k)
        BY <3>1, SameStoreSteps DEF Leave
      <4>2. \A j \in Handlers \ {k} : grant'[j] = grant[j]
        BY <1>0, <4>1, DropGrant
      <4>3. grant'[k].released
        BY <1>0, <4>1 DEF SP!Drop, SP!NoopGrant, SP!TypeOK
      <4> QED BY <4>2, <4>3
    <3>2. CASE FreeSession(k) /\ grant[k].entry = Nil
      BY <3>2, NilIsReleased DEF FreeSession, storeVars, Inv
    <3>3. CASE FreeSession(k) /\ grant[k].entry # Nil
      <4>1. SP!Release(k)
        BY <3>3, SameStoreSteps DEF FreeSession
      <4> QED BY <1>0, <4>1, ReleaseGrant
    <3> QED BY <1>5, <3>1, <3>2, <3>3
  <2>2. h # k
    BY <2>1 DEF SP!Holders
  <2>3. grant'[h] = grant[h]
    BY <2>1, <2>2
  <2>4. pc'[h] = pc[h] /\ base'[h] = base[h] /\ since'[h] = since[h]
    BY <1>0, <1>5, <2>2 DEF FreeSession, Leave, Goto
  <2>5. SP!OthersStep(h)
    BY <1>5, StepOfOthers
  <2> QED BY <2>3, <2>4, <2>5, BystanderLease
<1>6. ASSUME NEW now \in Time, SweepSessions(now) PROVE Lease(h)'
  <2>1. UNCHANGED <<grant, pc, base, since>>
    BY <1>6 DEF SweepSessions, Store!Sweep
  <2>2. SP!OthersStep(h)
    BY <1>6, StepOfOthers
  <2> QED BY <2>1, <2>2, BystanderLease
<1>7. CASE Tick \/ UNCHANGED vars \/ \E now \in Time : SweepWindows(now)
  <2>1. UNCHANGED <<storeVars, pc, base, since>>
    BY <1>7 DEF Tick, vars, SweepWindows
  <2>2. grant'[h] = grant[h]
    BY <2>1 DEF storeVars
  <2>3. SP!OthersStep(h)
    BY <2>1, StepOfOthers
  <2> QED BY <2>1, <2>2, <2>3, BystanderLease
<1> QED BY <1>1, <1>2, <1>3, <1>4, <1>5, <1>6, <1>7 DEF Next, Prologue, Epilogue

LEMMA LeaseInit == Init => LeaseInv
<1> SUFFICES ASSUME Init PROVE LeaseInv
  OBVIOUS
<1>1. \A h \in Handlers : pc[h] = "idle" /\ grant[h].released
  BY DEF Init, Store!Init, Store!NoopGrant
<1> QED BY <1>1 DEF LeaseInv, Recent, SP!Holders

LEMMA LeaseInvariance == Spec => [](Inv /\ LeaseInv)
<1> QED BY InvInit, InvStep, LeaseInit, LeaseStep, PTL DEF Spec

(* server.go:203-217: the history a turn writes back extends the one it    *)
(* read: nothing is recorded in a held session behind its holder's back.   *)
THEOREM NothingOverwritten == Spec => NoLostUpdate
<1>1. Inv /\ LeaseInv /\ [Next]_vars => [ExtendsWhatItRead]_vars
  <2> SUFFICES ASSUME Inv, LeaseInv, NEW h \in Handlers, pc[h] = "commit"
               PROVE  heap[grant[h].entry].messages = base[h]
    BY DEF ExtendsWhatItRead
  <2>1. h \in SP!Holders
    BY DEF Inv, HandsMatchPc, Hands, SP!Holders
  <2> QED BY <2>1 DEF LeaseInv, Lease
<1> QED BY <1>1, LeaseInvariance, PTL DEF Spec, NoLostUpdate

(* server.go:217-219: at "done" the exchange is in the session, and the    *)
(* session is the one the next request finds, unless the turn overran.     *)
THEOREM DoneMeansRecorded == Spec => []DoneIsRecorded
<1>1. Inv /\ LeaseInv => DoneIsRecorded
  <2> SUFFICES ASSUME Inv, LeaseInv, NEW h \in Handlers, pc[h] = "done"
               PROVE  /\ heap[grant[h].entry].messages = base[h] + 1
                      /\ \/ grant[h].entry \in Store!Mapped
                         \/ Overran(h) /\ forcedEvictions > 0
    BY DEF DoneIsRecorded
  <2>1. h \in SP!Holders
    BY DEF Inv, HandsMatchPc, Hands, SP!Holders
  <2> QED BY <2>1 DEF LeaseInv, Lease, SP!Mapped, Store!Mapped, SP!Live, Store!Live
<1> QED BY <1>1, LeaseInvariance, PTL

(* store.go:203-208: nobody loses its session before its deadline, less    *)
(* what its clock reading was late by.                                     *)
THEOREM NoShortLease == Spec => LeaseLasts
<1>1. Inv /\ LeaseInv /\ [Next]_vars => [LeaseRespected]_vars
  <2> SUFFICES ASSUME Inv, LeaseInv, [Next]_vars, NEW h \in SP!Holders,
                      grant[h].entry \in SP!Mapped, grant[h].entry \notin SP!Mapped'
               PROVE  Overran(h)
    BY DEF LeaseRespected, SP!Holders, Store!Holders, SP!Mapped, Store!Mapped, SP!Live,
           Store!Live
  <2> QED BY LeaseEndsOverrun
<1> QED BY <1>1, LeaseInvariance, PTL DEF Spec, LeaseLasts

-----------------------------------------------------------------------------
(* TurnTiming: a turn's length *)

(* The longest a handler has its session: MaxToolRounds calls answered     *)
(* just in time, then one that its timeout ends.                           *)
LongestTurn == MaxToolRounds * (CallTimeout - 1) + CallTimeout

(* The deadline leaves room for it, and for the request's clock reading to *)
(* be MaxLag old when the lease starts.                                    *)
Room == MaxLag + LongestTurn <= CheckoutDeadline

(* When the handler's last call began, at the latest, counted from its     *)
(* checkout.                                                               *)
LatestStart(n) == (n - 1) * (CallTimeout - 1)

Pace(h) ==
  /\ pc[h] = "prepare" => clock = since[h]
  /\ pc[h] = "running" =>
       /\ calls[h] \in 1..(MaxToolRounds + 1)
       /\ callStart[h] <= since[h] + LatestStart(calls[h])
       /\ clock <= callStart[h] + CallTimeout
  /\ pc[h] \in {"commit", "done", "freeSession"} => clock <= since[h] + LongestTurn

PaceInv ==
  /\ calls \in [Handlers -> Nat]
  /\ callStart \in [Handlers -> Time]
  /\ \A h \in Handlers : Pace(h)

-----------------------------------------------------------------------------
(* A call answered in time delays the next by less than its timeout. *)
LEMMA StartsGrow ==
  ASSUME NEW n \in Nat \ {0}
  PROVE  /\ LatestStart(n) \in Nat
         /\ LatestStart(n + 1) = LatestStart(n) + (CallTimeout - 1)
<1> DEFINE t == CallTimeout - 1
           m == n - 1
<1>1. t \in Nat /\ m \in Nat /\ (n + 1) - 1 = m + 1
  BY TimingAssumption
<1>2. \A x, y \in Nat : x * y \in Nat /\ (x + 1) * y = x * y + y
  OBVIOUS
<1>3. LatestStart(n) = m * t /\ LatestStart(n + 1) = (m + 1) * t
  BY <1>1 DEF LatestStart
<1> HIDE DEF t, m
<1>4. m * t \in Nat /\ (m + 1) * t = m * t + t
  BY <1>1, <1>2
<1>5. LatestStart(n) \in Nat /\ LatestStart(n + 1) = LatestStart(n) + t
  BY <1>3, <1>4
<1> QED BY <1>5 DEF t

LEMMA StartsBounded ==
  ASSUME NEW n \in 1..(MaxToolRounds + 1)
  PROVE  LatestStart(n) + CallTimeout <= LongestTurn /\ LongestTurn \in Nat
<1> DEFINE t == CallTimeout - 1
           m == n - 1
<1>1. t \in Nat /\ m \in Nat /\ m <= MaxToolRounds /\ MaxToolRounds \in Nat
      /\ CallTimeout \in Nat
  BY TimingAssumption
<1>2. \A x, y, z \in Nat : x <= y => x * z <= y * z
  OBVIOUS
<1>3. \A x, y \in Nat : x * y \in Nat
  OBVIOUS
<1>4. LatestStart(n) = m * t /\ LongestTurn = MaxToolRounds * t + CallTimeout
  BY DEF LatestStart, LongestTurn
<1> HIDE DEF t, m
<1>5. m * t <= MaxToolRounds * t /\ m * t \in Nat /\ MaxToolRounds * t \in Nat
  BY <1>1, <1>2, <1>3
<1> QED BY <1>1, <1>4, <1>5

LEMMA TimedIsUntimed == (TimedInit => Init) /\ ([TimedNext]_timedVars => [Next]_vars)
BY DEF TimedInit, TimedNext, timedVars, Untimed, TimedStart, NextCall, TimedTick, Next,
       Prologue

LEMMA PaceInit == TimedInit => PaceInv
<1> SUFFICES ASSUME TimedInit PROVE PaceInv
  OBVIOUS
<1>1. 0 \in Time
  BY ServerAssumption DEF Time
<1> QED BY <1>1 DEF TimedInit, Init, PaceInv, Pace

(* What a handler's pace rests on. *)
LEMMA PaceKept ==
  ASSUME NEW h \in Handlers, Pace(h), clock' = clock, since'[h] = since[h],
         pc'[h] = pc[h] \/ pc'[h] \notin {"prepare", "running", "commit", "done", "freeSession"},
         calls'[h] = calls[h], callStart'[h] = callStart[h]
  PROVE  Pace(h)'
BY DEF Pace

(* A handler whose run is over, however it went, has kept within bounds.   *)
LEMMA RunEnds ==
  ASSUME LocalsOK, PaceInv, NEW h \in Handlers,
         pc[h] \in {"prepare", "running", "commit", "done", "freeSession"}
  PROVE  clock <= since[h] + LongestTurn
<1>1. /\ clock \in Nat /\ since[h] \in Nat /\ callStart[h] \in Nat
      /\ Pace(h) /\ CallTimeout \in Nat /\ MaxToolRounds \in Nat
  BY ServerAssumption, TimingAssumption DEF LocalsOK, PaceInv, Time
<1>2. 1 \in 1..(MaxToolRounds + 1)
  BY <1>1
<1>3. LongestTurn \in Nat
  BY <1>2, StartsBounded
<1>4. CASE pc[h] = "running"
  <2>1. /\ calls[h] \in 1..(MaxToolRounds + 1) /\ calls[h] \in Nat \ {0}
        /\ callStart[h] <= since[h] + LatestStart(calls[h])
        /\ clock <= callStart[h] + CallTimeout
    BY <1>1, <1>4 DEF Pace
  <2>2. LatestStart(calls[h]) + CallTimeout <= LongestTurn
    BY <2>1, StartsBounded
  <2>3. LatestStart(calls[h]) \in Nat
    BY <2>1, StartsGrow
  <2> QED BY <1>1, <1>3, <2>1, <2>2, <2>3
<1> QED BY <1>1, <1>3, <1>4 DEF Pace

LEMMA PaceStep == LocalsOK /\ PaceInv /\ [TimedNext]_timedVars => PaceInv'
<1> SUFFICES ASSUME LocalsOK, PaceInv, [TimedNext]_timedVars PROVE PaceInv'
  OBVIOUS
<1>0. /\ pc \in [Handlers -> Steps] /\ since \in [Handlers -> Time] /\ clock \in Time
      /\ calls \in [Handlers -> Nat] /\ callStart \in [Handlers -> Time]
      /\ Time \subseteq Nat /\ CallTimeout \in Nat \ {0} /\ MaxToolRounds \in Nat
      /\ \A h \in Handlers : Pace(h)
  BY ServerAssumption, TimingAssumption DEF LocalsOK, PaceInv, Time
<1>1. calls' \in [Handlers -> Nat] /\ callStart' \in [Handlers -> Time]
  BY <1>0 DEF TimedNext, timedVars, TimedStart, NextCall, CallBegins, TimedTick
<1> SUFFICES ASSUME NEW h \in Handlers PROVE Pace(h)'
  BY <1>1 DEF PaceInv
<1>2. ASSUME NEW k \in Handlers, Untimed(k), UNCHANGED <<calls, callStart>>
      PROVE  Pace(h)'
  <2>1. clock' = clock
    BY <1>2 DEF Untimed, Arrive, Acquire, Checkout, NoFlusher, EndRun, Epilogue, Commit,
                SendDone, FreeSession, FreeSlot, Leave
  <2>2. CASE h # k
    <3>1. pc'[h] = pc[h] /\ since'[h] = since[h]
      BY <1>0, <1>2, <2>2
      DEF Untimed, Arrive, Acquire, Checkout, NoFlusher, EndRun, Epilogue, Commit,
          SendDone, FreeSession, FreeSlot, Leave, Goto
    <3> QED BY <1>0, <1>2, <2>1, <3>1, PaceKept
  <2>3. CASE h = k /\ Checkout(k)
    <3>1. since'[h] = clock /\ pc'[h] \in {"prepare", "freeSession"}
      BY <1>0, <2>3 DEF Checkout, Goto
    <3>2. LongestTurn \in Nat
      <4>1. 1 \in 1..(MaxToolRounds + 1)
        BY <1>0
      <4> QED BY <4>1, StartsBounded
    <3> QED BY <1>0, <2>1, <3>1, <3>2 DEF Pace
  <2>4. CASE h = k /\ (Acquire(k) \/ FreeSession(k) \/ FreeSlot(k) \/ Leave(k))
    <3>1. since' = since
          /\ pc'[h] \notin {"prepare", "running", "commit", "done", "freeSession"}
      BY <1>0, <2>4 DEF Acquire, FreeSession, FreeSlot, Leave, Goto
    <3> QED BY <1>0, <1>2, <2>1, <3>1, PaceKept
  <2>5. CASE h = k /\ \E ip \in IPs, id \in Ids : Arrive(k, ip, id)
    <3>1. since' = since
          /\ pc'[h] \notin {"prepare", "running", "commit", "done", "freeSession"}
      BY <1>0, <2>5 DEF Arrive, Goto
    <3> QED BY <1>0, <1>2, <2>1, <3>1, PaceKept
  <2>6. CASE h = k /\ (NoFlusher(k) \/ EndRun(k) \/ Commit(k) \/ SendDone(k))
    <3>1. /\ since' = since
          /\ pc[h] \in {"prepare", "running", "commit", "done"}
          /\ pc'[h] \in {"commit", "done", "freeSession"}
      BY <1>0, <2>6 DEF NoFlusher, EndRun, Commit, SendDone, Goto
    <3>2. clock <= since[h] + LongestTurn
      BY <3>1, RunEnds
    <3> QED BY <2>1, <3>1, <3>2 DEF Pace
  <2> QED BY <1>2, <2>2, <2>3, <2>4, <2>5, <2>6 DEF Untimed, Epilogue
<1>3. ASSUME NEW k \in Handlers, TimedStart(k) PROVE Pace(h)'
  <2>1. clock' = clock /\ since' = since /\ pc[k] = "prepare"
    BY <1>3 DEF TimedStart, StartRun
  <2>2. CASE h # k
    <3>1. pc'[h] = pc[h] /\ calls'[h] = calls[h] /\ callStart'[h] = callStart[h]
      BY <1>0, <1>3, <2>2 DEF TimedStart, StartRun, Goto
    <3> QED BY <1>0, <2>1, <3>1, PaceKept
  <2>3. CASE h = k
    <3>1. pc'[h] = "running" /\ calls'[h] = 1 /\ callStart'[h] = clock
      BY <1>0, <1>3, <2>3 DEF TimedStart, StartRun, Goto
    <3>2. clock = since[h]
      BY <1>0, <2>1, <2>3 DEF Pace
    <3>3. LatestStart(1) \in Nat
      BY StartsGrow
    <3>4. /\ 1 \in 1..(MaxToolRounds + 1)
          /\ clock <= since[h] + LatestStart(1)
          /\ clock <= clock + CallTimeout
      BY <1>0, <3>2, <3>3
    <3> QED BY <2>1, <3>1, <3>4 DEF Pace
  <2> QED BY <2>2, <2>3
<1>4. ASSUME NEW k \in Handlers, NextCall(k) PROVE Pace(h)'
  <2>1. clock' = clock /\ since' = since /\ pc' = pc /\ InTime(k)
    BY <1>4 DEF NextCall, vars
  <2>2. CASE h # k
    <3>1. calls'[h] = calls[h] /\ callStart'[h] = callStart[h]
      BY <1>0, <1>4, <2>2 DEF NextCall, CallBegins
    <3> QED BY <1>0, <2>1, <3>1, PaceKept
  <2>3. CASE h = k
    <3>1. /\ pc[h] = "running" /\ clock - callStart[h] < CallTimeout
          /\ calls'[h] = calls[h] + 1 /\ callStart'[h] = clock
          /\ calls[h] <= MaxToolRounds
      BY <1>0, <1>4, <2>1, <2>3 DEF NextCall, CallBegins, InTime
    <3>2. /\ calls[h] \in Nat \ {0}
          /\ callStart[h] <= since[h] + LatestStart(calls[h])
      BY <1>0, <3>1 DEF Pace
    <3>3. /\ LatestStart(calls[h]) \in Nat
          /\ LatestStart(calls[h] + 1) = LatestStart(calls[h]) + (CallTimeout - 1)
      BY <3>2, StartsGrow
    <3>4. {clock, since[h], callStart[h], CallTimeout} \subseteq Nat
      BY <1>0
    <3>5. /\ calls[h] + 1 \in 1..(MaxToolRounds + 1)
          /\ clock <= since[h] + LatestStart(calls[h] + 1)
          /\ clock <= clock + CallTimeout
      BY <1>0, <3>1, <3>2, <3>3, <3>4
    <3> QED BY <2>1, <3>1, <3>5 DEF Pace
  <2> QED BY <2>2, <2>3
<1>5. ASSUME NEW now \in Time, SweepSessions(now) \/ SweepWindows(now),
             UNCHANGED <<calls, callStart>>
      PROVE  Pace(h)'
  BY <1>0, <1>5, PaceKept DEF SweepSessions, SweepWindows
<1>6. ASSUME TimedTick PROVE Pace(h)'
  <2>1. /\ clock' = clock + 1 /\ UNCHANGED <<pc, since, calls, callStart>>
        /\ pc[h] \in {"idle", "acquire", "checkout"} \/ InTime(h)
    BY <1>6 DEF TimedTick, Tick, Punctual
  <2>2. CASE pc[h] \in {"idle", "acquire", "checkout"}
    BY <2>1, <2>2 DEF Pace
  <2>3. CASE InTime(h)
    <3>1. pc[h] = "running" /\ clock - callStart[h] < CallTimeout
      BY <2>3 DEF InTime
    <3>2. /\ calls[h] \in 1..(MaxToolRounds + 1)
          /\ callStart[h] <= since[h] + LatestStart(calls[h])
      BY <1>0, <3>1 DEF Pace
    <3>3. {clock, callStart[h], CallTimeout} \subseteq Nat
      BY <1>0
    <3>4. clock + 1 <= callStart[h] + CallTimeout
      BY <3>1, <3>3
    <3>5. LatestStart(calls[h])' = LatestStart(calls[h])
      BY <2>1 DEF LatestStart
    <3> QED BY <2>1, <3>1, <3>2, <3>4, <3>5 DEF Pace
  <2> QED BY <2>1, <2>2, <2>3
<1>7. ASSUME UNCHANGED timedVars PROVE Pace(h)'
  BY <1>0, <1>7, PaceKept DEF timedVars, vars
<1> QED BY <1>2, <1>3, <1>4, <1>5, <1>6, <1>7 DEF TimedNext

-----------------------------------------------------------------------------
(* With room, a sweep never finds a held session overdue. *)
LEMMA NothingOverdue ==
  ASSUME Room, Inv, LeaseInv, PaceInv, NEW now \in Time, SweepSessions(now)
  PROVE  forcedEvictions' = forcedEvictions
<1>1. ASSUME NEW i \in SP!Live PROVE ~SP!Overdue(SP!At(i), now)
  <2>1. SUFFICES ASSUME SP!At(i).checkedOut
                 PROVE  ~(now - SP!At(i).checkedOutAt > CheckoutDeadline)
    BY DEF SP!Overdue
  <2>2. PICK h \in SP!Holders : grant[h].entry = sessions[i]
    BY <2>1 DEF Inv, SP!IInv, SP!FlagMatchesHolder
  <2> DEFINE at == heap[grant[h].entry].checkedOutAt
  <2>3. SP!At(i).checkedOutAt = at
    BY <2>2 DEF SP!At
  <2>4. since[h] <= at + MaxLag
    BY DEF LeaseInv, Lease
  <2>5. h \in Handlers /\ ~grant[h].released /\ grant[h].entry # Nil /\ at \in Nat
    BY HolderHasEntry
  <2>6. pc[h] \in {"prepare", "running", "commit", "done", "freeSession"}
    BY <2>5 DEF Inv, HandsMatchPc, Hands, LocalsOK, Steps
  <2>7. clock <= since[h] + LongestTurn
    BY <2>5, <2>6, RunEnds DEF Inv
  <2>8. now <= clock /\ MaxLag + LongestTurn <= CheckoutDeadline
    BY DEF SweepSessions, Room
  <2>9. {now, clock, since[h], MaxLag, CheckoutDeadline} \subseteq Nat
    BY <2>5, ServerAssumption DEF Inv, LocalsOK, Time
  <2>10. LongestTurn \in Nat
    <3>1. 1 \in 1..(MaxToolRounds + 1)
      BY TimingAssumption
    <3> QED BY <3>1, StartsBounded
  <2> HIDE DEF at
  <2> QED BY <2>3, <2>4, <2>5, <2>7, <2>8, <2>9, <2>10
<1>2. forcedEvictions' = forcedEvictions
        + SP!Cardinality({i \in SP!Live : SP!Overdue(SP!At(i), now)})
  BY SameSweep DEF SweepSessions, SP!Sweep
<1>3. {i \in SP!Live : SP!Overdue(SP!At(i), now)} = {}
  BY <1>1
<1>4. SP!Cardinality({}) = 0
  BY FS_EmptySet DEF SP!Cardinality, Cardinality
<1> QED BY <1>2, <1>3, <1>4 DEF Inv, SP!IInv, SP!TypeOK

(* store.go:226-230: handlers that release their sessions, however slowly  *)
(* the model's API answers them, are never cut short by the sweeper, as    *)
(* long as the checkout deadline exceeds the longest turn the client's     *)
(* timeout and the cap on tool rounds allow.                               *)
THEOREM SlowIsNotLeaked ==
  ASSUME Room
  PROVE  TimedSpec => []NeverForced
<1>1. TimedInit => Inv /\ LeaseInv /\ PaceInv /\ NeverForced
  BY TimedIsUntimed, InvInit, LeaseInit, PaceInit DEF TimedInit, NeverForced, Init, Store!Init
<1>2. Inv /\ LeaseInv /\ PaceInv /\ NeverForced /\ [TimedNext]_timedVars
      => (Inv /\ LeaseInv /\ PaceInv /\ NeverForced)'
  <2> SUFFICES ASSUME Inv, LeaseInv, PaceInv, NeverForced, [TimedNext]_timedVars
               PROVE  (Inv /\ LeaseInv /\ PaceInv /\ NeverForced)'
    OBVIOUS
  <2>1. [Next]_vars
    BY TimedIsUntimed
  <2>2. Inv' /\ LeaseInv' /\ PaceInv'
    BY <2>1, InvStep, LeaseStep, PaceStep DEF Inv
  <2>3. forcedEvictions' = forcedEvictions
    <3>1. ASSUME NEW now \in Time, SweepSessions(now) PROVE forcedEvictions' = forcedEvictions
      BY <3>1, NothingOverdue
    <3>2. ASSUME NEW h \in Handlers, Checkout(h) PROVE forcedEvictions' = forcedEvictions
      BY <3>2 DEF Checkout, Store!Checkout, Store!CheckoutKnown, Store!CheckoutNew,
                  Store!CheckoutBusy, Store!CheckoutSpent, Store!CheckoutFull,
                  Store!Take, Store!Refuse
    <3> QED
      BY <2>1, <3>1, <3>2
      DEF Next, Prologue, Epilogue, Arrive, Acquire, NoFlusher, StartRun, EndRun, Commit,
          SendDone, FreeSession, FreeSlot, Leave, SweepWindows, Tick, vars, storeVars,
          Store!WriteMessages, Store!Release, Store!Drop
  <2> QED BY <2>2, <2>3 DEF NeverForced
<1> QED BY <1>1, <1>2, PTL DEF TimedSpec
=============================================================================
