SPECIFICATION Spec
CONSTANTS
  Ids = {i1, i2}
  Entries = {r1, r2, r3, r4}
  Callers = {c1, c2, c3}
  Time <- Instants
  Histories = {h0, h1}
  NoHistory = h0
  Nil = Nil
  MaxTurns = 2
  TTL = 0
  CheckoutDeadline = 0
  MaxSessions = 1
  MaxTime = 1
  MaxForced = 1
SYMMETRY Symmetry
VIEW View
CONSTRAINT ForcedBound
INVARIANTS
  TypeOK
  ExclusiveCheckout
  FlagMatchesHolder
  CapacityBound
  TurnsAccounted
PROPERTIES
  TurnsNeverRefunded
  OnlySweepBreaksLease
  NoResurrection
  FullOnlyWhenAllHeld
  ImplementsLedger
