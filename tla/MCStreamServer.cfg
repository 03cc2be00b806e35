SPECIFICATION FairSpec
CONSTANTS
  Handlers = {v1, v2}
  Ids = {i1, i2}
  Entries = {r1, r2, r3, r4}
  Nil = Nil
  IPs = {ip1}
  MaxTime = 2
  MaxLag = 1
  MaxTurns = 2
  TTL = 1
  CheckoutDeadline = 1
  MaxSessions = 1
  Hour = 3
  PerIPPerHour = 2
  MaxConcurrent = 2
INVARIANTS
  TypeOK
  DoneIsRecorded
  QuiescentIsFree
PROPERTIES
  NoLostUpdate
  LeaseLasts
  LocksAreReclaimed
