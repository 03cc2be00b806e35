SPECIFICATION TimedSpec
CONSTANTS
  Handlers = {v1, v2}
  Ids = {i1, i2}
  Entries = {r1, r2, r3, r4}
  Nil = Nil
  IPs = {ip1}
  MaxTime = 7
  MaxLag = 1
  MaxTurns = 2
  TTL = 6
  CheckoutDeadline = 4
  MaxSessions = 1
  Hour = 60
  PerIPPerHour = 3
  MaxConcurrent = 1
  MaxToolRounds = 1
  CallTimeout = 2
SYMMETRY Symmetry
VIEW View
INVARIANTS
  StoreNeverFull
  HoldersHaveSlots
  NeverForced
