SPECIFICATION TimedSpec
CONSTANTS
  Handlers = {v1}
  Ids = {i1}
  Entries = {r1, r2, r3, r4}
  Nil = Nil
  IPs = {ip1}
  MaxTime = 12
  MaxLag = 0
  MaxTurns = 20
  TTL = 60
  CheckoutDeadline = 10
  MaxSessions = 2
  Hour = 120
  PerIPPerHour = 20
  MaxConcurrent = 2
  MaxToolRounds = 3
  CallTimeout = 4
SYMMETRY Symmetry
VIEW View
INVARIANT
  NeverForced
