SPECIFICATION TimedSpec
CONSTANTS
  IPs = {ip1}
  Requests = {q1, q2}
  MaxTime = 7
  Time <- Instants
  Hour = 3
  PerIPPerHour = 2
  MaxConcurrent = 2
  MaxLag = 1
INVARIANT
  BurstBound
