SPECIFICATION TimedSpec
CONSTANTS
  IPs = {ip1, ip2}
  Requests = {q1, q2, q3}
  MaxTime = 3
  Time <- Instants
  Hour = 2
  PerIPPerHour = 2
  MaxConcurrent = 2
  MaxLag = 0
SYMMETRY Symmetry
INVARIANTS
  TypeOK
  SlotsAccounted
  QuotaBound
PROPERTIES
  KeepsHourlyQuota
