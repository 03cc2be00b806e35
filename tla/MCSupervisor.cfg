SPECIFICATION LiveSpec
CONSTANTS
  Streams = {s1, s2, s3}
  ShutdownTimeout = 6
  Margin = 2
  StopGrace = 10
  Lag = 1
INVARIANTS
  KillOnlyTheWedged
  StopFitsGrace
PROPERTIES
  StreamsGetTheirTime
  StopCompletes
  ServiceReturns
