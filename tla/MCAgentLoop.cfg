SPECIFICATION Spec
CONSTANTS
  k1 = k1
  k2 = k2
  Calls = {k1, k2}
  CallLists <- OneOrTwo
  NoCall = NoCall
  Tokens = {0, 1}
  MaxToolRounds = 2
  MaxTurns = 2
CHECK_DEADLOCK FALSE
INVARIANTS
  TypeOK
  ModelCallsBounded
  VisitorSawTheTurn
  UsageAccounted
PROPERTY
  ImplementsConversation
