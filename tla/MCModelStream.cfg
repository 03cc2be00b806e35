SPECIFICATION Spec
CONSTANTS
  p1 = p1
  p2 = p2
  c1 = c1
  c2 = c2
  Pieces = {p1, p2}
  Ids = {c1, c2}
  Nothing = Nothing
  MaxLength = 4
  Scripts <- ShortScripts
CHECK_DEADLOCK FALSE
INVARIANTS
  WholeOrNothing
  VisitorSawTheText
