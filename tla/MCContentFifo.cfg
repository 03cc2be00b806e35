SPECIFICATION Spec
CONSTANTS
  Kinds = {"plain", "fifo"}
  Trees <- SomeTrees
  Requests <- SomeRequests
  Root <- SiteRoot
  Hidden = {9}
  Up = Up
  MaxLinks = 3
  MaxFileBytes = 2
  MaxSearchMatches = 2
  maxSearchFileBytes = 3
  Written <- Edited
  MaxEdits = 1
CHECK_DEADLOCK FALSE
INVARIANT
  NeverBlocks
