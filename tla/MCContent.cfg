SPECIFICATION Spec
CONSTANTS
  Kinds = {"plain", "folder", "link", "fifo"}
  Trees <- SomeTrees
  Requests <- SomeRequests
  Root <- SiteRoot
  Hidden = {9}
  Up = Up
  MaxLinks = 3
  MaxFileBytes = 2
  MaxSearchMatches = 2
  maxSearchFileBytes = 3
  Written <- Edited
  MaxEdits = 1
CHECK_DEADLOCK FALSE
INVARIANTS
  ResolvedInside
  WholeMeansWhole
  SearchAgreesWithListing
PROPERTY
  FifosAreRefused
