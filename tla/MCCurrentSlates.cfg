SPECIFICATION Spec
CHECK_DEADLOCK FALSE
CONSTANTS
  Contests <- MCContests
  RealKickoff <- MCReal
  Cierres <- MCCierres
  Slates0 <- MCSlates
  Rows0 <- MCRows
  Guides0 <- MCGuides
  File0 <- MCFile
  Posts <- MCPosts
  Span = 1
  Offset = 1
  Near = 1
  Before = 1
  After = 2
  Recent = 2
  LimitRecent = 1
  StaleCreated = 0
  StaleObserved = 1
  MaxTime = 2
  MaxNews = 3
  MaxCuts = 1
INVARIANT SelectorAgrees
PROPERTY ReopensOnlyOnNews
PROPERTY RefreshLands
