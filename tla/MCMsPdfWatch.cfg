CONSTANTS
  A = A
  B = B
  worker = worker
  Draws = {d1}
  Guides = {guide}
  Captures = {}
  Fixtures = {A, B}
  Dates <- MCDates
  RealKickoff <- MCRealKickoff
  Offset = 1
  Threshold = 0
  Actors = {worker}
  Worker = worker
  NoJob = NoJob
  MaxTime = 2
  MaxVersion = 1
  MaxCrashes = 1
  Window = 2
  NoWatch = NoWatch
SPECIFICATION WatchSpec
INVARIANTS WatchTypeOK ProvisionalIsBounded
PROPERTY OverrideOutranksWindow
CHECK_DEADLOCK FALSE
