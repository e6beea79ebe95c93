CONSTANTS
  A = A
  B = B
  worker = worker
  api = api
  Draws = {d1}
  Guides = {guide}
  Captures = {capture}
  Fixtures = {A, B}
  Dates = {1}
  RealKickoff <- MCRealKickoff
  Offset = 1
  Threshold = 0
  Actors = {worker, api}
  Worker = worker
  NoJob = NoJob
  MaxTime = 1
  MaxVersion = 2
  MaxCrashes = 0
SPECIFICATION Spec
INVARIANTS TypeOK ValidatedIsConfirmed PromotedSlateIsConfirmed
CHECK_DEADLOCK FALSE
