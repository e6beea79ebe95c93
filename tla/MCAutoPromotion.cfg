CONSTANTS
  A = A
  worker = worker
  Draws = {d1, d2}
  Guides = {guide}
  Captures = {}
  Fixtures = {A}
  Dates = {2}
  RealKickoff <- MCRealKickoff
  Offset = 1
  Threshold = 0
  Actors = {worker}
  Worker = worker
  NoJob = NoJob
  MaxTime = 2
  MaxVersion = 1
  MaxCrashes = 1
SPECIFICATION FairSpec
PROPERTY EveryProposalLands
CHECK_DEADLOCK FALSE
