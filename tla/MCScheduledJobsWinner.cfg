CONSTANTS
  j1 = j1
  j2 = j2
  worker = worker
  api = api
  Jobs = {j1, j2}
  RefreshJobs = {j1}
  Runners = {worker, api}
  Budgeted = {worker}
  Interval <- MCInterval
  RetryBackoff = 1
  StartTimes = {0}
  NoJob = NoJob
  MaxTime = 2
  MaxLost = 1
SPECIFICATION Spec

PROPERTY ClaimIsSingleWinner
CHECK_DEADLOCK FALSE
