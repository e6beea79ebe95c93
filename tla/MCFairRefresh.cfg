CONSTANTS
  j1 = j1
  j2 = j2
  j3 = j3
  worker = worker
  Jobs = {j1, j2, j3}
  RefreshJobs = {j1}
  Runners = {worker}
  Budgeted = {worker}
  Interval <- MCInterval
  RetryBackoff = 1
  StartTimes = {0}
  NoJob = NoJob
  MaxTime = 5
  MaxLost = 1
  MaxPassed = 4
SPECIFICATION FairSpec
INVARIANT NoStarvation
CHECK_DEADLOCK FALSE
