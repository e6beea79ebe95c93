CONSTANTS
  worker = worker
  api = api
  cli = cli
  Runners = {worker, api, cli}
  Worker = worker
  Cli = cli
  Competitions = {e0}
  Slates = {s1}
  Samples = {1, 3}
  LogisticMin = 1
  SmallMax = 2
  XgboostMin = 3
  Evidence <- MCEvidence
  Stored <- MCStored
  WorstFold <- MCWorstFold
  MinSlates = 1
  ConflictPercent = 5
  Interval = 1
  VerdictTTL = 2
  Scorers = {api}
  MaxEvents = 5
  Nothing = Nothing
  Idle = Idle
SPECIFICATION RunsSpec
INVARIANTS ServedBoosterLoads ScheduledRunsAreSpaced ShadowIsEarned
PROPERTY GateIsRecent
