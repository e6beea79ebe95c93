CONSTANTS
  api = api
  worker = worker
  league = league
  cup = cup
  A = A
  B = B
  Procs = {api, worker}
  Api = api
  Watchers = {worker}
  N = 2
  Fixtures = {league, cup}
  Compositions = {A, B}
  First = A
  FixtureAt <- MCFixtureAt
  NameSays <- MCNameSays
  TTL = 1
  ReportTTL = 2
  BuildTime = 1
  MaxEdits = 2
  Nothing = Nothing
  Idle = Idle
SPECIFICATION ForecastSpec
INVARIANTS ForecastTypeOK RulingSurvives RulingIsShown OneComposition
PROPERTY AnswersAreRecent
