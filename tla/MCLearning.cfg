CONSTANTS
  m1 = m1
  m2 = m2
  acta = acta
  operator = operator
  archive = archive
  history = history
  manual = manual
  Matches = {m1, m2}
  Feeds = {acta, operator}
  Archives = {archive}
  Histories = {history}
  Manual = manual
  Priority <- MCPriority
  Scores <- MCScores
  NoScore = NoScore
  NoCode = NoCode
  NoFile = NoFile
  NoForecast = NoForecast
  MaxPolls = 2
  Sheets <- MCSheets
  Position <- MCPosition
  DoublesLimit <- MCDoublesLimit
SPECIFICATION LearningSpec
INVARIANTS LearningTypeOK FinalScoreIsCanonical CompleteScoreWasFinal ReportsAgree RowsAgree
CHECK_DEADLOCK FALSE
