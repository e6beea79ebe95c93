SPECIFICATION Spec
CONSTANTS
  Spellings = {"Cruzeiro", "CruzeiroEC", "CruzeiroRS", "Flamengo", "FlamengoRJ"}
  Competitions = {"Brasil", "Copa", "Concurso"}
  Concurso = "Concurso"
  Nobody = "nobody"
  Near = 2
  Reach = 4
  Floor = 3
  Ceiling = 10
  Before = 1
  After = 3
  Offset = 1
  MinLadder = 2
  MaxWrites = 2
  MaxRepairs = 1
  Processes = {"api", "worker"}
  Normal <- MCNormal
  Reports <- MCReports
  Draws <- MCDraws
  Legacy <- MCLegacy
  Program <- MCProgram
  Releases <- MCReleases
  FormLimit = 4
  MeetingLimit = 2
  WindowFloor = 6
  WindowCeiling = 20
  WindowDefault = 9
  MinTraining = 1
INVARIANTS
  FixturesTypeOK
  MigratesOnce
  RetiredSpellingIsCanonical
  FormCountsEachGameOnce
  
PROPERTY CoverageSurvives
