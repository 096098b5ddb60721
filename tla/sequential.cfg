\* A round with a model, two calls of one agent's tools, and the benchmark.
SPECIFICATION SSpec
CONSTANTS
  Samples <- MCSamples
  Categories = {1, 2, 4}
  Systems <- MCSystems
  K = 1
  MaxSteps = 2
  Idf <- MCIdf
  MaxDegree = 2
  Unit = 2
  Window = 2
  Settings <- MCSettings
  Providers = {"", "nvidia", "deepseek"}
  Answers <- MCAnswers
  Forms <- MCForms
  Declared = {"kg", "web"}
  Roster <- MCRoster
  Members <- MCMembers
  Calls <- MCCalls
  Results <- MCResults
  SearchKeys <- MCSearchKeys
  Pages <- MCPages
  Filers <- MCFilers
  Coworkers <- MCCoworkers
  Spec <- MCSpec
  Steps <- MCSteps
  NeedsDeck = FALSE
  Files <- MCFiles
  SearchLimit = 1
  MinGap = 1
  KeepForms = 1
  MinSlides = 1
  MaxCalls = 2
INVARIANTS
  ScoresAreFair
  ReportIsSound
  AnswerIsTaken
  HandoffIsTrue
  ReportsAreSourced
  FilesAreToldOnce
