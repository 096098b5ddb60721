SPECIFICATION RFairSpec
CONSTANTS
  Limit = 2
  Slack = 6
  MaxExtra = 4
  KgReads = 4
  DataRounds = 1
  NSteps = 2
  Kinds = {"ORCHESTRATOR", "WORKER"}
  MaxBatch = 1
  MaxUploads = 1
  HasDeadline = TRUE
INVARIANTS
  EveryNoteIsRead
  ClosedProjectHasItsReport
  RoundsArePaidFor
PROPERTY TurnEnds
