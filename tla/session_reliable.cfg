\* Every publish works and nothing crashes; FREE, three turns.
SPECIFICATION FairSpec
CONSTANTS
  user = user
  agent = agent
  Participants <- MCParticipants
  Ids = {a, b, c, d}
  Strict = FALSE
  MaxTurns = 3
  IdleTimeout = TRUE
  PublishFaults = {}
  CanCrash = FALSE
INVARIANTS
  OneMessagePerTurn
  AcceptedMovedTheTurn
PROPERTY
  IdleSessionCloses
CHECK_DEADLOCK FALSE
