\* Failed publishes may have been stored, and the actor may die anywhere.
SPECIFICATION Spec
CONSTANTS
  user = user
  agent = agent
  Participants <- MCParticipants
  Ids = {a, b}
  Strict = TRUE
  MaxTurns = 2
  IdleTimeout = FALSE
  PublishFaults = {"lost", "stored"}
  CanCrash = TRUE
CONSTRAINT
  ShortLog
PROPERTY
  AcceptedIsNotRepeated
