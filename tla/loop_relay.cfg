\* Two agents answer each other until max_turns; a run may fail, and the actor or
\* the runtime may die.
SPECIFICATION LoopFairSpec
CONSTANTS
  user = user
  agent = agent
  ideator = ideator
  reviewer = reviewer
  Ids <- MCIds
  Strict = TRUE
  IdleTimeout = FALSE
  Participants <- Relay
  Callers = {ideator}
  Agents = {ideator, reviewer}
  UserIds = {a}
  MaxSilent = 1
  MaxTurns = 3
  MaxCrashes = 1
  MaxLog = 6
  PublishFaults = {}
  CanCrash = TRUE
INVARIANTS
  NoReplyOutOfTurn
  OneTaskAtATime

  
CHECK_DEADLOCK FALSE
