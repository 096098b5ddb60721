\* The user writes before the dispatcher has looked at the last reply.
SPECIFICATION LoopSpec
CONSTANTS
  user = user
  agent = agent
  ideator = ideator
  reviewer = reviewer
  Ids <- MCIds
  Strict = TRUE
  IdleTimeout = FALSE
  Participants <- Chat
  Callers = {user}
  Agents = {agent}
  MaxTurns = 0
  UserIds = {a, b}
  MaxCrashes = 0
  MaxLog = 8
  MaxSilent = 0
  PublishFaults = {}
  CanCrash = FALSE
INVARIANT
  NoReplyOutOfTurn
CHECK_DEADLOCK FALSE
