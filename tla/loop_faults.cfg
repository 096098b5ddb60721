\* Publishes and acks go wrong and one crash, anywhere; two messages and a reply.
SPECIFICATION LoopSpec
CONSTANTS
  user = user
  agent = agent
  ideator = ideator
  reviewer = reviewer
  Ids <- MCIds
  Strict = TRUE
  IdleTimeout = FALSE
  Participants <- Chat
  Callers = {user}
  Agents = {agent}
  MaxTurns = 0
  UserIds = {a, b}
  MaxCrashes = 1
  MaxLog = 4
  MaxSilent = 1
  PublishFaults = {"lost"}
  CanCrash = TRUE
INVARIANTS
  RepliesAreCaused
  TurnHasATask
CHECK_DEADLOCK FALSE
