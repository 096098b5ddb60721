\* Publishes may be lost and the actor may die anywhere; STRICT, two turns.
SPECIFICATION Spec
CONSTANTS
  user = user
  agent = agent
  Participants <- MCParticipants
  Ids = {a, b, c}
  Strict = TRUE
  MaxTurns = 2
  IdleTimeout = TRUE
  PublishFaults = {"lost"}
  CanCrash = TRUE
INVARIANTS
  MemoryIsReplay
  NoDuplicateMessage
  StreamWellFormed
PROPERTY
  ImplementsConversation
