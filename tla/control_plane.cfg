\* Workers come and go, enqueues fail, one browser; and requests of a user and
\* of agents, two at a time, while the project may be deleted.
SPECIFICATION PSpec
CONSTANTS
  pi = pi
  hand1 = hand1
  t1 = t1
  t2 = t2
  t3 = t3
  Agents = {pi}
  Tasks = {t1, t2}
  AgentOf <- MCAgentOf
  BufferSize = 2
  CanGoOffline = TRUE
  CanFail = TRUE
  User = "user"
  Lead = "lead"
  Posts <- MCPosts
  Delegations <- MCDelegations
  Clients = {c1, c2}
  MaxSessions = 3
  MaxSaid = 4
  MaxDeletes = 1
  MaxErrors = 1
SYMMETRY MCSymmetry
INVARIANTS
  ThinkingHasATask
  CountedIsThinking
  AnswersHaveSeenTheirQuestion
  CallersAreNotWoken
CHECK_DEADLOCK FALSE
