SPECIFICATION MFairSpec
CONSTANTS
  Sessions = {"s1"}
  Agents = {"a1", "a2", "a3"}
  Projects = {"p1", "p2"}
  Members <- MCMembers
  ProjectOf <- MCProjectOf
  Stable <- MCStable
  BackendName = "agent"
  MaxMessages <- MCMaxMessages
  Requests <- MCRequests
  MaxLines = 1
  FetchBatch = 2
  NodeCap = 2
  MaxFaults = 2
INVARIANTS
  QuietEpisodeIsTranscript
  EveryPointHasItsRow
  AnswersAreOwn
  AckedIsStoredOrLogged
PROPERTY
  EveryWriteSettles
CHECK_DEADLOCK FALSE
