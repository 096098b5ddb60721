SPECIFICATION KSpec
CONSTANTS
  FetchBatch = 2
  Documents <- MCDocuments
  Groups = {"g0", "g1"}
  GroupOf <- MCGroupOf
  Concepts = {1, 2, 3}
  Extractions <- MCExtractions
  Requests <- MCRequests
  Readers = {"r1"}
  DefaultDepth = 2
  DefaultNodes = 4
  EdgeFloor = 1
  MaxDocs = 2
  MaxFaults = 2
INVARIANTS
  QuietDocumentIsOnce
  IndexedOnceBeforeUse
  AnswersAreBalls
CHECK_DEADLOCK FALSE
