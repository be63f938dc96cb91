SPECIFICATION Spec
CONSTANTS
  MaxCalls = 3
  CallOps = {"CALL", "DELEGATECALL", "STATICCALL"}
  None = None
INVARIANTS
  InSync
  TreeMatches
  RevertsMarked
  ResultsOwn
  FromIsAccount
