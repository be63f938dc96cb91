SPECIFICATION FaultSpec
CONSTANTS
  MaxCalls = 3
  CallOps = {"CALL", "DELEGATECALL", "STATICCALL"}
  None = None
INVARIANT FaultsFlattened
