SPECIFICATION SessionSpec
CONSTANTS
  contract = contract
  eoa = eoa
  hash = hash
  Zero = Zero
  Null = Null
  Miss = Miss
  Instance = {p1}
  Account = {contract, eoa}
  CodeHash = {hash}
  Function = {f1}
  CodeOf <- MCCodeOf
  Verified = {contract}
  CacheSize = 1
  CountCap = 1
  RefreshENS = TRUE
  Plan <- MCPlan
  Outages = TRUE
INVARIANTS
  RecreateRewrites
  RecordsAreThisDecode
  TypeErrorNeedsTornDelete
