SPECIFICATION CalmSpec
CONSTANTS
  p1 = p1
  p2 = p2
  twin1 = twin1
  twin2 = twin2
  code = code
  f1 = f1
  Zero = Zero
  Null = Null
  Miss = Miss
  Instance = {p1}
  Account = {twin1, twin2}
  CodeHash = {code}
  Function = {f1}
  CodeOf <- MCCodeOf
  Verified = {twin1}
  CacheSize = 2
  CountCap = 2
  RefreshENS = TRUE
INVARIANT SignaturesStored
