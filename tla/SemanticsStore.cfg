SPECIFICATION Spec
CONSTANTS
  p1 = p1
  p2 = p2
  twin1 = twin1
  twin2 = twin2
  code = code
  f1 = f1
  Zero = Zero
  Null = Null
  Miss = Miss
  Instance = {p1, p2}
  Account = {twin1, twin2}
  CodeHash = {code}
  Function = {f1}
  CodeOf <- MCCodeOf
  Verified = {twin1}
  CacheSize = 1
  CountCap = 2
  RefreshENS = TRUE
SYMMETRY MCSymmetry
CONSTRAINTS MCOneCopy MCOneAccount
INVARIANTS
  NoDanglingAddress
  TypeErrorNeedsDrop
  CountedPerDocument
