SPECIFICATION Spec
CONSTANTS
  MaxCalls = 3
  Address = {sender, proxy, zero}
  Origin = sender
  ZeroAddr = zero
  Amount = {0, 1}
  None = None
INVARIANTS
  Converted
  DelegationsRight
  DecodedAsCalled
  SheetBalanced
  PrunesDelegators
