SPECIFICATION Spec
CONSTANTS
  main = main  side = side  n1 = n1  n2 = n2  n3 = n3
  Null = Null  elsewhere = elsewhere
  Configured = {main, side}
  Foreign = {elsewhere}
  Node = {n1, n2, n3}
  Nodes <- MCNodes
  Kinds <- MCKinds
  Defaults = {main, Null}
  MaxHeads <- MCMaxHeads
  CacheSize = 1
  Jobs = {"decode", "transaction", "code", "token"}
  MaxCalls = 3
INVARIANTS PartsAgree AllRejected LatestOfChain
PROPERTIES EveryCallEnds AnswersHonest
CHECK_DEADLOCK FALSE
