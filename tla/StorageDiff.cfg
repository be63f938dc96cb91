SPECIFICATION Spec
CONSTANTS
  Variables <- MCVariables
  TypeLevels <- MCTypeLevels
  Cells <- MCCells
  MaxChanges = 2
  Changes <- MCChanges
  ShortHashes <- MCShortHashes
  MaxFaults = 1
  None = None
INVARIANTS HashesTrue ShownRight NothingHidden RawExact RaisedExactly
CHECK_DEADLOCK FALSE
