SPECIFICATION Spec
CONSTANTS
  None = None
  Natures <- MCNatures
  Notes <- MCNotes
  Decimals = 6
  Placeholder = 18
  MaxDecodes = 2
INVARIANTS KindRight AmountRight AmountsAgree SameAgain
CHECK_DEADLOCK FALSE
