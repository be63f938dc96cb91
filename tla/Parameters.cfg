SPECIFICATION Spec
CONSTANTS
  Signatures <- MCSignatures
  Lengths = {0, 1, 2}
  WordRange = 1048576
  MaxCount = 3
  ErrorSelector = 99999
  None = None
INVARIANTS ArgumentsRight OutputsRight EventsRight GuessesRight
CHECK_DEADLOCK FALSE
