SPECIFICATION Spec
CONSTANTS
  p1 = p1
  p2 = p2
  transfer = transfer
  target = target
  pause = pause
  None = None
  Instance = {p1, p2}
  Text = {transfer, target, pause}
  Nullary = {pause}
  ArgLike = {target}
  MaxWrites = 4
SYMMETRY MCSymmetry
INVARIANTS
  AnswerHonest
  Exact
  VerifiedStays
