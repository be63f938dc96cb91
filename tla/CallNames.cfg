SPECIFICATION Spec
CONSTANTS
  s1 = s1
  s2 = s2
  s3 = s3
  s4 = s4
  None = None
  Texts = {s1, s2, s3, s4}
  Unparsable = {s4}
  Nullary = {s1}
  ArgLike = {s2}
  Calls <- MCCalls
  PageSize = 1
  MaxTexts = 3
  MaxDecodes = 2
INVARIANT OneName
PROPERTIES RightGuess EveryCallEnds
CHECK_DEADLOCK FALSE
