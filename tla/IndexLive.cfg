SPECIFICATION FairSpec
CONSTANTS
  NULL = NULL
  Blank = Blank
  Workers = {w1}
  Texts = {a, b}
  MaxAttempts = 2
  MaxStores = 4
PROPERTY EventuallyIndexed
CHECK_DEADLOCK FALSE
