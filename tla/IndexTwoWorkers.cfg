SPECIFICATION Spec
CONSTANTS
  NULL = NULL
  Blank = Blank
  Workers = {w1, w2}
  Texts = {a, b}
  MaxAttempts = 2
  MaxStores = 4
SYMMETRY Symmetry
INVARIANTS HiddenIsUnsearchable
PROPERTY OnlyCurrentContentLands
CHECK_DEADLOCK FALSE
