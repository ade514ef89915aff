SPECIFICATION Spec
CONSTANTS
  NULL = NULL
  Modes = {"chat"}
  Holders = {h1, h2}
  Workers = {s1, s2}
  ReadCalls = {}
  WriteCalls = {}
  RefusedCalls = {x1}
  MaxSteps = 2
  StepBound = 0
  MaxJobs = 1
  MaxMessages = 1
SYMMETRY Symmetry
PROPERTY ImplementsLifecycle
INVARIANT RowConsistent TranscriptWellFormed
CHECK_DEADLOCK FALSE
