SPECIFICATION FairSpec
CONSTANTS
  NULL = NULL
  Modes = {"task"}
  Holders = {h1, h2}
  Workers = {s1}
  ReadCalls = {r1}
  WriteCalls = {}
  RefusedCalls = {x1}
  MaxSteps = 2
  StepBound = 0
  MaxJobs = 1
  MaxMessages = 0
PROPERTIES CancelEnds RunRests
INVARIANTS TypeOK StopsAfterCancel
CHECK_DEADLOCK FALSE
