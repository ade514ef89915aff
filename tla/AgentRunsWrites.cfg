SPECIFICATION Spec
CONSTANTS
  NULL = NULL
  Modes = {"task"}
  Holders = {h1, h2, h3}
  Workers = {s1, s2}
  ReadCalls = {}
  WriteCalls = {u1}
  RefusedCalls = {}
  MaxSteps = 2
  StepBound = 0
  MaxJobs = 1
  MaxMessages = 0
SYMMETRY Symmetry
INVARIANTS WriteAtMostOnce AuditNeverContradicts
PROPERTIES FinishedCallStands EndedRunIsFrozen
CHECK_DEADLOCK FALSE
