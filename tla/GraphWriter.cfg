SPECIFICATION Spec
CONSTANTS
    Entities = {repo, pipe}
    Contents = {A, B}
    Manual = {m}
    Flights = {f1, f2}
    NULL = NULL
    BatchSize = 2
    Retries = 2
    MaxNow = 3
    MaxEdits = 1
    MaxRefetches = 1
    MaxFaults = 1
    Revisits = FALSE
INVARIANTS ManualClaimStands NewestContentLands
CHECK_DEADLOCK FALSE
SYMMETRY Symmetry
