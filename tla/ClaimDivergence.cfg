SPECIFICATION Spec
CONSTANTS
    NULL = NULL
    Parts = {"claims"}
    MaxOps <- Bounds
    Nodes = {a, b, c}
    Users = {u}
    Values = {x, y}
    Skew = 2
    Candidates = {c1, c2}
    MaxEdits = 2
    MaxSyncs = 1
    OverlapReviews = FALSE
    Docs = {d}
    MaxLives = 2
    MaxChanges = 2
    MaxTurns = 1
    Claimants = {"github", "backstage"}
    Members = {1, 2}
    Admins = {1}
    Shades = {v1, v2}
    Waits = {13}
    FromNodes = {u1, u2}
    ToNodes = {w1, w2}
    Linkers = {v1, v2}
    Issues = {1, 2}
    Paths = {1, 2}
    Globs = {{1, 2}, {1}, {2}}
    Contents = {0, 1}
    Days = {0, 1}
    Deployments = {v1, v2}
    Images = {{1, 2}, {1, 2, 4}, {1, 3}}
    Concurrent = {2, 3}
INVARIANT PeopleWin
CHECK_DEADLOCK FALSE
