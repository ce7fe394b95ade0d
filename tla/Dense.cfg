\* Two goroutines, three routes for a matrix of two, two sessions for one place.
CONSTANTS
    t1 = t1
    t2 = t2
    p1 = p1
    p2 = p2
    p3 = p3
    Threads = {t1, t2}
    Patterns = {p1, p2, p3}
    Static = {p1}
    Sessions = {s1, s2}
    MaxIndexedRoutes = 2
    InvalidRouteID = 7
    MaxRoutes = 2
    MaxSessions = 1
    TopK = 1
    RescaleAt = 2
    Word = 16
    MaxRecords = 5
    MaxPredicts = 1
    None = None
SYMMETRY DenseSymmetry
SPECIFICATION Spec
INVARIANT DenseTypeOK
INVARIANT IdsAgree
INVARIANT RightNames
INVARIANT RowsAddUp
INVARIANT PredictsExactly
PROPERTY IdsStable
PROPERTY ImplementsMarkov
\* The system stops when the calls are made.
CHECK_DEADLOCK FALSE
