\* A fetch, two prefetches, two resets, two changes of user, an earlier page's entries.
CONSTANTS
    Fetches = {f1}
    Prefetches = {w1, w2}
    Clears = {r1, r2}
    Urls = {u1}
    MaxUser = 2
    None = None
SYMMETRY BrowserSymmetry
SPECIFICATION Spec
INVARIANT BrowserTypeOK
INVARIANT UsesNamedCache
INVARIANT OnlyInFlightSurvives
\* The page's calls come to an end.
CHECK_DEADLOCK FALSE
