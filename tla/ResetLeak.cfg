\* One prefetch whose response is still to come when the reset runs.
CONSTANTS
    Fetches = {f1}
    Prefetches = {w1}
    Clears = {r1}
    Urls = {u1}
    MaxUser = 1
    None = None
SPECIFICATION Spec
INVARIANT NothingSurvives
CHECK_DEADLOCK FALSE
