\* Two variants of one page requested at once.
CONSTANTS
    c1 = c1
    c2 = c2
    Callers = {c1, c2}
    Requests = {c1, c2}
    Cancellable = {}
    MayExit = {}
    Keys <- MCKeys
    Outcomes <- MCOutcomes
    Kinds <- TwoVariants
    Responses <- OnlyVarying
    Resources = {"page"}
    PublicRoutes = {}
    Sessions = {"s1", "s2"}
    Variants = {"en", "fr"}
    MayPanic = FALSE
    CoalesceAuthenticated = FALSE
    Predictable = {}
    QueueCap = 0
    Reliable = FALSE
    Primary = Primary
    Shared = Shared
    NotShareable = NotShareable
    Streaming = Streaming
    NoEntry = NoEntry
    Aborted = Aborted
    Panicked = Panicked
    Cancelled = Cancelled
    None = None
SYMMETRY RequestSymmetry
SPECIFICATION MiddlewareSpec
INVARIANT EveryResponseMatchesVary
\* The system stops when every request is answered.
CHECK_DEADLOCK FALSE
