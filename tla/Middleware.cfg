\* Three requests of strangers and two users, clients that leave, a queue with no room.
CONSTANTS
    c1 = c1
    c2 = c2
    c3 = c3
    Callers = {c1, c2, c3}
    Requests = {c1, c2, c3}
    Cancellable = {c1, c2, c3}
    MayExit = {}
    Keys <- MCKeys
    Outcomes <- MCOutcomes
    Kinds <- AllKinds
    Responses <- AllResponses
    Resources = {"page", "catalog"}
    PublicRoutes = {"catalog"}
    Sessions = {"s1", "s2"}
    Variants = {"en", "fr"}
    MayPanic = TRUE
    CoalesceAuthenticated = TRUE
    Predictable = {"page"}
    QueueCap = 0
    Reliable = FALSE
    Primary = Primary
    Shared = Shared
    NotShareable = NotShareable
    Streaming = Streaming
    NoEntry = NoEntry
    Aborted = Aborted
    Panicked = Panicked
    Cancelled = Cancelled
    None = None
SYMMETRY RequestSymmetry
SPECIFICATION MiddlewareSpec
INVARIANT Isolation
INVARIANT LookupsMatchVary
INVARIANT NoCacheRunsFresh
INVARIANT OncePerRequest
\* The system stops when every request is answered.
CHECK_DEADLOCK FALSE
