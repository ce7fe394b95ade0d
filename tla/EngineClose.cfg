\* Requests that wait on jobs, jobs that wait on requests, panics, Close.
CONSTANTS
    c1 = c1
    c2 = c2
    j1 = j1
    j2 = j2
    Callers = {c1, c2, j1, j2}
    Requests = {c1, c2}
    Jobs = {j1, j2}
    Workers = 1
    MayClose = TRUE
    DefaultVariant = "en"
    Cancellable = {c1, c2}
    MayExit = {}
    Keys <- MCKeys
    Outcomes <- MCOutcomes
    Kinds <- EngineKinds
    Responses <- EngineResponses
    Resources = {"page", "cart"}
    PublicRoutes = {}
    Sessions = {"s1"}
    Variants = {"en"}
    MayPanic = TRUE
    CoalesceAuthenticated = FALSE
    Predictable = {"page"}
    QueueCap = 1
    Reliable = TRUE
    Primary = Primary
    Shared = Shared
    NotShareable = NotShareable
    Streaming = Streaming
    NoEntry = NoEntry
    Aborted = Aborted
    Panicked = Panicked
    Cancelled = Cancelled
    None = None
SPECIFICATION EngineFairSpec
INVARIANT PrefetcherTypeOK
INVARIANT QuietAfterClose
INVARIANT Isolation
INVARIANT OneRunPerResource
PROPERTY CloseReturns
PROPERTY EveryRequestAnswered
\* The system stops when every request is answered and the queue is empty.
CHECK_DEADLOCK FALSE
