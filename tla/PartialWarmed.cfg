\* A handler that panics or times out while a job runs it.
CONSTANTS
    c1 = c1
    j1 = j1
    Callers = {c1, j1}
    Requests = {c1}
    Jobs = {j1}
    Workers = 1
    MayClose = FALSE
    DefaultVariant = "en"
    Cancellable = {}
    MayExit = {}
    Keys <- MCKeys
    Outcomes <- MCOutcomes
    Kinds <- OneKind
    Responses <- Partial
    Resources = {"page", "cart"}
    PublicRoutes = {}
    Sessions = {"s1"}
    Variants = {"en"}
    MayPanic = FALSE
    CoalesceAuthenticated = FALSE
    Predictable = {"page"}
    QueueCap = 1
    Reliable = FALSE
    Primary = Primary
    Shared = Shared
    NotShareable = NotShareable
    Streaming = Streaming
    NoEntry = NoEntry
    Aborted = Aborted
    Panicked = Panicked
    Cancelled = Cancelled
    None = None
SPECIFICATION Spec
INVARIANT StoredWhole
\* The system stops when every request is answered and the queue is empty.
CHECK_DEADLOCK FALSE
