\* Three calls over two keys; any fn may hang, panic or Goexit; two contexts may be cancelled, c3 calls Do.
CONSTANTS
    c1 = c1
    c2 = c2
    c3 = c3
    Callers = {c1, c2, c3}
    Cancellable = {c1, c2}
    MayExit = {c1, c2, c3}
    Keys = {k1, k2}
    Outcomes = {o1}
    Panicked = Panicked
    Cancelled = Cancelled
    None = None
SPECIFICATION FairInflightSpec
INVARIANT InflightTypeOK
INVARIANT OneFlightPerKey
INVARIANT SharedResult
PROPERTY PublishedResultStable
PROPERTY ImplementsSingleFlight
PROPERTY EveryCallReturns
PROPERTY CancelledWaiterReturns
\* The group stops when every call is made; a waiter of a Goexit flight hangs.
CHECK_DEADLOCK FALSE
