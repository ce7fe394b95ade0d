\* Every order of a handler's calls, up to six bytes for a limit of three.
CONSTANTS
    Codes = {200, 404}
    MaxBytes = 3
    Sizes = {1, 2, 4}
    BodyBound = 6
    None = None
SPECIFICATION Spec
INVARIANT WriterTypeOK
INVARIANT NothingLost
INVARIANT StatusKept
INVARIANT EntryWhole
\* The response ends.
CHECK_DEADLOCK FALSE
