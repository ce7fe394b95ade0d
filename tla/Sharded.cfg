\* Two shards; shard 0 has two of the three keys.
CONSTANTS
    Hashes = {0, 1, 2}
    Values = {"small", "medium", "large"}
    CtLen <- Ct
    RestLen <- Rest
    TTLs = {0, 1}
    NumShards = 2
    MaxSize = 5
    HeaderSize = 1
    Word16 = 4
    Word32 = 11
    MaxTime = 3
    None = None
    Garbled = Garbled
SPECIFICATION Spec
INVARIANT ShardedTypeOK
INVARIANT RingBounded
INVARIANT IndexSound
PROPERTY ImplementsLossyMap
\* The system stops when the store is closed and the clock is at its bound.
CHECK_DEADLOCK FALSE
