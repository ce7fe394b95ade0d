---------------------------- MODULE MCShardedStore ----------------------------
\* Model-checking definitions for ShardedStore.
EXTENDS ShardedStore, TLC

\* A small response, one that fills a shard but for a byte, and one larger than a
\* shard; the content type of the second is as long as its field allows.
Ct   == [v \in Values |-> IF v = "medium" THEN 3 ELSE 0]
Rest == [v \in Values |-> CASE v = "small" -> 1 [] v = "medium" -> 0 [] v = "large" -> 5]
================================================================================
