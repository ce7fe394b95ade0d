----------------------------- MODULE ShardedStore -----------------------------
(***************************************************************************)
(* The byte-arena store of sharded_store.go.  A shard's ring is modelled   *)
(* by the records laid out in it, each at its byte offset, and its length  *)
(* in bytes; the index maps a key's hash to an offset.  Every call holds   *)
(* the shard's lock from beginning to end and is one step, except that a   *)
(* Set reads the clock before it waits for the lock.  Equal 64-bit hashes  *)
(* are taken to mean equal keys.                                           *)
(***************************************************************************)
EXTENDS Integers

CONSTANTS Hashes,      \* hashes of the keys in use
          Values,      \* responses
          CtLen,       \* CtLen[v]: bytes of v's Content-Type
          RestLen,     \* RestLen[v]: bytes of v's encoded headers and body
          TTLs,        \* times to live clients ask for, 0: none
          NumShards,
          MaxSize,     \* a shard's maxSize, in bytes
          HeaderSize,  \* entryHeaderSize
          Word16, Word32,  \* 2^16 and 2^32: the widths of the record's fields
          MaxTime,     \* bound of the clock
          None,
          Garbled      \* what a read that is not of a whole record returns

Total(v) == HeaderSize + CtLen[v] + RestLen[v]

ASSUME ShardedAssumption ==
    /\ Hashes \subseteq Nat /\ TTLs \subseteq Nat
    /\ CtLen \in [Values -> Nat] /\ RestLen \in [Values -> Nat]
    /\ NumShards \in Nat \ {0} /\ MaxSize \in Nat /\ HeaderSize \in Nat \ {0}
    /\ Word16 \in Nat \ {0} /\ Word32 \in Nat \ {0} /\ MaxTime \in Nat
    /\ None \notin Nat /\ None \notin Values /\ Garbled \notin Values /\ None # Garbled

\* The sizes the field widths are good for: shards below 2 GB, responses below
\* 4 GB, content types below 64 KB.  The code checks none of the three.
ASSUME FieldsFit ==
    /\ 2 * MaxSize < Word32
    /\ \A v \in Values : Total(v) < Word32 /\ CtLen[v] < Word16

Shards == 0 .. NumShards - 1
ShardOf(h) == h % NumShards

VARIABLES ring,    \* ring[s]: the records in shard s
          len,     \* len[s]: len(ring) of shard s
          entries, \* entries[h]: the offset h's shard has for h, None if it has none
          closed,  \* closed[s]
          now

vars == <<ring, len, entries, closed, now>>

Expired(r) == r.expire > 0 /\ now > r.expire

ShardedInit ==
    /\ ring = [s \in Shards |-> {}]
    /\ len = [s \in Shards |-> 0]
    /\ entries = [h \in Hashes |-> None]
    /\ closed = [s \in Shards |-> FALSE]
    /\ now = 1

RecordAt(s, o) == CHOOSE r \in ring[s] : r.at = o

\* GetByHash.  An offset where no record begins yields whatever the bytes say; a
\* content type too long for its field shifts everything after it.
Get(h) ==
    LET s == ShardOf(h)
        o == entries[h]
        r == RecordAt(s, o)
    IN  IF closed[s] \/ o = None THEN None
        ELSE IF o + HeaderSize > len[s] THEN None
        ELSE IF ~ \E q \in ring[s] : q.at = o THEN Garbled
        ELSE IF r.hash # h \/ Expired(r) \/ o + Total(r.value) > len[s] THEN None
        ELSE IF r.ctLen # CtLen[r.value] THEN Garbled
        ELSE r.value

\* Fault: no limit on one entry.
FitsAlways(v) == TRUE

\* uint32(total) > maxSize refuses an entry.
Fits(v) == Total(v) % Word32 <= MaxSize

\* Fault: what the ring already holds is forgotten.
FullAlone(s, v) == Total(v) > MaxSize

\* Whether the entry no longer fits in what is left of the shard.
Full(s, v) == (len[s] + (Total(v) % Word32)) % Word32 > MaxSize

\* Fault: the index outlives the ring it points into.
IndexKept(s, full) == entries

\* The index of a shard that is emptied, or not, before an append.
IndexAfter(s, full) ==
    [k \in Hashes |-> IF full /\ ShardOf(k) = s THEN None ELSE entries[k]]

\* SetByHash, of a call that read the clock at start, when it is not refused.
Set(h, v, ttl, start) ==
    LET s == ShardOf(h)
        full == Full(s, v)
        at == IF full THEN 0 ELSE len[s]
        record == [at |-> at, hash |-> h, value |-> v, ctLen |-> CtLen[v] % Word16,
                   expire |-> IF ttl > 0 THEN start + ttl ELSE 0]
    IN  /\ ~closed[s]
        /\ Fits(v)
        /\ ring' = [ring EXCEPT ![s] = (IF full THEN {} ELSE @) \cup {record}]
        /\ len' = [len EXCEPT ![s] = at + Total(v)]
        /\ entries' = [IndexAfter(s, full) EXCEPT ![h] = at % Word32]
        /\ UNCHANGED <<closed, now>>

Del(h) ==
    /\ ~closed[ShardOf(h)]
    /\ entries' = [entries EXCEPT ![h] = None]
    /\ UNCHANGED <<ring, len, closed, now>>

\* One turn of Close's loop; several calls of Close may be under way.
CloseShard(s) ==
    /\ \A t \in Shards : t < s => closed[t]
    /\ closed' = [closed EXCEPT ![s] = TRUE]
    /\ ring' = [ring EXCEPT ![s] = {}]
    /\ len' = [len EXCEPT ![s] = 0]
    /\ entries' = IndexAfter(s, TRUE)
    /\ UNCHANGED now

Tick ==
    /\ now < MaxTime
    /\ now' = now + 1
    /\ UNCHANGED <<ring, len, entries, closed>>

Next ==
    \/ \E h \in Hashes :
        \/ \E v \in Values, ttl \in TTLs, start \in 1 .. now : Set(h, v, ttl, start)
        \/ Del(h)
    \/ \E s \in Shards : CloseShard(s)
    \/ Tick

Spec == ShardedInit /\ [][Next]_vars
--------------------------------------------------------------------------------
Records == [at : 0 .. MaxSize, hash : Hashes, value : Values, ctLen : 0 .. Word16 - 1,
            expire : Nat]

ShardedTypeOK ==
    /\ ring \in [Shards -> SUBSET Records]
    /\ len \in [Shards -> Nat]
    /\ entries \in [Hashes -> (0 .. Word32 - 1) \cup {None}]
    /\ closed \in [Shards -> BOOLEAN]
    /\ now \in Nat

\* The memory bound the store exists for: no sequence of Sets, of any sizes, makes
\* a shard's ring longer than maxSize.
RingBounded == \A s \in Shards : len[s] <= MaxSize

\* An offset in the index is where a whole record of that very key begins:
\* what makes Get's reads by offset safe across appends, resets and deletions.
\* GetByHash's own checks of the offset, the hash and the length are then never what
\* turns a stale index into a miss.
IndexSound ==
    \A h \in Hashes : entries[h] # None =>
        LET s == ShardOf(h) IN
        /\ ~closed[s]
        /\ \E r \in ring[s] : r.at = entries[h] /\ r.hash = h

\* Every record lies within its shard's ring, in the shard of its hash, and no two
\* overlap.
RecordsApart ==
    \A s \in Shards :
        /\ \A r \in ring[s] : ShardOf(r.hash) = s /\ r.at + Total(r.value) <= len[s]
        /\ \A r, q \in ring[s] : r # q => r.at + Total(r.value) <= q.at
                                           \/ q.at + Total(q.value) <= r.at

\* The store is a map that may forget (LossyMap): a Get returns the last response
\* set under its key, whole, or nothing, however often the ring was reset and
\* whatever the shard's other keys did.
Contract == INSTANCE LossyMap WITH Keys <- Hashes, Values <- Values, Absent <- None,
                                   content <- [h \in Hashes |-> Get(h)]
ImplementsLossyMap == Contract!Spec
================================================================================
