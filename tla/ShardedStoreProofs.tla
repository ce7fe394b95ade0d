-------------------------- MODULE ShardedStoreProofs --------------------------
(***************************************************************************)
(* The sharded store keeps its index sound and its rings bounded, and is a *)
(* map that may forget, for any hashes, responses, shard size and number   *)
(* of shards within the widths of FieldsFit.                               *)
(***************************************************************************)
EXTENDS ShardedStore, TLAPS

\* Residues that fit their modulus are left alone by it.
LEMMA SmallMod ==
    ASSUME NEW x \in Nat, NEW m \in Nat, x < m
    PROVE  x % m = x
  OBVIOUS

LEMMA ShardOfType == \A h \in Hashes : ShardOf(h) \in Shards
  BY ShardedAssumption DEF ShardOf, Shards

\* Within FieldsFit, the arithmetic of SetByHash is exact.
LEMMA ExactSizes ==
    ASSUME NEW v \in Values
    PROVE  /\ Total(v) \in Nat /\ Total(v) >= HeaderSize
           /\ Total(v) % Word32 = Total(v)
           /\ CtLen[v] % Word16 = CtLen[v]
           /\ Fits(v) <=> Total(v) <= MaxSize
  <1>1. Total(v) \in Nat /\ Total(v) >= HeaderSize
    BY ShardedAssumption DEF Total
  <1>2. Total(v) < Word32 /\ CtLen[v] < Word16
    BY FieldsFit
  <1>3. Total(v) % Word32 = Total(v)
    BY <1>1, <1>2, SmallMod, ShardedAssumption
  <1>4. CtLen[v] % Word16 = CtLen[v]
    BY <1>2, SmallMod, ShardedAssumption
  <1> QED
    BY <1>1, <1>3, <1>4 DEF Fits

--------------------------------------------------------------------------------
\* No content type was cut short by its 16 bits.
FieldsExact == \A s \in Shards : \A r \in ring[s] : r.ctLen = CtLen[r.value]

\* Index, rings and lock-protected flags agree.
IInv == ShardedTypeOK /\ RingBounded /\ RecordsApart /\ IndexSound /\ FieldsExact

LEMMA InvInit == ShardedInit => IInv
  BY ShardedAssumption, ShardOfType
     DEF ShardedInit, IInv, ShardedTypeOK, RingBounded, RecordsApart, IndexSound, Records,
         FieldsExact


\* What a Set does: one record behind all those that are kept, which are the
\* shard's records or, when the shard was full, none.
Effect(h, v, at, kept, record) ==
    LET s == ShardOf(h) IN
    /\ s \in Shards /\ ~closed[s]
    /\ at \in 0 .. MaxSize /\ at + Total(v) <= MaxSize /\ at < Word32
    /\ Total(v) \in Nat /\ Total(v) > 0
    /\ record \in Records /\ record.at = at /\ record.hash = h /\ record.value = v
    /\ record.ctLen = CtLen[v]
    /\ kept \subseteq ring[s]
    /\ \A r \in kept : r.at + Total(r.value) <= at
    /\ ring' = [ring EXCEPT ![s] = kept \cup {record}]
    /\ len' = [len EXCEPT ![s] = at + Total(v)]
    /\ closed' = closed /\ now' = now
    /\ \/ kept = ring[s] /\ entries' = [entries EXCEPT ![h] = at]
       \/ kept = {} /\ entries' = [k \in Hashes |-> IF k = h THEN at
                                                    ELSE IF ShardOf(k) = s THEN None
                                                    ELSE entries[k]]

LEMMA SetEffect ==
    ASSUME IInv,
           NEW h \in Hashes, NEW v \in Values, NEW ttl \in TTLs, NEW start \in 1 .. now,
           Set(h, v, ttl, start)
    PROVE  \E at, kept, record : Effect(h, v, at, kept, record)
  <1> DEFINE s == ShardOf(h)
             full == Full(s, v)
             at == IF full THEN 0 ELSE len[s]
             record == [at |-> at, hash |-> h, value |-> v, ctLen |-> CtLen[v] % Word16,
                        expire |-> IF ttl > 0 THEN start + ttl ELSE 0]
             kept == IF full THEN {} ELSE ring[s]
  <1>1. s \in Shards
    BY ShardOfType
  <1>2. /\ Total(v) \in Nat /\ Total(v) > 0 /\ Total(v) <= MaxSize
        /\ Total(v) % Word32 = Total(v) /\ CtLen[v] % Word16 = CtLen[v]
    BY ExactSizes, ShardedAssumption DEF Set
  <1>3. len[s] \in Nat /\ len[s] <= MaxSize
    BY <1>1 DEF IInv, ShardedTypeOK, RingBounded
  <1>4. full <=> len[s] + Total(v) > MaxSize
    <2> DEFINE sum == len[s] + Total(v)
    <2>1. sum \in Nat /\ sum < Word32 /\ Word32 \in Nat
      BY <1>2, <1>3, FieldsFit, ShardedAssumption
    <2> HIDE DEF sum
    <2>2. sum % Word32 = sum
      BY <2>1, SmallMod
    <2> QED
      BY <1>2, <2>2 DEF sum, Full
  <1>5. at \in 0 .. MaxSize /\ at + Total(v) <= MaxSize /\ at < Word32 /\ at % Word32 = at
    <2>1. at \in Nat /\ at + Total(v) <= MaxSize /\ at < Word32 /\ Word32 \in Nat
      BY <1>2, <1>3, <1>4, FieldsFit, ShardedAssumption
    <2> QED
      BY <1>2, <2>1, SmallMod, ShardedAssumption
  <1>6. /\ ~closed[s]
        /\ ring' = [ring EXCEPT ![s] = kept \cup {record}]
        /\ len' = [len EXCEPT ![s] = at + Total(v)]
        /\ entries' = [k \in Hashes |-> IF k = h THEN at
                                        ELSE IF full /\ ShardOf(k) = s THEN None
                                        ELSE entries[k]]
        /\ closed' = closed /\ now' = now
    BY <1>5 DEF Set, IndexAfter
  <1>7. entries \in [Hashes -> (0 .. Word32 - 1) \cup {None}]
    BY DEF IInv, ShardedTypeOK
  <1>8. \/ kept = ring[s] /\ entries' = [entries EXCEPT ![h] = at]
        \/ kept = {} /\ entries' = [k \in Hashes |-> IF k = h THEN at
                                                    ELSE IF ShardOf(k) = s THEN None
                                                    ELSE entries[k]]
    BY <1>6, <1>7
  <1>9. kept \subseteq ring[s] /\ \A r \in kept : r.at + Total(r.value) <= at
    BY <1>1 DEF IInv, RecordsApart
  <1>10. record \in Records
    BY <1>2, <1>5, ShardedAssumption DEF Records, IInv, ShardedTypeOK
  <1>11. /\ record.at = at /\ record.hash = h /\ record.value = v
         /\ record.ctLen = CtLen[v]
    BY <1>2
  <1> HIDE DEF full, at, record, kept
  <1>12. Effect(h, v, at, kept, record)
    BY <1>1, <1>2, <1>5, <1>6, <1>8, <1>9, <1>10, <1>11 DEF Effect
  <1> QED
    BY <1>12

\* A Set keeps records apart: the new one begins where the others end.
LEMMA SetInv ==
    ASSUME IInv,
           NEW h \in Hashes, NEW v \in Values, NEW ttl \in TTLs, NEW start \in 1 .. now,
           Set(h, v, ttl, start)
    PROVE  IInv'
  <1> DEFINE s == ShardOf(h)
  <1>1. PICK at, kept, record : Effect(h, v, at, kept, record)
    BY SetEffect
  <1>2. ShardedTypeOK'
    BY <1>1, ShardedAssumption DEF Effect, IInv, ShardedTypeOK
  <1>3. RingBounded'
    BY <1>1 DEF Effect, IInv, RingBounded, ShardedTypeOK
  <1>4. FieldsExact'
    BY <1>1 DEF Effect, IInv, FieldsExact, ShardedTypeOK
  <1>5. RecordsApart'
    <2> SUFFICES ASSUME NEW t \in Shards
                 PROVE  /\ \A r \in ring'[t] : ShardOf(r.hash) = t
                                               /\ r.at + Total(r.value) <= len'[t]
                        /\ \A r, q \in ring'[t] : r # q => r.at + Total(r.value) <= q.at
                                                           \/ q.at + Total(q.value) <= r.at
      BY DEF RecordsApart
    <2>1. CASE t # s
      BY <2>1, <1>1 DEF Effect, IInv, RecordsApart, ShardedTypeOK
    <2>2. CASE t = s
      <3>1. ring'[t] = kept \cup {record} /\ len'[t] = at + Total(v)
        BY <2>2, <1>1 DEF Effect, IInv, ShardedTypeOK
      <3>2. \A r \in kept : ShardOf(r.hash) = t /\ r.at + Total(r.value) <= at + Total(v)
        <4> SUFFICES ASSUME NEW r \in kept
                     PROVE  ShardOf(r.hash) = t /\ r.at + Total(r.value) <= at + Total(v)
          OBVIOUS
        <4>1. r \in Records /\ ShardOf(r.hash) = t
          BY <1>1, <2>2 DEF Effect, IInv, RecordsApart, ShardedTypeOK
        <4>2. Total(r.value) \in Nat /\ r.at \in Nat
          BY <4>1, ExactSizes DEF Records
        <4> QED
          BY <4>1, <4>2, <1>1 DEF Effect
      <3>3. ShardOf(record.hash) = t /\ record.at + Total(record.value) <= at + Total(v)
        BY <2>2, <1>1 DEF Effect
      <3>4. \A r, q \in kept : r # q => r.at + Total(r.value) <= q.at
                                        \/ q.at + Total(q.value) <= r.at
        BY <1>1 DEF Effect, IInv, RecordsApart
      <3>5. \A r \in kept : r.at + Total(r.value) <= record.at
        BY <1>1 DEF Effect
      <3> QED
        BY <3>1, <3>2, <3>3, <3>4, <3>5
    <2> QED
      BY <2>1, <2>2
  <1>6. IndexSound'
    <2> SUFFICES ASSUME NEW k \in Hashes, entries'[k] # None
                 PROVE  /\ ~closed'[ShardOf(k)]
                        /\ \E r \in ring'[ShardOf(k)] : r.at = entries'[k] /\ r.hash = k
      BY DEF IndexSound
    <2>1. CASE k = h
      BY <2>1, <1>1 DEF Effect, IInv, ShardedTypeOK
    <2>2. CASE k # h
      <3>1. entries'[k] = entries[k]
        BY <2>2, <1>1 DEF Effect, IInv, ShardedTypeOK
      <3>2. ring[ShardOf(k)] \subseteq ring'[ShardOf(k)]
        BY <2>2, <1>1, ShardOfType DEF Effect, IInv, ShardedTypeOK
      <3> QED
        BY <3>1, <3>2, <1>1 DEF Effect, IInv, IndexSound
    <2> QED
      BY <2>1, <2>2
  <1> QED
    BY <1>2, <1>3, <1>4, <1>5, <1>6 DEF IInv

\* The other steps take records and index entries away, or let time pass.
LEMMA RestInv ==
    ASSUME IInv,
           \/ \E h \in Hashes : Del(h)
           \/ \E s \in Shards : CloseShard(s)
           \/ Tick
           \/ UNCHANGED vars
    PROVE  IInv'
  <1>1. ASSUME NEW h \in Hashes, Del(h)
        PROVE  IInv'
    BY <1>1 DEF Del, IInv, ShardedTypeOK, RingBounded, RecordsApart, IndexSound, Total, ShardOf,
           FieldsExact
  <1>2. ASSUME NEW s \in Shards, CloseShard(s)
        PROVE  IInv'
    BY <1>2, ShardedAssumption, ShardOfType
       DEF CloseShard, IndexAfter, IInv, ShardedTypeOK, RingBounded, RecordsApart, IndexSound, FieldsExact
  <1>3. CASE Tick
    BY <1>3 DEF Tick, IInv, ShardedTypeOK, RingBounded, RecordsApart, IndexSound, FieldsExact
  <1>4. CASE UNCHANGED vars
    BY <1>4 DEF vars, IInv, ShardedTypeOK, RingBounded, RecordsApart, IndexSound, FieldsExact
  <1> QED
    BY <1>1, <1>2, <1>3, <1>4

\* The strengthened invariant holds for ever: apart records give an append a place
\* of its own, and only then does an offset mean one record.
THEOREM Invariance == Spec => []IInv
  <1>1. IInv /\ [Next]_vars => IInv'
    BY SetInv, RestInv DEF Next
  <1> QED
    BY InvInit, <1>1, PTL DEF Spec

\* Every variable of sharded_store.go's shards keeps its type.
THEOREM TypeCorrect == Spec => []ShardedTypeOK
  BY Invariance, PTL DEF IInv

\* No sequence of Sets grows a ring past maxSize.
THEOREM Bounded == Spec => []RingBounded
  BY Invariance, PTL DEF IInv

\* The index never points anywhere but at a record of its own key.
THEOREM OffsetsSound == Spec => []IndexSound
  BY Invariance, PTL DEF IInv

--------------------------------------------------------------------------------
\* What a Get reads, once the index is sound: the one record at the key's offset.
GetSound ==
    \A h \in Hashes :
        IF entries[h] = None
          THEN Get(h) = None
          ELSE /\ \E r \in ring[ShardOf(h)] : r.at = entries[h]
               /\ \A r \in ring[ShardOf(h)] :
                     r.at = entries[h] => Get(h) = IF Expired(r) THEN None ELSE r.value

LEMMA GetReads == IInv => GetSound
  <1> SUFFICES ASSUME IInv, NEW h \in Hashes, entries[h] # None,
                      NEW q \in ring[ShardOf(h)], q.at = entries[h]
               PROVE  Get(h) = IF Expired(q) THEN None ELSE q.value
    BY DEF GetSound, Get, IInv, IndexSound
  <1> DEFINE s == ShardOf(h)
  <1>1. s \in Shards /\ ~closed[s]
    BY ShardOfType DEF IInv, IndexSound
  <1>2. PICK r \in ring[s] : r.at = entries[h] /\ r.hash = h
    BY DEF IInv, IndexSound
  <1>3. \A p \in ring[s] : p \in Records /\ Total(p.value) \in Nat /\ Total(p.value) >= HeaderSize
    BY <1>1, ExactSizes DEF IInv, ShardedTypeOK, Records
  <1>4. \A p \in ring[s] : p.at = r.at => p = r
    BY <1>1, <1>2, <1>3, ShardedAssumption DEF IInv, RecordsApart, Records
  <1>5. RecordAt(s, entries[h]) = r /\ q = r
    BY <1>2, <1>4 DEF RecordAt
  <1>6. r.at + Total(r.value) <= len[s] /\ len[s] \in Nat
    BY <1>1, <1>2 DEF IInv, RecordsApart, ShardedTypeOK
  <1>7. ~ (entries[h] + HeaderSize > len[s]) /\ ~ (entries[h] + Total(r.value) > len[s])
    BY <1>2, <1>3, <1>6, ShardedAssumption DEF Records
  <1>8. r.ctLen = CtLen[r.value]
    BY <1>1, <1>2 DEF IInv, FieldsExact
  <1> HIDE DEF s
  <1> QED
    BY <1>1, <1>2, <1>5, <1>7, <1>8 DEF Get, s

\* The mapped contents, an abstract variable of LossyMap.
Content == [h \in Hashes |-> Get(h)]

LEMMA ContentType ==
    ASSUME ShardedTypeOK, GetSound
    PROVE  Content \in [Hashes -> Values \cup {None}]
  BY ShardOfType DEF Content, GetSound, ShardedTypeOK, Records

\* What a key's shard has for it decides what Get returns.
LEMMA SameRead ==
    ASSUME GetSound, GetSound', NEW k \in Hashes,
           entries'[k] = entries[k], now' = now,
           ring[ShardOf(k)] \subseteq ring'[ShardOf(k)]
    PROVE  Get(k)' = Get(k)
  BY DEF GetSound, Expired

LEMMA StepRefines ==
    ASSUME IInv, GetSound, GetSound', ShardedTypeOK', [Next]_vars
    PROVE  [Contract!Next]_Content
  <1>1. Content' \in [Hashes -> Values \cup {None}]
    BY ShardOfType DEF Content, GetSound, ShardedTypeOK, Records
  <1>2. ASSUME NEW h \in Hashes, NEW v \in Values, NEW ttl \in TTLs, NEW start \in 1 .. now,
               Set(h, v, ttl, start)
        PROVE  Contract!Set(h, v)
    <2>1. PICK at, kept, record : Effect(h, v, at, kept, record)
      BY <1>2, SetEffect
    <2>2. Get(h)' \in {v, None}
      <3>1. entries'[h] = at /\ at # None /\ record \in ring'[ShardOf(h)]
            /\ record.at = at /\ record.value = v
        BY <2>1, ShardedAssumption DEF Effect, IInv, ShardedTypeOK
      <3> QED
        BY <3>1 DEF GetSound
    <2>3. ASSUME NEW k \in Hashes, k # h
          PROVE  Get(k)' \in {Get(k), None}
      <3>1. CASE entries'[k] = None
        BY <3>1 DEF GetSound
      <3>2. CASE entries'[k] # None
        <4>1. entries'[k] = entries[k] /\ now' = now
          BY <3>2, <2>1, <2>3 DEF Effect, IInv, ShardedTypeOK
        <4>2. ring[ShardOf(k)] \subseteq ring'[ShardOf(k)]
          BY <3>2, <2>1, <2>3, ShardOfType DEF Effect, IInv, ShardedTypeOK
        <4> QED
          BY <4>1, <4>2, SameRead
      <3> QED
        BY <3>1, <3>2
    <2> QED
      BY <2>2, <2>3 DEF Contract!Set
  <1>3. ASSUME NEW h \in Hashes, Del(h)
        PROVE  Contract!Forget
    <2>1. ASSUME NEW k \in Hashes
          PROVE  Get(k)' \in {Get(k), None}
      <3>1. CASE k = h
        BY <3>1, <1>3 DEF Del, GetSound, IInv, ShardedTypeOK
      <3>2. CASE k # h
        BY <3>2, <1>3, SameRead DEF Del, IInv, ShardedTypeOK
      <3> QED
        BY <3>1, <3>2
    <2> QED
      BY <2>1 DEF Contract!Forget
  <1>4. ASSUME NEW s \in Shards, CloseShard(s)
        PROVE  Contract!Forget
    <2>1. ASSUME NEW k \in Hashes
          PROVE  Get(k)' \in {Get(k), None}
      <3>1. CASE ShardOf(k) = s
        BY <3>1, <1>4 DEF CloseShard, IndexAfter, GetSound
      <3>2. CASE ShardOf(k) # s
        <4>1. entries'[k] = entries[k] /\ ring'[ShardOf(k)] = ring[ShardOf(k)]
              /\ closed'[ShardOf(k)] = closed[ShardOf(k)]
          BY <3>2, <1>4, ShardOfType DEF CloseShard, IndexAfter, IInv, ShardedTypeOK
        <4>2. len'[ShardOf(k)] = len[ShardOf(k)] /\ now' = now
          BY <3>2, <1>4, ShardOfType DEF CloseShard, IInv, ShardedTypeOK
        <4> QED
          BY <4>1, <4>2, SameRead
      <3> QED
        BY <3>1, <3>2
    <2> QED
      BY <2>1 DEF Contract!Forget
  <1>5. ASSUME Tick
        PROVE  Contract!Forget
    <2>1. ASSUME NEW k \in Hashes
          PROVE  Get(k)' \in {Get(k), None}
      <3>1. \A r \in ring[ShardOf(k)] : Expired(r) => Expired(r)'
        BY <1>5, ShardOfType DEF Tick, Expired, IInv, ShardedTypeOK, Records
      <3> QED
        BY <3>1, <1>5 DEF Tick, GetSound
    <2> QED
      BY <2>1 DEF Contract!Forget
  <1>6. CASE UNCHANGED vars
    BY <1>6 DEF vars, Content, Get, RecordAt, Expired
  <1> QED
    BY <1>1, <1>2, <1>3, <1>4, <1>5, <1>6 DEF Next, Contract!Next, Content

\* The store of sharded_store.go is a map that may forget: Get never returns the
\* bytes of another key, of an overwritten or deleted entry, or of a part of one.
THEOREM Refinement == Spec => ImplementsLossyMap
  <1>1. ShardedInit => Contract!Init
    BY DEF ShardedInit, Contract!Init, Get
  <1>2. IInv => GetSound /\ ShardedTypeOK
    BY GetReads DEF IInv
  <1>3. IInv /\ IInv' /\ GetSound /\ GetSound' /\ [Next]_vars => [Contract!Next]_Content
    BY StepRefines DEF IInv
  <1> QED
    BY <1>1, <1>2, <1>3, Invariance, PTL DEF Spec, ImplementsLossyMap, Contract!Spec, Content
================================================================================
