------------------------- MODULE DensePredictorProofs -------------------------
(***************************************************************************)
(* Theorems about EndpointRegistry, for any number of goroutines and       *)
(* patterns and any capacity that leaves InvalidRouteID free, and about    *)
(* DensePredictor, for any number of routes, sessions and calls: what its  *)
(* goroutines see of the registry, types and names; then what the counters *)
(* add up to, with 32-bit arithmetic and without a lock; and, as long as   *)
(* no counter can go round, that predictions are exact and that it is the  *)
(* locked MarkovPredictor.                                                 *)
(***************************************************************************)
EXTENDS DensePredictor, FiniteSetTheorems, WellFoundedInduction, TLAPS

\* The mutex is held from the count to the last store, by one thread, and what it
\* has counted is one ID ahead of the reverse table until it lets go.
Holding(t) == reg[t] \in {"counted", "mapped"}

LockInv ==
    /\ \A t \in Threads : mu = t <=> Holding(t)
    /\ mu = None => Len(reverse) = count
    /\ \A t \in Threads : Holding(t) =>
          /\ count > 0 /\ answer[t] = count - 1 /\ Len(reverse) = count - 1
          /\ patterns[asked[t]] = IF reg[t] = "mapped" THEN answer[t] ELSE None

AskedInv ==
    \A t \in Threads : (reg[t] # "out" \/ answer[t] # None) => asked[t] \in Patterns

IInv == RegistryTypeOK /\ LockInv /\ AskedInv /\ IdsAgree

\* An ID below the capacity is not cut by the conversion to 16 bits.
LEMMA NoWrap ==
    ASSUME NEW c \in Nat, c < MaxIndexedRoutes
    PROVE  c % (InvalidRouteID + 1) = c
BY RegistryAssumption, SMT

\* Initially nothing is registered and nobody holds the lock.
LEMMA InitInv == RegistryInit => IInv
<1> SUFFICES ASSUME RegistryInit PROVE IInv
    OBVIOUS
<1> USE RegistryAssumption DEF RegistryInit
<1>1. RegistryTypeOK
    BY DEF RegistryTypeOK
<1>2. LockInv
    BY DEF LockInv, Holding
<1>3. AskedInv
    BY DEF AskedInv
<1>4. IdsAgree
    BY DEF IdsAgree
<1> QED
    BY <1>1, <1>2, <1>3, <1>4 DEF IInv

\* The fast path takes an ID from the published map.
LEMMA AskInv ==
    ASSUME IInv, NEW t \in Threads, NEW p \in Patterns, Ask(t, p)
    PROVE  IInv'
<1> USE RegistryAssumption DEF IInv, Ask, At, Return
<1>1. RegistryTypeOK'
    BY DEF RegistryTypeOK
<1>2. LockInv'
    BY DEF LockInv, Holding, RegistryTypeOK
<1>3. AskedInv'
    BY DEF AskedInv, RegistryTypeOK
<1>4. IdsAgree'
    BY DEF IdsAgree, PatternOf, RegistryTypeOK, LockInv, Holding
<1> QED
    BY <1>1, <1>2, <1>3, <1>4

\* Under the lock an ID is found, refused or counted.
LEMMA RegisterInv ==
    ASSUME IInv, NEW t \in Threads, Register(t)
    PROVE  IInv'
<1> USE RegistryAssumption DEF IInv
<1>0. asked[t] \in Patterns /\ reg[t] = "slow" /\ mu = None /\ count \in Nat
    BY DEF AskedInv, Register, RegistryTypeOK
<1>1. CASE UNCHANGED <<patterns, reverse, count, mu, asked>>
    <2>1. /\ reg' = [reg EXCEPT ![t] = "out"]
          /\ \/ answer' = [answer EXCEPT ![t] = InvalidRouteID]
             \/ patterns[asked[t]] # None /\ answer' = [answer EXCEPT ![t] = patterns[asked[t]]]
        BY <1>0, <1>1 DEF Register, At, Return
    <2> HIDE DEF IInv
    <2>2. RegistryTypeOK'
        BY <1>0, <1>1, <2>1 DEF RegistryTypeOK, IInv
    <2>3. LockInv'
        BY <1>0, <1>1, <2>1 DEF LockInv, Holding, RegistryTypeOK, IInv
    <2>4. AskedInv'
        BY <1>0, <1>1, <2>1 DEF AskedInv, RegistryTypeOK, IInv
    <2>5. IdsAgree'
        BY <1>0, <1>1, <2>1 DEF IdsAgree, PatternOf, RegistryTypeOK, IInv
    <2> QED
        BY <2>2, <2>3, <2>4, <2>5 DEF IInv
<1>2. CASE ~UNCHANGED <<patterns, reverse, count, mu, asked>>
    <2>1. /\ patterns[asked[t]] = None /\ count < MaxIndexedRoutes
          /\ count % (InvalidRouteID + 1) = count
          /\ UNCHANGED <<patterns, reverse, asked>>
          /\ reg' = [reg EXCEPT ![t] = "counted"]
          /\ count' = count + 1 /\ mu' = t
        BY <1>0, <1>2, NoWrap DEF Register, At, Return
    <2>2. answer' = [answer EXCEPT ![t] = count]
        BY <1>0, <2>1 DEF Register, At, Return
    <2> HIDE DEF IInv
    <2>3. RegistryTypeOK'
        BY <1>0, <2>1, <2>2 DEF RegistryTypeOK, IInv
    <2>4. LockInv'
        BY <1>0, <2>1, <2>2 DEF LockInv, Holding, RegistryTypeOK, IInv
    <2>5. AskedInv'
        BY <1>0, <2>1, <2>2 DEF AskedInv, RegistryTypeOK, IInv
    <2>6. IdsAgree'
        <3> USE DEF IdsAgree, IInv
        <3>1. \A p, q \in Patterns : patterns'[p] # None /\ patterns'[p] = patterns'[q] => p = q
            BY <2>1
        <3>2. \A p \in Patterns : patterns'[p] # None =>
                 /\ patterns'[p] < count'
                 /\ PatternOf(patterns[p])' = p
            BY <1>0, <2>1 DEF PatternOf, RegistryTypeOK, LockInv, Holding
        <3>3. \A i \in 1..Len(reverse') :
                 reverse'[i] \in Patterns /\ patterns'[reverse'[i]] = i - 1
            BY <2>1
        <3>4. \A u \in Threads :
                 reg'[u] = "out" /\ answer'[u] \notin {None, InvalidRouteID}
                     => patterns'[asked'[u]] = answer'[u]
            BY <2>1, <2>2 DEF RegistryTypeOK
        <3> QED
            BY <3>1, <3>2, <3>3, <3>4
    <2> QED
        BY <2>3, <2>4, <2>5, <2>6 DEF IInv
<1> QED
    BY <1>1, <1>2

\* The map is published first: the new ID is the last one and nobody else's.
LEMMA StorePatternsInv ==
    ASSUME IInv, NEW t \in Threads, StorePatterns(t)
    PROVE  IInv'
<1> USE RegistryAssumption DEF IInv, StorePatterns, At
<1>0. asked[t] \in Patterns
    BY DEF AskedInv
<1>1. RegistryTypeOK'
    BY <1>0 DEF RegistryTypeOK, LockInv, Holding
<1>2. LockInv'
    BY <1>0 DEF LockInv, Holding, RegistryTypeOK
<1>3. AskedInv'
    BY DEF AskedInv, RegistryTypeOK
<1>4. IdsAgree'
    BY <1>0 DEF IdsAgree, PatternOf, RegistryTypeOK, LockInv, Holding
<1> QED
    BY <1>1, <1>2, <1>3, <1>4

\* Then the reverse table, which thereby reaches the new ID.
LEMMA StoreReverseInv ==
    ASSUME IInv, NEW t \in Threads, StoreReverse(t)
    PROVE  IInv'
<1> USE RegistryAssumption DEF IInv, StoreReverse, At
<1>0. asked[t] \in Patterns
    BY DEF AskedInv
<1>1. RegistryTypeOK'
    BY <1>0 DEF RegistryTypeOK, LockInv, Holding
<1>2. LockInv'
    BY <1>0 DEF LockInv, Holding, RegistryTypeOK
<1>3. AskedInv'
    BY DEF AskedInv, RegistryTypeOK
<1>4. /\ answer[t] = count - 1 /\ Len(reverse) = count - 1 /\ count \in Nat
      /\ patterns[asked[t]] = answer[t]
      /\ \A u \in Threads : mu = u => u = t
    BY DEF LockInv, Holding, RegistryTypeOK
<1>5. /\ reverse' \in Seq(Patterns \cup {None}) /\ Len(reverse') = count
      /\ reverse'[count] = asked[t]
      /\ \A i \in 1..Len(reverse) : reverse'[i] = reverse[i]
    <2> HIDE DEF IInv, StoreReverse, At
    <2> DEFINE longer == Append(reverse, None)
    <2>1. reverse \in Seq(Patterns \cup {None})
        BY DEF IInv, RegistryTypeOK
    <2>2. /\ longer \in Seq(Patterns \cup {None}) /\ Len(longer) = count
          /\ \A i \in 1..Len(reverse) : longer[i] = reverse[i]
        BY <1>4, <2>1
    <2>3. reverse' = [longer EXCEPT ![count] = asked[t]]
        BY <1>4 DEF StoreReverse
    <2>4. count \in 1..Len(longer)
        BY <1>4, <2>1, <2>2
    <2> HIDE DEF longer
    <2> QED
        BY <1>0, <1>4, <2>1, <2>2, <2>3, <2>4
<1>6. IdsAgree'
    <2> HIDE DEF IInv, StoreReverse, At
    <2>0. IdsAgree /\ RegistryTypeOK
        BY DEF IInv
    <2>1. /\ patterns' = patterns /\ count' = count /\ asked' = asked /\ answer' = answer
          /\ reg' = [reg EXCEPT ![t] = "out"]
        BY DEF StoreReverse, At
    <2>2. \A p, q \in Patterns : patterns'[p] # None /\ patterns'[p] = patterns'[q] => p = q
        BY <2>0, <2>1 DEF IdsAgree
    <2>3. ASSUME NEW p \in Patterns, patterns'[p] # None
          PROVE  patterns'[p] < count' /\ PatternOf(patterns[p])' = p
        <3>1. patterns[p] \in Nat /\ patterns[p] < count
            BY <2>0, <2>1, <2>3 DEF IdsAgree, RegistryTypeOK
        <3>2. CASE p = asked[t]
            BY <3>1, <3>2, <1>4, <1>5, <2>1 DEF PatternOf
        <3>3. CASE p # asked[t]
            <4>1. PatternOf(patterns[p]) = p
                BY <2>0, <2>1, <2>3, <3>3, <1>4 DEF IdsAgree
            <4>2. patterns[p] < Len(reverse)
                BY <4>1, <3>1 DEF PatternOf
            <4> QED
                BY <4>1, <4>2, <3>1, <1>4, <1>5, <2>1 DEF PatternOf
        <3> QED
            BY <3>2, <3>3
    <2>4. \A i \in 1..Len(reverse') :
             reverse'[i] \in Patterns /\ patterns'[reverse'[i]] = i - 1
        <3>1. \A i \in 1..Len(reverse) : reverse[i] \in Patterns /\ patterns[reverse[i]] = i - 1
            BY <2>0 DEF IdsAgree
        <3>2. \A i \in 1..Len(reverse') : i = count \/ i \in 1..Len(reverse)
            BY <1>4, <1>5
        <3> QED
            BY <1>0, <1>4, <1>5, <2>1, <3>1, <3>2
    <2>5. \A u \in Threads :
             reg'[u] = "out" /\ answer'[u] \notin {None, InvalidRouteID}
                 => patterns'[asked'[u]] = answer'[u]
        BY <1>4, <2>0, <2>1 DEF IdsAgree, RegistryTypeOK
    <2> QED
        BY <2>2, <2>3, <2>4, <2>5 DEF IdsAgree
<1> QED
    BY <1>1, <1>2, <1>3, <1>6

\* Every step of the registry, and a step that leaves it alone, keeps the invariant.
LEMMA StepInv == IInv /\ [RegistryNext]_registryVars => IInv'
<1> SUFFICES ASSUME IInv, [RegistryNext]_registryVars PROVE IInv'
    OBVIOUS
<1>1. CASE UNCHANGED registryVars
    BY <1>1 DEF registryVars, IInv, RegistryTypeOK, LockInv, Holding, AskedInv, IdsAgree, PatternOf
<1>2. CASE RegistryNext
    BY <1>2, AskInv, RegisterInv, StorePatternsInv, StoreReverseInv DEF RegistryNext, RegistryStep
<1> QED
    BY <1>1, <1>2

\* No step takes a published ID back: GetOrRegister stores only under a pattern
\* that it found absent when it took the lock.
LEMMA StepStable ==
    ASSUME IInv, [RegistryNext]_registryVars
    PROVE  \A p \in Patterns : patterns[p] # None => patterns'[p] = patterns[p]
<1>1. CASE UNCHANGED patterns
    BY <1>1
<1>2. CASE \E t \in Threads : StorePatterns(t)
    BY <1>2 DEF StorePatterns, IInv, RegistryTypeOK, LockInv, Holding, AskedInv
<1> QED
    BY <1>1, <1>2 DEF RegistryNext, RegistryStep, Ask, Register, StoreReverse, registryVars

\* GetOrRegister keeps the types of its variables, and the count its capacity.
THEOREM TypeCorrect == RegistrySpec => []RegistryTypeOK
<1>1. IInv => RegistryTypeOK
    BY DEF IInv
<1> QED
    BY <1>1, InitInv, StepInv, PTL DEF RegistrySpec

\* Every pattern keeps to one ID and every ID to one pattern, whoever asks and
\* whatever of the two publications has happened.
THEOREM OneIdEach == RegistrySpec => []IdsAgree
<1>1. IInv => IdsAgree
    BY DEF IInv
<1> QED
    BY <1>1, InitInv, StepInv, PTL DEF RegistrySpec

\* An ID the matrix has been indexed with stays the ID of its pattern.
THEOREM IdsKept == RegistrySpec => IdsStable
<1>1. IInv /\ [RegistryNext]_registryVars
          => [\A p \in Patterns : patterns[p] # None => patterns'[p] = patterns[p]]_registryVars
    BY StepStable
<1> QED
    BY <1>1, InitInv, StepInv, PTL DEF RegistrySpec, IdsStable

--------------------------------------------------------------------------------
\* The predictor touches the registry through GetOrRegister only.
LEMMA RegistrySteps == [Next]_vars => [RegistryNext]_registryVars
<1> SUFFICES ASSUME [Next]_vars PROVE [RegistryNext]_registryVars
    OBVIOUS
<1>1. ASSUME NEW t \in Threads, NEW s \in Sessions, NEW p \in Patterns, BeginRecord(t, s, p)
      PROVE  RegistryNext
    BY <1>1 DEF BeginRecord, RegistryNext
<1>2. ASSUME NEW t \in Threads, Registering(t)
      PROVE  RegistryNext
    BY <1>2 DEF Registering, RegistryNext
<1>3. ASSUME NEW t \in Threads,
             \/ Ignore(t) \/ StoreConcrete(t) \/ MoveSession(t) \/ AddCell(t) \/ AddTotal(t)
             \/ RescaleLoad(t) \/ RescaleStore(t) \/ RescaleTotal(t) \/ PredictStep(t)
             \/ \E s \in Sessions : BeginPredict(t, s)
      PROVE  UNCHANGED registryVars
    BY <1>3 DEF Ignore, StoreConcrete, MoveSession, AddCell, AddTotal, RescaleLoad, RescaleStore,
                RescaleTotal, PredictStep, LoadTotal, LoadCount, Scan, Rank, Name,
                ReturnPredictions, BeginPredict
<1>4. ASSUME NEW s \in Sessions, ResetSession(s)
      PROVE  UNCHANGED registryVars
    BY <1>4 DEF ResetSession
<1>5. CASE UNCHANGED vars
    BY <1>5 DEF vars
<1> QED
    BY <1>1, <1>2, <1>3, <1>4, <1>5 DEF Next, RecordStep

\* Every behaviour of the predictor is one of the registry.
LEMMA UsesRegistry == Spec => RegistrySpec
<1>1. Init => RegistryInit
    BY DEF Init
<1> QED
    BY <1>1, RegistrySteps, PTL DEF Spec, RegistrySpec

\* So its IDs mean one pattern each, whatever the predictor does with them.
THEOREM RouteIdsAgree == Spec => []IdsAgree
BY UsesRegistry, OneIdEach, PTL

\* They keep their meaning for good, for every step of the predictor.
THEOREM RouteIdsKept == Spec => IdsStable
BY UsesRegistry, IdsKept, PTL
--------------------------------------------------------------------------------
\* What a goroutine knows where it is: a pattern asked for, an ID within the
\* matrix, the row of an earlier step, how far its loop may go.
BeforeLoop == {"idle", "registering", "session", "cell", "total", "loadTotal", "loadCount"}

Places ==
    /\ IsFiniteSet(Tracked)
    /\ \A t \in Threads :
          /\ pc[t] = "registering" =>
                asked[t] \in Patterns /\ (reg[t] = "out" => answer[t] # None)
          /\ pc[t] \in {"registering", "session"} => job[t].session \in Sessions
          /\ pc[t] \in {"session", "cell", "total"} \cup Rescaling => answer[t] \in Ids
          /\ pc[t] \in {"cell", "total"} \cup Rescaling \cup Reading => job[t].from \in Ids
          /\ pc[t] \in {"rescale", "rescaleStore"} => job[t].col < MaxRoutes
          /\ pc[t] \in BeforeLoop => job[t].col = 0

DenseInv == IInv /\ DenseTypeOK /\ Places /\ RightNames

\* A counter that wraps stays a counter, and half of one is one.
LEMMA Counters ==
    /\ \A n \in Nat : n % Word \in 0..(Word - 1)
    /\ \A n \in 0..(Word - 1) : n \div 2 \in 0..(Word - 1)
    /\ MaxRoutes \in Nat /\ MaxRoutes > 0 /\ Word \in Nat /\ Word > 0
    /\ 0 \in Ids
<1>1. MaxRoutes \in Nat /\ MaxRoutes > 0 /\ Word \in Nat /\ Word > 0
    BY DenseAssumption
<1> QED
    BY <1>1 DEF Ids

\* A goroutine without a call has local variables of the right types.
LEMMA NoJobIsJob == NoJob \in Jobs /\ NoJob.col = 0
<1>1. ZeroRow \in [Ids -> 0..(Word - 1)]
    BY Counters DEF ZeroRow
<1> QED
    BY <1>1, Counters DEF NoJob, Jobs

\* Initially nothing is recorded and every goroutine is idle.
LEMMA DenseInit == Init => DenseInv
<1> SUFFICES ASSUME Init PROVE DenseInv
    OBVIOUS
<1>1. IInv
    BY InitInv DEF Init
<1>2. Tracked = {}
    BY DEF Init, Tracked
<1>3. Cardinality(Tracked) = 0 /\ IsFiniteSet(Tracked)
    BY <1>2, FS_EmptySet
<1>4. DenseTypeOK
    <2>1. ZeroRow \in [Ids -> 0..(Word - 1)]
        BY Counters DEF ZeroRow
    <2> QED
        BY <1>1, <1>3, <2>1, NoJobIsJob, DenseAssumption DEF Init, DenseTypeOK, IInv
<1>5. Places
    BY <1>3 DEF Init, Places, NoJob, Rescaling, Reading, BeforeLoop
<1>6. RightNames
    BY DEF Init, RightNames, NoJob
<1> QED
    BY <1>1, <1>4, <1>5, <1>6 DEF DenseInv

\* Actions that leave sessions and history alone need to say so once.
LEMMA SameSessions ==
    ASSUME DenseInv, UNCHANGED last
    PROVE  IsFiniteSet(Tracked)' /\ (Cardinality(Tracked) <= MaxSessions)'
BY DEF DenseInv, DenseTypeOK, Places, Tracked

LEMMA BeginRecordTypes ==
    ASSUME DenseInv, IInv', NEW t \in Threads, NEW s \in Sessions, NEW p \in Patterns,
           BeginRecord(t, s, p)
    PROVE  DenseTypeOK' /\ Places'
<1> USE DEF DenseInv, BeginRecord, Goto
<1>1. IsFiniteSet(Tracked)' /\ (Cardinality(Tracked) <= MaxSessions)'
    BY SameSessions
<1>2. job' \in [Threads -> Jobs]
    <2>1. job[t] \in Jobs /\ job \in [Threads -> Jobs]
        BY DEF DenseTypeOK
    <2>2. [job[t] EXCEPT !.session = s] \in Jobs
        BY <2>1 DEF Jobs
    <2>3. job' = [job EXCEPT ![t] = [job[t] EXCEPT !.session = s]]
        BY <2>1
    <2> QED
        BY <2>1, <2>2, <2>3
<1>3. calls' \in [record : 0..MaxRecords, predict : 0..MaxPredicts]
    <2>1. calls.record \in 0..MaxRecords /\ calls.record < MaxRecords
        BY DEF DenseTypeOK
    <2>2. calls.record + 1 \in 0..MaxRecords
        BY <2>1, DenseAssumption
    <2> QED
        BY <2>2 DEF DenseTypeOK
<1>4. DenseTypeOK'
    BY <1>1, <1>2, <1>3 DEF DenseTypeOK, IInv
<1>5. Places'
    BY <1>1, RegistryAssumption DEF Places, DenseTypeOK, Ask, At, Return, IInv, RegistryTypeOK, Rescaling, Reading, BeforeLoop
<1> QED
    BY <1>4, <1>5

LEMMA RegisteringTypes ==
    ASSUME DenseInv, IInv', NEW t \in Threads, Registering(t)
    PROVE  DenseTypeOK' /\ Places'
<1> USE DEF DenseInv, Registering, denseVars
<1>1. IsFiniteSet(Tracked)' /\ (Cardinality(Tracked) <= MaxSessions)'
    BY SameSessions
<1>2. DenseTypeOK'
    BY <1>1 DEF DenseTypeOK, IInv
<1>3. ASSUME reg'[t] = "out" PROVE answer'[t] # None
    BY <1>3, RegistryAssumption, NoWrap DEF RegistryStep, Register, StorePatterns, StoreReverse, At, Return,
       IInv, RegistryTypeOK, LockInv, Holding, Places
<1>4. /\ asked' = asked
      /\ \A u \in Threads \ {t} : reg'[u] = reg[u] /\ answer'[u] = answer[u]
    BY DEF RegistryStep, Register, StorePatterns, StoreReverse, At, Return, IInv, RegistryTypeOK
<1>5. Places'
    BY <1>1, <1>3, <1>4 DEF Places, Rescaling, Reading, BeforeLoop
<1> QED
    BY <1>2, <1>5

\* Without a name, or with one that the matrix has no row for.
LEMMA IgnoreTypes ==
    ASSUME DenseInv, IInv', NEW t \in Threads, Ignore(t)
    PROVE  DenseTypeOK' /\ Places'
<1> USE NoJobIsJob DEF DenseInv, Ignore, Finish, Goto
<1>1. IsFiniteSet(Tracked)' /\ (Cardinality(Tracked) <= MaxSessions)'
    BY SameSessions
<1>2. DenseTypeOK'
    BY <1>1 DEF DenseTypeOK, IInv
<1>3. Places'
    BY <1>1 DEF Places, DenseTypeOK, registryVars, Rescaling, Reading, BeforeLoop
<1> QED
    BY <1>2, <1>3

\* An ID that passes Record's test is one of the matrix, and of the pattern asked for.
LEMMA UsableIds ==
    ASSUME DenseInv, NEW t \in Threads, Registered(t), Usable(t)
    PROVE  answer[t] \in Ids /\ patterns[asked[t]] = answer[t]
<1>1. asked[t] \in Patterns /\ answer[t] \in Nat /\ answer[t] # None
    BY DEF DenseInv, Places, Registered, IInv, RegistryTypeOK
<1>2. answer[t] < MaxRoutes /\ answer[t] # InvalidRouteID
    BY DEF Usable
<1>3. patterns[asked[t]] = answer[t]
    BY <1>1, <1>2 DEF DenseInv, IInv, IdsAgree, Registered
<1> QED
    BY <1>1, <1>2, <1>3, Counters DEF Ids

LEMMA StoreConcreteTypes ==
    ASSUME DenseInv, IInv', NEW t \in Threads, StoreConcrete(t)
    PROVE  DenseTypeOK' /\ Places'
<1> USE DEF DenseInv, StoreConcrete, Goto
<1>1. IsFiniteSet(Tracked)' /\ (Cardinality(Tracked) <= MaxSessions)'
    BY SameSessions
<1>2. answer[t] \in Ids
    BY UsableIds
<1>3. DenseTypeOK'
    BY <1>1, <1>2 DEF DenseTypeOK, IInv
<1>4. Places'
    BY <1>1, <1>2 DEF Places, DenseTypeOK, Registered, registryVars, Rescaling, Reading, BeforeLoop
<1> QED
    BY <1>3, <1>4

LEMMA OneMore ==
    ASSUME NEW S, NEW x, IsFiniteSet(S)
    PROVE  IsFiniteSet(S \cup {x}) /\ Cardinality(S \cup {x}) <= Cardinality(S) + 1
<1>1. Cardinality(S) \in Nat
    BY FS_CardinalityType
<1>2. Cardinality(S \cup {x}) = IF x \in S THEN Cardinality(S) ELSE Cardinality(S) + 1
    BY FS_AddElement
<1> QED
    BY <1>1, <1>2, FS_AddElement

\* A shard at its limit lets a session go for each one it takes in.
LEMMA MoveToBounded ==
    ASSUME DenseInv, NEW s \in Sessions, NEW id \in Ids, MoveTo(s, id)
    PROVE  /\ last' \in [Sessions -> Ids \cup {None}]
           /\ IsFiniteSet(Tracked)' /\ (Cardinality(Tracked) <= MaxSessions)'
<1>1. last \in [Sessions -> Ids \cup {None}] /\ IsFiniteSet(Tracked) /\ Cardinality(Tracked) <= MaxSessions
    BY DEF DenseInv, DenseTypeOK, Places
<1>2. Cardinality(Tracked) \in Nat /\ MaxSessions \in Nat
    BY <1>1, FS_CardinalityType, DenseAssumption
<1>3. id # None
    BY RegistryAssumption, DenseAssumption DEF Ids
<1>4. CASE last[s] = None /\ Cardinality(Tracked) >= MaxSessions
    <2>1. PICK evicted \in Tracked : last' = [last EXCEPT ![evicted] = None, ![s] = id]
        BY <1>4 DEF MoveTo
    <2>2. Tracked' = (Tracked \ {evicted}) \cup {s}
        BY <1>1, <1>3, <1>4, <2>1 DEF Tracked
    <2>3. IsFiniteSet(Tracked \ {evicted}) /\ Cardinality(Tracked \ {evicted}) = Cardinality(Tracked) - 1
        BY <1>1, <2>1, FS_RemoveElement
    <2>4. IsFiniteSet(Tracked') /\ Cardinality(Tracked') <= Cardinality(Tracked \ {evicted}) + 1
        BY <2>2, <2>3, OneMore
    <2> QED
        <3>1. Cardinality(Tracked') \in Nat
            BY <2>4, FS_CardinalityType
        <3>2. Cardinality(Tracked') <= MaxSessions
            BY <1>1, <1>2, <2>3, <2>4, <3>1
        <3>3. last' \in [Sessions -> Ids \cup {None}]
            BY <1>1, <2>1
        <3> QED
            BY <2>4, <3>2, <3>3
<1>5. CASE last[s] # None
    <2>1. last' = [last EXCEPT ![s] = id]
        BY <1>5 DEF MoveTo
    <2>2. Tracked' = Tracked
        BY <1>1, <1>3, <1>5, <2>1 DEF Tracked
    <2> QED
        BY <1>1, <2>1, <2>2
<1>6. CASE last[s] = None /\ ~(Cardinality(Tracked) >= MaxSessions)
    <2>1. last' = [last EXCEPT ![s] = id]
        BY <1>6 DEF MoveTo
    <2>2. Tracked' = Tracked \cup {s}
        BY <1>1, <1>3, <2>1 DEF Tracked
    <2>3. IsFiniteSet(Tracked') /\ Cardinality(Tracked') <= Cardinality(Tracked) + 1
        BY <1>1, <2>2, OneMore
    <2>4. Cardinality(Tracked') \in Nat
        BY <2>3, FS_CardinalityType
    <2> QED
        BY <1>1, <1>2, <1>6, <2>1, <2>3, <2>4
<1> QED
    BY <1>4, <1>5, <1>6

LEMMA MoveSessionTypes ==
    ASSUME DenseInv, IInv', NEW t \in Threads, MoveSession(t)
    PROVE  DenseTypeOK' /\ Places'
<1>1. answer[t] \in Ids
    BY UsableIds DEF MoveSession, DenseInv, Places
<1>2. job[t].session \in Sessions
    BY DEF MoveSession, Registered, DenseInv, Places
<1>3. /\ last' \in [Sessions -> Ids \cup {None}]
      /\ IsFiniteSet(Tracked)' /\ (Cardinality(Tracked) <= MaxSessions)'
    BY <1>1, <1>2, MoveToBounded DEF MoveSession
<1>4. /\ UNCHANGED <<registryVars, matrix, totals, concrete, calls, raced, disturbed>>
      /\ \/ pc' = [pc EXCEPT ![t] = "idle"] /\ job' = [job EXCEPT ![t] = NoJob]
         \/ /\ last[job[t].session] # None
            /\ pc' = [pc EXCEPT ![t] = "cell"]
            /\ job' = [job EXCEPT ![t].from = last[job[t].session]]
    BY DEF MoveSession, Finish, Goto
<1>5. last[job[t].session] \in Ids \cup {None}
    BY <1>2 DEF DenseInv, DenseTypeOK
<1>6. job' \in [Threads -> Jobs]
    <2>1. job[t] \in Jobs /\ job \in [Threads -> Jobs]
        BY DEF DenseInv, DenseTypeOK
    <2>2. [job[t] EXCEPT !.from = last[job[t].session]] \in Jobs
        BY <1>5, <2>1 DEF Jobs
    <2>3. \/ job' = [job EXCEPT ![t] = NoJob]
          \/ job' = [job EXCEPT ![t] = [job[t] EXCEPT !.from = last[job[t].session]]]
        BY <1>4, <2>1
    <2> QED
        BY <2>1, <2>2, <2>3, NoJobIsJob
<1>7. DenseTypeOK'
    BY <1>3, <1>4, <1>6 DEF DenseInv, DenseTypeOK, IInv
<1>8. Places'
    <2>1. job[t] \in Jobs /\ job[t].col = 0 /\ job \in [Threads -> Jobs]
        BY DEF DenseInv, DenseTypeOK, Places, MoveSession, Registered, BeforeLoop
    <2>2. \/ pc' = [pc EXCEPT ![t] = "idle"] /\ job'[t].col = 0
          \/ /\ pc' = [pc EXCEPT ![t] = "cell"]
             /\ job'[t].col = 0 /\ job'[t].from \in Ids
        BY <1>4, <1>5, <2>1, NoJobIsJob DEF Jobs
    <2>3. \A u \in Threads \ {t} : job'[u] = job[u]
        BY <1>4, <2>1
    <2>4. pc \in [Threads -> {"idle", "registering", "session", "cell", "total", "naming"}
                             \cup Rescaling \cup Reading]
        BY DEF DenseInv, DenseTypeOK
    <2> QED
        BY <1>1, <1>3, <1>4, <2>2, <2>3, <2>4
           DEF DenseInv, Places, registryVars, Rescaling, Reading, BeforeLoop
<1> QED
    BY <1>7, <1>8

\* What the other actions have in common: one goroutine goes from one place to
\* the next with new local variables, sessions and names stay.
LEMMA OneMoves ==
    ASSUME DenseInv, IInv', NEW t \in Threads, UNCHANGED <<registryVars, last, concrete>>,
           NEW j \in Jobs, job' = [job EXCEPT ![t] = j],
           NEW place \in {"idle", "total", "naming"} \cup Rescaling \cup Reading,
           pc' = [pc EXCEPT ![t] = place],
           place \in {"total"} \cup Rescaling => answer[t] \in Ids,
           place \in {"total"} \cup Rescaling \cup Reading => j.from \in Ids,
           place \in {"rescale", "rescaleStore"} => j.col < MaxRoutes,
           place \in BeforeLoop => j.col = 0,
           matrix' \in [Ids -> [Ids -> 0..(Word - 1)]],
           totals' \in [Ids -> 0..(Word - 1)],
           calls' \in [record : 0..MaxRecords, predict : 0..MaxPredicts],
           raced' \subseteq Ids, disturbed' \subseteq Threads
    PROVE  DenseTypeOK' /\ Places'
<1>1. IsFiniteSet(Tracked)' /\ (Cardinality(Tracked) <= MaxSessions)'
    BY SameSessions
<1>2. pc' \in [Threads -> {"idle", "registering", "session", "cell", "total", "naming"}
                          \cup Rescaling \cup Reading]
    BY DEF DenseInv, DenseTypeOK
<1>3. job' \in [Threads -> Jobs]
    BY DEF DenseInv, DenseTypeOK
<1>4. DenseTypeOK'
    BY <1>1, <1>2, <1>3 DEF DenseInv, DenseTypeOK, IInv
<1>5. Places'
    BY <1>1, <1>2, <1>3 DEF DenseInv, DenseTypeOK, Places, registryVars, Rescaling, Reading, BeforeLoop
<1> QED
    BY <1>4, <1>5

\* Where a goroutine is, it has what the place asks for.
LEMMA Here ==
    ASSUME DenseInv, NEW t \in Threads
    PROVE  /\ job[t] \in Jobs /\ job \in [Threads -> Jobs]
           /\ pc[t] \in {"cell", "total"} \cup Rescaling => answer[t] \in Ids
           /\ pc[t] \in {"cell", "total"} \cup Rescaling \cup Reading => job[t].from \in Ids
           /\ pc[t] \in {"rescale", "rescaleStore"} => job[t].col < MaxRoutes
           /\ pc[t] \in BeforeLoop => job[t].col = 0
           /\ matrix \in [Ids -> [Ids -> 0..(Word - 1)]]
           /\ totals \in [Ids -> 0..(Word - 1)]
           /\ calls \in [record : 0..MaxRecords, predict : 0..MaxPredicts]
           /\ raced \subseteq Ids /\ disturbed \subseteq Threads
BY Zenon DEF DenseInv, DenseTypeOK, Places, Rescaling, Reading, BeforeLoop

LEMMA AddCellTypes ==
    ASSUME DenseInv, IInv', NEW t \in Threads, AddCell(t)
    PROVE  DenseTypeOK' /\ Places'
<1>1. answer[t] \in Ids /\ job[t].from \in Ids
    BY Here DEF AddCell, Places
<1>2. matrix' \in [Ids -> [Ids -> 0..(Word - 1)]]
    <2>1. matrix[job[t].from][answer[t]] + 1 \in Nat
        BY <1>1, Here, Counters
    <2>2. (matrix[job[t].from][answer[t]] + 1) % Word \in 0..(Word - 1)
        BY <2>1, Counters
    <2> QED
        BY <1>1, <2>2, Here DEF AddCell
<1>3. raced' \subseteq Ids /\ disturbed' \subseteq Threads
    BY <1>1, Here DEF AddCell, Touch, Others
<1>4. job' = [job EXCEPT ![t] = job[t]] /\ job[t].col = 0
    BY Here DEF AddCell, BeforeLoop
<1> QED
    BY Zenon, <1>1, <1>2, <1>3, <1>4, Here, OneMoves DEF AddCell, Goto, Reading, Rescaling, BeforeLoop

LEMMA AddTotalTypes ==
    ASSUME DenseInv, IInv', NEW t \in Threads, AddTotal(t)
    PROVE  DenseTypeOK' /\ Places'
<1> DEFINE f == job[t].from
           total == (totals[f] + 1) % Word
<1>1. pc[t] = "total" /\ answer[t] \in Ids /\ f \in Ids
    BY Here DEF AddTotal
<1>2. totals' \in [Ids -> 0..(Word - 1)]
    <2>1. totals[f] + 1 \in Nat
        BY <1>1, Here, Counters
    <2>2. total \in 0..(Word - 1)
        BY <2>1, Counters
    <2>3. totals' = [totals EXCEPT ![f] = total]
        BY DEF AddTotal
    <2> HIDE DEF total, f
    <2> QED
        BY <1>1, <2>2, <2>3, Here
<1>3. raced' \subseteq Ids /\ disturbed' \subseteq Threads
    BY <1>1, Here DEF AddTotal, Others
<1>4. UNCHANGED <<registryVars, last, concrete, matrix, calls>>
    BY DEF AddTotal
<1>5. \/ pc' = [pc EXCEPT ![t] = "rescale"] /\ job' = [job EXCEPT ![t] = job[t]]
      \/ pc' = [pc EXCEPT ![t] = "idle"] /\ job' = [job EXCEPT ![t] = NoJob]
    BY Here DEF AddTotal, Goto, Finish
<1>6. CASE pc' = [pc EXCEPT ![t] = "idle"] /\ job' = [job EXCEPT ![t] = NoJob]
    BY <1>2, <1>3, <1>4, <1>6, Here, OneMoves, NoJobIsJob DEF Reading, Rescaling
<1>7. CASE pc' = [pc EXCEPT ![t] = "rescale"] /\ job' = [job EXCEPT ![t] = job[t]]
    <2>1. job[t].col < MaxRoutes
        BY <1>1, Here, Counters DEF BeforeLoop
    <2> QED
        BY <1>1, <1>2, <1>3, <1>4, <1>7, <2>1, Here, OneMoves DEF Reading, Rescaling, BeforeLoop
<1> QED
    BY <1>5, <1>6, <1>7

LEMMA RescaleLoadTypes ==
    ASSUME DenseInv, IInv', NEW t \in Threads, RescaleLoad(t)
    PROVE  DenseTypeOK' /\ Places'
<1> DEFINE old == matrix[job[t].from][job[t].col]
           j == [job[t] EXCEPT !.old = old]
<1>1. pc[t] = "rescale" /\ job[t] \in Jobs /\ job[t].from \in Ids /\ job[t].col \in Ids
    <2>1. job[t].col \in 0..MaxRoutes
        BY Here DEF Jobs
    <2> QED
        BY <2>1, Here, Counters DEF RescaleLoad, Rescaling, Ids
<1>2. old \in 0..(Word - 1)
    BY <1>1, Here
<1>3. j \in Jobs /\ j.from = job[t].from /\ j.col = job[t].col
    BY <1>1, <1>2 DEF Jobs
<1>4. job' = [job EXCEPT ![t] = j]
    BY Here DEF RescaleLoad
<1> HIDE DEF j
<1> QED
    BY <1>1, <1>3, <1>4, Here, OneMoves DEF RescaleLoad, Goto, Reading, Rescaling, BeforeLoop

LEMMA RescaleStoreTypes ==
    ASSUME DenseInv, IInv', NEW t \in Threads, RescaleStore(t)
    PROVE  DenseTypeOK' /\ Places'
<1> DEFINE f == job[t].from
           c == job[t].col
           half == job[t].old \div 2
           j == [job[t] EXCEPT !.sum = (job[t].sum + half) % Word, !.col = c + 1]
           place == IF c + 1 = MaxRoutes THEN "rescaleTotal" ELSE "rescale"
<1>1. /\ pc[t] = "rescaleStore" /\ job[t] \in Jobs /\ f \in Ids /\ answer[t] \in Ids
      /\ c \in Nat /\ c < MaxRoutes /\ c \in Ids /\ c + 1 \in 0..MaxRoutes
    <2>1. pc[t] = "rescaleStore" /\ job[t] \in Jobs /\ f \in Ids /\ answer[t] \in Ids /\ c < MaxRoutes
        BY Here DEF RescaleStore, Rescaling
    <2>2. c \in 0..MaxRoutes
        BY <2>1 DEF Jobs
    <2> HIDE DEF c, f
    <2> QED
        BY <2>1, <2>2, Counters DEF Ids
<1>2. half \in 0..(Word - 1)
    BY <1>1, Counters DEF Jobs
<1>3. j \in Jobs /\ j.from = f /\ j.col = c + 1
    <2>1. job[t].sum + half \in Nat
        BY <1>1, <1>2, Counters DEF Jobs
    <2>2. (job[t].sum + half) % Word \in 0..(Word - 1)
        BY <2>1, Counters
    <2> QED
        BY <1>1, <2>2 DEF Jobs
<1>4. job' = [job EXCEPT ![t] = j] /\ pc' = [pc EXCEPT ![t] = place]
    BY Here DEF RescaleStore, Goto
<1>5. matrix' \in [Ids -> [Ids -> 0..(Word - 1)]]
    <2>1. matrix' = [matrix EXCEPT ![f][c] = half]
        BY DEF RescaleStore
    <2> HIDE DEF f, c, half
    <2> QED
        BY <1>1, <1>2, <2>1, Here
<1>6. raced' \subseteq Ids /\ disturbed' \subseteq Threads
    BY <1>1, Here DEF RescaleStore, Touch, Others
<1>7. UNCHANGED <<registryVars, last, concrete, totals, calls>>
    BY DEF RescaleStore
<1>8. place \in {"rescale", "rescaleTotal"} /\ (place = "rescale" => c + 1 < MaxRoutes)
    BY <1>1, Counters
<1> HIDE DEF j, place, c, f
<1> QED
    BY <1>1, <1>3, <1>4, <1>5, <1>6, <1>7, <1>8, Here, OneMoves DEF Reading, Rescaling, BeforeLoop

LEMMA RescaleTotalTypes ==
    ASSUME DenseInv, IInv', NEW t \in Threads, RescaleTotal(t)
    PROVE  DenseTypeOK' /\ Places'
<1>1. job[t].from \in Ids /\ job[t].sum \in 0..(Word - 1)
    BY Here DEF RescaleTotal, Rescaling, Jobs
<1>2. totals' \in [Ids -> 0..(Word - 1)]
    BY <1>1, Here DEF RescaleTotal
<1>3. raced' \subseteq Ids /\ disturbed' \subseteq Threads
    BY <1>1, Here DEF RescaleTotal, Touch, Others
<1> QED
    BY <1>2, <1>3, Here, OneMoves, NoJobIsJob DEF RescaleTotal, Finish, Goto, Reading, Rescaling

LEMMA BeginPredictTypes ==
    ASSUME DenseInv, IInv', NEW t \in Threads, NEW s \in Sessions, BeginPredict(t, s)
    PROVE  DenseTypeOK' /\ Places'
<1> DEFINE j == [job[t] EXCEPT !.session = s, !.from = last[s]]
<1>1. last[s] \in Ids
    BY DEF BeginPredict, DenseInv, DenseTypeOK
<1>2. job[t].col = 0 /\ job[t] \in Jobs
    BY Here DEF BeginPredict, BeforeLoop
<1>3. j \in Jobs /\ j.from = last[s] /\ j.col = 0
    BY <1>1, <1>2 DEF Jobs
<1>4. job' = [job EXCEPT ![t] = j]
    BY Here DEF BeginPredict
<1>5. calls' \in [record : 0..MaxRecords, predict : 0..MaxPredicts]
    <2>1. calls.predict \in 0..MaxPredicts /\ calls.predict < MaxPredicts
        BY Here DEF BeginPredict
    <2>2. calls.predict + 1 \in 0..MaxPredicts
        BY <2>1, DenseAssumption
    <2> QED
        BY <2>2, Here DEF BeginPredict
<1> HIDE DEF j
<1> QED
    BY <1>1, <1>3, <1>4, <1>5, Here, OneMoves DEF BeginPredict, Goto, Reading, Rescaling

LEMMA LoadTotalTypes ==
    ASSUME DenseInv, IInv', NEW t \in Threads, LoadTotal(t)
    PROVE  DenseTypeOK' /\ Places'
<1> DEFINE j == [job[t] EXCEPT !.sum = totals[job[t].from]]
<1>1. job[t].from \in Ids /\ job[t] \in Jobs /\ job[t].col = 0
    BY Here DEF LoadTotal, Reading, BeforeLoop
<1>2. j \in Jobs /\ j.from = job[t].from /\ j.col = 0
    BY <1>1, Here DEF Jobs
<1>3. disturbed' \subseteq Threads
    BY Here DEF LoadTotal
<1>4. UNCHANGED <<registryVars, matrix, totals, last, concrete, calls, raced>>
    BY DEF LoadTotal
<1>5. \/ pc' = [pc EXCEPT ![t] = "idle"] /\ job' = [job EXCEPT ![t] = NoJob]
      \/ pc' = [pc EXCEPT ![t] = "loadCount"] /\ job' = [job EXCEPT ![t] = j]
    BY Here DEF LoadTotal, Finish, Goto
<1> HIDE DEF j
<1> QED
    BY <1>1, <1>2, <1>3, <1>4, <1>5, Here, OneMoves, NoJobIsJob DEF Reading, Rescaling

LEMMA LoadCountTypes ==
    ASSUME DenseInv, IInv', NEW t \in Threads, LoadCount(t)
    PROVE  DenseTypeOK' /\ Places'
<1> DEFINE limit == IF count > MaxRoutes THEN MaxRoutes ELSE count
           j == [job[t] EXCEPT !.limit = limit]
<1>1. job[t].from \in Ids /\ job[t] \in Jobs
    BY Here DEF LoadCount, Reading
<1>2. count \in Nat
    BY DEF DenseInv, IInv, RegistryTypeOK
<1>3. limit \in 0..MaxRoutes
    BY <1>2, Counters
<1>4. j \in Jobs /\ j.from = job[t].from
    BY <1>1, <1>3 DEF Jobs
<1>5. job' = [job EXCEPT ![t] = j]
    BY Here DEF LoadCount
<1> HIDE DEF j
<1> QED
    BY <1>1, <1>4, <1>5, Here, OneMoves DEF LoadCount, Goto, Reading, Rescaling, BeforeLoop

LEMMA ScanTypes ==
    ASSUME DenseInv, IInv', NEW t \in Threads, Scan(t)
    PROVE  DenseTypeOK' /\ Places'
<1> DEFINE c == job[t].col
           cell == matrix[job[t].from][c]
           j == [job[t] EXCEPT !.row = [job[t].row EXCEPT ![c] = cell], !.col = c + 1]
<1>1. /\ job[t].from \in Ids /\ job[t] \in Jobs /\ c \in 0..MaxRoutes /\ job[t].limit \in 0..MaxRoutes
      /\ c < job[t].limit /\ pc[t] = "scan"
    BY Here DEF Scan, Reading, Jobs
<1>2. c \in Ids /\ c + 1 \in 0..MaxRoutes
    <2> HIDE DEF c, cell, j
    <2>1. c \in 0..MaxRoutes /\ job[t].limit \in 0..MaxRoutes /\ c < job[t].limit
        BY <1>1
    <2> QED
        BY <2>1, Counters DEF Ids
<1>3. cell \in 0..(Word - 1)
    BY <1>1, <1>2, Here
<1>4. j \in Jobs /\ j.from = job[t].from
    <2> HIDE DEF c, cell
    <2>1. [job[t].row EXCEPT ![c] = cell] \in [Ids -> 0..(Word - 1)]
        BY <1>1, <1>2, <1>3 DEF Jobs
    <2> QED
        BY <1>1, <1>2, <2>1 DEF Jobs
<1>5. job' = [job EXCEPT ![t] = j] /\ pc' = [pc EXCEPT ![t] = "scan"]
    <2>1. pc \in [Threads -> {"idle", "registering", "session", "cell", "total", "naming"}
                             \cup Rescaling \cup Reading]
        BY DEF DenseInv, DenseTypeOK
    <2> QED
        BY <1>1, <2>1, Here DEF Scan
<1>6. UNCHANGED <<registryVars, matrix, totals, last, concrete, calls, raced, disturbed>>
    BY DEF Scan
<1> HIDE DEF j
<1> QED
    BY <1>1, <1>4, <1>5, <1>6, Here, OneMoves DEF Reading, Rescaling, BeforeLoop

LEMMA RankTypes ==
    ASSUME DenseInv, IInv', NEW t \in Threads, Rank(t)
    PROVE  DenseTypeOK' /\ Places'
<1>1. PICK best \in SUBSET Candidates(t) :
         IF best = {} THEN Finish(t)
         ELSE Goto(t, "naming") /\ job' = [job EXCEPT ![t].picks = best]
    BY DEF Rank
<1> DEFINE j == [job[t] EXCEPT !.picks = best]
<1>2. j \in Jobs
    BY Here DEF Candidates, Jobs
<1>3. \/ pc' = [pc EXCEPT ![t] = "idle"] /\ job' = [job EXCEPT ![t] = NoJob]
      \/ pc' = [pc EXCEPT ![t] = "naming"] /\ job' = [job EXCEPT ![t] = j]
    BY <1>1, Here DEF Finish, Goto
<1>4. UNCHANGED <<registryVars, matrix, totals, last, concrete, calls, raced, disturbed>>
    BY DEF Rank
<1> HIDE DEF j
<1> QED
    BY <1>2, <1>3, <1>4, Here, OneMoves, NoJobIsJob DEF Reading, Rescaling, BeforeLoop

\* What Pattern(id) returns is the empty string or a pattern.
LEMMA PatternOfType ==
    ASSUME DenseInv, NEW i \in Ids
    PROVE  /\ PatternOf(i) \in Patterns \cup {None}
           /\ PatternOf(i) # None => patterns[PatternOf(i)] = i
<1>1. reverse \in Seq(Patterns \cup {None}) /\ i \in Nat
    BY Counters DEF DenseInv, IInv, RegistryTypeOK, Ids
<1>2. CASE i < Len(reverse)
    <2>1. i + 1 \in 1..Len(reverse)
        BY <1>1, <1>2
    <2>2. PatternOf(i) = reverse[i + 1]
        BY <1>2 DEF PatternOf
    <2>3. reverse[i + 1] \in Patterns /\ patterns[reverse[i + 1]] = (i + 1) - 1
        BY <2>1 DEF DenseInv, IInv, IdsAgree
    <2> QED
        BY <1>1, <2>2, <2>3
<1>3. CASE ~(i < Len(reverse))
    BY <1>3 DEF PatternOf
<1> QED
    BY <1>2, <1>3

LEMMA NameTypes ==
    ASSUME DenseInv, IInv', NEW t \in Threads, Name(t)
    PROVE  DenseTypeOK' /\ Places'
<1>1. PICK i \in job[t].picks :
         job' = [job EXCEPT ![t].picks = @ \ {i},
                            ![t].out = @ \cup {[id |-> i, pattern |-> PatternOf(i)]}]
    BY DEF Name
<1> DEFINE pred == [id |-> i, pattern |-> PatternOf(i)]
           j == [job[t] EXCEPT !.picks = job[t].picks \ {i}, !.out = job[t].out \cup {pred}]
<1>2. job[t] \in Jobs /\ i \in Ids
    BY Here DEF Jobs
<1>3. pred \in [id : Ids, pattern : Patterns \cup {None}]
    BY <1>2, PatternOfType
<1>4. j \in Jobs
    <2> HIDE DEF pred
    <2> QED
        BY <1>2, <1>3 DEF Jobs
<1>5. job' = [job EXCEPT ![t] = j] /\ pc' = [pc EXCEPT ![t] = "naming"]
    <2>1. pc \in [Threads -> {"idle", "registering", "session", "cell", "total", "naming"}
                             \cup Rescaling \cup Reading]
        BY DEF DenseInv, DenseTypeOK
    <2> QED
        BY <1>1, <2>1, Here DEF Name
<1>6. UNCHANGED <<registryVars, matrix, totals, last, concrete, calls, raced, disturbed>>
    BY DEF Name
<1> HIDE DEF j
<1> QED
    BY <1>4, <1>5, <1>6, Here, OneMoves DEF Reading, Rescaling, BeforeLoop

LEMMA ReturnPredictionsTypes ==
    ASSUME DenseInv, IInv', NEW t \in Threads, ReturnPredictions(t)
    PROVE  DenseTypeOK' /\ Places'
BY Here, OneMoves, NoJobIsJob DEF ReturnPredictions, Finish, Goto, Reading, Rescaling

LEMMA ResetSessionTypes ==
    ASSUME DenseInv, IInv', NEW s \in Sessions, ResetSession(s)
    PROVE  DenseTypeOK' /\ Places'
<1>1. last' = [last EXCEPT ![s] = None] /\ last \in [Sessions -> Ids \cup {None}]
    BY DEF ResetSession, DenseInv, DenseTypeOK
<1>2. Tracked' \subseteq Tracked
    BY <1>1 DEF Tracked
<1>3. IsFiniteSet(Tracked) /\ Cardinality(Tracked) <= MaxSessions
    BY DEF DenseInv, DenseTypeOK, Places
<1>4. IsFiniteSet(Tracked') /\ Cardinality(Tracked') <= Cardinality(Tracked)
    BY <1>2, <1>3, FS_Subset
<1>5. Cardinality(Tracked') \in Nat /\ Cardinality(Tracked) \in Nat /\ MaxSessions \in Nat
    BY <1>3, <1>4, FS_CardinalityType, DenseAssumption
<1>6. Cardinality(Tracked') <= MaxSessions
    BY <1>3, <1>4, <1>5
<1>7. DenseTypeOK'
    BY <1>1, <1>6 DEF ResetSession, DenseInv, DenseTypeOK, IInv
<1>8. Places'
    BY <1>4 DEF ResetSession, registryVars, DenseInv, Places, Rescaling, Reading, BeforeLoop
<1> QED
    BY <1>7, <1>8
--------------------------------------------------------------------------------
\* Every step keeps types, bounds and places.
LEMMA TypesStep ==
    ASSUME DenseInv, IInv', [Next]_vars
    PROVE  DenseTypeOK' /\ Places'
<1>1. CASE UNCHANGED vars
    BY <1>1 DEF vars, registryVars, denseVars, DenseInv, DenseTypeOK, RegistryTypeOK, Places, Tracked
<1>2. ASSUME NEW t \in Threads, RecordStep(t)
      PROVE  DenseTypeOK' /\ Places'
    BY <1>2, RegisteringTypes, IgnoreTypes, StoreConcreteTypes, MoveSessionTypes, AddCellTypes,
       AddTotalTypes, RescaleLoadTypes, RescaleStoreTypes, RescaleTotalTypes DEF RecordStep
<1>3. ASSUME NEW t \in Threads, PredictStep(t)
      PROVE  DenseTypeOK' /\ Places'
    BY <1>3, LoadTotalTypes, LoadCountTypes, ScanTypes, RankTypes, NameTypes,
       ReturnPredictionsTypes DEF PredictStep
<1> QED
    BY <1>1, <1>2, <1>3, BeginRecordTypes, BeginPredictTypes, ResetSessionTypes DEF Next

\* A step names one more prediction, forgets the predictions of a call, or neither.
LEMMA OutSteps ==
    ASSUME DenseInv, [Next]_vars, ~ \E t \in Threads : Name(t)
    PROVE  \A u \in Threads : job'[u].out \subseteq job[u].out
<1>1. job \in [Threads -> Jobs]
    BY DEF DenseInv, DenseTypeOK
<1>2. NoJob.out = {}
    BY DEF NoJob
<1>3. CASE UNCHANGED job
    BY <1>3
<1>4. CASE \E t \in Threads : job' = [job EXCEPT ![t] = NoJob]
    BY <1>1, <1>2, <1>4
<1>5. ASSUME NEW t \in Threads, job' # job, job' # [job EXCEPT ![t] = NoJob],
             \/ RecordStep(t) \/ PredictStep(t)
             \/ \E s \in Sessions : BeginPredict(t, s) \/ \E p \in Patterns : BeginRecord(t, s, p)
      PROVE  job'[t].out = job[t].out /\ \A u \in Threads \ {t} : job'[u] = job[u]
    <2>1. CASE RecordStep(t)
        BY <1>1, <1>5, <2>1 DEF RecordStep, Registering, Ignore, StoreConcrete, MoveSession, AddCell, AddTotal,
           RescaleLoad, RescaleStore, RescaleTotal, Finish, denseVars, Jobs
    <2>2. CASE PredictStep(t)
        BY <1>1, <1>5, <2>2 DEF PredictStep, LoadTotal, LoadCount, Scan, Rank, Name, ReturnPredictions, Finish, Jobs
    <2>3. CASE \E s \in Sessions : BeginPredict(t, s) \/ \E p \in Patterns : BeginRecord(t, s, p)
        BY <1>1, <2>3 DEF BeginPredict, BeginRecord, Jobs
    <2> QED
        BY <1>5, <2>1, <2>2, <2>3
<1>6. ASSUME NEW s \in Sessions, ResetSession(s)
      PROVE  UNCHANGED job
    BY <1>6 DEF ResetSession
<1> QED
    BY <1>3, <1>4, <1>5, <1>6 DEF Next, vars, denseVars

\* A prediction is given the name its ID has in the reverse table, if it has one.
LEMMA NameRight ==
    ASSUME DenseInv, NEW t \in Threads, Name(t), NEW u \in Threads, NEW pred \in job'[u].out,
           pred.pattern # None
    PROVE  patterns[pred.pattern] = pred.id
<1>1. PICK i \in job[t].picks :
         job' = [job EXCEPT ![t].picks = @ \ {i},
                            ![t].out = @ \cup {[id |-> i, pattern |-> PatternOf(i)]}]
    BY DEF Name
<1>2. job[t] \in Jobs /\ job \in [Threads -> Jobs] /\ i \in Ids
    BY Here DEF Jobs
<1>3. pred \in job[u].out \/ pred = [id |-> i, pattern |-> PatternOf(i)]
    BY <1>1, <1>2 DEF Jobs
<1>4. CASE pred \in job[u].out
    BY <1>4 DEF DenseInv, RightNames
<1>5. CASE pred = [id |-> i, pattern |-> PatternOf(i)]
    BY <1>2, <1>5, PatternOfType
<1> QED
    BY <1>3, <1>4, <1>5

\* A static route is kept under the ID it was registered with.
LEMMA ConcreteRight ==
    ASSUME DenseInv, [Next]_vars, NEW i \in Ids, concrete'[i] # None
    PROVE  concrete'[i] \in Patterns /\ patterns[concrete'[i]] = i
<1>1. concrete \in [Ids -> Static \cup {None}] /\ Static \subseteq Patterns
    BY DenseAssumption DEF DenseInv, DenseTypeOK
<1>2. CASE UNCHANGED concrete
    BY <1>1, <1>2 DEF DenseInv, RightNames
<1>3. ASSUME NEW t \in Threads, StoreConcrete(t)
      PROVE  concrete'[i] \in Patterns /\ patterns[concrete'[i]] = i
    <2>1. answer[t] \in Ids /\ patterns[asked[t]] = answer[t] /\ asked[t] \in Patterns
        BY <1>1, <1>3, UsableIds DEF StoreConcrete
    <2>2. concrete' = [concrete EXCEPT ![answer[t]] = asked[t]]
        BY <1>3 DEF StoreConcrete
    <2> QED
        BY <1>1, <2>1, <2>2 DEF DenseInv, RightNames
<1>4. ASSUME NEW t \in Threads, RecordStep(t), ~StoreConcrete(t)
      PROVE  UNCHANGED concrete
    BY <1>4 DEF RecordStep, Registering, Ignore, MoveSession, AddCell, AddTotal,
                RescaleLoad, RescaleStore, RescaleTotal, denseVars
<1>5. ASSUME NEW t \in Threads, PredictStep(t)
      PROVE  UNCHANGED concrete
    BY <1>5 DEF PredictStep, LoadTotal, LoadCount, Scan, Rank, Name, ReturnPredictions
<1> QED
    BY <1>2, <1>3, <1>4, <1>5
       DEF Next, BeginRecord, BeginPredict, ResetSession, vars, denseVars

LEMMA RightNamesStep ==
    ASSUME DenseInv, DenseTypeOK', [Next]_vars
    PROVE  RightNames'
<1>1. \A p \in Patterns : patterns[p] # None => patterns'[p] = patterns[p]
    BY RegistrySteps, StepStable DEF DenseInv
<1>2. ASSUME NEW t \in Threads, NEW pred \in job'[t].out, pred.pattern # None
      PROVE  patterns[pred.pattern] = pred.id
    <2>1. CASE \E u \in Threads : Name(u)
        BY <1>2, <2>1, NameRight
    <2>2. CASE ~ \E u \in Threads : Name(u)
        BY <1>2, <2>2, OutSteps DEF DenseInv, RightNames
    <2> QED
        BY <2>1, <2>2
<1>3. ASSUME NEW t \in Threads, NEW pred \in job'[t].out, pred.pattern # None
      PROVE  patterns'[pred.pattern] = pred.id
    <2>1. pred.pattern \in Patterns /\ pred.id \in Ids
        BY <1>3 DEF DenseTypeOK, Jobs
    <2>2. pred.id # None
        BY <2>1, RegistryAssumption, Counters DEF Ids
    <2> QED
        BY <1>1, <1>2, <1>3, <2>1, <2>2
<1>4. ASSUME NEW i \in Ids, concrete'[i] # None
      PROVE  patterns'[concrete'[i]] = i
    <2>1. i # None
        BY RegistryAssumption, Counters DEF Ids
    <2> QED
        BY <1>1, <1>4, <2>1, ConcreteRight
<1> QED
    BY <1>3, <1>4 DEF RightNames

\* Registry, types, places and names are kept together.
LEMMA DenseStep ==
    ASSUME DenseInv, [Next]_vars
    PROVE  DenseInv'
<1>1. IInv'
    BY RegistrySteps, StepInv DEF DenseInv
<1>2. DenseTypeOK' /\ Places'
    BY <1>1, TypesStep
<1>3. RightNames'
    BY <1>2, RightNamesStep
<1> QED
    BY <1>1, <1>2, <1>3 DEF DenseInv

\* Types, bounds, places and names hold for every interleaving.
THEOREM DenseInvariance == Spec => []DenseInv
<1>1. DenseInv /\ [Next]_vars => DenseInv'
    BY DenseStep
<1> QED
    BY <1>1, DenseInit, PTL DEF Spec

\* No interleaving takes a counter, an ID or a loop out of its range, and a shard
\* of sessions never outgrows its bound.
THEOREM DenseTypes == Spec => []DenseTypeOK
<1>1. DenseInv => DenseTypeOK
    BY DEF DenseInv
<1> QED
    BY <1>1, DenseInvariance, PTL

\* Predict never gives a counter another route's name, although it looks the name
\* up apart from the counter and registrations publish map and table in two stores.
THEOREM NamesRight == Spec => []RightNames
<1>1. DenseInv => RightNames
    BY DEF DenseInv
<1> QED
    BY <1>1, DenseInvariance, PTL

\* A set of numbers that is not empty has a least one.
LEMMA Least ==
    ASSUME NEW T, T \subseteq Nat, T # {}
    PROVE  \E m \in T : \A n \in T : m <= n
<1> DEFINE R == {ss \in Nat \X Nat : ss[1] < ss[2]}
<1>1. IsWellFoundedOn(R, Nat)
    BY NatLessThanWellFounded DEF OpToRel
<1>2. PICK m \in T : \A n \in T : <<n, m>> \notin R
    BY <1>1, WFMin
<1>3. ASSUME NEW n \in T PROVE m <= n
    <2>1. n \in Nat /\ m \in Nat
        OBVIOUS
    <2>2. n < m => <<n, m>> \in R
        BY <2>1
    <2> QED
        BY <1>2, <2>1, <2>2
<1> QED
    BY <1>3

\* So a set that is closed under the next number up to N holds them all: induction
\* over the columns of a row.
LEMMA Induct ==
    ASSUME NEW N \in Nat, NEW S, 0 \in S, \A n \in 0..(N - 1) : n \in S => n + 1 \in S
    PROVE  \A n \in 0..N : n \in S
<1> DEFINE T == {n \in 0..N : n \notin S}
<1>1. SUFFICES ASSUME T # {} PROVE FALSE
    OBVIOUS
<1>2. PICK m \in T : \A n \in T : m <= n
    <2>1. T \subseteq Nat
        OBVIOUS
    <2> HIDE DEF T
    <2> QED
        BY <1>1, <2>1, Least
<1>3. m \in 1..N /\ m - 1 \notin T
    BY <1>2
<1> QED
    BY <1>2, <1>3

\* f adds up the first n counters of a row.
AddsUp(f, row, n) ==
    f \in [0..n -> Nat] /\ f[0] = 0 /\ \A i \in 0..(n - 1) : f[i + 1] = f[i] + row[i]

\* SumUpTo is the function its equation describes.
LEMMA Sums ==
    ASSUME NEW row \in [Ids -> Nat]
    PROVE  /\ SumUpTo(row) \in [0..MaxRoutes -> Nat]
           /\ SumUpTo(row)[0] = 0
           /\ \A n \in Ids : SumUpTo(row)[n + 1] = SumUpTo(row)[n] + row[n]
<1> DEFINE S == {n \in 0..MaxRoutes : \E f : AddsUp(f, row, n)}
<1>0. MaxRoutes \in Nat /\ MaxRoutes > 0
    BY Counters
<1>1. 0 \in S
    <2>1. AddsUp([i \in 0..0 |-> 0], row, 0)
        BY DEF AddsUp
    <2> QED
        BY <2>1, <1>0
<1>2. ASSUME NEW n \in 0..(MaxRoutes - 1), n \in S
      PROVE  n + 1 \in S
    <2>1. PICK f : AddsUp(f, row, n)
        BY <1>2
    <2> DEFINE g == [i \in 0..(n + 1) |-> IF i = n + 1 THEN f[n] + row[n] ELSE f[i]]
    <2>2. n \in Nat /\ n + 1 \in 0..MaxRoutes /\ row[n] \in Nat
        BY <1>0 DEF Ids
    <2>3. AddsUp(g, row, n + 1)
        BY <2>1, <2>2 DEF AddsUp
    <2> QED
        BY <2>2, <2>3
<1>3. MaxRoutes \in S
    <2> HIDE DEF S
    <2> QED
        BY <1>0, <1>1, <1>2, Induct
<1>4. PICK f \in [0..MaxRoutes -> Nat] : f[0] = 0 /\ \A i \in Ids : f[i + 1] = f[i] + row[i]
    BY <1>3 DEF Ids, AddsUp
<1>5. f = [n \in 0..MaxRoutes |-> IF n = 0 THEN 0 ELSE f[n - 1] + row[n - 1]]
    BY <1>0, <1>4 DEF Ids
<1>6. SumUpTo(row) = [n \in 0..MaxRoutes |->
                         IF n = 0 THEN 0 ELSE SumUpTo(row)[n - 1] + row[n - 1]]
    BY <1>5 DEF SumUpTo
<1>7. \A n \in 0..MaxRoutes : SumUpTo(row)[n] = f[n]
    <2> DEFINE E == {n \in 0..MaxRoutes : SumUpTo(row)[n] = f[n]}
    <2>1. 0 \in E
        BY <1>0, <1>4, <1>6
    <2>2. ASSUME NEW n \in 0..(MaxRoutes - 1), n \in E
          PROVE  n + 1 \in E
        BY <1>0, <1>4, <1>6, <2>2 DEF Ids
    <2> HIDE DEF E
    <2>3. \A n \in 0..MaxRoutes : n \in E
        BY <1>0, <2>1, <2>2, Induct
    <2> QED
        BY <2>3 DEF E
<1> QED
    BY <1>0, <1>4, <1>6, <1>7 DEF Ids

\* Greater counters have the greater sum.
LEMMA SumsGrow ==
    ASSUME NEW row \in [Ids -> Nat], NEW other \in [Ids -> Nat], NEW k \in 0..MaxRoutes,
           \A i \in Ids : i < k => row[i] <= other[i]
    PROVE  SumUpTo(row)[k] <= SumUpTo(other)[k]
<1> DEFINE E == {n \in 0..k : SumUpTo(row)[n] <= SumUpTo(other)[n]}
<1>0. MaxRoutes \in Nat /\ k \in Nat /\ k <= MaxRoutes
    BY Counters
<1>1. 0 \in E
    BY Sums, <1>0
<1>2. ASSUME NEW n \in 0..(k - 1), n \in E
      PROVE  n + 1 \in E
    <2>1. n \in Ids /\ n < k /\ n \in 0..MaxRoutes
        BY <1>0 DEF Ids
    <2>2. row[n] \in Nat /\ other[n] \in Nat /\ row[n] <= other[n]
        BY <2>1
    <2>3. /\ SumUpTo(row)[n] \in Nat /\ SumUpTo(other)[n] \in Nat
          /\ SumUpTo(row)[n + 1] = SumUpTo(row)[n] + row[n]
          /\ SumUpTo(other)[n + 1] = SumUpTo(other)[n] + other[n]
        BY <2>1, Sums
    <2> QED
        BY <1>0, <1>2, <2>1, <2>2, <2>3
<1> HIDE DEF E
<1>3. \A n \in 0..k : n \in E
    BY <1>0, <1>1, <1>2, Induct
<1> QED
    BY <1>0, <1>3 DEF E

\* One counter changes all sums that reach it by what it changes itself.
LEMMA SumsChange ==
    ASSUME NEW row \in [Ids -> Nat], NEW g \in Ids, NEW n \in Nat, NEW k \in 0..MaxRoutes
    PROVE  SumUpTo([row EXCEPT ![g] = n])[k] =
               IF g < k THEN SumUpTo(row)[k] - row[g] + n ELSE SumUpTo(row)[k]
<1> DEFINE other == [row EXCEPT ![g] = n]
           E == {i \in 0..MaxRoutes :
                    SumUpTo(other)[i] = IF g < i THEN SumUpTo(row)[i] - row[g] + n
                                                 ELSE SumUpTo(row)[i]}
<1>0. MaxRoutes \in Nat /\ g \in Nat /\ g < MaxRoutes /\ row[g] \in Nat
    BY Counters DEF Ids
<1>1. other \in [Ids -> Nat] /\ other[g] = n /\ \A i \in Ids \ {g} : other[i] = row[i]
    OBVIOUS
<1> HIDE DEF other
<1>2. 0 \in E
    BY <1>0, <1>1, Sums
<1>3. ASSUME NEW i \in 0..(MaxRoutes - 1), i \in E
      PROVE  i + 1 \in E
    <2>1. i \in Ids /\ i \in 0..MaxRoutes /\ i + 1 \in 0..MaxRoutes /\ i \in Nat
        BY <1>0 DEF Ids
    <2>2. /\ SumUpTo(row)[i] \in Nat /\ SumUpTo(other)[i] \in Nat /\ row[i] \in Nat
          /\ SumUpTo(row)[i + 1] = SumUpTo(row)[i] + row[i]
          /\ SumUpTo(other)[i + 1] = SumUpTo(other)[i] + other[i]
        BY <1>1, <2>1, Sums
    <2>3. CASE i = g
        BY <1>0, <1>1, <1>3, <2>1, <2>2, <2>3
    <2>4. CASE i # g
        BY <1>0, <1>1, <1>3, <2>1, <2>2, <2>4
    <2> QED
        BY <2>3, <2>4
<1> HIDE DEF E
<1>4. k \in E
    BY <1>0, <1>2, <1>3, Induct
<1> QED
    BY <1>4 DEF E, other

\* A row with one counter changed adds up to as much more or less.
LEMMA SumChanges ==
    ASSUME NEW row \in [Ids -> Nat], NEW g \in Ids, NEW n \in Nat
    PROVE  SumOf([row EXCEPT ![g] = n]) = SumOf(row) - row[g] + n
<1>1. MaxRoutes \in 0..MaxRoutes /\ g < MaxRoutes
    BY Counters DEF Ids
<1> QED
    BY <1>1, SumsChange DEF SumOf

\* Nothing adds up to nothing.
LEMMA SumOfNothing == \A k \in 0..MaxRoutes : SumUpTo(ZeroRow)[k] = 0
<1> DEFINE E == {n \in 0..MaxRoutes : SumUpTo(ZeroRow)[n] = 0}
<1>0. MaxRoutes \in Nat /\ ZeroRow \in [Ids -> Nat]
    BY Counters DEF ZeroRow
<1>1. 0 \in E
    BY <1>0, Sums
<1>2. ASSUME NEW n \in 0..(MaxRoutes - 1), n \in E
      PROVE  n + 1 \in E
    <2>1. n \in Ids /\ ZeroRow[n] = 0 /\ n \in 0..MaxRoutes /\ n + 1 \in 0..MaxRoutes
        BY <1>0 DEF Ids, ZeroRow
    <2>2. SumUpTo(ZeroRow)[n + 1] = SumUpTo(ZeroRow)[n] + ZeroRow[n]
        BY <1>0, <2>1, Sums
    <2> QED
        BY <1>2, <2>1, <2>2
<1> HIDE DEF E
<1>3. \A n \in 0..MaxRoutes : n \in E
    BY <1>0, <1>1, <1>2, Induct
<1> QED
    BY <1>3 DEF E

\* No counter is more than the sum of its row.
LEMMA SumCovers ==
    ASSUME NEW row \in [Ids -> Nat], NEW g \in Ids
    PROVE  row[g] <= SumOf(row) /\ SumOf(row) \in Nat
<1>0. MaxRoutes \in 0..MaxRoutes /\ g \in Nat /\ g < MaxRoutes /\ row[g] \in Nat
    BY Counters DEF Ids
<1> DEFINE less == [row EXCEPT ![g] = 0]
<1>1. less \in [Ids -> Nat]
    OBVIOUS
<1>2. SumUpTo(less)[MaxRoutes] = SumUpTo(row)[MaxRoutes] - row[g] + 0
    BY <1>0, SumsChange
<1> HIDE DEF less
<1>3. SumUpTo(less)[MaxRoutes] \in Nat /\ SumUpTo(row)[MaxRoutes] \in Nat
    BY <1>0, <1>1, Sums
<1> QED
    BY <1>0, <1>2, <1>3 DEF SumOf
--------------------------------------------------------------------------------
\* Counters are added to modulo Word: a and b are the same counter.
Same(a, b) == a % Word = b % Word

\* A number is a multiple of Word and a rest, in one way.
LEMMA Rest ==
    ASSUME NEW a \in Nat
    PROVE  /\ \E q \in Nat : a = q * Word + (a % Word)
           /\ a % Word \in 0..(Word - 1)
<1>0. Word \in Nat \ {0}
    BY Counters
<1>1. a = (a \div Word) * Word + (a % Word)
    BY <1>0
<1>2. a \div Word \in Nat /\ a % Word \in 0..(Word - 1)
    BY <1>0
<1> QED
    BY <1>1, <1>2

\* A remainder below the divisor is the only one.
LEMMA OneRest ==
    ASSUME NEW q \in Nat, NEW r \in 0..(Word - 1)
    PROVE  (q * Word + r) % Word = r
<1>0. Word \in Nat \ {0}
    BY Counters
<1> QED
    BY <1>0

\* Numbers a multiple of Word apart are the same counter.
LEMMA SameApart ==
    ASSUME NEW a \in Nat, NEW q \in Nat
    PROVE  Same(a + q * Word, a)
<1>1. PICK p \in Nat : a = p * Word + (a % Word)
    BY Rest
<1>2. a % Word \in 0..(Word - 1) /\ Word \in Nat
    BY Rest, Counters
<1>3. p + q \in Nat /\ a + q * Word = (p + q) * Word + (a % Word)
    BY <1>1, <1>2
<1> HIDE <1>1
<1>4. (a + q * Word) % Word = a % Word
    BY <1>2, <1>3, OneRest
<1> QED
    BY <1>4 DEF Same

\* Being the same modulo 2^32 passes on.
LEMMA SameTransitive ==
    ASSUME NEW a, NEW b, NEW c, Same(a, b), Same(b, c)
    PROVE  Same(a, c) /\ Same(c, a)
BY DEF Same

\* Numbers that are the same modulo 2^32 are whole rounds apart.
LEMMA SameIsApart ==
    ASSUME NEW a \in Nat, NEW b \in Nat, Same(a, b)
    PROVE  \E q \in Nat : a = b + q * Word \/ b = a + q * Word
<1>1. PICK m \in Nat : a = m * Word + (a % Word)
    BY Rest
<1>2. PICK n \in Nat : b = n * Word + (b % Word)
    BY Rest
<1>3. a % Word \in 0..(Word - 1) /\ a % Word = b % Word /\ Word \in Nat
    BY Rest, Counters DEF Same
<1>4. CASE m >= n
    <2>1. m - n \in Nat /\ a = b + (m - n) * Word
        BY <1>1, <1>2, <1>3, <1>4
    <2> QED
        BY <2>1
<1>5. CASE n >= m
    <2>1. n - m \in Nat /\ b = a + (n - m) * Word
        BY <1>1, <1>2, <1>3, <1>5
    <2> QED
        BY <2>1
<1> QED
    BY <1>4, <1>5

\* What is the same stays so when both are added to, and when both are reduced.
LEMMA SameShift ==
    ASSUME NEW a \in Nat, NEW b \in Nat, NEW c \in Nat
    PROVE  Same(a, b) <=> Same(a + c, b + c)
<1>0. Word \in Nat
    BY Counters
<1>1. ASSUME Same(a, b)
      PROVE  Same(a + c, b + c)
    <2>1. PICK q \in Nat : a = b + q * Word \/ b = a + q * Word
        BY <1>1, SameIsApart
    <2>2. a + c = (b + c) + q * Word \/ b + c = (a + c) + q * Word
        BY <1>0, <2>1
    <2>3. Same((b + c) + q * Word, b + c) /\ Same((a + c) + q * Word, a + c)
        BY SameApart
    <2> QED
        BY <2>2, <2>3 DEF Same
<1>2. ASSUME Same(a + c, b + c)
      PROVE  Same(a, b)
    <2>1. PICK q \in Nat : a + c = (b + c) + q * Word \/ b + c = (a + c) + q * Word
        BY <1>2, SameIsApart
    <2>2. a = b + q * Word \/ b = a + q * Word
        BY <1>0, <2>1
    <2>3. Same(b + q * Word, b) /\ Same(a + q * Word, a)
        BY SameApart
    <2> QED
        BY <2>2, <2>3 DEF Same
<1> QED
    BY <1>1, <1>2

\* A counter is the number it counts, wrapped.
LEMMA SameWrapped ==
    ASSUME NEW a \in Nat
    PROVE  Same(a % Word, a)
<1>1. PICK q \in Nat : a = q * Word + (a % Word)
    BY Rest
<1>2. a % Word \in Nat /\ Word \in Nat
    BY Rest, Counters
<1>3. a = (a % Word) + q * Word
    BY <1>1, <1>2
<1>4. Same((a % Word) + q * Word, a % Word)
    BY <1>2, SameApart
<1> QED
    BY <1>3, <1>4 DEF Same

\* A number below 2^32 is its own remainder, so two that are the same are equal.
LEMMA SmallRest == \A n \in 0..(Word - 1) : n % Word = n
BY Counters

LEMMA SameSmall ==
    ASSUME NEW a \in 0..(Word - 1), NEW b \in 0..(Word - 1), Same(a, b)
    PROVE  a = b
BY SmallRest DEF Same

\* Where a goroutine writes the matrix without a lock, and where it is from the
\* beginning of Record until it has added to a row's total.
Writing == {"total"} \cup Rescaling
Recording == {"registering", "session", "cell", "total"}

\* An ID some pattern has been published with.
Named(i) == \E p \in Patterns : patterns[p] = i

\* What else a goroutine's local variables hold where it is.
LocalOf(t) ==
    /\ pc[t] # "registering" => reg[t] = "out"
    /\ pc[t] \in {"session", "cell"} \cup Writing =>
          asked[t] \in Patterns /\ patterns[asked[t]] = answer[t]
    /\ pc[t] \in {"cell"} \cup Writing \cup Reading => Named(job[t].from)
    /\ pc[t] = "idle" => job[t] = NoJob
    /\ pc[t] \in Recording \cup {"loadTotal"} => job[t].sum = 0
    /\ pc[t] \in {"loadTotal", "loadCount"} => job[t].row = ZeroRow
    /\ pc[t] \in {"loadCount", "scan"} => job[t].sum > 0
    /\ pc[t] = "rescaleTotal" => job[t].col = MaxRoutes

\* Goroutines may be infinitely many, those with a call under way never are.
Locals ==
    /\ IsFiniteSet({t \in Threads : pc[t] # "idle"})
    /\ \A t \in Threads : LocalOf(t)

\* Rows, columns and sessions of the matrix in use belong to registered routes.
Used ==
    /\ \A f \in Ids : totals[f] > 0 => Named(f)
    /\ \A f, g \in Ids : matrix[f][g] > 0 => Named(f) /\ Named(g)
    /\ \A s \in Sessions : last[s] # None => Named(last[s])
    /\ \A t \in Threads : pc[t] = "rescaleStore" /\ job[t].old > 0 => Named(job[t].col)

\* A step in terms of its goroutine: what t has when it is through, the others keep
\* what they have.
OnlyMoves(t) ==
    \A u \in Threads \ {t} :
        /\ pc'[u] = pc[u] /\ job'[u] = job[u]
        /\ reg'[u] = reg[u] /\ asked'[u] = asked[u] /\ answer'[u] = answer[u]

\* The types of what a goroutine holds.
LEMMA Typed ==
    ASSUME DenseInv
    PROVE  /\ pc \in [Threads -> {"idle", "registering", "session", "cell", "total", "naming"}
                                   \cup Rescaling \cup Reading]
           /\ job \in [Threads -> Jobs]
           /\ last \in [Sessions -> Ids \cup {None}]
           /\ reg \in [Threads -> {"out", "slow", "counted", "mapped"}]
           /\ asked \in [Threads -> Patterns \cup {None}]
           /\ answer \in [Threads -> Nat \cup {None}]
           /\ patterns \in [Patterns -> Nat \cup {None}]
BY DEF DenseInv, DenseTypeOK, IInv, RegistryTypeOK

\* No ID, pattern or number stands for nothing.
LEMMA NoneElse == None \notin Ids /\ None \notin Patterns /\ None \notin Nat
BY RegistryAssumption, Counters DEF Ids

\* A published ID stays named.
LEMMA NamedKept ==
    ASSUME DenseInv, [Next]_vars
    PROVE  /\ \A p \in Patterns : patterns[p] # None => patterns'[p] = patterns[p]
           /\ \A i \in Ids : Named(i) => Named(i)'
<1>1. \A p \in Patterns : patterns[p] # None => patterns'[p] = patterns[p]
    BY RegistrySteps, StepStable DEF DenseInv
<1> QED
    BY <1>1, NoneElse DEF Named

\* What a step leaves alone is as it was.
LEMMA LocalsKept ==
    ASSUME DenseInv, DenseInv', Locals, [Next]_vars, NEW t \in Threads, OnlyMoves(t), LocalOf(t)'
    PROVE  Locals'
<1>1. IsFiniteSet({u \in Threads : pc[u] # "idle"})'
    <2> DEFINE busy == {u \in Threads : pc[u] # "idle"}
    <2>1. IsFiniteSet(busy \cup {t})
        BY FS_AddElement DEF Locals
    <2>2. busy' \subseteq busy \cup {t}
        BY DEF OnlyMoves
    <2> HIDE DEF busy
    <2>3. IsFiniteSet(busy')
        BY <2>1, <2>2, FS_Subset
    <2> QED
        BY <2>3 DEF busy
<1>2. ASSUME NEW u \in Threads, u # t
      PROVE  LocalOf(u)'
    <2>1. LocalOf(u)
        BY DEF Locals
    <2>2. /\ pc'[u] = pc[u] /\ job'[u] = job[u]
          /\ reg'[u] = reg[u] /\ asked'[u] = asked[u] /\ answer'[u] = answer[u]
        BY <1>2 DEF OnlyMoves
    <2>3. pc[u] \in {"session", "cell"} \cup Writing => answer[u] \in Ids
        BY DEF DenseInv, Places, Writing
    <2>4. pc[u] \in {"cell"} \cup Writing \cup Reading => job[u].from \in Ids
        BY DEF DenseInv, Places, Writing
    <2>5. pc[u] \in {"session", "cell"} \cup Writing => patterns'[asked[u]] = answer[u]
        BY <2>1, <2>3, NamedKept, NoneElse DEF LocalOf
    <2>6. pc[u] \in {"cell"} \cup Writing \cup Reading => \A i \in Ids : i = job[u].from => Named(i)'
        BY <2>1, <2>4, NamedKept DEF LocalOf
    <2>7. pc'[u] \in {"cell"} \cup Writing \cup Reading => Named(job[u].from)'
        BY <2>2, <2>4, <2>6
    <2> QED
        BY <2>1, <2>2, <2>5, <2>7 DEF LocalOf
<1>3. \A u \in Threads : LocalOf(u)'
    BY <1>2
<1> QED
    BY <1>1, <1>3 DEF Locals

\* The places a step goes to, and with which local variables.
GoesTo(t, place, j) ==
    /\ pc' = [pc EXCEPT ![t] = place] /\ job' = [job EXCEPT ![t] = j]
    /\ UNCHANGED registryVars

\* What such a step does, goroutine by goroutine.
LEMMA Moved ==
    ASSUME DenseInv, NEW t \in Threads, NEW place, NEW j, GoesTo(t, place, j)
    PROVE  /\ pc'[t] = place /\ job'[t] = j /\ reg'[t] = reg[t] /\ asked'[t] = asked[t]
           /\ answer'[t] = answer[t] /\ patterns' = patterns
           /\ OnlyMoves(t)
BY Typed DEF GoesTo, OnlyMoves, registryVars

\* One step after the other, seen so.
LEMMA RecordMoves ==
    ASSUME DenseInv, NEW t \in Threads
    PROVE  /\ Ignore(t) => GoesTo(t, "idle", NoJob)
           /\ StoreConcrete(t) => GoesTo(t, "session", job[t])
           /\ MoveSession(t) =>
                 IF last[job[t].session] = None THEN GoesTo(t, "idle", NoJob)
                 ELSE GoesTo(t, "cell", [job[t] EXCEPT !.from = last[job[t].session]])
           /\ AddCell(t) => GoesTo(t, "total", job[t])
           /\ AddTotal(t) => \/ /\ GoesTo(t, "rescale", job[t])
                                /\ (totals[job[t].from] + 1) % Word >= RescaleAt
                             \/ /\ GoesTo(t, "idle", NoJob)
                                /\ (totals[job[t].from] + 1) % Word < RescaleAt
           /\ RescaleLoad(t) =>
                 GoesTo(t, "rescaleStore",
                        [job[t] EXCEPT !.old = matrix[job[t].from][job[t].col]])
           /\ RescaleStore(t) =>
                 GoesTo(t, IF job[t].col + 1 = MaxRoutes THEN "rescaleTotal" ELSE "rescale",
                        [job[t] EXCEPT !.sum = (@ + job[t].old \div 2) % Word,
                                       !.col = job[t].col + 1])
           /\ RescaleTotal(t) => GoesTo(t, "idle", NoJob)
<1>0. job \in [Threads -> Jobs]
    BY Typed
<1>1. job = [job EXCEPT ![t] = job[t]]
    BY <1>0
<1> USE DEF GoesTo, Finish, Goto
<1>2. Ignore(t) => GoesTo(t, "idle", NoJob)
    BY DEF Ignore
<1>3. StoreConcrete(t) => GoesTo(t, "session", job[t])
    BY <1>1 DEF StoreConcrete, registryVars
<1>4. MoveSession(t) =>
          IF last[job[t].session] = None THEN GoesTo(t, "idle", NoJob)
          ELSE GoesTo(t, "cell", [job[t] EXCEPT !.from = last[job[t].session]])
    BY <1>0 DEF MoveSession, registryVars
<1>5. AddCell(t) => GoesTo(t, "total", job[t])
    BY <1>1 DEF AddCell, registryVars
<1>6. AddTotal(t) => \/ /\ GoesTo(t, "rescale", job[t])
                        /\ (totals[job[t].from] + 1) % Word >= RescaleAt
                     \/ /\ GoesTo(t, "idle", NoJob)
                        /\ (totals[job[t].from] + 1) % Word < RescaleAt
    BY <1>1 DEF AddTotal, registryVars
<1>7. RescaleLoad(t) =>
          GoesTo(t, "rescaleStore", [job[t] EXCEPT !.old = matrix[job[t].from][job[t].col]])
    BY <1>0 DEF RescaleLoad, registryVars
<1>8. RescaleStore(t) =>
          GoesTo(t, IF job[t].col + 1 = MaxRoutes THEN "rescaleTotal" ELSE "rescale",
                 [job[t] EXCEPT !.sum = (@ + job[t].old \div 2) % Word, !.col = job[t].col + 1])
    BY <1>0 DEF RescaleStore, registryVars
<1>9. RescaleTotal(t) => GoesTo(t, "idle", NoJob)
    BY DEF RescaleTotal, registryVars
<1> QED
    BY <1>2, <1>3, <1>4, <1>5, <1>6, <1>7, <1>8, <1>9

\* The steps of Predict, seen so.
LEMMA PredictMoves ==
    ASSUME DenseInv, NEW t \in Threads
    PROVE  /\ \A s \in Sessions : BeginPredict(t, s) =>
                 GoesTo(t, "loadTotal", [job[t] EXCEPT !.session = s, !.from = last[s]])
           /\ LoadTotal(t) =>
                 IF totals[job[t].from] = 0 THEN GoesTo(t, "idle", NoJob)
                 ELSE GoesTo(t, "loadCount", [job[t] EXCEPT !.sum = totals[job[t].from]])
           /\ LoadCount(t) =>
                 GoesTo(t, "scan",
                        [job[t] EXCEPT !.limit = IF count > MaxRoutes THEN MaxRoutes ELSE count])
           /\ Scan(t) =>
                 GoesTo(t, "scan",
                        [job[t] EXCEPT !.row[job[t].col] = matrix[job[t].from][job[t].col],
                                       !.col = job[t].col + 1])
           /\ Rank(t) \/ Name(t) \/ ReturnPredictions(t) =>
                 \/ GoesTo(t, "idle", NoJob)
                 \/ \E j \in Jobs : GoesTo(t, "naming", j)
<1>0. job \in [Threads -> Jobs] /\ pc \in [Threads -> {"idle", "registering", "session", "cell",
                                            "total", "naming"} \cup Rescaling \cup Reading]
    BY Typed
<1> USE DEF GoesTo, Finish, Goto
<1>1. ASSUME NEW s \in Sessions, BeginPredict(t, s)
      PROVE  GoesTo(t, "loadTotal", [job[t] EXCEPT !.session = s, !.from = last[s]])
    BY <1>0, <1>1 DEF BeginPredict, registryVars
<1>2. LoadTotal(t) =>
          IF totals[job[t].from] = 0 THEN GoesTo(t, "idle", NoJob)
          ELSE GoesTo(t, "loadCount", [job[t] EXCEPT !.sum = totals[job[t].from]])
    BY <1>0 DEF LoadTotal, registryVars
<1>3. LoadCount(t) =>
          GoesTo(t, "scan",
                 [job[t] EXCEPT !.limit = IF count > MaxRoutes THEN MaxRoutes ELSE count])
    BY <1>0 DEF LoadCount, registryVars
<1>4. Scan(t) =>
          GoesTo(t, "scan", [job[t] EXCEPT !.row[job[t].col] = matrix[job[t].from][job[t].col],
                                           !.col = job[t].col + 1])
    BY <1>0 DEF Scan, registryVars
<1>5. ASSUME Rank(t) \/ Name(t) \/ ReturnPredictions(t)
      PROVE  \/ GoesTo(t, "idle", NoJob)
             \/ \E j \in Jobs : GoesTo(t, "naming", j)
    <2>1. CASE Rank(t)
        <3>1. PICK best \in SUBSET Candidates(t) :
                 IF best = {} THEN Finish(t)
                 ELSE Goto(t, "naming") /\ job' = [job EXCEPT ![t].picks = best]
            BY <2>1 DEF Rank
        <3>2. job[t] \in Jobs /\ best \subseteq Ids
            BY <1>0 DEF Candidates
        <3>3. [job[t] EXCEPT !.picks = best] \in Jobs
            BY <3>2 DEF Jobs
        <3>4. job' = [job EXCEPT ![t].picks = best] =>
                  job' = [job EXCEPT ![t] = [job[t] EXCEPT !.picks = best]]
            BY <1>0
        <3>5. UNCHANGED registryVars
            BY <2>1 DEF Rank
        <3> QED
            BY <3>1, <3>3, <3>4, <3>5
    <2>2. CASE Name(t)
        <3>1. PICK i \in job[t].picks :
                 job' = [job EXCEPT ![t].picks = @ \ {i},
                                    ![t].out = @ \cup {[id |-> i, pattern |-> PatternOf(i)]}]
            BY <2>2 DEF Name
        <3> DEFINE j == [job[t] EXCEPT !.picks = @ \ {i},
                                       !.out = @ \cup {[id |-> i, pattern |-> PatternOf(i)]}]
        <3>2. job[t] \in Jobs /\ i \in Ids
            BY <1>0 DEF Jobs
        <3>3. [id |-> i, pattern |-> PatternOf(i)] \in [id : Ids, pattern : Patterns \cup {None}]
            BY <3>2, PatternOfType
        <3>4. j \in Jobs
            BY <3>2, <3>3 DEF Jobs
        <3>5. job' = [job EXCEPT ![t] = j] /\ pc' = [pc EXCEPT ![t] = "naming"]
            BY <1>0, <2>2, <3>1 DEF Name
        <3>6. UNCHANGED registryVars
            BY <2>2 DEF Name
        <3> HIDE DEF j
        <3> QED
            BY <3>4, <3>5, <3>6
    <2>3. CASE ReturnPredictions(t)
        BY <2>3 DEF ReturnPredictions
    <2> QED
        BY <1>5, <2>1, <2>2, <2>3
<1> QED
    BY Zenon, <1>1, <1>2, <1>3, <1>4, <1>5

\* What a Record hands on from place to place.
LEMMA RecordLocals ==
    ASSUME DenseInv, DenseInv', Locals, Used, NEW t \in Threads, RecordStep(t), ~Registering(t)
    PROVE  OnlyMoves(t) /\ LocalOf(t)'
<1>0. LocalOf(t) /\ job[t] \in Jobs /\ totals \in [Ids -> 0..(Word - 1)]
    BY Typed, Here DEF Locals
<1> USE DEF LocalOf, Recording, Writing, Rescaling, Reading
<1>1. ASSUME GoesTo(t, "idle", NoJob), reg[t] = "out"
      PROVE  OnlyMoves(t) /\ LocalOf(t)'
    BY <1>1, Moved
<1>2. CASE Ignore(t)
    BY Zenon, <1>1, <1>2, RecordMoves DEF Ignore, Registered
<1>3. CASE StoreConcrete(t)
    <2>1. asked[t] \in Patterns /\ patterns[asked[t]] = answer[t]
        BY <1>3, UsableIds DEF StoreConcrete, DenseInv, Places, Registered
    <2>2. GoesTo(t, "session", job[t]) /\ pc[t] = "registering" /\ reg[t] = "out"
        BY Zenon, <1>3, RecordMoves DEF StoreConcrete, Registered
    <2> QED
        BY <1>0, <2>1, <2>2, Moved
<1>4. CASE MoveSession(t)
    <2>1. /\ asked[t] \in Patterns /\ patterns[asked[t]] = answer[t]
          /\ pc[t] \in {"registering", "session"} /\ reg[t] = "out"
        BY Zenon, <1>0, <1>4, UsableIds DEF MoveSession, DenseInv, Places, Registered
    <2>2. CASE last[job[t].session] = None
        BY Zenon, <1>1, <1>4, <2>1, <2>2, RecordMoves
    <2>3. CASE last[job[t].session] # None
        <3> DEFINE j == [job[t] EXCEPT !.from = last[job[t].session]]
        <3>1. job[t].session \in Sessions
            BY <2>1 DEF DenseInv, Places
        <3>2. Named(last[job[t].session])
            BY <2>3, <3>1 DEF Used
        <3>3. j.from = last[job[t].session] /\ j.sum = 0
            BY Zenon, <1>0, <2>1 DEF Jobs
        <3>4. GoesTo(t, "cell", j)
            BY Zenon, <1>4, <2>3, RecordMoves
        <3> HIDE DEF j
        <3>5. OnlyMoves(t) /\ pc'[t] = "cell" /\ job'[t] = j /\ reg'[t] = reg[t]
              /\ asked'[t] = asked[t] /\ answer'[t] = answer[t] /\ patterns' = patterns
            BY <3>4, Moved
        <3>6. Named(job[t].from)'
            BY <3>2, <3>3, <3>5 DEF Named
        <3> QED
            BY <2>1, <3>3, <3>5, <3>6
    <2> QED
        BY <2>2, <2>3
<1>5. ASSUME NEW place \in {"total", "rescale"}, GoesTo(t, place, job[t]),
             pc[t] \in {"cell", "total"}
      PROVE  OnlyMoves(t) /\ LocalOf(t)'
    BY <1>0, <1>5, Moved DEF Named
<1>6. CASE AddCell(t)
    <2>1. GoesTo(t, "total", job[t]) /\ pc[t] = "cell"
        BY Zenon, <1>6, RecordMoves DEF AddCell
    <2> QED
        BY <1>5, <2>1
<1>7. CASE AddTotal(t)
    <2>1. pc[t] = "total" /\ reg[t] = "out"
        BY <1>0, <1>7 DEF AddTotal
    <2> QED
        BY Zenon, <1>1, <1>5, <1>7, <2>1, RecordMoves
<1>8. ASSUME NEW place \in Rescaling, NEW j, GoesTo(t, place, j), j.from = job[t].from,
             pc[t] \in Rescaling, place = "rescaleTotal" => j.col = MaxRoutes
      PROVE  OnlyMoves(t) /\ LocalOf(t)'
    <2>1. /\ OnlyMoves(t) /\ pc'[t] = place /\ job'[t] = j /\ reg'[t] = reg[t]
          /\ asked'[t] = asked[t] /\ answer'[t] = answer[t] /\ patterns' = patterns
        BY <1>8, Moved
    <2>2. Named(job[t].from)'
        BY <1>0, <1>8, <2>1 DEF Named
    <2> QED
        BY <1>0, <1>8, <2>1, <2>2
<1>9. CASE RescaleLoad(t)
    <2> DEFINE j == [job[t] EXCEPT !.old = matrix[job[t].from][job[t].col]]
    <2>1. GoesTo(t, "rescaleStore", j) /\ pc[t] = "rescale"
        BY Zenon, <1>9, RecordMoves DEF RescaleLoad
    <2>2. j.from = job[t].from
        BY <1>0 DEF Jobs
    <2> HIDE DEF j
    <2> QED
        BY <1>8, <2>1, <2>2
<1>10. CASE RescaleStore(t)
    <2> DEFINE j == [job[t] EXCEPT !.sum = (@ + job[t].old \div 2) % Word,
                                   !.col = job[t].col + 1]
               place == IF job[t].col + 1 = MaxRoutes THEN "rescaleTotal" ELSE "rescale"
    <2>1. GoesTo(t, place, j) /\ pc[t] = "rescaleStore"
        BY Zenon, <1>10, RecordMoves DEF RescaleStore
    <2>2. j.from = job[t].from /\ j.col = job[t].col + 1
        BY <1>0 DEF Jobs
    <2>3. place \in Rescaling /\ (place = "rescaleTotal" => j.col = MaxRoutes)
        BY Zenon, <2>2
    <2> HIDE DEF j, place
    <2> QED
        BY <1>8, <2>1, <2>2, <2>3
<1>11. CASE RescaleTotal(t)
    <2>1. reg[t] = "out"
        BY <1>0, <1>11 DEF RescaleTotal
    <2> QED
        BY Zenon, <1>1, <1>11, <2>1, RecordMoves
<1> QED
    BY <1>2, <1>3, <1>4, <1>6, <1>7, <1>9, <1>10, <1>11 DEF RecordStep

\* And a Predict.
LEMMA PredictLocals ==
    ASSUME DenseInv, DenseInv', Locals, Used, NEW t \in Threads,
           PredictStep(t) \/ \E s \in Sessions : BeginPredict(t, s)
    PROVE  OnlyMoves(t) /\ LocalOf(t)'
<1>0. LocalOf(t) /\ job[t] \in Jobs /\ totals \in [Ids -> 0..(Word - 1)]
    BY Typed, Here DEF Locals
<1>a. reg[t] = "out"
    BY <1>0 DEF LocalOf, PredictStep, BeginPredict, LoadTotal, LoadCount, Scan, Rank, Name,
                ReturnPredictions
<1> USE DEF LocalOf, Recording, Writing, Rescaling, Reading
<1>1. ASSUME GoesTo(t, "idle", NoJob)
      PROVE  OnlyMoves(t) /\ LocalOf(t)'
    BY <1>a, <1>1, Moved
<1>2. ASSUME NEW place \in Reading, NEW j, GoesTo(t, place, j), Named(j.from),
             place = "loadTotal" => j.sum = 0,
             place \in {"loadTotal", "loadCount"} => j.row = ZeroRow,
             place \in {"loadCount", "scan"} => j.sum > 0
      PROVE  OnlyMoves(t) /\ LocalOf(t)'
    <2>1. /\ OnlyMoves(t) /\ pc'[t] = place /\ job'[t] = j /\ reg'[t] = reg[t]
          /\ patterns' = patterns
        BY <1>2, Moved
    <2>2. Named(job[t].from)'
        BY <1>2, <2>1 DEF Named
    <2> QED
        BY <1>a, <1>2, <2>1, <2>2
<1>3. ASSUME NEW s \in Sessions, BeginPredict(t, s)
      PROVE  OnlyMoves(t) /\ LocalOf(t)'
    <2> DEFINE j == [job[t] EXCEPT !.session = s, !.from = last[s]]
    <2>1. pc[t] = "idle" /\ last[s] # None /\ GoesTo(t, "loadTotal", j)
        BY Zenon, <1>3, PredictMoves DEF BeginPredict
    <2>2. j.from = last[s] /\ j.sum = 0 /\ j.row = ZeroRow
        BY <1>0, <2>1 DEF NoJob
    <2>3. Named(last[s])
        BY <2>1 DEF Used
    <2> HIDE DEF j
    <2> QED
        BY <1>2, <2>1, <2>2, <2>3
<1>4. CASE LoadTotal(t)
    <2> DEFINE j == [job[t] EXCEPT !.sum = totals[job[t].from]]
    <2>1. CASE totals[job[t].from] = 0
        BY Zenon, <1>1, <1>4, <2>1, PredictMoves
    <2>2. CASE totals[job[t].from] # 0
        <3>1. GoesTo(t, "loadCount", j) /\ pc[t] = "loadTotal"
            BY Zenon, <1>4, <2>2, PredictMoves DEF LoadTotal
        <3>2. job[t].from \in Ids /\ totals[job[t].from] > 0
            BY <1>4, <2>2, Here, Counters DEF LoadTotal
        <3>3. j.sum = totals[job[t].from] /\ j.from = job[t].from /\ j.row = job[t].row
            BY <1>0 DEF Jobs
        <3> HIDE DEF j
        <3> QED
            BY <1>0, <1>2, <3>1, <3>2, <3>3
    <2> QED
        BY Zenon, <2>1, <2>2
<1>5. CASE LoadCount(t)
    <2> DEFINE j == [job[t] EXCEPT !.limit = IF count > MaxRoutes THEN MaxRoutes ELSE count]
    <2>1. GoesTo(t, "scan", j) /\ pc[t] = "loadCount"
        BY Zenon, <1>5, PredictMoves DEF LoadCount
    <2>2. j.sum = job[t].sum /\ j.from = job[t].from
        BY <1>0 DEF Jobs
    <2> HIDE DEF j
    <2> QED
        BY <1>0, <1>2, <2>1, <2>2
<1>6. CASE Scan(t)
    <2> DEFINE j == [job[t] EXCEPT !.row[job[t].col] = matrix[job[t].from][job[t].col],
                                   !.col = job[t].col + 1]
    <2>1. GoesTo(t, "scan", j) /\ pc[t] = "scan"
        BY Zenon, <1>6, PredictMoves DEF Scan
    <2>2. j.sum = job[t].sum /\ j.from = job[t].from
        BY Zenon, <1>0 DEF Jobs
    <2> HIDE DEF j
    <2> QED
        BY <1>0, <1>2, <2>1, <2>2
<1>7. CASE Rank(t) \/ Name(t) \/ ReturnPredictions(t)
    <2>1. CASE GoesTo(t, "idle", NoJob)
        BY <1>1, <2>1
    <2>2. ASSUME NEW j, GoesTo(t, "naming", j)
          PROVE  OnlyMoves(t) /\ LocalOf(t)'
        BY <1>a, <2>2, Moved
    <2> QED
        BY Zenon, <1>7, <2>1, <2>2, PredictMoves
<1> QED
    BY <1>3, <1>4, <1>5, <1>6, <1>7 DEF PredictStep

\* Every step keeps what goroutines hold.
LEMMA LocalsStep ==
    ASSUME DenseInv, DenseInv', Locals, Used, [Next]_vars
    PROVE  Locals'
<1>1. ASSUME NEW t \in Threads, OnlyMoves(t), LocalOf(t)'
      PROVE  Locals'
    BY <1>1, LocalsKept
<1>2. ASSUME NEW t \in Threads, RecordStep(t)
      PROVE  Locals'
    <2>1. CASE Registering(t)
        <3>1. LocalOf(t) /\ pc[t] = "registering" /\ UNCHANGED <<pc, job>>
            BY <2>1 DEF Locals, Registering, denseVars
        <3>2. \A u \in Threads \ {t} : reg'[u] = reg[u] /\ asked'[u] = asked[u] /\ answer'[u] = answer[u]
            BY <2>1, Typed DEF Registering, RegistryStep, Register, StorePatterns, StoreReverse, At, Return
        <3>3. OnlyMoves(t)
            BY <3>1, <3>2 DEF OnlyMoves
        <3>4. LocalOf(t)'
            BY <3>1 DEF LocalOf, Recording, Writing, Rescaling, Reading
        <3> QED
            BY <1>1, <3>3, <3>4
    <2>2. CASE ~Registering(t)
        BY <1>1, <1>2, <2>2, RecordLocals
    <2> QED
        BY <2>1, <2>2
<1>3. ASSUME NEW t \in Threads, PredictStep(t) \/ \E s \in Sessions : BeginPredict(t, s)
      PROVE  Locals'
    BY <1>1, <1>3, PredictLocals
<1>4. ASSUME NEW t \in Threads, NEW s \in Sessions, NEW p \in Patterns, BeginRecord(t, s, p)
      PROVE  Locals'
    <2>0. LocalOf(t)
        BY DEF Locals
    <2>1. /\ pc[t] = "idle" /\ pc'[t] = "registering" /\ job[t] = NoJob
          /\ job' = [job EXCEPT ![t].session = s] /\ pc' = [pc EXCEPT ![t] = "registering"]
        BY <1>4, <2>0, Typed DEF BeginRecord, Goto, LocalOf
    <2>2. OnlyMoves(t)
        BY <1>4, <2>1, Typed DEF OnlyMoves, BeginRecord, Ask, At, Return
    <2>3. job'[t].sum = 0
        BY <2>1, Typed DEF NoJob
    <2>4. LocalOf(t)'
        BY <2>1, <2>3 DEF LocalOf, Recording, Writing, Rescaling, Reading
    <2> QED
        BY <1>1, <2>2, <2>4
<1>5. CASE UNCHANGED vars \/ \E s \in Sessions : ResetSession(s)
    <2>1. UNCHANGED <<registryVars, pc, job>>
        BY <1>5 DEF vars, denseVars, ResetSession
    <2> QED
        BY <2>1 DEF Locals, LocalOf, Named, registryVars
<1> QED
    BY <1>2, <1>3, <1>4, <1>5 DEF Next

\* The steps that write counters, totals and sessions.
LEMMA WhoChanges ==
    ASSUME [Next]_vars
    PROVE  /\ (\E t \in Threads : AddCell(t) \/ RescaleStore(t)) \/ UNCHANGED matrix
           /\ (\E t \in Threads : AddTotal(t) \/ RescaleTotal(t)) \/ UNCHANGED totals
           /\ \/ \E t \in Threads : MoveSession(t)
              \/ \E r \in Sessions : ResetSession(r)
              \/ UNCHANGED last
<1>1. ASSUME NEW t \in Threads, RecordStep(t)
      PROVE  /\ AddCell(t) \/ RescaleStore(t) \/ UNCHANGED matrix
             /\ AddTotal(t) \/ RescaleTotal(t) \/ UNCHANGED totals
             /\ MoveSession(t) \/ UNCHANGED last
    BY <1>1 DEF RecordStep, Registering, Ignore, StoreConcrete, MoveSession, AddCell, AddTotal,
                RescaleLoad, RescaleStore, RescaleTotal, denseVars
<1>2. ASSUME NEW t \in Threads,
             \/ PredictStep(t)
             \/ \E s \in Sessions : BeginPredict(t, s) \/ \E p \in Patterns : BeginRecord(t, s, p)
      PROVE  UNCHANGED <<matrix, totals, last>>
    BY <1>2 DEF PredictStep, LoadTotal, LoadCount, Scan, Rank, Name, ReturnPredictions,
                BeginPredict, BeginRecord
<1>3. ASSUME NEW s \in Sessions, ResetSession(s)
      PROVE  UNCHANGED <<matrix, totals>>
    BY <1>3 DEF ResetSession
<1>4. CASE UNCHANGED vars
    BY <1>4 DEF vars, denseVars
<1> QED
    BY <1>1, <1>2, <1>3, <1>4 DEF Next

\* The matrix, the sessions and what a rescaling has read are written under the
\* numbers of registered routes only.
LEMMA UsedStep ==
    ASSUME DenseInv, DenseInv', Locals, Used, [Next]_vars
    PROVE  Used'
<1>0. /\ matrix \in [Ids -> [Ids -> 0..(Word - 1)]] /\ totals \in [Ids -> 0..(Word - 1)]
      /\ last \in [Sessions -> Ids \cup {None}] /\ job \in [Threads -> Jobs]
      /\ matrix' \in [Ids -> [Ids -> 0..(Word - 1)]] /\ totals' \in [Ids -> 0..(Word - 1)]
      /\ last' \in [Sessions -> Ids \cup {None}] /\ job' \in [Threads -> Jobs]
    BY DEF DenseInv, DenseTypeOK
<1>1. ASSUME NEW t \in Threads, pc[t] \in {"session", "cell"} \cup Writing
      PROVE  answer[t] \in Ids /\ Named(answer[t])
    BY <1>1 DEF Locals, LocalOf, DenseInv, Places, Named, Writing
<1>2. ASSUME NEW t \in Threads, pc[t] \in {"cell"} \cup Writing
      PROVE  job[t].from \in Ids /\ Named(job[t].from)
    BY <1>2 DEF Locals, LocalOf, DenseInv, Places, Writing
<1>3. ASSUME NEW f \in Ids, totals'[f] > 0
      PROVE  Named(f)
    <2>1. CASE totals'[f] = totals[f]
        BY <1>3, <2>1 DEF Used
    <2>2. ASSUME NEW t \in Threads, AddTotal(t) \/ RescaleTotal(t), totals'[f] # totals[f]
          PROVE  Named(f)
        <3>1. f = job[t].from
            BY Zenon, <1>0, <2>2 DEF AddTotal, RescaleTotal
        <3> QED
            BY <1>2, <2>2, <3>1 DEF AddTotal, RescaleTotal, Writing, Rescaling
    <2>3. (\E t \in Threads : AddTotal(t) \/ RescaleTotal(t)) \/ UNCHANGED totals
        BY WhoChanges
    <2> QED
        BY <2>1, <2>2, <2>3
<1>4. ASSUME NEW f \in Ids, NEW g \in Ids, matrix'[f][g] > 0
      PROVE  Named(f) /\ Named(g)
    <2>1. CASE matrix'[f][g] = matrix[f][g]
        BY <1>4, <2>1 DEF Used
    <2>2. ASSUME NEW t \in Threads, AddCell(t), matrix'[f][g] # matrix[f][g]
          PROVE  Named(f) /\ Named(g)
        <3>1. f = job[t].from /\ g = answer[t]
            BY <1>0, <2>2 DEF AddCell
        <3> QED
            BY <1>1, <1>2, <2>2, <3>1 DEF AddCell
    <2>3. ASSUME NEW t \in Threads, RescaleStore(t), matrix'[f][g] # matrix[f][g]
          PROVE  Named(f) /\ Named(g)
        <3>1. f = job[t].from /\ g = job[t].col /\ matrix'[f][g] = job[t].old \div 2
            BY <1>0, <2>3 DEF RescaleStore
        <3>2. job[t].old \in Nat
            BY <1>0, Counters DEF Jobs
        <3>3. job[t].old > 0
            BY <1>4, <3>1, <3>2
        <3> QED
            BY <1>2, <2>3, <3>1, <3>3 DEF RescaleStore, Used, Writing, Rescaling
    <2>4. (\E t \in Threads : AddCell(t) \/ RescaleStore(t)) \/ UNCHANGED matrix
        BY WhoChanges
    <2> QED
        BY <2>1, <2>2, <2>3, <2>4
<1>5. ASSUME NEW s \in Sessions, last'[s] # None
      PROVE  Named(last'[s])
    <2>1. CASE last'[s] = last[s]
        BY <1>5, <2>1 DEF Used
    <2>2. ASSUME NEW t \in Threads, MoveSession(t), last'[s] # last[s]
          PROVE  Named(last'[s])
        <3>1. last'[s] = answer[t]
            BY <1>0, <1>5, <2>2 DEF MoveSession, MoveTo
        <3>2. CASE pc[t] = "session"
            BY <1>1, <3>1, <3>2
        <3>3. CASE Registered(t) /\ Usable(t)
            BY <3>1, <3>3, UsableIds DEF Named, DenseInv, Places, Registered
        <3> QED
            BY <2>2, <3>2, <3>3 DEF MoveSession
    <2>3. ASSUME NEW r \in Sessions, ResetSession(r)
          PROVE  Named(last'[s])
        BY Zenon, <1>0, <1>5, <2>3 DEF ResetSession, Used
    <2>4. \/ \E t \in Threads : MoveSession(t)
          \/ \E r \in Sessions : ResetSession(r)
          \/ UNCHANGED last
        BY WhoChanges
    <2> QED
        BY <2>1, <2>2, <2>3, <2>4
<1>6. ASSUME NEW u \in Threads, pc'[u] = "rescaleStore", job'[u].old > 0
      PROVE  job'[u].col \in Ids /\ Named(job'[u].col)
    <2>0. job'[u].col \in Ids
        <3>1. job'[u].col \in 0..MaxRoutes
            BY <1>0 DEF Jobs
        <3>2. job'[u].col < MaxRoutes
            BY <1>6 DEF DenseInv, Places
        <3> QED
            BY <3>1, <3>2, Counters DEF Ids
    <2>1. CASE pc'[u] = pc[u] /\ job'[u] = job[u]
        BY <1>6, <2>0, <2>1 DEF Used
    <2>2. ASSUME NEW t \in Threads, RescaleLoad(t)
          PROVE  Named(job'[u].col)
        <3> DEFINE j == [job[t] EXCEPT !.old = matrix[job[t].from][job[t].col]]
        <3>1. GoesTo(t, "rescaleStore", j)
            BY Zenon, <2>2, RecordMoves
        <3>2. job[t] \in Jobs /\ job[t].from \in Ids
            BY <2>2, Here DEF RescaleLoad, Rescaling
        <3>3. j.col = job[t].col /\ j.old = matrix[job[t].from][job[t].col]
            BY <3>2 DEF Jobs
        <3> HIDE DEF j
        <3>4. CASE u # t
            BY <2>1, <3>1, <3>4, Moved DEF OnlyMoves
        <3>5. CASE u = t
            <4>1. job'[u] = j
                BY <3>1, <3>5, Moved
            <4> QED
                BY <1>6, <2>0, <3>2, <3>3, <4>1 DEF Used
        <3> QED
            BY <3>4, <3>5
    <2>3. ASSUME NEW t \in Threads, RecordStep(t), ~RescaleLoad(t)
          PROVE  pc'[u] = pc[u] /\ job'[u] = job[u]
        BY <1>6, <2>3, Typed DEF RecordStep, Registering, Ignore, StoreConcrete, MoveSession, AddCell,
               AddTotal, RescaleStore, RescaleTotal, Finish, Goto, denseVars
    <2>4. ASSUME NEW t \in Threads, PredictStep(t)
          PROVE  pc'[u] = pc[u] /\ job'[u] = job[u]
        BY <1>6, <2>4, Typed DEF PredictStep, LoadTotal, LoadCount, Scan, Rank, Name,
               ReturnPredictions, Finish, Goto
    <2>5. ASSUME NEW t \in Threads, NEW s \in Sessions,
                 BeginPredict(t, s) \/ \E p \in Patterns : BeginRecord(t, s, p)
          PROVE  pc'[u] = pc[u] /\ job'[u] = job[u]
        BY <1>6, <2>5, Typed DEF BeginPredict, BeginRecord, Goto
    <2>6. CASE UNCHANGED <<pc, job>>
        BY <2>1, <2>6
    <2> QED
        BY <2>0, <2>1, <2>2, <2>3, <2>4, <2>5, <2>6 DEF Next, ResetSession, vars, denseVars
<1>7. \A i \in Ids : Named(i) => Named(i)'
    BY NamedKept
<1>8. \A s \in Sessions : last'[s] \in Ids \cup {None}
    BY <1>0
<1>9. \A f \in Ids : totals'[f] > 0 => Named(f)'
    BY <1>3, <1>7
<1>10. \A f, g \in Ids : matrix'[f][g] > 0 => Named(f)' /\ Named(g)'
    BY <1>4, <1>7
<1>11. \A s \in Sessions : \A i \in Ids : last'[s] = i => Named(i)'
    BY <1>5, <1>7, NoneElse
<1>12. \A u \in Threads : \A i \in Ids :
           pc'[u] = "rescaleStore" /\ job'[u].old > 0 /\ job'[u].col = i => Named(i)'
    BY <1>6, <1>7
<1>13. \A s \in Sessions : last'[s] # None => Named(last[s])'
    BY <1>8, <1>11
<1>14. \A u \in Threads : pc'[u] = "rescaleStore" /\ job'[u].old > 0 => Named(job[u].col)'
    BY <1>6, <1>12
<1> QED
    BY <1>9, <1>10, <1>13, <1>14 DEF Used

\* While nobody rescales the row its total is the sum, less the records half done.
\* Whoever does is alone with it, and has added up what its loop has left behind.
RowFor(f) ==
    /\ (\A t \in Threads : job[t].from = f => pc[t] \notin Rescaling)
          => Same(totals[f] + Half(f), SumOf(matrix[f]))
    /\ \A t \in Threads : job[t].from = f /\ pc[t] \in Rescaling =>
          /\ Others(t, f, Writing) = {}
          /\ Same(job[t].sum, SumUpTo(matrix[f])[job[t].col])

Rows == \A f \in Ids \ raced : RowFor(f)

\* Those whose record of row f is half done.
Halves(f) == {t \in Threads : pc[t] = "total" /\ job[t].from = f}

\* Finitely many records are half done.
LEMMA HalvesFinite ==
    ASSUME Locals, NEW f
    PROVE  IsFiniteSet(Halves(f)) /\ Half(f) = Cardinality(Halves(f)) /\ Half(f) \in Nat
<1>1. Halves(f) \subseteq {t \in Threads : pc[t] # "idle"}
    BY DEF Halves
<1>2. IsFiniteSet(Halves(f))
    BY <1>1, FS_Subset DEF Locals
<1> QED
    BY <1>2, FS_CardinalityType DEF Half, Halves

\* A row whose writers do nothing stays as it is.
LEMMA RowKept ==
    ASSUME DenseInv, NEW f \in Ids, RowFor(f),
           matrix'[f] = matrix[f], totals'[f] = totals[f],
           \A t \in Threads :
               (pc[t] \in Writing /\ job[t].from = f) \/ (pc'[t] \in Writing /\ job'[t].from = f)
                   => pc'[t] = pc[t] /\ job'[t] = job[t]
    PROVE  RowFor(f)'
<1>1. \A t \in Threads : (pc'[t] \in Writing /\ job'[t].from = f)
                             <=> (pc[t] \in Writing /\ job[t].from = f)
    OBVIOUS
<1>2. Half(f)' = Half(f)
    BY <1>1 DEF Half, Writing
<1>3. (\A t \in Threads : job'[t].from = f => pc'[t] \notin Rescaling) =>
          (\A t \in Threads : job[t].from = f => pc[t] \notin Rescaling)
    BY DEF Writing
<1>4. Same(totals[f] + Half(f), SumOf(matrix[f]))' <=> Same(totals[f] + Half(f), SumOf(matrix[f]))
    BY <1>2 DEF Same, SumOf, SumUpTo
<1>5. ASSUME NEW t \in Threads, job'[t].from = f, pc'[t] \in Rescaling
      PROVE  /\ Others(t, f, Writing)' = {}
             /\ Same(job[t].sum, SumUpTo(matrix[f])[job[t].col])'
    <2>1. pc[t] \in Rescaling /\ job'[t] = job[t] /\ job[t].from = f
        BY <1>5 DEF Writing
    <2>2. Others(t, f, Writing) = {} /\ Same(job[t].sum, SumUpTo(matrix[f])[job[t].col])
        BY <2>1 DEF RowFor
    <2>3. Others(t, f, Writing)' = {}
        BY <1>1, <2>2 DEF Others
    <2> QED
        BY <2>1, <2>2, <2>3 DEF Same, SumUpTo
<1> QED
    BY <1>3, <1>4, <1>5 DEF RowFor

\* Rows of counters are rows of numbers.
LEMMA Counted ==
    ASSUME DenseInv, NEW f \in Ids
    PROVE  /\ matrix[f] \in [Ids -> Nat] /\ totals[f] \in Nat
           /\ SumOf(matrix[f]) \in Nat
           /\ \A k \in 0..MaxRoutes : SumUpTo(matrix[f])[k] \in Nat
<1>1. matrix[f] \in [Ids -> Nat] /\ totals[f] \in Nat
    BY Here, Counters DEF DenseInv, DenseTypeOK
<1> QED
    BY <1>1, Sums, Counters DEF SumOf

\* A transition is counted in its cell, with the total still to come.
LEMMA AddCellRow ==
    ASSUME DenseInv, Locals, NEW t \in Threads, AddCell(t),
           NEW f \in Ids, f = job[t].from, f \notin raced', RowFor(f)
    PROVE  RowFor(f)'
<1> DEFINE g == answer[t]  c == matrix[f][g]
<1>0. f = job[t].from /\ g \in Ids /\ c \in Nat /\ matrix[f] \in [Ids -> Nat]
      /\ matrix \in [Ids -> [Ids -> 0..(Word - 1)]]
    BY Here, Counted DEF AddCell
<1>1. pc[t] = "cell" /\ totals' = totals /\ matrix' = [matrix EXCEPT ![f][g] = (c + 1) % Word]
    BY <1>0 DEF AddCell
<1>2. OnlyMoves(t) /\ pc'[t] = "total" /\ job'[t] = job[t]
    <2>1. GoesTo(t, "total", job[t])
        BY Zenon, RecordMoves
    <2> QED
        BY Zenon, <2>1, Moved
<1>3. Others(t, f, Rescaling) = {}
    BY DEF AddCell, Touch
<1>4. \A u \in Threads : job[u].from = f => pc[u] \notin Rescaling
    BY <1>1, <1>3 DEF Others, Rescaling
<1>5. Same(totals[f] + Half(f), SumOf(matrix[f]))
    BY <1>4 DEF RowFor
<1>6. Half(f)' = Half(f) + 1
    <2>1. Halves(f)' = Halves(f) \cup {t} /\ t \notin Halves(f)
        BY <1>1, <1>2 DEF Halves, OnlyMoves
    <2>2. Cardinality(Halves(f) \cup {t}) = Cardinality(Halves(f)) + 1
        BY <2>1, HalvesFinite, FS_AddElement
    <2> QED
        BY <2>1, <2>2 DEF Half, Halves
<1>7. SumOf(matrix'[f]) + c = SumOf(matrix[f]) + ((c + 1) % Word) /\ SumOf(matrix'[f]) \in Nat
    <2> DEFINE n == (c + 1) % Word
    <2>1. matrix'[f] = [matrix[f] EXCEPT ![g] = n]
        BY <1>0, <1>1
    <2>2. n \in Nat
        BY <1>0, Counters
    <2> HIDE DEF n, g
    <2>3. SumOf([matrix[f] EXCEPT ![g] = n]) = SumOf(matrix[f]) - matrix[f][g] + n
        BY <1>0, <2>2, SumChanges
    <2>4. SumOf(matrix[f]) \in Nat /\ matrix[f][g] <= SumOf(matrix[f])
        BY <1>0, SumCovers
    <2> QED
        BY <1>0, <2>1, <2>2, <2>3, <2>4 DEF n
<1>8. Same(SumOf(matrix'[f]), SumOf(matrix[f]) + 1)
    <2> HIDE DEF c, g
    <2>0. c + 1 \in Nat
        BY <1>0
    <2>1. (c + 1) % Word \in Nat /\ SumOf(matrix[f]) \in Nat
        BY <1>0, <2>0, Rest, SumCovers, Counters
    <2>2. Same((c + 1) % Word, c + 1)
        BY <2>0, SameWrapped
    <2>3. Same(((c + 1) % Word) + SumOf(matrix[f]), (c + 1) + SumOf(matrix[f]))
        BY <2>0, <2>1, <2>2, SameShift
    <2>4. ((c + 1) % Word) + SumOf(matrix[f]) = SumOf(matrix'[f]) + c
        BY <1>0, <1>7, <2>1
    <2>5. (c + 1) + SumOf(matrix[f]) = (SumOf(matrix[f]) + 1) + c
        BY <1>0, <2>1
    <2>6. Same(SumOf(matrix'[f]) + c, (SumOf(matrix[f]) + 1) + c)
        BY <2>3, <2>4, <2>5
    <2> QED
        <3>1. SumOf(matrix[f]) + 1 \in Nat /\ SumOf(matrix'[f]) \in Nat /\ c \in Nat
            BY <1>0, <1>7, <2>1
        <3> QED
            BY <2>6, <3>1, SameShift
<1>9. Same(totals[f] + Half(f), SumOf(matrix[f]))'
    <2>1. totals[f] \in Nat /\ Half(f) \in Nat /\ SumOf(matrix[f]) \in Nat
        BY <1>0, Counted, HalvesFinite
    <2>2. Same((totals[f] + Half(f)) + 1, SumOf(matrix[f]) + 1)
        <3>1. totals[f] + Half(f) \in Nat /\ 1 \in Nat
            BY <2>1
        <3> QED
            BY <1>5, <2>1, <3>1, SameShift
    <2>3. totals'[f] + Half(f)' = (totals[f] + Half(f)) + 1
        BY <1>1, <1>6, <2>1
    <2>4. Same(totals'[f] + Half(f)', SumOf(matrix'[f]))
        BY <1>8, <2>2, <2>3 DEF Same
    <2> QED
        BY <1>2, <2>4 DEF Same
<1>10. \A u \in Threads : job'[u].from = f => pc'[u] \notin Rescaling
    BY <1>2, <1>4 DEF OnlyMoves, Rescaling
<1> QED
    BY <1>2, <1>9, <1>10 DEF RowFor

\* The total follows, and may be the one that starts a rescaling.
LEMMA AddTotalRow ==
    ASSUME DenseInv, Locals, NEW t \in Threads, AddTotal(t),
           NEW f \in Ids, f = job[t].from, f \notin raced', f \in raced \/ RowFor(f)
    PROVE  RowFor(f)'
<1>0. /\ f = job[t].from /\ pc[t] = "total" /\ job[t].col = 0 /\ job[t].sum = 0
      /\ matrix' = matrix /\ totals' = [totals EXCEPT ![f] = (totals[f] + 1) % Word]
      /\ totals \in [Ids -> 0..(Word - 1)]
    BY Here DEF AddTotal, BeforeLoop, Locals, LocalOf, Recording
<1> DEFINE total == (totals[f] + 1) % Word
<1>a. total \in Nat /\ RescaleAt \in Nat /\ totals[f] + 1 \in Nat
    <2>1. totals[f] + 1 \in Nat
        BY <1>0
    <2> QED
        BY <2>1, Counters, DenseAssumption
<1>b. \/ GoesTo(t, "rescale", job[t]) /\ total >= RescaleAt
      \/ GoesTo(t, "idle", NoJob) /\ total < RescaleAt
    BY Zenon, <1>0, RecordMoves
<1>c. /\ total >= RescaleAt => Others(t, f, Rescaling \cup {"total"}) = {}
      /\ ~(total >= RescaleAt) => Others(t, f, Rescaling) = {} /\ f \notin raced
    <2>1. \/ /\ total >= RescaleAt
             /\ raced' = IF Others(t, f, Rescaling \cup {"total"}) = {}
                           THEN raced \ {f} ELSE raced \cup {f}
          \/ /\ total < RescaleAt
             /\ raced' = IF Others(t, f, Rescaling) = {} THEN raced ELSE raced \cup {f}
        BY <1>0 DEF AddTotal
    <2> HIDE DEF total
    <2>2. total >= RescaleAt => ~(total < RescaleAt)
        BY <1>a
    <2>3. f \notin raced'
        OBVIOUS
    <2> QED
        BY <2>1, <2>2, <2>3
<1> HIDE DEF total
<1>1. CASE total >= RescaleAt
    <2>1. GoesTo(t, "rescale", job[t])
        BY <1>1, <1>a, <1>b
    <2>2. OnlyMoves(t) /\ pc'[t] = "rescale" /\ job'[t] = job[t]
        BY <2>1, Moved
    <2>3. Others(t, f, Writing) = {}
        <3>1. Writing = Rescaling \cup {"total"}
            BY DEF Writing
        <3> QED
            BY <1>1, <1>c, <3>1
    <2>4. Others(t, f, Writing)' = {}
        BY <2>2, <2>3 DEF Others, OnlyMoves
    <2>5. Same(job[t].sum, SumUpTo(matrix[f])[job[t].col])'
        <3>1. SumUpTo(matrix[f])[0] = 0
            BY <1>0, Counted, Sums
        <3> QED
            BY <1>0, <2>2, <3>1 DEF Same
    <2>6. ASSUME NEW u \in Threads, job'[u].from = f, pc'[u] \in Rescaling
          PROVE  u = t
        BY <2>4, <2>6 DEF Others, Writing
    <2>7. job'[t].from = f /\ pc'[t] \in Rescaling
        BY <2>2 DEF Rescaling
    <2> QED
        BY <2>2, <2>4, <2>5, <2>6, <2>7 DEF RowFor
<1>2. CASE ~(total >= RescaleAt)
    <2>1. GoesTo(t, "idle", NoJob)
        BY <1>2, <1>b
    <2>2. OnlyMoves(t) /\ pc'[t] = "idle" /\ job'[t] = NoJob
        BY <2>1, Moved
    <2>3. Others(t, f, Rescaling) = {} /\ f \notin raced
        BY <1>2, <1>c
    <2>4. \A u \in Threads : job[u].from = f => pc[u] \notin Rescaling
        BY <1>0, <2>3 DEF Others, Rescaling
    <2>5. Same(totals[f] + Half(f), SumOf(matrix[f]))
        BY <2>3, <2>4 DEF RowFor
    <2>6. Half(f) = Half(f)' + 1 /\ Half(f)' \in Nat /\ Half(f) \in Nat
        <3>1. t \in Halves(f) /\ Halves(f)' = Halves(f) \ {t}
            BY <1>0, <2>2 DEF Halves, OnlyMoves
        <3>2. /\ IsFiniteSet(Halves(f) \ {t})
              /\ Cardinality(Halves(f) \ {t}) = Cardinality(Halves(f)) - 1
            BY <3>1, HalvesFinite, FS_RemoveElement
        <3>3. Half(f)' = Cardinality(Halves(f) \ {t}) /\ Half(f) = Cardinality(Halves(f))
            BY <3>1 DEF Half, Halves
        <3> QED
            BY <3>2, <3>3, FS_CardinalityType, HalvesFinite
    <2>7. Same(totals'[f] + Half(f)', SumOf(matrix[f]))
        <3> DEFINE k == totals[f] + 1  h == Half(f)'
        <3>1. k \in Nat /\ k % Word \in Nat /\ h \in Nat
            BY <1>a, <2>6, Counters
        <3>2. k + h = totals[f] + Half(f) /\ totals'[f] = k % Word
            BY <1>0, <1>a, <2>6 DEF total
        <3> HIDE DEF k, h
        <3>3. Same(k % Word, k)
            BY <3>1, SameWrapped
        <3>4. Same((k % Word) + h, k + h)
            BY <3>1, <3>3, SameShift
        <3>5. Same(totals'[f] + h, totals[f] + Half(f))
            BY <3>2, <3>4
        <3>6. Same(totals'[f] + h, SumOf(matrix[f]))
            BY <2>5, <3>5, SameTransitive
        <3> QED
            BY <3>6 DEF h
    <2>8. Same(totals[f] + Half(f), SumOf(matrix[f]))'
        BY <1>0, <2>2, <2>7 DEF Same
    <2>9. \A u \in Threads : job'[u].from = f => pc'[u] \notin Rescaling
        BY <2>2, <2>4 DEF OnlyMoves, Rescaling
    <2> QED
        BY <2>8, <2>9 DEF RowFor
<1> QED
    BY <1>1, <1>2

\* A rescaling halves what it finds and adds up what it leaves.
LEMMA RescaleLoadRow ==
    ASSUME DenseInv, Locals, NEW t \in Threads, RescaleLoad(t),
           NEW f \in Ids, f = job[t].from, RowFor(f)
    PROVE  RowFor(f)'
<1> DEFINE j == [job[t] EXCEPT !.old = matrix[job[t].from][job[t].col]]
<1>1. pc[t] = "rescale" /\ matrix' = matrix /\ job[t] \in Jobs
    BY Here DEF RescaleLoad
<1>2. OnlyMoves(t) /\ pc'[t] = "rescaleStore" /\ job'[t] = j
    <2>1. GoesTo(t, "rescaleStore", j)
        BY Zenon, RecordMoves
    <2> HIDE DEF j
    <2> QED
        BY Zenon, <2>1, Moved
<1>3. j.from = f /\ j.sum = job[t].sum /\ j.col = job[t].col
    BY <1>1 DEF Jobs
<1> HIDE DEF j
<1>4. Others(t, f, Writing) = {} /\ Same(job[t].sum, SumUpTo(matrix[f])[job[t].col])
    BY <1>1 DEF RowFor, Rescaling
<1>5. Others(t, f, Writing)' = {}
    BY Zenon, <1>2, <1>4 DEF Others, OnlyMoves
<1>6. Same(job[t].sum, SumUpTo(matrix[f])[job[t].col])'
    BY <1>1, <1>2, <1>3, <1>4 DEF Same, SumUpTo
<1>7. ASSUME NEW u \in Threads, job'[u].from = f, pc'[u] \in Rescaling
      PROVE  u = t
    BY <1>5, <1>7 DEF Others, Writing
<1>8. job'[t].from = f /\ pc'[t] \in Rescaling
    BY <1>2, <1>3 DEF Rescaling
<1> QED
    BY <1>5, <1>6, <1>7, <1>8 DEF RowFor

\* A halved counter joins the new sum, and what the loop has left behind adds up to it.
LEMMA RescaleStoreRow ==
    ASSUME DenseInv, Locals, NEW t \in Threads, RescaleStore(t),
           NEW f \in Ids, f = job[t].from, RowFor(f)
    PROVE  RowFor(f)'
<1> DEFINE c == job[t].col  half == job[t].old \div 2
           j == [job[t] EXCEPT !.sum = (@ + half) % Word, !.col = c + 1]
           place == IF job[t].col + 1 = MaxRoutes THEN "rescaleTotal" ELSE "rescale"
<1>1. /\ pc[t] = "rescaleStore" /\ matrix' = [matrix EXCEPT ![f][c] = half] /\ job[t] \in Jobs
      /\ matrix \in [Ids -> [Ids -> 0..(Word - 1)]] /\ matrix[f] \in [Ids -> Nat]
    BY Here, Counted DEF RescaleStore
<1>2. c \in Ids /\ half \in Nat /\ job[t].sum \in Nat /\ c \in 0..MaxRoutes /\ c + 1 \in 0..MaxRoutes
    <2>1. c \in 0..MaxRoutes /\ c < MaxRoutes /\ job[t].old \in 0..(Word - 1)
          /\ job[t].sum \in 0..(Word - 1)
        BY <1>1, Here DEF Jobs
    <2>2. half \in 0..(Word - 1)
        BY Zenon, <2>1, Counters
    <2> HIDE DEF c, half
    <2> QED
        BY <2>1, <2>2, Counters DEF Ids
<1>3. GoesTo(t, place, j)
    BY Zenon, RecordMoves
<1>4. j.from = f /\ j.col = c + 1 /\ j.sum = (job[t].sum + half) % Word /\ place \in Rescaling
    BY <1>1 DEF Jobs, Rescaling
<1> HIDE DEF j, place, half, c
<1>5. OnlyMoves(t) /\ pc'[t] = place /\ job'[t] = j
    BY <1>3, Moved
<1>6. Others(t, f, Writing) = {} /\ Same(job[t].sum, SumUpTo(matrix[f])[c])
    BY <1>1 DEF RowFor, Rescaling, c
<1>7. Others(t, f, Writing)' = {}
    BY <1>5, <1>6 DEF Others, OnlyMoves
<1>8. Same(j.sum, SumUpTo(matrix'[f])[c + 1])
    <2>1. matrix'[f] = [matrix[f] EXCEPT ![c] = half]
        BY <1>1, <1>2
    <2>2. SumUpTo([matrix[f] EXCEPT ![c] = half])[c] = SumUpTo(matrix[f])[c]
        <3>1. ~(c < c)
            BY <1>2 DEF Ids
        <3> QED
            BY <1>1, <1>2, <3>1, SumsChange
    <2>3. [matrix[f] EXCEPT ![c] = half] \in [Ids -> Nat] /\ [matrix[f] EXCEPT ![c] = half][c] = half
        BY <1>1, <1>2
    <2>4. SumUpTo(matrix'[f])[c + 1] = SumUpTo(matrix[f])[c] + half
        BY <1>2, <2>1, <2>2, <2>3, Sums
    <2> DEFINE found == SumUpTo(matrix[f])[c]
    <2>5. found \in Nat
        BY <1>2, Counted DEF c
    <2>6. Same(job[t].sum, found)
        BY <1>6
    <2> HIDE DEF found
    <2>7. Same(job[t].sum + half, found + half) /\ job[t].sum + half \in Nat
        BY <1>2, <2>5, <2>6, SameShift
    <2>8. Same(j.sum, job[t].sum + half)
        BY <1>4, <2>7, SameWrapped
    <2> QED
        BY <2>4, <2>7, <2>8, SameTransitive DEF found
<1>9. Same(job[t].sum, SumUpTo(matrix[f])[job[t].col])'
    BY <1>4, <1>5, <1>8 DEF Same, SumUpTo
<1>10. ASSUME NEW u \in Threads, job'[u].from = f, pc'[u] \in Rescaling
       PROVE  u = t
    BY <1>7, <1>10 DEF Others, Writing
<1>11. job'[t].from = f /\ pc'[t] \in Rescaling
    BY <1>4, <1>5
<1> QED
    BY <1>7, <1>9, <1>10, <1>11 DEF RowFor

\* A rescaling that ran alone leaves a total that is the sum.
LEMMA RescaleTotalRow ==
    ASSUME DenseInv, Locals, NEW t \in Threads, RescaleTotal(t),
           NEW f \in Ids, f = job[t].from, RowFor(f)
    PROVE  RowFor(f)'
<1>1. /\ pc[t] = "rescaleTotal" /\ matrix' = matrix /\ totals' = [totals EXCEPT ![f] = job[t].sum]
      /\ totals \in [Ids -> 0..(Word - 1)] /\ job[t].sum \in Nat /\ job[t].col = MaxRoutes
    BY Here, Counters DEF RescaleTotal, Jobs, Locals, LocalOf
<1>2. OnlyMoves(t) /\ pc'[t] = "idle" /\ job'[t] = NoJob
    <2>1. GoesTo(t, "idle", NoJob)
        BY Zenon, RecordMoves
    <2> QED
        BY Zenon, <2>1, Moved
<1>3. Others(t, f, Writing) = {} /\ Same(job[t].sum, SumOf(matrix[f]))
    BY <1>1 DEF RowFor, Rescaling, SumOf
<1>4. \A u \in Threads : job'[u].from = f => pc'[u] \notin Writing
    BY <1>2, <1>3 DEF Others, OnlyMoves, Writing, Rescaling
<1>5. Half(f)' = 0
    <2>1. Halves(f)' = {}
        BY <1>4 DEF Halves, Writing
    <2> QED
        BY <2>1, FS_EmptySet DEF Half, Halves
<1>6. totals'[f] + Half(f)' = job[t].sum
    BY <1>1, <1>5
<1>7. Same(totals[f] + Half(f), SumOf(matrix[f]))'
    BY <1>1, <1>3, <1>6 DEF Same, SumOf, SumUpTo
<1> QED
    BY <1>4, <1>7 DEF RowFor, Writing

\* A step writes a row only from the places counted by Writing and from cell.
Writes(t) ==
    AddCell(t) \/ AddTotal(t) \/ RescaleLoad(t) \/ RescaleStore(t) \/ RescaleTotal(t)

\* Any other step leaves the matrix and those who write it alone.
LEMMA Quiet ==
    ASSUME DenseInv, [Next]_vars, ~ \E t \in Threads : Writes(t)
    PROVE  /\ UNCHANGED <<matrix, totals, raced>>
           /\ \A u \in Threads : pc[u] \in Writing \/ pc'[u] \in Writing =>
                 pc'[u] = pc[u] /\ job'[u] = job[u]
<1> USE Typed DEF Writes, Writing, Rescaling, Reading, Finish, Goto
<1>1. ASSUME NEW t \in Threads, RecordStep(t)
      PROVE  /\ UNCHANGED <<matrix, totals, raced>>
             /\ \A u \in Threads : pc[u] \in Writing \/ pc'[u] \in Writing =>
                   pc'[u] = pc[u] /\ job'[u] = job[u]
    <2>1. Registering(t) \/ Ignore(t) \/ StoreConcrete(t) \/ MoveSession(t)
        BY <1>1 DEF RecordStep
    <2> QED
        BY <2>1 DEF Registering, Ignore, StoreConcrete, MoveSession, Registered, denseVars
<1>2. ASSUME NEW t \in Threads, PredictStep(t)
      PROVE  /\ UNCHANGED <<matrix, totals, raced>>
             /\ \A u \in Threads : pc[u] \in Writing \/ pc'[u] \in Writing =>
                   pc'[u] = pc[u] /\ job'[u] = job[u]
    BY <1>2 DEF PredictStep, LoadTotal, LoadCount, Scan, Rank, Name, ReturnPredictions
<1>3. ASSUME NEW t \in Threads, NEW s \in Sessions,
             BeginPredict(t, s) \/ \E p \in Patterns : BeginRecord(t, s, p)
      PROVE  /\ UNCHANGED <<matrix, totals, raced>>
             /\ \A u \in Threads : pc[u] \in Writing \/ pc'[u] \in Writing =>
                   pc'[u] = pc[u] /\ job'[u] = job[u]
    BY <1>3 DEF BeginPredict, BeginRecord
<1>4. CASE (\E s \in Sessions : ResetSession(s)) \/ UNCHANGED vars
    BY <1>4 DEF ResetSession, vars, denseVars
<1> HIDE DEF Writes, Writing, Rescaling, Reading, Finish, Goto
<1> QED
    BY <1>1, <1>2, <1>3, <1>4 DEF Next

\* Every row that no two writers have raced for adds up after every step.
LEMMA RowsStep ==
    ASSUME DenseInv, DenseInv', Locals, Rows, [Next]_vars
    PROVE  Rows'
<1> SUFFICES ASSUME NEW f \in Ids, f \notin raced' PROVE RowFor(f)'
    BY DEF Rows
<1>1. CASE ~ \E t \in Threads : Writes(t)
    BY <1>1, Quiet, RowKept DEF Rows
<1>2. ASSUME NEW t \in Threads, Writes(t)
      PROVE  RowFor(f)'
    <2>0. pc[t] \in {"cell"} \cup Writing /\ job[t].from \in Ids
        BY <1>2, Here DEF Writes, AddCell, AddTotal, RescaleLoad, RescaleStore, RescaleTotal,
                          Writing, Rescaling
    <2>1. CASE job[t].from = f
        <3>1. CASE AddTotal(t)
            BY <2>1, <3>1, AddTotalRow DEF Rows
        <3>2. CASE ~AddTotal(t)
            <4>1. f \notin raced
                BY <1>2, <3>2 DEF Writes, AddCell, RescaleLoad, RescaleStore, RescaleTotal, Touch
            <4>2. RowFor(f)
                BY <4>1 DEF Rows
            <4> QED
                BY <1>2, <2>1, <3>2, <4>2, AddCellRow, RescaleLoadRow, RescaleStoreRow,
                   RescaleTotalRow DEF Writes
        <3> QED
            BY <3>1, <3>2
    <2>2. CASE job[t].from # f
        <3>1. matrix'[f] = matrix[f] /\ totals'[f] = totals[f] /\ f \notin raced
            BY <1>2, <2>0, <2>2, Here
               DEF Writes, AddCell, AddTotal, RescaleLoad, RescaleStore, RescaleTotal, Touch
        <3>2. PICK place, j : GoesTo(t, place, j) /\ (j.from = job[t].from \/ place = "idle")
            <4>1. CASE AddCell(t)
                <5>1. GoesTo(t, "total", job[t])
                    BY Zenon, <4>1, RecordMoves
                <5> QED
                    BY <5>1
            <4>2. CASE AddTotal(t)
                BY Zenon, <4>2, RecordMoves
            <4>3. CASE RescaleLoad(t)
                <5> DEFINE k == [job[t] EXCEPT !.old = matrix[job[t].from][job[t].col]]
                <5>1. GoesTo(t, "rescaleStore", k) /\ k.from = job[t].from
                    BY Zenon, <4>3, RecordMoves, Here DEF Jobs
                <5> QED
                    BY <5>1
            <4>4. CASE RescaleStore(t)
                <5> DEFINE k == [job[t] EXCEPT !.sum = (@ + job[t].old \div 2) % Word,
                                               !.col = job[t].col + 1]
                           next == IF job[t].col + 1 = MaxRoutes THEN "rescaleTotal" ELSE "rescale"
                <5>1. GoesTo(t, next, k)
                    BY Zenon, <4>4, RecordMoves
                <5>2. k.from = job[t].from
                    BY Zenon, Here DEF Jobs
                <5> QED
                    BY Zenon, <5>1, <5>2
            <4>5. CASE RescaleTotal(t)
                BY Zenon, <4>5, RecordMoves
            <4> QED
                BY <1>2, <4>1, <4>2, <4>3, <4>4, <4>5 DEF Writes
        <3>3. OnlyMoves(t) /\ pc'[t] = place /\ job'[t] = j
            BY <3>2, Moved
        <3>4. \A u \in Threads :
                  (pc[u] \in Writing /\ job[u].from = f) \/ (pc'[u] \in Writing /\ job'[u].from = f)
                      => pc'[u] = pc[u] /\ job'[u] = job[u]
            BY <2>2, <3>2, <3>3 DEF OnlyMoves, Writing, Rescaling
        <3> QED
            BY <3>1, <3>4, RowKept DEF Rows
    <2> QED
        BY <2>1, <2>2
<1> QED
    BY <1>1, <1>2

\* What a scan that nobody has disturbed has read is what the row still holds.
ScanFor(t) ==
    LET f == job[t].from IN
    /\ job[t].sum = totals[f]
    /\ Same(totals[f], SumOf(matrix[f]))
    /\ pc[t] = "scan" =>
          /\ job[t].col <= job[t].limit
          /\ \A i \in Ids : job[t].row[i] = IF i < job[t].col THEN matrix[f][i] ELSE 0
          /\ \A i \in Ids : i >= job[t].limit => matrix[f][i] = 0

Scans == \A t \in Threads \ disturbed : pc[t] \in {"loadCount", "scan"} => ScanFor(t)

\* A scan keeps its word while its row is left alone, and as it goes on itself.
LEMMA ScanKept ==
    ASSUME NEW t \in Threads, ScanFor(t), pc'[t] = pc[t], job'[t] = job[t],
           matrix'[job[t].from] = matrix[job[t].from], totals'[job[t].from] = totals[job[t].from]
    PROVE  ScanFor(t)'
BY DEF ScanFor, Same, SumOf, SumUpTo

\* What makes a scan under way a true one after the step, too.
LEMMA ScanHolds ==
    ASSUME NEW t \in Threads, NEW f, NEW j, job'[t] = j, j.from = f,
           UNCHANGED <<matrix, totals>>, j.sum = totals[f], Same(totals[f], SumOf(matrix[f])),
           j.col <= j.limit,
           \A i \in Ids : j.row[i] = IF i < j.col THEN matrix[f][i] ELSE 0,
           \A i \in Ids : i >= j.limit => matrix[f][i] = 0
    PROVE  ScanFor(t)'
BY DEF ScanFor, Same, SumOf, SumUpTo

\* Before it reads the total nobody may be half way through a record or a rescaling.
LEMMA LoadTotalScans ==
    ASSUME DenseInv, Locals, Rows, NEW t \in Threads, LoadTotal(t), t \notin disturbed',
           pc'[t] \in {"loadCount", "scan"}
    PROVE  ScanFor(t)'
<1> DEFINE f == job[t].from  j == [job[t] EXCEPT !.sum = totals[f]]
<1>1. /\ f \in Ids /\ matrix' = matrix /\ totals' = totals /\ job[t] \in Jobs
      /\ disturbed' = IF Settled(f) THEN disturbed \ {t} ELSE disturbed \cup {t}
    BY Here DEF LoadTotal, Reading
<1>2. Settled(f)
    BY <1>1
<1>3. GoesTo(t, "loadCount", j)
    <2>1. CASE totals[f] # 0
        BY Zenon, <2>1, PredictMoves
    <2>2. CASE totals[f] = 0
        <3>1. GoesTo(t, "idle", NoJob)
            BY Zenon, <2>2, PredictMoves
        <3> QED
            BY <3>1, Moved
    <2> QED
        BY <2>1, <2>2
<1>4. j.from = f /\ j.sum = totals[f]
    BY <1>1 DEF Jobs
<1> HIDE DEF j, f
<1>5. pc'[t] = "loadCount" /\ job'[t] = j
    BY <1>3, Moved
<1>6. Same(totals[f] + Half(f), SumOf(matrix[f])) /\ Halves(f) = {}
    <2>1. f \notin raced /\ \A u \in Threads : job[u].from = f => pc[u] \notin Writing
        BY <1>2 DEF Settled, Writing
    <2> QED
        BY <1>1, <2>1 DEF Rows, RowFor, Halves, Writing
<1>7. Half(f) = 0 /\ totals[f] \in Nat
    BY <1>1, <1>6, HalvesFinite, FS_EmptySet, Counted
<1>8. Same(totals[f], SumOf(matrix[f]))
    BY <1>6, <1>7
<1>9. Same(totals'[f], SumOf(matrix'[f]))
    BY <1>1, <1>8 DEF Same, SumOf, SumUpTo
<1> QED
    BY <1>1, <1>4, <1>5, <1>9 DEF ScanFor, Same, SumOf, SumUpTo

\* No counter is in use beyond the number of registered routes.
LEMMA LoadCountScans ==
    ASSUME DenseInv, Locals, Used, NEW t \in Threads, LoadCount(t), ScanFor(t)
    PROVE  ScanFor(t)'
<1> DEFINE f == job[t].from  limit == IF count > MaxRoutes THEN MaxRoutes ELSE count
           j == [job[t] EXCEPT !.limit = limit]
<1>1. /\ f \in Ids /\ pc[t] = "loadCount" /\ matrix' = matrix /\ totals' = totals /\ job[t] \in Jobs
      /\ count \in Nat
    BY Here, RegistryAssumption DEF LoadCount, Reading, DenseInv, IInv, RegistryTypeOK
<1>2. GoesTo(t, "scan", j)
    BY Zenon, PredictMoves
<1>3. j.from = f /\ j.sum = job[t].sum /\ j.row = ZeroRow /\ j.col = 0 /\ j.limit = limit
    BY <1>1, Here DEF Jobs, BeforeLoop, Locals, LocalOf
<1>4. ASSUME NEW i \in Ids, i >= limit
      PROVE  matrix[f][i] = 0
    <2>1. i \in Nat /\ i < MaxRoutes
        BY Counters DEF Ids
    <2>2. i >= count
        BY <1>1, <1>4, <2>1, Counters
    <2>3. ~Named(i)
        BY <1>1, <2>1, <2>2, NoneElse DEF Named, DenseInv, IInv, IdsAgree
    <2>4. ~(matrix[f][i] > 0)
        BY <1>1, <2>3 DEF Used
    <2>5. matrix[f][i] \in Nat
        BY <1>1, Counted
    <2> QED
        BY <2>4, <2>5
<1>5. limit >= 0
    BY <1>1, Counters
<1> HIDE DEF j, f, limit
<1>6. pc'[t] = "scan" /\ job'[t] = j
    BY <1>2, Moved
<1>7. job[t].sum = totals[f] /\ Same(totals[f], SumOf(matrix[f]))
    BY DEF ScanFor, f
<1>8. \A i \in Ids : j.row[i] = IF i < j.col THEN matrix[f][i] ELSE 0
    <2>1. \A i \in Ids : i \in Nat /\ ~(i < 0) /\ ZeroRow[i] = 0
        BY Counters DEF Ids, ZeroRow
    <2> QED
        BY <1>3, <2>1
<1> QED
    BY <1>1, <1>3, <1>4, <1>5, <1>6, <1>7, <1>8, ScanHolds

\* One more counter is read.
LEMMA ScanScans ==
    ASSUME DenseInv, Locals, NEW t \in Threads, Scan(t), ScanFor(t)
    PROVE  ScanFor(t)'
<1> DEFINE f == job[t].from  c == job[t].col
           j == [job[t] EXCEPT !.row[c] = matrix[f][c], !.col = c + 1]
<1>1. /\ f \in Ids /\ pc[t] = "scan" /\ matrix' = matrix /\ totals' = totals /\ job[t] \in Jobs
      /\ c < job[t].limit /\ c \in Nat /\ job[t].limit \in Nat
    BY Here, Counters DEF Scan, Reading, Jobs
<1>2. GoesTo(t, "scan", j)
    BY Zenon, PredictMoves
<1>3. /\ j.from = f /\ j.sum = job[t].sum /\ j.col = c + 1 /\ j.limit = job[t].limit
      /\ j.row = [job[t].row EXCEPT ![c] = matrix[f][c]]
    BY <1>1 DEF Jobs
<1>4. job[t].row \in [Ids -> 0..(Word - 1)]
    BY <1>1 DEF Jobs
<1> HIDE DEF j, f, c
<1>5. pc'[t] = "scan" /\ job'[t] = j
    BY <1>2, Moved
<1>6. /\ job[t].sum = totals[f] /\ Same(totals[f], SumOf(matrix[f]))
      /\ \A i \in Ids : job[t].row[i] = IF i < c THEN matrix[f][i] ELSE 0
      /\ \A i \in Ids : i >= job[t].limit => matrix[f][i] = 0
    BY <1>1 DEF ScanFor, f, c
<1>7. \A i \in Ids : j.row[i] = IF i < j.col THEN matrix[f][i] ELSE 0
    <2> TAKE i \in Ids
    <2>1. i \in Nat
        BY Counters DEF Ids
    <2>2. CASE i = c
        BY <1>1, <1>3, <1>4, <2>1, <2>2
    <2>3. CASE i # c
        BY <1>1, <1>3, <1>4, <1>6, <2>1, <2>3
    <2> QED
        BY <2>2, <2>3
<1>8. j.col <= j.limit
    BY <1>1, <1>3
<1>9. /\ j.sum = totals[f] /\ j.from = f /\ job'[t] = j /\ UNCHANGED <<matrix, totals>>
      /\ Same(totals[f], SumOf(matrix[f]))
      /\ \A i \in Ids : i >= j.limit => matrix[f][i] = 0
    BY <1>1, <1>3, <1>5, <1>6
<1> QED
    BY <1>7, <1>8, <1>9, ScanHolds

\* What another goroutine writes to the row is seen by the history variable.
LEMMA OthersScans ==
    ASSUME DenseInv, [Next]_vars, NEW t \in Threads, t \notin disturbed',
           pc'[t] \in {"loadCount", "scan"}, pc'[t] = pc[t], job'[t] = job[t],
           t \in disturbed \/ ScanFor(t)
    PROVE  ScanFor(t)'
<1> DEFINE f == job[t].from
<1>0. f \in Ids /\ pc[t] \in Reading
    BY Here DEF Reading
<1>1. CASE UNCHANGED <<matrix, totals, disturbed>>
    BY <1>1, ScanKept
<1>2. ASSUME NEW u \in Threads, AddCell(u) \/ AddTotal(u) \/ RescaleStore(u) \/ RescaleTotal(u)
      PROVE  ScanFor(t)'
    <2>0. u # t /\ job[u].from \in Ids
        BY <1>0, <1>2, Here DEF AddCell, AddTotal, RescaleStore, RescaleTotal, Reading, Rescaling
    <2>1. disturbed' = disturbed \cup Others(u, job[u].from, Reading)
        BY <1>2 DEF AddCell, AddTotal, RescaleStore, RescaleTotal, Touch
    <2>2. job[u].from # f
        BY <1>0, <2>0, <2>1 DEF Others
    <2>3. matrix'[f] = matrix[f] /\ totals'[f] = totals[f]
        BY <1>0, <1>2, <2>0, <2>2, Here DEF AddCell, AddTotal, RescaleStore, RescaleTotal
    <2> QED
        BY <2>1, <2>3, ScanKept
<1>3. ASSUME NEW u \in Threads, LoadTotal(u)
      PROVE  ScanFor(t)'
    <2>1. pc[u] = "loadTotal" /\ UNCHANGED <<matrix, totals>>
        BY <1>3 DEF LoadTotal
    <2>2. u # t
        <3>1. pc[t] # "loadTotal"
            OBVIOUS
        <3> QED
            BY <2>1, <3>1
    <2>3. t \notin disturbed
        BY <1>3, <2>2 DEF LoadTotal
    <2> QED
        BY <2>1, <2>3, ScanKept
<1>4. ASSUME NEW u \in Threads,
             RecordStep(u), ~AddCell(u), ~AddTotal(u), ~RescaleStore(u), ~RescaleTotal(u)
      PROVE  UNCHANGED <<matrix, totals, disturbed>>
    BY <1>4 DEF RecordStep, Registering, Ignore, StoreConcrete, MoveSession, RescaleLoad, denseVars
<1>5. ASSUME NEW u \in Threads, PredictStep(u), ~LoadTotal(u)
      PROVE  UNCHANGED <<matrix, totals, disturbed>>
    BY <1>5 DEF PredictStep, LoadCount, Scan, Rank, Name, ReturnPredictions
<1> QED
    BY <1>1, <1>2, <1>3, <1>4, <1>5
       DEF Next, BeginPredict, BeginRecord, ResetSession, vars, denseVars

\* Every step keeps what undisturbed scans have read.
LEMMA ScansStep ==
    ASSUME DenseInv, DenseInv', Locals, Used, Rows, Scans, [Next]_vars
    PROVE  Scans'
<1> SUFFICES ASSUME NEW t \in Threads, t \notin disturbed', pc'[t] \in {"loadCount", "scan"}
             PROVE  ScanFor(t)'
    BY DEF Scans
<1>1. CASE LoadTotal(t)
    BY <1>1, LoadTotalScans
<1>2. CASE LoadCount(t)
    BY <1>2, LoadCountScans DEF LoadCount, Scans
<1>3. CASE Scan(t)
    BY <1>3, ScanScans DEF Scan, Scans
<1>4. CASE ~(LoadTotal(t) \/ LoadCount(t) \/ Scan(t))
    <2>1. pc'[t] = pc[t] /\ job'[t] = job[t]
        <3>1. ASSUME NEW u \in Threads, RecordStep(u)
              PROVE  pc'[t] = pc[t] /\ job'[t] = job[t]
            BY <3>1, Typed DEF RecordStep, Registering, Ignore, StoreConcrete, MoveSession, AddCell,
               AddTotal, RescaleLoad, RescaleStore, RescaleTotal, Finish, Goto, denseVars
        <3>2. ASSUME NEW u \in Threads, PredictStep(u)
              PROVE  pc'[t] = pc[t] /\ job'[t] = job[t]
            BY <1>4, <3>2, Typed DEF PredictStep, LoadTotal, LoadCount, Scan, Rank, Name,
               ReturnPredictions, Finish, Goto
        <3>3. ASSUME NEW u \in Threads, NEW s \in Sessions,
                     BeginPredict(u, s) \/ \E p \in Patterns : BeginRecord(u, s, p)
              PROVE  pc'[t] = pc[t] /\ job'[t] = job[t]
            BY <3>3, Typed DEF BeginPredict, BeginRecord, Goto
        <3> QED
            BY <3>1, <3>2, <3>3 DEF Next, ResetSession, vars, denseVars
    <2> QED
        BY <2>1, OthersScans DEF Scans
<1> QED
    BY <1>1, <1>2, <1>3, <1>4

\* Records whose transition, and records whose total, is still to be counted.
Counting == {"registering", "session", "cell"}
Many(places) == Cardinality({t \in Threads : pc[t] \in places})

\* n counts the transitions ever counted: no counter is more, a rescaling leaves half
\* of them at most, and each took a call of Record.
BoundedBy(n) ==
    /\ \A f, g \in Ids : matrix[f][g] <= n[f][g]
    /\ \A t \in Threads :
          /\ pc[t] = "rescaleStore" => job[t].old <= n[job[t].from][job[t].col]
          /\ pc[t] \in Rescaling => 2 * job[t].sum <= SumUpTo(n[job[t].from])[job[t].col]
    /\ \A f \in Ids :
          /\ SumOf(n[f]) + Many(Counting) <= calls.record
          /\ 2 * totals[f] + 2 * Many(Recording) <= SumOf(n[f]) + 2 * calls.record
    /\ Many(Recording) <= calls.record

Bounded == \E n \in [Ids -> [Ids -> Nat]] : BoundedBy(n)

\* The variables of a rescaling's loop.
LEMMA LoopVars ==
    ASSUME DenseInv, NEW t \in Threads, pc[t] \in Rescaling
    PROVE  /\ job[t].from \in Ids /\ job[t].col \in 0..MaxRoutes
           /\ job[t].sum \in Nat /\ job[t].old \in Nat
           /\ pc[t] \in {"rescale", "rescaleStore"} => job[t].col \in Ids
<1>1. job[t].from \in Ids /\ job[t] \in Jobs
    BY Here
<1>2. job[t].col \in 0..MaxRoutes /\ job[t].sum \in Nat /\ job[t].old \in Nat
    BY <1>1, Counters DEF Jobs
<1>3. pc[t] \in {"rescale", "rescaleStore"} => job[t].col < MaxRoutes
    BY Here
<1> QED
    BY <1>1, <1>2, <1>3, Counters DEF Ids

\* Wrapping never adds.
LEMMA Wraps == \A a \in Nat : a % Word <= a /\ a % Word \in Nat
<1> TAKE a \in Nat
<1>1. PICK q \in Nat : a = q * Word + (a % Word)
    BY Rest
<1>2. a % Word \in Nat /\ Word \in Nat
    BY Rest, Counters
<1>3. q * Word >= 0 /\ q * Word \in Int
    BY <1>2
<1> QED
    BY <1>1, <1>2, <1>3

\* A step takes its goroutine out of a set of places or into it.
LEMMA ManyMoves ==
    ASSUME DenseInv, Locals, NEW t \in Threads, NEW place, pc' = [pc EXCEPT ![t] = place],
           NEW places, "idle" \notin places
    PROVE  /\ Many(places) \in Nat
           /\ Many(places)' = Many(places) - (IF pc[t] \in places THEN 1 ELSE 0)
                                           + (IF place \in places THEN 1 ELSE 0)
<1> DEFINE S == {u \in Threads : pc[u] \in places}
<1>1. IsFiniteSet(S) /\ Many(places) = Cardinality(S) /\ Cardinality(S) \in Nat
    <2>1. S \subseteq {u \in Threads : pc[u] # "idle"}
        OBVIOUS
    <2>2. IsFiniteSet(S)
        BY <2>1, FS_Subset DEF Locals
    <2> QED
        BY <2>2, FS_CardinalityType DEF Many
<1>2. Many(places)' = Cardinality(S')
    BY DEF Many
<1>3. t \in S <=> pc[t] \in places
    OBVIOUS
<1>4. S' = IF place \in places THEN S \cup {t} ELSE S \ {t}
    BY Typed
<1> HIDE DEF S
<1>5. CASE place \in places
    <2>1. Cardinality(S \cup {t}) = IF t \in S THEN Cardinality(S) ELSE Cardinality(S) + 1
        BY <1>1, FS_AddElement
    <2> QED
        BY <1>1, <1>2, <1>3, <1>4, <1>5, <2>1
<1>6. CASE place \notin places
    <2>1. Cardinality(S \ {t}) = IF t \in S THEN Cardinality(S) - 1 ELSE Cardinality(S)
        BY <1>1, FS_RemoveElement
    <2> QED
        BY <1>1, <1>2, <1>3, <1>4, <1>6, <2>1
<1> QED
    BY <1>5, <1>6

\* The two counts of records under way after a step.
LEMMA CountsMove ==
    ASSUME DenseInv, Locals, NEW t \in Threads, NEW place, pc' = [pc EXCEPT ![t] = place]
    PROVE  /\ Many(Counting)' = Many(Counting) - (IF pc[t] \in Counting THEN 1 ELSE 0)
                                                + (IF place \in Counting THEN 1 ELSE 0)
           /\ Many(Recording)' = Many(Recording) - (IF pc[t] \in Recording THEN 1 ELSE 0)
                                                  + (IF place \in Recording THEN 1 ELSE 0)
<1>1. ASSUME NEW places, "idle" \notin places
      PROVE  Many(places)' = Many(places) - (IF pc[t] \in places THEN 1 ELSE 0)
                                           + (IF place \in places THEN 1 ELSE 0)
    BY <1>1, ManyMoves
<1>2. "idle" \notin {"registering", "session", "cell"}
      /\ "idle" \notin {"registering", "session", "cell", "total"}
    OBVIOUS
<1> QED
    BY <1>1, <1>2, Zenon DEF Counting, Recording

\* They are numbers, before a step and after it.
LEMMA ManyCounted ==
    ASSUME DenseInv, Locals
    PROVE  Many(Counting) \in Nat /\ Many(Recording) \in Nat /\ calls.record \in Nat
<1>1. ASSUME NEW places, "idle" \notin places
      PROVE  Many(places) \in Nat
    <2>1. {u \in Threads : pc[u] \in places} \subseteq {u \in Threads : pc[u] # "idle"}
        BY <1>1
    <2>2. IsFiniteSet({u \in Threads : pc[u] \in places})
        BY <2>1, FS_Subset DEF Locals
    <2> QED
        BY <2>2, FS_CardinalityType DEF Many
<1> QED
    <2>1. calls.record \in Nat
        <3>1. calls.record \in 0..MaxRecords
            BY DEF DenseInv, DenseTypeOK
        <3> QED
            BY <3>1, DenseAssumption
    <2>2. Many(Counting) \in Nat /\ Many(Recording) \in Nat
        BY <1>1 DEF Counting, Recording
    <2> QED
        BY <2>1, <2>2

LEMMA ManyCountedNext ==
    ASSUME Locals'
    PROVE  Many(Counting)' \in Nat /\ Many(Recording)' \in Nat
<1>1. ASSUME NEW places, "idle" \notin places
      PROVE  Many(places)' \in Nat
    <2>1. {u \in Threads : pc'[u] \in places} \subseteq {u \in Threads : pc'[u] # "idle"}
        BY <1>1
    <2>2. IsFiniteSet({u \in Threads : pc'[u] \in places})
        BY <2>1, FS_Subset DEF Locals
    <2> QED
        BY <2>2, FS_CardinalityType DEF Many
<1> QED
    BY <1>1 DEF Counting, Recording

\* What a history counts, summed up.
LEMMA Counts ==
    ASSUME NEW n \in [Ids -> [Ids -> Nat]], NEW f \in Ids
    PROVE  /\ n[f] \in [Ids -> Nat] /\ SumOf(n[f]) \in Nat
           /\ \A k \in 0..MaxRoutes : SumUpTo(n[f])[k] \in Nat
BY Sums, Counters DEF SumOf

\* Steps that leave the counters alone and take nobody into Record.
LEMMA BoundedKept ==
    ASSUME DenseInv, DenseInv', Locals, Locals', NEW n \in [Ids -> [Ids -> Nat]], BoundedBy(n),
           UNCHANGED <<matrix, totals>>, calls'.record = calls.record,
           Many(Counting)' <= Many(Counting), Many(Recording)' <= Many(Recording),
           \A u \in Threads : pc'[u] \in Rescaling => pc'[u] = pc[u] /\ job'[u] = job[u]
    PROVE  BoundedBy(n)'
<1>1. \A f, g \in Ids : matrix'[f][g] <= n[f][g]
    BY DEF BoundedBy
<1>2. ASSUME NEW u \in Threads, pc'[u] \in Rescaling
      PROVE  /\ pc'[u] = "rescaleStore" => job'[u].old <= n[job'[u].from][job'[u].col]
             /\ 2 * job'[u].sum <= SumUpTo(n[job'[u].from])[job'[u].col]
    BY <1>2 DEF BoundedBy
<1>3. ASSUME NEW f \in Ids
      PROVE  /\ SumOf(n[f]) + Many(Counting)' <= calls'.record
             /\ 2 * totals'[f] + 2 * Many(Recording)' <= SumOf(n[f]) + 2 * calls'.record
    <2>1. /\ SumOf(n[f]) \in Nat /\ Many(Counting) \in Nat /\ Many(Recording) \in Nat
          /\ calls.record \in Nat /\ totals[f] \in Nat /\ totals'[f] = totals[f]
        BY Counts, ManyCounted, Counted
    <2>2. Many(Counting)' \in Nat /\ Many(Recording)' \in Nat
        BY ManyCountedNext
    <2>3. /\ SumOf(n[f]) + Many(Counting) <= calls.record
          /\ 2 * totals[f] + 2 * Many(Recording) <= SumOf(n[f]) + 2 * calls.record
        BY DEF BoundedBy
    <2> QED
        BY <2>1, <2>2, <2>3
<1>4. Many(Recording)' <= calls'.record
    BY ManyCounted, ManyCountedNext DEF BoundedBy
<1> QED
    BY <1>1, <1>2, <1>3, <1>4 DEF BoundedBy, Rescaling, SumOf, SumUpTo

\* Half a counter, or a transition less, is no more than was counted.
LEMMA AddCellBounded ==
    ASSUME DenseInv, DenseInv', Locals, NEW n \in [Ids -> [Ids -> Nat]], BoundedBy(n),
           NEW t \in Threads, AddCell(t),
           NEW f \in Ids, f = job[t].from, NEW g \in Ids, g = answer[t]
    PROVE  Bounded'
<1> DEFINE c == matrix[f][g]
           row == [n[f] EXCEPT ![g] = n[f][g] + 1]
           m == [n EXCEPT ![f] = row]
<1>0. /\ f = job[t].from /\ g = answer[t] /\ c \in Nat /\ n[f] \in [Ids -> Nat]
      /\ matrix \in [Ids -> [Ids -> 0..(Word - 1)]] /\ pc[t] = "cell" /\ (c + 1) % Word <= c + 1
      /\ matrix' = [matrix EXCEPT ![f][g] = (c + 1) % Word] /\ UNCHANGED <<totals, calls>>
    <2>1. c \in Nat
        BY Counted
    <2>2. (c + 1) % Word <= c + 1
        BY <2>1, Wraps
    <2> QED
        BY <2>1, <2>2, Here DEF AddCell
<1> HIDE DEF c
<1>1. row \in [Ids -> Nat] /\ m \in [Ids -> [Ids -> Nat]]
    BY <1>0
<1>2. m[f] = row /\ \A h \in Ids \ {f} : m[h] = n[h]
    BY <1>0
<1>3. row[g] = n[f][g] + 1 /\ \A i \in Ids \ {g} : row[i] = n[f][i]
    BY <1>0
<1>4. SumOf(row) = SumOf(n[f]) + 1
    <2>1. SumOf(row) = SumOf(n[f]) - n[f][g] + (n[f][g] + 1)
        <3>1. n[f][g] + 1 \in Nat
            BY <1>0
        <3> QED
            BY <1>0, <3>1, SumChanges
    <2>2. n[f][g] \in Nat /\ SumOf(n[f]) \in Nat
        BY <1>0, Counts
    <2> HIDE DEF row
    <2> QED
        BY <2>1, <2>2
<1>5. \A k \in 0..MaxRoutes : SumUpTo(n[f])[k] <= SumUpTo(row)[k]
    <2> TAKE k \in 0..MaxRoutes
    <2>1. \A i \in Ids : n[f][i] <= row[i]
        BY <1>0, <1>3
    <2> HIDE DEF row
    <2> QED
        BY <1>0, <1>1, <2>1, SumsGrow
<1> HIDE DEF row, m
<1>6. OnlyMoves(t) /\ pc'[t] = "total" /\ job'[t] = job[t] /\ pc' = [pc EXCEPT ![t] = "total"]
    <2>1. GoesTo(t, "total", job[t])
        BY Zenon, RecordMoves
    <2>2. OnlyMoves(t) /\ pc'[t] = "total" /\ job'[t] = job[t]
        BY <2>1, Moved
    <2> QED
        BY <2>1, <2>2 DEF GoesTo
<1>7. Many(Counting)' = Many(Counting) - 1 /\ Many(Recording)' = Many(Recording)
    <2>1. /\ Many(Counting)' = Many(Counting) - 1 + 0
          /\ Many(Recording)' = Many(Recording) - 1 + 1
        BY <1>0, <1>6, CountsMove DEF Counting, Recording
    <2> QED
        BY <2>1, ManyCounted
<1>8. ASSUME NEW h \in Ids, NEW i \in Ids
      PROVE  matrix'[h][i] <= m[h][i]
    <2>1. matrix[h][i] <= n[h][i] /\ matrix[h][i] \in Nat /\ n[h][i] \in Nat
        BY Counted DEF BoundedBy
    <2>2. CASE h = f /\ i = g
        <3>1. matrix'[h][i] = (c + 1) % Word
            BY <1>0, <2>2
        <3>2. m[h][i] = n[h][i] + 1 /\ c = matrix[h][i]
            BY <1>2, <1>3, <2>2 DEF c
        <3>3. (c + 1) % Word \in Nat
            BY <1>0, Wraps
        <3> QED
            BY <1>0, <2>1, <3>1, <3>2, <3>3
    <2>3. CASE ~(h = f /\ i = g)
        <3>1. matrix'[h][i] = matrix[h][i] /\ m[h][i] = n[h][i]
            BY <1>0, <1>2, <1>3, <2>3
        <3> QED
            BY <2>1, <3>1
    <2> QED
        BY <2>2, <2>3
<1>9. ASSUME NEW u \in Threads, pc'[u] \in Rescaling
      PROVE  /\ pc'[u] = "rescaleStore" => job'[u].old <= m[job'[u].from][job'[u].col]
             /\ 2 * job'[u].sum <= SumUpTo(m[job'[u].from])[job'[u].col]
    <2>1. pc[u] = pc'[u] /\ job'[u] = job[u]
        BY <1>6, <1>9 DEF OnlyMoves, Rescaling
    <2> DEFINE h == job[u].from  k == job[u].col
    <2>2. h \in Ids /\ k \in 0..MaxRoutes /\ job[u].sum \in Nat /\ job[u].old \in Nat
          /\ (pc[u] = "rescaleStore" => k \in Ids)
        BY <1>9, <2>1, LoopVars
    <2>3. 2 * job[u].sum <= SumUpTo(n[h])[k] /\ (pc[u] = "rescaleStore" => job[u].old <= n[h][k])
        BY <1>9, <2>1 DEF BoundedBy
    <2> HIDE DEF h, k
    <2>4. SumUpTo(n[h])[k] \in Nat /\ SumUpTo(m[h])[k] \in Nat
        BY <1>1, <2>2, Counts
    <2>a. SumUpTo(n[h])[k] <= SumUpTo(m[h])[k]
        <3>1. CASE h = f
            BY <1>2, <1>5, <2>2, <3>1
        <3>2. CASE h # f
            BY <1>2, <2>2, <2>4, <3>2
        <3> QED
            BY <3>1, <3>2
    <2>5. k \in Ids => n[h][k] <= m[h][k] /\ n[h][k] \in Nat /\ m[h][k] \in Nat
        BY <1>1, <1>2, <1>3, <2>2
    <2>6. 2 * job[u].sum <= SumUpTo(m[h])[k]
        BY <2>2, <2>3, <2>4, <2>a
    <2>7. pc[u] = "rescaleStore" => job[u].old <= m[h][k]
        BY <2>2, <2>3, <2>5
    <2> QED
        BY <2>1, <2>6, <2>7 DEF h, k
<1>10. ASSUME NEW h \in Ids
       PROVE  /\ SumOf(m[h]) + Many(Counting)' <= calls'.record
              /\ 2 * totals'[h] + 2 * Many(Recording)' <= SumOf(m[h]) + 2 * calls'.record
    <2>1. /\ SumOf(n[h]) \in Nat /\ Many(Counting) \in Nat /\ Many(Recording) \in Nat
          /\ calls.record \in Nat /\ totals[h] \in Nat
        BY Counts, ManyCounted, Counted
    <2>2. /\ SumOf(n[h]) + Many(Counting) <= calls.record
          /\ 2 * totals[h] + 2 * Many(Recording) <= SumOf(n[h]) + 2 * calls.record
        BY DEF BoundedBy
    <2>3. SumOf(m[h]) = SumOf(n[h]) \/ SumOf(m[h]) = SumOf(n[h]) + 1
        BY <1>2, <1>4
    <2> QED
        BY <1>0, <1>7, <2>1, <2>2, <2>3
<1>11. Many(Recording)' <= calls'.record
    BY <1>0, <1>7 DEF BoundedBy
<1>12. BoundedBy(m)'
    BY <1>8, <1>9, <1>10, <1>11 DEF BoundedBy, Rescaling, SumOf, SumUpTo
<1> QED
    BY <1>1, <1>12 DEF Bounded

\* A total is one more, and one record less is still to be counted in it.
LEMMA AddTotalBounded ==
    ASSUME DenseInv, DenseInv', Locals, NEW n \in [Ids -> [Ids -> Nat]], BoundedBy(n),
           NEW t \in Threads, AddTotal(t), NEW f \in Ids, f = job[t].from
    PROVE  BoundedBy(n)'
<1>0. /\ pc[t] = "total" /\ job[t].col = 0 /\ job[t].sum = 0
      /\ totals' = [totals EXCEPT ![f] = (totals[f] + 1) % Word] /\ totals[f] \in Nat
      /\ (totals[f] + 1) % Word <= totals[f] + 1 /\ (totals[f] + 1) % Word \in Nat
      /\ totals \in [Ids -> 0..(Word - 1)] /\ UNCHANGED <<matrix, calls>>
    <2>1. totals[f] \in Nat /\ totals[f] + 1 \in Nat
        BY Counted
    <2>2. (totals[f] + 1) % Word <= totals[f] + 1 /\ (totals[f] + 1) % Word \in Nat
        BY Zenon, <2>1, Wraps
    <2> QED
        BY <2>1, <2>2, Here DEF AddTotal, BeforeLoop, Locals, LocalOf, Recording
<1>1. PICK place \in {"rescale", "idle"} :
         /\ OnlyMoves(t) /\ pc'[t] = place /\ pc' = [pc EXCEPT ![t] = place]
         /\ place = "rescale" => job'[t] = job[t]
    <2>1. CASE GoesTo(t, "rescale", job[t])
        <3>1. OnlyMoves(t) /\ pc'[t] = "rescale" /\ job'[t] = job[t]
            BY <2>1, Moved
        <3>2. pc' = [pc EXCEPT ![t] = "rescale"]
            BY <2>1 DEF GoesTo
        <3> QED
            BY <3>1, <3>2
    <2>2. CASE GoesTo(t, "idle", NoJob)
        BY <2>2, Moved DEF GoesTo
    <2> QED
        BY Zenon, <2>1, <2>2, RecordMoves
<1>2. Many(Counting)' = Many(Counting) /\ Many(Recording)' = Many(Recording) - 1
    <2>1. /\ Many(Counting)' = Many(Counting) - 0 + 0
          /\ Many(Recording)' = Many(Recording) - 1 + 0
        BY <1>0, <1>1, CountsMove DEF Counting, Recording
    <2> QED
        BY <2>1, ManyCounted
<1>3. ASSUME NEW u \in Threads, pc'[u] \in Rescaling
      PROVE  /\ pc'[u] = "rescaleStore" => job'[u].old <= n[job'[u].from][job'[u].col]
             /\ 2 * job'[u].sum <= SumUpTo(n[job'[u].from])[job'[u].col]
    <2>1. CASE u = t
        <3>1. job'[u] = job[t] /\ pc'[u] = "rescale"
            BY <1>1, <1>3, <2>1 DEF Rescaling
        <3>2. SumUpTo(n[f])[0] = 0
            BY Counts, Sums
        <3> QED
            BY <1>0, <3>1, <3>2
    <2>2. CASE u # t
        BY <1>1, <1>3, <2>2 DEF OnlyMoves, BoundedBy
    <2> QED
        BY <2>1, <2>2
<1>4. ASSUME NEW h \in Ids
      PROVE  /\ SumOf(n[h]) + Many(Counting)' <= calls'.record
             /\ 2 * totals'[h] + 2 * Many(Recording)' <= SumOf(n[h]) + 2 * calls'.record
    <2>1. /\ SumOf(n[h]) \in Nat /\ Many(Counting) \in Nat /\ Many(Recording) \in Nat
          /\ calls.record \in Nat /\ totals[h] \in Nat
        BY Counts, ManyCounted, Counted
    <2>2. /\ SumOf(n[h]) + Many(Counting) <= calls.record
          /\ 2 * totals[h] + 2 * Many(Recording) <= SumOf(n[h]) + 2 * calls.record
        BY DEF BoundedBy
    <2>3. totals'[h] \in Nat /\ totals'[h] <= totals[h] + 1
        BY <1>0, <2>1
    <2> QED
        BY <1>0, <1>2, <2>1, <2>2, <2>3
<1>5. Many(Recording)' <= calls'.record
    BY <1>0, <1>2, ManyCounted DEF BoundedBy
<1>6. \A h, g \in Ids : matrix'[h][g] <= n[h][g]
    BY <1>0 DEF BoundedBy
<1> QED
    BY <1>3, <1>4, <1>5, <1>6 DEF BoundedBy, Rescaling, SumOf, SumUpTo

\* A rescaling reads what is bounded, halves it and adds the halves up.
LEMMA RescaleLoadBounded ==
    ASSUME DenseInv, DenseInv', Locals, NEW n \in [Ids -> [Ids -> Nat]], BoundedBy(n),
           NEW t \in Threads, RescaleLoad(t)
    PROVE  BoundedBy(n)'
<1> DEFINE f == job[t].from  c == job[t].col
           j == [job[t] EXCEPT !.old = matrix[f][c]]
<1>1. /\ f \in Ids /\ c \in Ids /\ pc[t] = "rescale" /\ job[t] \in Jobs
      /\ UNCHANGED <<matrix, totals, calls>>
    BY Here, LoopVars DEF RescaleLoad, Rescaling
<1>2. GoesTo(t, "rescaleStore", j)
    BY Zenon, RecordMoves
<1>3. j.from = f /\ j.col = c /\ j.sum = job[t].sum /\ j.old = matrix[f][c]
    BY <1>1 DEF Jobs
<1> HIDE DEF j
<1>4. OnlyMoves(t) /\ pc'[t] = "rescaleStore" /\ job'[t] = j /\ pc' = [pc EXCEPT ![t] = "rescaleStore"]
    BY <1>2, Moved DEF GoesTo
<1>5. Many(Counting)' = Many(Counting) /\ Many(Recording)' = Many(Recording)
    <2>1. /\ Many(Counting)' = Many(Counting) - 0 + 0
          /\ Many(Recording)' = Many(Recording) - 0 + 0
        BY <1>1, <1>4, CountsMove DEF Counting, Recording
    <2> QED
        BY <2>1, ManyCounted
<1>6. ASSUME NEW u \in Threads, pc'[u] \in Rescaling
      PROVE  /\ pc'[u] = "rescaleStore" => job'[u].old <= n[job'[u].from][job'[u].col]
             /\ 2 * job'[u].sum <= SumUpTo(n[job'[u].from])[job'[u].col]
    <2>1. CASE u = t
        <3>1. matrix[f][c] <= n[f][c] /\ 2 * job[t].sum <= SumUpTo(n[f])[c]
            BY <1>1 DEF BoundedBy, Rescaling
        <3> QED
            BY <1>3, <1>4, <2>1, <3>1
    <2>2. CASE u # t
        BY <1>4, <1>6, <2>2 DEF OnlyMoves, BoundedBy
    <2> QED
        BY <2>1, <2>2
<1> QED
    BY Zenon, <1>1, <1>5, <1>6 DEF BoundedBy, Rescaling, SumOf, SumUpTo

LEMMA RescaleStoreBounded ==
    ASSUME DenseInv, DenseInv', Locals, NEW n \in [Ids -> [Ids -> Nat]], BoundedBy(n),
           NEW t \in Threads, RescaleStore(t)
    PROVE  BoundedBy(n)'
<1> DEFINE f == job[t].from  c == job[t].col  half == job[t].old \div 2
           j == [job[t] EXCEPT !.sum = (@ + half) % Word, !.col = c + 1]
           place == IF job[t].col + 1 = MaxRoutes THEN "rescaleTotal" ELSE "rescale"
<1>1. /\ f \in Ids /\ c \in Ids /\ c \in 0..MaxRoutes /\ pc[t] = "rescaleStore" /\ job[t] \in Jobs
      /\ job[t].sum \in Nat /\ job[t].old \in Nat
      /\ matrix' = [matrix EXCEPT ![f][c] = half] /\ UNCHANGED <<totals, calls>>
      /\ matrix \in [Ids -> [Ids -> 0..(Word - 1)]]
    BY Here, LoopVars DEF RescaleStore, Rescaling
<1>2. half \in Nat /\ 2 * half <= job[t].old /\ half <= job[t].old
    <2> DEFINE old == job[t].old
    <2>1. old \in Nat
        BY <1>1
    <2> HIDE DEF old
    <2>2. (old \div 2) \in Nat /\ 2 * (old \div 2) <= old /\ (old \div 2) <= old
        BY <2>1
    <2> QED
        BY <2>2 DEF old
<1>3. GoesTo(t, place, j)
    BY Zenon, RecordMoves
<1>4. j.from = f /\ j.col = c + 1 /\ j.sum = (job[t].sum + half) % Word /\ place \in {"rescaleTotal", "rescale"}
    BY <1>1 DEF Jobs
<1> HIDE DEF j, place, half
<1>5. OnlyMoves(t) /\ pc'[t] = place /\ job'[t] = j /\ pc' = [pc EXCEPT ![t] = place]
    BY <1>3, Moved DEF GoesTo
<1>6. Many(Counting)' = Many(Counting) /\ Many(Recording)' = Many(Recording)
    <2>1. /\ Many(Counting)' = Many(Counting) - 0 + 0
          /\ Many(Recording)' = Many(Recording) - 0 + 0
        BY <1>1, <1>4, <1>5, CountsMove DEF Counting, Recording
    <2> QED
        BY <2>1, ManyCounted
<1>7. n[f][c] \in Nat /\ job[t].old <= n[f][c] /\ 2 * job[t].sum <= SumUpTo(n[f])[c]
    BY <1>1 DEF BoundedBy, Rescaling
<1>8. ASSUME NEW u \in Threads, pc'[u] \in Rescaling
      PROVE  /\ pc'[u] = "rescaleStore" => job'[u].old <= n[job'[u].from][job'[u].col]
             /\ 2 * job'[u].sum <= SumUpTo(n[job'[u].from])[job'[u].col]
    <2>1. CASE u = t
        <3>1. SumUpTo(n[f])[c + 1] = SumUpTo(n[f])[c] + n[f][c] /\ SumUpTo(n[f])[c] \in Nat
            BY <1>1, Counts, Sums
        <3>2. j.sum <= job[t].sum + half /\ j.sum \in Nat
            BY <1>1, <1>2, <1>4, Wraps
        <3>3. 2 * j.sum <= SumUpTo(n[f])[c + 1]
            <4> DEFINE sum == job[t].sum  old == job[t].old
            <4>1. sum \in Nat /\ old \in Nat /\ n[f][c] \in Nat /\ 2 * half <= old /\ old <= n[f][c]
                  /\ 2 * sum <= SumUpTo(n[f])[c] /\ j.sum <= sum + half /\ half \in Nat
                BY <1>1, <1>2, <1>7, <3>2
            <4> HIDE DEF sum, old, c, f
            <4> QED
                BY <3>1, <3>2, <4>1
        <3> QED
            BY <1>4, <1>5, <2>1, <3>3
    <2>2. CASE u # t
        BY <1>5, <1>8, <2>2 DEF OnlyMoves, BoundedBy
    <2> QED
        BY <2>1, <2>2
<1>9. ASSUME NEW h \in Ids, NEW i \in Ids
      PROVE  matrix'[h][i] <= n[h][i]
    <2>1. matrix[h][i] <= n[h][i]
        BY DEF BoundedBy
    <2>2. CASE h = f /\ i = c
        BY <1>1, <1>2, <1>7, <2>2
    <2>3. CASE ~(h = f /\ i = c)
        BY <1>1, <2>1, <2>3
    <2> QED
        BY <2>2, <2>3
<1> QED
    BY <1>1, <1>6, <1>8, <1>9 DEF BoundedBy, Rescaling, SumOf, SumUpTo

\* The new total is half of what was ever counted, at most.
LEMMA RescaleTotalBounded ==
    ASSUME DenseInv, DenseInv', Locals, NEW n \in [Ids -> [Ids -> Nat]], BoundedBy(n),
           NEW t \in Threads, RescaleTotal(t), NEW f \in Ids, f = job[t].from
    PROVE  BoundedBy(n)'
<1>1. /\ pc[t] = "rescaleTotal" /\ job[t].sum \in Nat /\ job[t].col = MaxRoutes
      /\ totals' = [totals EXCEPT ![f] = job[t].sum] /\ UNCHANGED <<matrix, calls>>
      /\ totals \in [Ids -> 0..(Word - 1)]
    BY Here, LoopVars DEF RescaleTotal, Rescaling, Locals, LocalOf
<1>2. OnlyMoves(t) /\ pc'[t] = "idle" /\ pc' = [pc EXCEPT ![t] = "idle"]
    <2>1. GoesTo(t, "idle", NoJob)
        BY Zenon, RecordMoves
    <2> QED
        BY Zenon, <2>1, Moved DEF GoesTo
<1>3. Many(Counting)' = Many(Counting) /\ Many(Recording)' = Many(Recording)
    <2>1. /\ Many(Counting)' = Many(Counting) - 0 + 0
          /\ Many(Recording)' = Many(Recording) - 0 + 0
        BY <1>1, <1>2, CountsMove DEF Counting, Recording
    <2> QED
        BY <2>1, ManyCounted
<1>4. 2 * job[t].sum <= SumOf(n[f])
    BY <1>1 DEF BoundedBy, Rescaling, SumOf
<1>5. ASSUME NEW u \in Threads, pc'[u] \in Rescaling
      PROVE  /\ pc'[u] = "rescaleStore" => job'[u].old <= n[job'[u].from][job'[u].col]
             /\ 2 * job'[u].sum <= SumUpTo(n[job'[u].from])[job'[u].col]
    <2>1. u # t
        BY <1>2, <1>5 DEF Rescaling
    <2> QED
        BY <1>2, <1>5, <2>1 DEF OnlyMoves, BoundedBy
<1>6. ASSUME NEW h \in Ids
      PROVE  /\ SumOf(n[h]) + Many(Counting)' <= calls'.record
             /\ 2 * totals'[h] + 2 * Many(Recording)' <= SumOf(n[h]) + 2 * calls'.record
    <2>1. /\ SumOf(n[h]) \in Nat /\ Many(Counting) \in Nat /\ Many(Recording) \in Nat
          /\ calls.record \in Nat /\ totals[h] \in Nat
        BY Counts, ManyCounted, Counted
    <2>2. /\ SumOf(n[h]) + Many(Counting) <= calls.record
          /\ 2 * totals[h] + 2 * Many(Recording) <= SumOf(n[h]) + 2 * calls.record
          /\ Many(Recording) <= calls.record
        BY DEF BoundedBy
    <2>3. CASE h = f
        <3>1. totals'[h] = job[t].sum
            BY <1>1, <2>3
        <3> QED
            BY <1>1, <1>3, <1>4, <2>1, <2>2, <2>3, <3>1
    <2>4. CASE h # f
        <3>1. totals'[h] = totals[h]
            BY <1>1, <2>4
        <3> QED
            BY <1>1, <1>3, <2>1, <2>2, <3>1
    <2> QED
        BY <2>3, <2>4
<1> QED
    BY <1>1, <1>3, <1>5, <1>6 DEF BoundedBy, Rescaling, SumOf, SumUpTo

\* Record begins with the call that will pay for its transition.
LEMMA BeginRecordBounded ==
    ASSUME DenseInv, DenseInv', Locals, NEW n \in [Ids -> [Ids -> Nat]], BoundedBy(n),
           NEW t \in Threads, NEW s \in Sessions, NEW p \in Patterns, BeginRecord(t, s, p)
    PROVE  BoundedBy(n)'
<1>1. /\ pc[t] = "idle" /\ pc' = [pc EXCEPT ![t] = "registering"] /\ job' = [job EXCEPT ![t].session = s]
      /\ calls'.record = calls.record + 1 /\ UNCHANGED <<matrix, totals>>
    BY Here DEF BeginRecord, Goto
<1>2. /\ Many(Counting)' = Many(Counting) + 1
      /\ Many(Recording)' = Many(Recording) + 1
    <2>1. /\ Many(Counting)' = Many(Counting) - 0 + 1
          /\ Many(Recording)' = Many(Recording) - 0 + 1
        BY <1>1, CountsMove DEF Counting, Recording
    <2> QED
        BY <2>1, ManyCounted
<1>3. \A u \in Threads : pc'[u] \in Rescaling => pc'[u] = pc[u] /\ job'[u] = job[u]
    BY <1>1, Typed DEF Rescaling
<1>4. ASSUME NEW u \in Threads, pc'[u] \in Rescaling
      PROVE  /\ pc'[u] = "rescaleStore" => job'[u].old <= n[job'[u].from][job'[u].col]
             /\ 2 * job'[u].sum <= SumUpTo(n[job'[u].from])[job'[u].col]
    BY <1>3, <1>4 DEF BoundedBy
<1>5. ASSUME NEW h \in Ids
      PROVE  /\ SumOf(n[h]) + Many(Counting)' <= calls'.record
             /\ 2 * totals'[h] + 2 * Many(Recording)' <= SumOf(n[h]) + 2 * calls'.record
    <2>1. /\ SumOf(n[h]) \in Nat /\ Many(Counting) \in Nat /\ Many(Recording) \in Nat
          /\ calls.record \in Nat /\ totals[h] \in Nat
        BY Counts, ManyCounted, Counted
    <2>2. /\ SumOf(n[h]) + Many(Counting) <= calls.record
          /\ 2 * totals[h] + 2 * Many(Recording) <= SumOf(n[h]) + 2 * calls.record
        BY DEF BoundedBy
    <2> QED
        BY <1>1, <1>2, <2>1, <2>2
<1>6. Many(Recording)' <= calls'.record
    BY <1>1, <1>2, ManyCounted DEF BoundedBy
<1> QED
    BY <1>1, <1>4, <1>5, <1>6 DEF BoundedBy, Rescaling, SumOf, SumUpTo

\* Every step keeps the bound, with the transition counted if it counts one.
LEMMA BoundedStep ==
    ASSUME DenseInv, DenseInv', Locals, Locals', Bounded, [Next]_vars
    PROVE  Bounded'
<1>1. PICK n \in [Ids -> [Ids -> Nat]] : BoundedBy(n)
    BY DEF Bounded
<1>2. SUFFICES BoundedBy(n)' \/ Bounded'
    BY DEF Bounded
<1>3. ASSUME UNCHANGED <<matrix, totals>>, calls'.record = calls.record,
             Many(Counting)' <= Many(Counting), Many(Recording)' <= Many(Recording),
             \A u \in Threads : pc'[u] \in Rescaling => pc'[u] = pc[u] /\ job'[u] = job[u]
      PROVE  BoundedBy(n)'
    BY <1>1, <1>3, BoundedKept
<1>4. ASSUME UNCHANGED <<matrix, totals, calls, pc, job>>
      PROVE  BoundedBy(n)'
    <2>1. Many(Counting)' = Many(Counting) /\ Many(Recording)' = Many(Recording)
        BY <1>4 DEF Many, Counting, Recording
    <2>2. Many(Counting) \in Nat /\ Many(Recording) \in Nat
        BY ManyCounted
    <2> QED
        BY <1>3, <1>4, <2>1, <2>2
<1>5. ASSUME NEW t \in Threads, NEW place, NEW j, GoesTo(t, place, j), UNCHANGED <<matrix, totals>>,
             calls'.record = calls.record, place \notin Rescaling,
             place \in Counting => pc[t] \in Counting, place \in Recording => pc[t] \in Recording
      PROVE  BoundedBy(n)'
    <2>1. pc' = [pc EXCEPT ![t] = place] /\ pc'[t] = place /\ OnlyMoves(t)
        BY <1>5, Moved DEF GoesTo
    <2>2. Many(Counting)' <= Many(Counting) /\ Many(Recording)' <= Many(Recording)
        <3>1. /\ Many(Counting)' = Many(Counting) - (IF pc[t] \in Counting THEN 1 ELSE 0)
                                                  + (IF place \in Counting THEN 1 ELSE 0)
              /\ Many(Recording)' = Many(Recording) - (IF pc[t] \in Recording THEN 1 ELSE 0)
                                                    + (IF place \in Recording THEN 1 ELSE 0)
            BY <2>1, CountsMove
        <3>2. Many(Counting) \in Nat /\ Many(Recording) \in Nat
            BY ManyCounted
        <3> QED
            BY <1>5, <3>1, <3>2
    <2> QED
        BY <1>3, <1>5, <2>1, <2>2 DEF OnlyMoves
<1>6. ASSUME NEW t \in Threads, RecordStep(t)
      PROVE  BoundedBy(n)' \/ Bounded'
    <2>1. CASE Registering(t)
        BY <1>4, <2>1 DEF Registering, denseVars
    <2>2. CASE Ignore(t) \/ StoreConcrete(t) \/ MoveSession(t)
        <3>1. /\ UNCHANGED <<matrix, totals>> /\ calls'.record = calls.record
              /\ pc[t] \in {"registering", "session"}
            BY Zenon, <2>2 DEF Ignore, StoreConcrete, MoveSession, Registered
        <3>2. \/ GoesTo(t, "idle", NoJob) \/ GoesTo(t, "session", job[t])
              \/ GoesTo(t, "cell", [job[t] EXCEPT !.from = last[job[t].session]])
            BY Zenon, <2>2, RecordMoves
        <3>3. /\ "idle" \notin Counting \cup Recording \cup Rescaling
              /\ "session" \notin Rescaling /\ "cell" \notin Rescaling
              /\ pc[t] \in Counting /\ pc[t] \in Recording
            BY <3>1 DEF Counting, Recording, Rescaling
        <3> QED
            BY <1>5, <3>1, <3>2, <3>3
    <2>3. CASE AddCell(t)
        BY <1>1, <2>3, AddCellBounded, Here DEF AddCell
    <2>4. CASE AddTotal(t)
        BY <1>1, <2>4, AddTotalBounded, Here DEF AddTotal
    <2>5. CASE RescaleLoad(t)
        BY <1>1, <2>5, RescaleLoadBounded
    <2>6. CASE RescaleStore(t)
        BY <1>1, <2>6, RescaleStoreBounded
    <2>7. CASE RescaleTotal(t)
        BY <1>1, <2>7, RescaleTotalBounded, Here DEF RescaleTotal, Rescaling
    <2> QED
        BY <1>6, <2>1, <2>2, <2>3, <2>4, <2>5, <2>6, <2>7 DEF RecordStep
<1>7. ASSUME NEW t \in Threads, PredictStep(t) \/ \E s \in Sessions : BeginPredict(t, s)
      PROVE  BoundedBy(n)'
    <2>1. UNCHANGED <<matrix, totals>> /\ calls'.record = calls.record
        BY <1>7, Here DEF PredictStep, LoadTotal, LoadCount, Scan, Rank, Name, ReturnPredictions, BeginPredict
    <2>2. PICK place, j : GoesTo(t, place, j) /\ place \in {"idle", "loadTotal", "loadCount", "scan", "naming"}
        <3>1. CASE \E s \in Sessions : BeginPredict(t, s)
            BY <3>1, PredictMoves
        <3>2. CASE LoadTotal(t)
            BY <3>2, PredictMoves
        <3>3. CASE LoadCount(t)
            BY <3>3, PredictMoves
        <3>4. CASE Scan(t)
            BY <3>4, PredictMoves
        <3>5. CASE Rank(t) \/ Name(t) \/ ReturnPredictions(t)
            BY Zenon, <3>5, PredictMoves
        <3> QED
            BY <1>7, <3>1, <3>2, <3>3, <3>4, <3>5 DEF PredictStep
    <2>3. place \notin Counting \cup Recording \cup Rescaling
        BY <2>2 DEF Counting, Recording, Rescaling
    <2> QED
        BY <1>5, <2>1, <2>2, <2>3
<1>8. ASSUME NEW s \in Sessions, ResetSession(s)
      PROVE  BoundedBy(n)'
    BY <1>4, <1>8 DEF ResetSession
<1>9. CASE UNCHANGED vars
    BY <1>4, <1>9 DEF vars, denseVars
<1> QED
    BY <1>1, <1>6, <1>7, <1>8, <1>9, BeginRecordBounded DEF Next

CountInv == DenseInv /\ Locals /\ Used /\ Rows /\ Scans /\ Bounded

\* Initially nothing is counted and nobody counts.
LEMMA CountInit == Init => CountInv
<1> SUFFICES ASSUME Init PROVE CountInv
    OBVIOUS
<1>1. DenseInv
    BY DenseInit
<1>2. /\ matrix = [i \in Ids |-> ZeroRow] /\ totals = ZeroRow /\ pc = [t \in Threads |-> "idle"]
      /\ job = [t \in Threads |-> NoJob] /\ reg = [t \in Threads |-> "out"]
      /\ last = [s \in Sessions |-> None] /\ calls.record = 0
    BY DEF Init, RegistryInit
<1>3. ZeroRow \in [Ids -> Nat] /\ \A i \in Ids : ZeroRow[i] = 0 /\ ~(ZeroRow[i] > 0)
    BY DEF ZeroRow
<1>4. Locals
    <2>1. {t \in Threads : pc[t] # "idle"} = {}
        BY <1>2
    <2>2. \A t \in Threads : LocalOf(t)
        BY Zenon, <1>2 DEF LocalOf, NoJob, Recording, Writing, Rescaling, Reading
    <2> QED
        BY <2>1, <2>2, FS_EmptySet DEF Locals
<1>5. Used
    BY <1>2, <1>3 DEF Used
<1>6. \A t \in Threads : pc[t] \notin Rescaling \cup Writing \cup Reading \cup Counting \cup Recording
    BY Zenon, <1>2 DEF Writing, Rescaling, Reading, Counting, Recording
<1>7. Rows
    <2>1. ASSUME NEW f \in Ids
          PROVE  Same(totals[f] + Half(f), SumOf(matrix[f]))
        <3>1. Halves(f) = {}
            BY <1>2 DEF Halves
        <3>2. Half(f) = 0
            BY <1>4, <3>1, HalvesFinite, FS_EmptySet
        <3>3. SumOf(matrix[f]) = 0
            BY <1>2, SumOfNothing, Counters DEF SumOf
        <3> QED
            BY <1>2, <1>3, <3>2, <3>3 DEF Same
    <2> QED
        BY <1>6, <2>1 DEF Rows, RowFor
<1>8. Scans
    BY <1>2 DEF Scans
<1>9. Bounded
    <2> DEFINE n == [i \in Ids |-> ZeroRow]
    <2>1. n \in [Ids -> [Ids -> Nat]] /\ \A f \in Ids : n[f] = ZeroRow
        BY <1>3
    <2>2. SumOf(ZeroRow) = 0
        BY SumOfNothing, Counters DEF SumOf
    <2>3. Many(Counting) = 0 /\ Many(Recording) = 0
        <3>1. {t \in Threads : pc[t] \in Counting} = {} /\ {t \in Threads : pc[t] \in Recording} = {}
            BY <1>6
        <3> QED
            BY <3>1, FS_EmptySet DEF Many
    <2>4. /\ \A f, g \in Ids : matrix[f][g] <= n[f][g]
          /\ \A f \in Ids : totals[f] = 0
        BY <1>2, <1>3
    <2> HIDE DEF n
    <2>5. BoundedBy(n)
        BY <1>2, <1>6, <2>1, <2>2, <2>3, <2>4 DEF BoundedBy, Rescaling
    <2> QED
        BY <2>1, <2>5 DEF Bounded
<1> QED
    BY <1>1, <1>4, <1>5, <1>7, <1>8, <1>9 DEF CountInv

\* What the counters hold is kept by every step, wrapped or not.
THEOREM CountsKept == Spec => []CountInv
<1>1. CountInv /\ [Next]_vars => CountInv'
    <2> SUFFICES ASSUME CountInv, [Next]_vars PROVE CountInv'
        OBVIOUS
    <2>1. DenseInv'
        BY DenseStep DEF CountInv
    <2>2. Locals'
        BY <2>1, LocalsStep DEF CountInv
    <2>3. Used' /\ Rows' /\ Scans' /\ Bounded'
        BY <2>1, <2>2, UsedStep, RowsStep, ScansStep, BoundedStep DEF CountInv
    <2> QED
        BY <2>1, <2>2, <2>3 DEF CountInv
<1> QED
    BY <1>1, CountInit, PTL DEF Spec

\* A row's total is the sum of its counters, modulo 2^32.
THEOREM RowsSum == Spec => []RowsAddUp
<1>1. CountInv => RowsAddUp
    BY DEF CountInv, Rows, RowFor, RowsAddUp, Same
<1> QED
    BY <1>1, CountsKept, PTL

\* Fewer calls of Record than take a counter round: with half a row's counters left
\* by a rescaling, its total stays below 2^32 for 2/3 * 2^32 records.
Unwrapped == 3 * MaxRecords < 2 * Word

\* Then no counter has wrapped, and none will with the records under way.
LEMMA BelowWord ==
    ASSUME Unwrapped, DenseInv, Locals, Bounded
    PROVE  /\ \A f \in Ids : SumOf(matrix[f]) < Word /\ 2 * totals[f] + 2 * Many(Recording) < 2 * Word
           /\ \A f, g \in Ids : matrix[f][g] + Many(Counting) < Word
<1>1. PICK n \in [Ids -> [Ids -> Nat]] : BoundedBy(n)
    BY DEF Bounded
<1>2. /\ calls.record \in Nat /\ calls.record <= MaxRecords /\ MaxRecords \in Nat /\ Word \in Nat
      /\ Many(Counting) \in Nat /\ Many(Recording) \in Nat
    <2>1. calls.record \in 0..MaxRecords
        BY DEF DenseInv, DenseTypeOK
    <2> QED
        BY <2>1, ManyCounted, Counters, DenseAssumption
<1>3. ASSUME NEW f \in Ids
      PROVE  /\ SumOf(matrix[f]) < Word
             /\ 2 * totals[f] + 2 * Many(Recording) < 2 * Word
             /\ \A g \in Ids : matrix[f][g] + Many(Counting) < Word
    <2>1. /\ SumOf(n[f]) \in Nat /\ totals[f] \in Nat /\ SumOf(matrix[f]) \in Nat
          /\ n[f] \in [Ids -> Nat] /\ matrix[f] \in [Ids -> Nat]
        BY Counts, Counted
    <2>2. /\ SumOf(n[f]) + Many(Counting) <= calls.record
          /\ 2 * totals[f] + 2 * Many(Recording) <= SumOf(n[f]) + 2 * calls.record
          /\ \A g \in Ids : matrix[f][g] <= n[f][g]
        BY <1>1 DEF BoundedBy
    <2>3. SumOf(matrix[f]) <= SumOf(n[f])
        <3>1. MaxRoutes \in 0..MaxRoutes
            BY Counters
        <3> QED
            BY <2>1, <2>2, <3>1, SumsGrow DEF SumOf
    <2>4. ASSUME NEW g \in Ids
          PROVE  matrix[f][g] + Many(Counting) < Word
        <3>1. matrix[f][g] \in Nat /\ n[f][g] \in Nat /\ n[f][g] <= SumOf(n[f]) /\ matrix[f][g] <= n[f][g]
            BY <2>1, <2>2, SumCovers
        <3> QED
            BY <1>2, <2>1, <2>2, <3>1 DEF Unwrapped
    <2> QED
        BY <1>2, <2>1, <2>2, <2>3, <2>4 DEF Unwrapped
<1> QED
    BY <1>3

\* The variables of the locked predictor, as the refinement mapping gives them.
MarkLast == [s \in Sessions |-> IF last[s] = None THEN None ELSE NameOf(last[s])]
Begun(f) == Cardinality({t \in Threads : pc[t] = "cell" /\ job[t].from = f})
MarkCells == [p \in Patterns |-> [q \in Patterns |->
    IF Modelled(p) /\ Modelled(q)
      THEN matrix[patterns[p]][patterns[q]] + Uncounted(patterns[p], patterns[q]) ELSE 0]]
MarkTotals == [p \in Patterns |->
    IF Modelled(p) THEN totals[patterns[p]] + Half(patterns[p]) + Begun(patterns[p]) ELSE 0]

\* An ID has one name.
LEMMA NameIs ==
    ASSUME DenseInv, NEW p \in Patterns, patterns[p] # None
    PROVE  NameOf(patterns[p]) = p
<1>1. \A q \in Patterns : patterns[q] = patterns[p] => q = p
    BY DEF DenseInv, IInv, IdsAgree
<1> QED
    BY <1>1 DEF NameOf

\* The route of a registered ID.
LEMMA NamedHere ==
    ASSUME DenseInv, NEW i \in Ids, Named(i)
    PROVE  NameOf(i) \in Patterns /\ patterns[NameOf(i)] = i /\ Modelled(NameOf(i))
<1>1. PICK p \in Patterns : patterns[p] = i
    BY DEF Named
<1>2. i # None /\ i < MaxRoutes
    BY NoneElse, Counters DEF Ids
<1>3. NameOf(i) = p
    BY <1>1, <1>2, NameIs
<1> QED
    BY <1>1, <1>2, <1>3 DEF Modelled

\* A route the matrix has room for has its own row.
LEMMA ModelledIds ==
    ASSUME DenseInv, NEW p \in Patterns, Modelled(p)
    PROVE  patterns[p] \in Ids /\ Named(patterns[p]) /\ NameOf(patterns[p]) = p
<1>1. patterns[p] \in Nat /\ patterns[p] < MaxRoutes
    BY Typed DEF Modelled
<1> QED
    BY <1>1, NameIs, Counters DEF Modelled, Named, Ids

\* The scan ends with the row it was to read.
LEMMA ScanEnds ==
    ASSUME Unwrapped, CountInv, NEW t \in Threads, pc[t] = "scan", job[t].col = job[t].limit,
           t \notin disturbed, NEW f \in Ids, f = job[t].from
    PROVE  /\ \A i \in Ids : job[t].row[i] = matrix[f][i]
           /\ SumOf(job[t].row) = job[t].sum /\ job[t].sum = totals[f] /\ job[t].sum > 0
<1> USE DEF CountInv
<1>1. ScanFor(t) /\ job[t] \in Jobs
    BY Here DEF Scans
<1>2. \A i \in Ids : job[t].row[i] = matrix[f][i]
    <2> TAKE i \in Ids
    <2>1. i \in Nat /\ job[t].limit \in Nat
        BY <1>1, Counters DEF Ids, Jobs
    <2>2. CASE i < job[t].limit
        BY <1>1, <2>2 DEF ScanFor
    <2>3. CASE i >= job[t].limit
        BY <1>1, <2>1, <2>3 DEF ScanFor
    <2> QED
        BY <2>1, <2>2, <2>3
<1>3. job[t].row = matrix[f]
    <2>1. job[t].row \in [Ids -> 0..(Word - 1)] /\ matrix[f] \in [Ids -> 0..(Word - 1)]
        BY <1>1, Here DEF Jobs
    <2> QED
        BY <1>2, <2>1
<1>4. Same(totals[f], SumOf(matrix[f])) /\ job[t].sum = totals[f]
    BY <1>1 DEF ScanFor
<1>5. totals[f] \in 0..(Word - 1) /\ SumOf(matrix[f]) \in 0..(Word - 1)
    <2>1. SumOf(matrix[f]) \in Nat /\ SumOf(matrix[f]) < Word /\ totals[f] \in 0..(Word - 1)
        BY Counted, BelowWord, Here
    <2> QED
        BY <2>1, Counters
<1>6. totals[f] = SumOf(matrix[f])
    BY <1>4, <1>5, SameSmall
<1>7. job[t].sum > 0
    BY DEF Locals, LocalOf
<1> QED
    BY <1>2, <1>3, <1>4, <1>6, <1>7

\* The counts without records under way are what the mapping shows.
LEMMA NothingUnderWay ==
    ASSUME NEW t \in Threads, pc[t] = "scan", NEW f, Others(t, f, {"cell", "total"}) = {}
    PROVE  Half(f) = 0 /\ Begun(f) = 0 /\ \A g : Uncounted(f, g) = 0
<1>1. \A u \in Threads : job[u].from = f => pc[u] \notin {"cell", "total"}
    BY DEF Others
<1>2. {u \in Threads : pc[u] = "total" /\ job[u].from = f} = {}
    BY <1>1
<1>3. {u \in Threads : pc[u] = "cell" /\ job[u].from = f} = {}
    BY <1>1
<1>4. \A g : {u \in Threads : pc[u] = "cell" /\ job[u].from = f /\ answer[u] = g} = {}
    BY <1>1
<1>5. Cardinality({}) = 0
    BY FS_EmptySet
<1> QED
    BY Zenon, <1>2, <1>3, <1>4, <1>5 DEF Half, Begun, Uncounted

\* What the locked predictor answers.
LEMMA MarkPredictions ==
    ASSUME NEW s \in Sessions
    PROVE  Markov!Predictions(s) =
               IF MarkLast[s] = None \/ MarkTotals[MarkLast[s]] <= 0 THEN {}
               ELSE {[pattern |-> q, count |-> MarkCells[MarkLast[s]][q], total |-> MarkTotals[MarkLast[s]]] :
                        q \in {q \in Patterns : MarkCells[MarkLast[s]][q] > 0}}
BY DEF Markov!Predictions, Markov!Followers, MarkLast, MarkCells, MarkTotals, Begun

\* A finished scan has what the locked predictor would answer.
LEMMA Exact ==
    ASSUME Unwrapped, CountInv, NEW t \in Threads, pc[t] = "scan", job[t].col = job[t].limit,
           t \notin disturbed, NEW f \in Ids, f = job[t].from,
           Others(t, f, {"cell", "total"}) = {}, NEW s \in Sessions, last[s] = f
    PROVE  Markov!Predictions(s) =
               {[pattern |-> NameOf(i), count |-> job[t].row[i], total |-> job[t].sum] :
                   i \in Candidates(t)}
<1> USE DEF CountInv
<1> DEFINE p == NameOf(f)
<1>1. f # None /\ Named(f)
    BY NoneElse DEF Used
<1>2. p \in Patterns /\ patterns[p] = f /\ Modelled(p) /\ MarkLast[s] = p
    BY <1>1, NamedHere DEF MarkLast
<1>3. p # None
    BY <1>2, NoneElse
<1> HIDE DEF p
<1>4. /\ \A i \in Ids : job[t].row[i] = matrix[f][i] /\ matrix[f][i] \in Nat
      /\ job[t].sum = totals[f] /\ job[t].sum > 0 /\ totals[f] \in Nat
    BY ScanEnds, Counted
<1>5. Half(f) = 0 /\ Begun(f) = 0 /\ \A g : Uncounted(f, g) = 0
    BY NothingUnderWay
<1>6. MarkTotals[p] = job[t].sum /\ ~(MarkTotals[p] <= 0)
    <2>1. MarkTotals[p] = totals[f] + Half(f) + Begun(f)
        BY <1>2 DEF MarkTotals
    <2> QED
        BY <1>4, <1>5, <2>1
<1>7. \A q \in Patterns : MarkCells[p][q] = IF Modelled(q) THEN matrix[f][patterns[q]] ELSE 0
    <2> TAKE q \in Patterns
    <2>1. MarkCells[p][q] = IF Modelled(q) THEN matrix[f][patterns[q]] + Uncounted(f, patterns[q]) ELSE 0
        BY <1>2 DEF MarkCells
    <2>2. Modelled(q) => matrix[f][patterns[q]] \in Nat
        BY <1>4, ModelledIds
    <2> QED
        BY <1>5, <2>1, <2>2
<1>8. \A q \in Patterns : MarkCells[p][q] > 0 =>
          patterns[q] \in Candidates(t) /\ NameOf(patterns[q]) = q /\ MarkCells[p][q] = job[t].row[patterns[q]]
    <2> TAKE q \in Patterns
    <2> HAVE MarkCells[p][q] > 0
    <2>1. Modelled(q) /\ MarkCells[p][q] = matrix[f][patterns[q]]
        BY <1>7
    <2> QED
        BY <1>4, <2>1, ModelledIds DEF Candidates
<1>9. \A i \in Candidates(t) :
          /\ NameOf(i) \in Patterns /\ MarkCells[p][NameOf(i)] > 0
          /\ MarkCells[p][NameOf(i)] = job[t].row[i]
    <2> TAKE i \in Candidates(t)
    <2>1. i \in Ids /\ job[t].row[i] > 0
        BY DEF Candidates
    <2>2. Named(i)
        BY <1>4, <2>1 DEF Used
    <2>3. NameOf(i) \in Patterns /\ patterns[NameOf(i)] = i /\ Modelled(NameOf(i))
        BY <2>1, <2>2, NamedHere
    <2> QED
        BY <1>4, <1>7, <2>1, <2>3
<1>10. Markov!Predictions(s) =
           {[pattern |-> q, count |-> MarkCells[p][q], total |-> job[t].sum] :
               q \in {q \in Patterns : MarkCells[p][q] > 0}}
    BY <1>2, <1>3, <1>6, MarkPredictions
<1>11. {[pattern |-> q, count |-> MarkCells[p][q], total |-> job[t].sum] :
            q \in {q \in Patterns : MarkCells[p][q] > 0}}
        = {[pattern |-> NameOf(i), count |-> job[t].row[i], total |-> job[t].sum] : i \in Candidates(t)}
    BY <1>8, <1>9
<1> QED
    BY <1>10, <1>11

\* A scan that nobody disturbed answers what the locked predictor would: its counts sum
\* up to the total read before them, and with no record of the row half done they are,
\* route by route, the transitions that were recorded.
THEOREM PredictionsExact == ASSUME Unwrapped PROVE Spec => []PredictsExactly
<1>1. CountInv => PredictsExactly
    <2> SUFFICES ASSUME CountInv, NEW t \in Threads, pc[t] = "scan", job[t].col = job[t].limit,
                        t \notin disturbed
                 PROVE  /\ SumOf(job[t].row) = job[t].sum
                        /\ Others(t, job[t].from, {"cell", "total"}) = {} =>
                              \A s \in Sessions : last[s] = job[t].from =>
                                  Markov!Predictions(s) =
                                      {[pattern |-> NameOf(i), count |-> job[t].row[i],
                                        total |-> job[t].sum] : i \in Candidates(t)}
        BY DEF PredictsExactly
    <2>1. job[t].from \in Ids
        BY Here DEF CountInv, Reading
    <2> QED
        BY <2>1, ScanEnds, Exact
<1> QED
    BY <1>1, CountsKept, PTL

Begins(f) == {t \in Threads : pc[t] = "cell" /\ job[t].from = f}
Cells(f, g) == {t \in Threads : pc[t] = "cell" /\ job[t].from = f /\ answer[t] = g}

\* Two sets that differ in one member at most.
LEMMA ByOne ==
    ASSUME NEW S, NEW T, NEW t, IsFiniteSet(S), S \ {t} = T \ {t}
    PROVE  /\ Cardinality(S) \in Nat
           /\ Cardinality(T) = Cardinality(S) - (IF t \in S THEN 1 ELSE 0) + (IF t \in T THEN 1 ELSE 0)
<1>1. Cardinality(S) \in Nat
    BY FS_CardinalityType
<1>2. CASE t \in T
    <2>1. T = S \cup {t}
        BY <1>2
    <2>2. Cardinality(S \cup {t}) = IF t \in S THEN Cardinality(S) ELSE Cardinality(S) + 1
        BY FS_AddElement
    <2> QED
        BY <1>1, <1>2, <2>1, <2>2
<1>3. CASE t \notin T
    <2>1. T = S \ {t}
        BY <1>3
    <2>2. Cardinality(S \ {t}) = IF t \in S THEN Cardinality(S) - 1 ELSE Cardinality(S)
        BY FS_RemoveElement
    <2> QED
        BY <1>1, <1>3, <2>1, <2>2
<1> QED
    BY <1>1, <1>2, <1>3

\* Those between their moves and their additions, after a step of one of them.
LEMMA UnderWayMoves ==
    ASSUME Locals, NEW t \in Threads, OnlyMoves(t), NEW f, NEW g
    PROVE  /\ Uncounted(f, g) \in Nat /\ Begun(f) \in Nat /\ Half(f) \in Nat
           /\ Uncounted(f, g)' = Uncounted(f, g) - (IF t \in Cells(f, g) THEN 1 ELSE 0)
                                                 + (IF t \in Cells(f, g)' THEN 1 ELSE 0)
           /\ Begun(f)' = Begun(f) - (IF t \in Begins(f) THEN 1 ELSE 0)
                                   + (IF t \in Begins(f)' THEN 1 ELSE 0)
           /\ Half(f)' = Half(f) - (IF t \in Halves(f) THEN 1 ELSE 0)
                                 + (IF t \in Halves(f)' THEN 1 ELSE 0)
<1>1. /\ Uncounted(f, g) = Cardinality(Cells(f, g)) /\ Uncounted(f, g)' = Cardinality(Cells(f, g)')
      /\ Begun(f) = Cardinality(Begins(f)) /\ Begun(f)' = Cardinality(Begins(f)')
      /\ Half(f) = Cardinality(Halves(f)) /\ Half(f)' = Cardinality(Halves(f)')
    BY DEF Uncounted, Cells, Begun, Begins, Half, Halves
<1>2. IsFiniteSet(Cells(f, g)) /\ IsFiniteSet(Begins(f)) /\ IsFiniteSet(Halves(f))
    <2>1. \A S : S \subseteq {u \in Threads : pc[u] # "idle"} => IsFiniteSet(S)
        BY FS_Subset DEF Locals
    <2>2. /\ Cells(f, g) \subseteq {u \in Threads : pc[u] # "idle"}
          /\ Begins(f) \subseteq {u \in Threads : pc[u] # "idle"}
          /\ Halves(f) \subseteq {u \in Threads : pc[u] # "idle"}
        BY DEF Cells, Begins, Halves
    <2> QED
        BY <2>1, <2>2
<1>3. Cells(f, g) \ {t} = Cells(f, g)' \ {t}
    BY DEF OnlyMoves, Cells
<1>4. Begins(f) \ {t} = Begins(f)' \ {t}
    BY DEF OnlyMoves, Begins
<1>5. Halves(f) \ {t} = Halves(f)' \ {t}
    BY DEF OnlyMoves, Halves
<1> QED
    BY <1>1, <1>2, <1>3, <1>4, <1>5, ByOne

\* A registered ID keeps its name, and with it a session its route.
LEMMA NameKept ==
    ASSUME DenseInv, DenseInv', [Next]_vars, NEW i \in Ids, Named(i)
    PROVE  NameOf(i)' = NameOf(i)
<1>1. PICK p \in Patterns : patterns[p] = i
    BY DEF Named
<1>2. i # None
    BY NoneElse
<1>3. NameOf(i) = p
    BY <1>1, <1>2, NameIs
<1>4. patterns'[p] = i
    BY <1>1, <1>2, NamedKept
<1>5. \A q \in Patterns : patterns'[q] = i => q = p
    BY <1>2, <1>4 DEF DenseInv, IInv, IdsAgree
<1> QED
    BY <1>3, <1>4, <1>5 DEF NameOf

\* So a session that stays where it is keeps its route.
LEMMA LastKept ==
    ASSUME DenseInv, DenseInv', Used, [Next]_vars, NEW s \in Sessions, last'[s] = last[s]
    PROVE  MarkLast'[s] = MarkLast[s]
<1>1. CASE last[s] = None
    BY <1>1 DEF MarkLast
<1>2. CASE last[s] # None
    <2>1. last[s] \in Ids /\ Named(last[s])
        BY <1>2, Typed DEF Used
    <2>2. \A i \in Ids : Named(i) => NameOf(i)' = NameOf(i)
        BY NameKept
    <2>3. \A i \in Ids : last'[s] = i => MarkLast'[s] = NameOf(i)'
        BY NoneElse DEF MarkLast
    <2> QED
        BY <1>2, <2>1, <2>2, <2>3 DEF MarkLast
<1> QED
    BY <1>1, <1>2

\* A counter and a total with what is under way to them.
Shown(f, g) == matrix[f][g] + Uncounted(f, g)
ShownTotal(f) == totals[f] + Half(f) + Begun(f)

\* An ID that no route has yet has nothing counted for it, by anybody.
LEMMA NothingShown ==
    ASSUME DenseInv, Locals, Used, NEW i \in Ids, ~Named(i)
    PROVE  /\ ShownTotal(i) = 0
           /\ \A g \in Ids : Shown(i, g) = 0 /\ Shown(g, i) = 0
<1>1. /\ totals[i] = 0
      /\ \A g \in Ids : matrix[i][g] = 0 /\ matrix[g][i] = 0
    <2>1. totals[i] \in Nat /\ \A f, g \in Ids : matrix[f][g] \in Nat
        BY Counted
    <2> QED
        BY <2>1 DEF Used
<1>2. ASSUME NEW t \in Threads, pc[t] \in {"cell", "total"}
      PROVE  job[t].from # i /\ (pc[t] = "cell" => answer[t] # i)
    <2>1. Named(job[t].from) /\ asked[t] \in Patterns /\ patterns[asked[t]] = answer[t]
        BY <1>2 DEF Locals, LocalOf, Writing
    <2> QED
        BY <2>1 DEF Named
<1>3. Cardinality({}) = 0
    BY FS_EmptySet
<1>4. Half(i) = 0 /\ Begun(i) = 0
    <2>1. {t \in Threads : pc[t] = "total" /\ job[t].from = i} = {}
        BY <1>2
    <2>2. {t \in Threads : pc[t] = "cell" /\ job[t].from = i} = {}
        BY <1>2
    <2> QED
        BY <1>3, <2>1, <2>2 DEF Half, Begun
<1>5. ASSUME NEW g \in Ids
      PROVE  Uncounted(i, g) = 0 /\ Uncounted(g, i) = 0
    <2>1. {t \in Threads : pc[t] = "cell" /\ job[t].from = i /\ answer[t] = g} = {}
        BY <1>2
    <2>2. {t \in Threads : pc[t] = "cell" /\ job[t].from = g /\ answer[t] = i} = {}
        BY <1>2
    <2> QED
        BY <1>3, <2>1, <2>2 DEF Uncounted
<1> QED
    BY <1>1, <1>4, <1>5 DEF Shown, ShownTotal

\* The counts of the locked predictor are those of the matrix under its routes' IDs.
LEMMA MarkIs ==
    ASSUME NEW p \in Patterns
    PROVE  /\ MarkTotals[p] = IF Modelled(p) THEN ShownTotal(patterns[p]) ELSE 0
           /\ \A q \in Patterns :
                 MarkCells[p][q] =
                     IF Modelled(p) /\ Modelled(q) THEN Shown(patterns[p], patterns[q]) ELSE 0
BY DEF MarkTotals, MarkCells, Shown, ShownTotal

\* Steps that change neither the registry nor what is shown.
LEMMA MarkKept ==
    ASSUME DenseInv, patterns' = patterns,
           \A f \in Ids : ShownTotal(f)' = ShownTotal(f),
           \A f, g \in Ids : Shown(f, g)' = Shown(f, g)
    PROVE  MarkCells' = MarkCells /\ MarkTotals' = MarkTotals
<1>1. \A p \in Patterns : Modelled(p)' <=> Modelled(p)
    BY DEF Modelled
<1>2. \A p \in Patterns : MarkTotals'[p] = MarkTotals[p]
    <2> TAKE p \in Patterns
    <2>1. CASE ~Modelled(p)
        BY <1>1, <2>1 DEF MarkTotals
    <2>2. CASE Modelled(p)
        <3>1. PICK f \in Ids : f = patterns[p]
            BY <2>2, ModelledIds
        <3>2. MarkTotals[p] = ShownTotal(f)
            BY <2>2, <3>1, MarkIs
        <3>3. MarkTotals'[p] = ShownTotal(f)'
            BY <1>1, <2>2, <3>1 DEF MarkTotals, ShownTotal
        <3> QED
            BY <3>2, <3>3
    <2> QED
        BY <2>1, <2>2
<1>3. \A p, q \in Patterns : MarkCells'[p][q] = MarkCells[p][q]
    <2> TAKE p, q \in Patterns
    <2>1. CASE ~(Modelled(p) /\ Modelled(q))
        BY <1>1, <2>1 DEF MarkCells
    <2>2. CASE Modelled(p) /\ Modelled(q)
        <3>1. PICK f \in Ids : f = patterns[p]
            BY <2>2, ModelledIds
        <3>2. PICK g \in Ids : g = patterns[q]
            BY <2>2, ModelledIds
        <3>3. MarkCells[p][q] = Shown(f, g)
            BY <2>2, <3>1, <3>2, MarkIs
        <3>4. MarkCells'[p][q] = Shown(f, g)'
            BY <1>1, <2>2, <3>1, <3>2 DEF MarkCells, Shown
        <3> QED
            BY <3>3, <3>4
    <2> QED
        BY <2>1, <2>2
<1>4. MarkTotals' = MarkTotals
    BY <1>2 DEF MarkTotals
<1>5. MarkCells' = MarkCells
    BY <1>3 DEF MarkCells
<1> QED
    BY <1>4, <1>5

\* A registered route enters the matrix with a row and a column of nothing.
LEMMA MarkEnters ==
    ASSUME DenseInv, DenseInv', Locals, Used, [Next]_vars,
           NEW t \in Threads, StorePatterns(t),
           \A f \in Ids : ShownTotal(f)' = ShownTotal(f),
           \A f, g \in Ids : Shown(f, g)' = Shown(f, g)
    PROVE  MarkCells' = MarkCells /\ MarkTotals' = MarkTotals
<1> DEFINE a == asked[t]
<1>1. a \in Patterns /\ patterns[a] = None /\ patterns' = [patterns EXCEPT ![a] = answer[t]]
      /\ answer[t] \in Nat
    BY Typed DEF StorePatterns, DenseInv, IInv, LockInv, AskedInv, Holding, RegistryTypeOK
<1>2. \A p \in Patterns : p # a => patterns'[p] = patterns[p] /\ (Modelled(p)' <=> Modelled(p))
    BY <1>1 DEF Modelled
<1>3. ~Modelled(a)
    BY <1>1 DEF Modelled
<1>4. ASSUME NEW i \in Ids, i = patterns'[a]
      PROVE  ~Named(i)
    <2>1. \A q \in Patterns : patterns'[q] = patterns'[a] /\ patterns'[q] # None => q = a
        BY <1>1, NoneElse DEF DenseInv, IInv, IdsAgree
    <2> QED
        BY <1>1, <1>2, <1>4, <2>1, NoneElse DEF Named
<1>5. ASSUME NEW p \in Patterns, Modelled(p)'
      PROVE  patterns'[p] \in Ids
    <2>1. patterns'[p] \in Nat \cup {None} /\ patterns'[p] # None /\ patterns'[p] < MaxRoutes
        BY <1>5 DEF DenseInv, IInv, RegistryTypeOK, Modelled
    <2> QED
        BY <2>1, Counters DEF Ids
<1> HIDE DEF a
<1>6. \A p \in Patterns : MarkTotals'[p] = MarkTotals[p]
    <2> TAKE p \in Patterns
    <2>1. CASE ~Modelled(p)'
        <3>1. MarkTotals'[p] = 0
            BY <2>1 DEF MarkTotals
        <3>2. ~Modelled(p)
            BY <1>2, <1>3, <2>1
        <3> QED
            BY <3>1, <3>2, MarkIs
    <2>2. CASE Modelled(p)'
        <3>1. PICK f \in Ids : f = patterns'[p]
            BY <1>5, <2>2
        <3>2. MarkTotals'[p] = ShownTotal(f)'
            BY <2>2, <3>1 DEF MarkTotals, ShownTotal
        <3>3. CASE p = a
            BY <1>3, <1>4, <3>1, <3>2, <3>3, NothingShown, MarkIs
        <3>4. CASE p # a
            BY <1>2, <2>2, <3>1, <3>2, <3>4, MarkIs
        <3> QED
            BY <3>3, <3>4
    <2> QED
        BY <2>1, <2>2
<1>7. \A p, q \in Patterns : MarkCells'[p][q] = MarkCells[p][q]
    <2> TAKE p, q \in Patterns
    <2>1. CASE ~(Modelled(p)' /\ Modelled(q)')
        <3>1. MarkCells'[p][q] = 0
            BY <2>1 DEF MarkCells
        <3>2. ~(Modelled(p) /\ Modelled(q))
            BY <1>2, <1>3, <2>1
        <3> QED
            BY <3>1, <3>2, MarkIs
    <2>2. CASE Modelled(p)' /\ Modelled(q)'
        <3>1. PICK f \in Ids : f = patterns'[p]
            BY <1>5, <2>2
        <3>2. PICK g \in Ids : g = patterns'[q]
            BY <1>5, <2>2
        <3>3. MarkCells'[p][q] = Shown(f, g)'
            BY <2>2, <3>1, <3>2 DEF MarkCells, Shown
        <3>4. CASE p = a \/ q = a
            BY <1>3, <1>4, <3>1, <3>2, <3>3, <3>4, NothingShown, MarkIs
        <3>5. CASE p # a /\ q # a
            BY <1>2, <2>2, <3>1, <3>2, <3>3, <3>5, MarkIs
        <3> QED
            BY <3>4, <3>5
    <2> QED
        BY <2>1, <2>2
<1>8. MarkTotals' = MarkTotals
    BY <1>6 DEF MarkTotals
<1>9. MarkCells' = MarkCells
    BY <1>7 DEF MarkCells
<1> QED
    BY <1>8, <1>9

MarkUnchanged == MarkLast' = MarkLast /\ MarkCells' = MarkCells /\ MarkTotals' = MarkTotals

\* Sessions that all stay are shown where they were.
LEMMA LastsKept ==
    ASSUME DenseInv, DenseInv', Used, [Next]_vars, last' = last
    PROVE  MarkLast' = MarkLast
<1>1. \A s \in Sessions : MarkLast'[s] = MarkLast[s]
    BY LastKept
<1> QED
    BY <1>1 DEF MarkLast

\* Steps outside the two additions that leave the matrix alone.
LEMMA QuietShown ==
    ASSUME Locals, NEW t \in Threads, OnlyMoves(t), UNCHANGED <<matrix, totals>>,
           pc[t] \notin {"cell", "total"}, pc'[t] \notin {"cell", "total"}
    PROVE  /\ \A f \in Ids : ShownTotal(f)' = ShownTotal(f)
           /\ \A f, g \in Ids : Shown(f, g)' = Shown(f, g)
<1>1. ASSUME NEW f \in Ids, NEW g \in Ids
      PROVE  Uncounted(f, g)' = Uncounted(f, g) /\ Begun(f)' = Begun(f) /\ Half(f)' = Half(f)
    <2>1. /\ t \notin Cells(f, g) /\ t \notin Cells(f, g)' /\ t \notin Begins(f)
          /\ t \notin Begins(f)' /\ t \notin Halves(f) /\ t \notin Halves(f)'
        BY DEF Cells, Begins, Halves
    <2> QED
        BY <2>1, UnderWayMoves
<1> QED
    BY <1>1 DEF Shown, ShownTotal

\* A step of the registry is one goroutine's.
LEMMA RegisteringMoves ==
    ASSUME DenseInv, NEW t \in Threads, Registering(t)
    PROVE  OnlyMoves(t) /\ pc[t] = "registering" /\ pc'[t] = "registering"
<1>1. pc[t] = "registering" /\ UNCHANGED <<pc, job>>
    BY DEF Registering, denseVars
<1>2. \A u \in Threads \ {t} : reg'[u] = reg[u] /\ asked'[u] = asked[u] /\ answer'[u] = answer[u]
    BY Typed DEF Registering, RegistryStep, Register, StorePatterns, StoreReverse, At, Return
<1> QED
    BY <1>1, <1>2 DEF OnlyMoves

\* Neither registering nor predicting is seen.
LEMMA QuietMark ==
    ASSUME CountInv, CountInv', [Next]_vars, NEW t \in Threads,
           \/ Registering(t) \/ Ignore(t) \/ StoreConcrete(t) \/ PredictStep(t)
           \/ \E s \in Sessions : BeginPredict(t, s) \/ \E p \in Patterns : BeginRecord(t, s, p)
    PROVE  MarkUnchanged
<1> USE DEF CountInv
<1>1. OnlyMoves(t) /\ pc[t] \notin {"cell", "total"} /\ pc'[t] \notin {"cell", "total"}
    <2>1. CASE Registering(t)
        BY <2>1, RegisteringMoves
    <2>2. CASE Ignore(t) \/ StoreConcrete(t)
        <3>1. OnlyMoves(t)
            BY Zenon, <2>2, RecordLocals, Typed DEF RecordStep, Ignore, StoreConcrete, Registering, Registered,
                                          GoesTo, RegistryStep, Register, StorePatterns, StoreReverse
        <3>2. pc'[t] \in {"idle", "session"} /\ pc[t] = "registering"
            BY Zenon, <2>2, RecordMoves, Moved DEF Ignore, StoreConcrete, Registered
        <3> QED
            BY <3>1, <3>2
    <2>3. CASE PredictStep(t) \/ \E s \in Sessions : BeginPredict(t, s)
        <3>1. OnlyMoves(t)
            BY <2>3, PredictLocals
        <3>2. pc[t] \in {"idle", "naming"} \cup Reading /\ pc'[t] \in {"idle", "naming"} \cup Reading
            BY <2>3, Typed DEF PredictStep, BeginPredict, LoadTotal, LoadCount, Scan, Rank, Name,
                        ReturnPredictions, Goto, Finish, Reading
        <3> QED
            BY <3>1, <3>2 DEF Reading
    <2>4. ASSUME NEW s \in Sessions, NEW p \in Patterns, BeginRecord(t, s, p)
          PROVE  OnlyMoves(t) /\ pc[t] = "idle" /\ pc'[t] = "registering"
        BY <2>4, Typed DEF OnlyMoves, BeginRecord, Ask, At, Return, Goto
    <2> QED
        BY <2>1, <2>2, <2>3, <2>4
<1>2. UNCHANGED <<matrix, totals, last>>
    BY DEF Registering, denseVars, Ignore, StoreConcrete, PredictStep, BeginPredict, BeginRecord,
           LoadTotal, LoadCount, Scan, Rank, Name, ReturnPredictions
<1>3. /\ \A f \in Ids : ShownTotal(f)' = ShownTotal(f)
      /\ \A f, g \in Ids : Shown(f, g)' = Shown(f, g)
    BY <1>1, <1>2, QuietShown
<1>4. MarkLast' = MarkLast
    BY <1>2, LastsKept
<1>5. CASE StorePatterns(t)
    BY <1>3, <1>4, <1>5, MarkEnters DEF MarkUnchanged
<1>6. CASE ~StorePatterns(t)
    <2>1. patterns' = patterns
        BY <1>6 DEF Registering, RegistryStep, Register, StoreReverse, Ignore, StoreConcrete, registryVars,
               PredictStep, BeginPredict, BeginRecord, Ask, LoadTotal, LoadCount, Scan, Rank, Name,
               ReturnPredictions
    <2> QED
        BY <1>3, <1>4, <2>1, MarkKept DEF MarkUnchanged
<1> QED
    BY <1>5, <1>6

\* Who is on the way to count is one of those who count.
LEMMA OneOfMany ==
    ASSUME Locals, NEW t \in Threads
    PROVE  /\ pc[t] = "cell" => Many(Counting) >= 1
           /\ pc[t] = "total" => Many(Recording) >= 1
<1>1. ASSUME NEW places, "idle" \notin places, pc[t] \in places
      PROVE  Many(places) >= 1
    <2> DEFINE S == {u \in Threads : pc[u] \in places}
    <2>1. S \subseteq {u \in Threads : pc[u] # "idle"} /\ t \in S
        BY <1>1
    <2>2. IsFiniteSet(S) /\ Many(places) = Cardinality(S)
        BY <2>1, FS_Subset DEF Locals, Many
    <2> HIDE DEF S
    <2>3. Cardinality(S) \in Nat /\ Cardinality(S) # 0
        BY <2>1, <2>2, FS_CardinalityType, FS_EmptySet
    <2> QED
        BY <2>2, <2>3
<1> QED
    BY <1>1 DEF Counting, Recording

\* Neither addition is seen: what a goroutine adds was shown from its move on.
LEMMA AddCellMark ==
    ASSUME Unwrapped, CountInv, CountInv', [Next]_vars, NEW t \in Threads, AddCell(t)
    PROVE  MarkUnchanged
<1> USE DEF CountInv
<1> DEFINE a == job[t].from  b == answer[t]
<1>1. a \in Ids /\ b \in Ids /\ pc[t] = "cell" /\ GoesTo(t, "total", job[t])
    BY Zenon, Here, RecordMoves DEF AddCell
<1>2. matrix \in [Ids -> [Ids -> 0..(Word - 1)]] /\ totals' = totals /\ last' = last /\ patterns' = patterns
    BY Here DEF AddCell, registryVars
<1>3. matrix' = [matrix EXCEPT ![a][b] = matrix[a][b] + 1]
    <2>1. matrix[a][b] + Many(Counting) < Word /\ Many(Counting) >= 1 /\ Many(Counting) \in Nat
        BY <1>1, BelowWord, OneOfMany, ManyCounted
    <2>2. matrix[a][b] \in Nat /\ Word \in Nat
        BY <1>1, Counted, Counters
    <2>3. matrix[a][b] + 1 \in 0..(Word - 1)
        BY <2>1, <2>2
    <2>4. (matrix[a][b] + 1) % Word = matrix[a][b] + 1
        BY <2>3, SmallRest
    <2> QED
        BY <2>4 DEF AddCell
<1>4. OnlyMoves(t) /\ pc'[t] = "total" /\ job'[t] = job[t] /\ answer'[t] = answer[t]
    BY <1>1, Moved
<1> HIDE DEF a, b
<1>5. ASSUME NEW f \in Ids, NEW g \in Ids
      PROVE  Shown(f, g)' = Shown(f, g) /\ ShownTotal(f)' = ShownTotal(f)
    <2>1. /\ t \in Cells(f, g) <=> (f = a /\ g = b)
          /\ t \in Begins(f) <=> f = a
          /\ t \notin Halves(f)
          /\ t \notin Cells(f, g)' /\ t \notin Begins(f)'
          /\ t \in Halves(f)' <=> f = a
        BY <1>1, <1>4 DEF a, b, Cells, Begins, Halves
    <2>2. matrix'[f][g] = matrix[f][g] + (IF f = a /\ g = b THEN 1 ELSE 0)
        BY <1>1, <1>2, <1>3, Counted
    <2>3. matrix[f][g] \in Nat /\ totals[f] \in Nat /\ totals'[f] = totals[f]
        BY <1>2, Counted
    <2> QED
        BY <2>1, <2>2, <2>3, <1>4, UnderWayMoves DEF Shown, ShownTotal
<1> QED
    BY <1>2, <1>5, MarkKept, LastsKept DEF MarkUnchanged

\* Nor is the second addition, whether its total is to be rescaled or not.
LEMMA AddTotalMark ==
    ASSUME Unwrapped, CountInv, CountInv', [Next]_vars, NEW t \in Threads, AddTotal(t)
    PROVE  MarkUnchanged
<1> USE DEF CountInv
<1> DEFINE a == job[t].from
<1>1. a \in Ids /\ pc[t] = "total"
    BY Here DEF AddTotal
<1>2. totals \in [Ids -> 0..(Word - 1)] /\ matrix' = matrix /\ last' = last /\ patterns' = patterns
    BY Here DEF AddTotal, registryVars
<1>3. totals' = [totals EXCEPT ![a] = totals[a] + 1]
    <2>1. 2 * totals[a] + 2 * Many(Recording) < 2 * Word /\ Many(Recording) >= 1 /\ Many(Recording) \in Nat
        BY <1>1, BelowWord, OneOfMany, ManyCounted
    <2>2. totals[a] \in Nat /\ Word \in Nat
        BY <1>1, Counted, Counters
    <2>3. totals[a] + 1 \in 0..(Word - 1)
        BY <2>1, <2>2
    <2>4. (totals[a] + 1) % Word = totals[a] + 1
        BY <2>3, SmallRest
    <2> QED
        BY <2>4 DEF AddTotal
<1>4. OnlyMoves(t) /\ pc'[t] \notin {"cell", "total"}
    <2>1. GoesTo(t, "rescale", job[t]) \/ GoesTo(t, "idle", NoJob)
        BY Zenon, RecordMoves
    <2> QED
        BY <2>1, Moved
<1> HIDE DEF a
<1>5. ASSUME NEW f \in Ids, NEW g \in Ids
      PROVE  Shown(f, g)' = Shown(f, g) /\ ShownTotal(f)' = ShownTotal(f)
    <2>1. /\ t \notin Cells(f, g) /\ t \notin Begins(f)
          /\ t \in Halves(f) <=> f = a
          /\ t \notin Cells(f, g)' /\ t \notin Begins(f)' /\ t \notin Halves(f)'
        BY <1>1, <1>4 DEF a, Cells, Begins, Halves
    <2>2. totals'[f] = totals[f] + (IF f = a THEN 1 ELSE 0)
        BY <1>1, <1>2, <1>3, Counted
    <2>3. matrix[f][g] \in Nat /\ totals[f] \in Nat /\ matrix'[f][g] = matrix[f][g]
        BY <1>2, Counted
    <2> QED
        BY <2>1, <2>2, <2>3, <1>4, UnderWayMoves DEF Shown, ShownTotal
<1> QED
    BY <1>2, <1>5, MarkKept, LastsKept DEF MarkUnchanged

\* What the locked predictor does when a session moves, and when it is reset.
MarkMoves(s, p) ==
    IF MarkLast[s] = None /\ Cardinality({r \in Sessions : MarkLast[r] # None}) >= MaxSessions
      THEN \E evicted \in {r \in Sessions : MarkLast[r] # None} :
              MarkLast' = [MarkLast EXCEPT ![evicted] = None, ![s] = p]
      ELSE MarkLast' = [MarkLast EXCEPT ![s] = p]

\* The locked predictor's module counts with the same operator.
LEMMA SameCardinality == \A S : Markov!Cardinality(S) = Cardinality(S)
BY DEF Markov!Cardinality, Cardinality, Markov!IsFiniteSet, IsFiniteSet

\* A Record of the locked predictor, in the mapping's terms.
LEMMA MarkRecord ==
    ASSUME NEW s \in Sessions, NEW p \in Patterns, MarkMoves(s, p),
           IF MarkLast[s] = None THEN MarkCells' = MarkCells /\ MarkTotals' = MarkTotals
           ELSE /\ MarkCells' = [MarkCells EXCEPT ![MarkLast[s]][p] = @ + 1]
                /\ MarkTotals' = [MarkTotals EXCEPT ![MarkLast[s]] = @ + 1]
    PROVE  Markov!Next
<1>1. Markov!Tracked = {r \in Sessions : MarkLast[r] # None}
    BY Zenon DEF Markov!Tracked, MarkLast
<1>2. MarkMoves(s, p) <=>
          IF MarkLast[s] = None /\ Markov!Cardinality(Markov!Tracked) >= MaxSessions
            THEN \E evicted \in Markov!Tracked :
                    MarkLast' = [MarkLast EXCEPT ![evicted] = None, ![s] = p]
            ELSE MarkLast' = [MarkLast EXCEPT ![s] = p]
    BY Zenon, <1>1, SameCardinality DEF MarkMoves
<1>3. Markov!MoveTo(s, p)
    BY <1>2, Zenon DEF Markov!MoveTo, MarkLast
<1>4. Markov!Record(s, p)
    BY <1>3 DEF Markov!Record, Markov!AddTransition, MarkLast, MarkCells, MarkTotals, Begun
<1> QED
    BY <1>4 DEF Markov!Next

\* A ResetSession of the locked predictor.
LEMMA MarkReset ==
    ASSUME NEW s \in Sessions, MarkLast' = [MarkLast EXCEPT ![s] = None],
           MarkCells' = MarkCells, MarkTotals' = MarkTotals
    PROVE  Markov!Next
<1>1. Markov!ResetSession(s)
    BY DEF Markov!ResetSession, MarkLast, MarkCells, MarkTotals, Begun
<1> QED
    BY <1>1 DEF Markov!Next

\* A step that nothing is seen of.
LEMMA MarkStutters == MarkUnchanged => UNCHANGED Markov!markovVars
BY DEF MarkUnchanged, Markov!markovVars, MarkLast, MarkCells, MarkTotals, Begun

\* A session is somewhere for one predictor if it is for the other.
LEMMA MarkTracked ==
    ASSUME DenseInv, Used
    PROVE  /\ \A s \in Sessions : MarkLast[s] = None <=> last[s] = None
           /\ {r \in Sessions : MarkLast[r] # None} = Tracked
<1>1. \A s \in Sessions : MarkLast[s] = None <=> last[s] = None
    <2> TAKE s \in Sessions
    <2>1. CASE last[s] = None
        BY <2>1 DEF MarkLast
    <2>2. CASE last[s] # None
        <3>1. last[s] \in Ids /\ Named(last[s])
            BY <2>2, Typed DEF Used
        <3>2. NameOf(last[s]) \in Patterns
            BY <3>1, NamedHere
        <3> QED
            BY <2>2, <3>2, NoneElse DEF MarkLast
    <2> QED
        BY <2>1, <2>2
<1> QED
    BY <1>1 DEF Tracked

\* A session that moves in one predictor moves in the other, and pushes out the same
\* session.
LEMMA MoveMark ==
    ASSUME CountInv, CountInv', [Next]_vars, NEW t \in Threads, MoveSession(t),
           NEW s \in Sessions, s = job[t].session, NEW p \in Patterns, p = asked[t],
           NEW b \in Ids, b = answer[t], patterns[p] = b
    PROVE  MarkMoves(s, p)
<1> USE DEF CountInv
<1>1. last \in [Sessions -> Ids \cup {None}] /\ MoveTo(s, b) /\ patterns' = patterns
    BY Typed DEF MoveSession, registryVars
<1>2. b # None /\ NameOf(b) = p /\ patterns'[p] = b
    BY <1>1, NoneElse, NameIs
<1>3. NameOf(b)' = p
    <2>1. \A q \in Patterns : patterns'[q] = b => q = p
        BY <1>2 DEF DenseInv, IInv, IdsAgree
    <2> QED
        BY <1>2, <2>1 DEF NameOf
<1>4. ASSUME last'[s] = b
      PROVE  MarkLast'[s] = p
    BY <1>2, <1>3, <1>4 DEF MarkLast
<1>5. \A r \in Sessions : last'[r] = last[r] => MarkLast'[r] = MarkLast[r]
    BY LastKept
<1>6. \A r \in Sessions : last'[r] = None => MarkLast'[r] = None
    BY DEF MarkLast
<1>7. /\ \A r \in Sessions : MarkLast[r] = None <=> last[r] = None
      /\ {r \in Sessions : MarkLast[r] # None} = Tracked
    BY MarkTracked
<1>8. MarkLast = [r \in Sessions |-> MarkLast[r]] /\ MarkLast' = [r \in Sessions |-> MarkLast'[r]]
    BY DEF MarkLast
<1>9. CASE last[s] = None /\ Cardinality(Tracked) >= MaxSessions
    <2>1. PICK evicted \in Tracked : last' = [last EXCEPT ![evicted] = None, ![s] = b]
        BY <1>1, <1>9 DEF MoveTo
    <2>2. evicted \in Sessions
        BY DEF Tracked
    <2>3. \A r \in Sessions : last'[r] = IF r = s THEN b ELSE IF r = evicted THEN None ELSE last[r]
        BY <1>1, <2>1, <2>2
    <2>4. \A r \in Sessions :
              MarkLast'[r] = IF r = s THEN p ELSE IF r = evicted THEN None ELSE MarkLast[r]
        BY <1>4, <1>5, <1>6, <2>3
    <2>5. MarkLast' = [MarkLast EXCEPT ![evicted] = None, ![s] = p]
        BY <1>8, <2>2, <2>4
    <2> QED
        BY <1>7, <1>9, <2>1, <2>5 DEF MarkMoves
<1>10. CASE ~(last[s] = None /\ Cardinality(Tracked) >= MaxSessions)
    <2>1. last' = [last EXCEPT ![s] = b]
        BY <1>1, <1>10 DEF MoveTo
    <2>2. \A r \in Sessions : last'[r] = IF r = s THEN b ELSE last[r]
        BY <1>1, <2>1
    <2>3. \A r \in Sessions : MarkLast'[r] = IF r = s THEN p ELSE MarkLast[r]
        BY <1>4, <1>5, <2>2
    <2>4. MarkLast' = [MarkLast EXCEPT ![s] = p]
        BY <1>8, <2>3
    <2> QED
        BY <1>7, <1>10, <2>4 DEF MarkMoves
<1> QED
    BY <1>9, <1>10

\* The transition is shown from the move on.
LEMMA MoveShows ==
    ASSUME CountInv, CountInv', [Next]_vars, NEW t \in Threads, MoveSession(t),
           NEW s \in Sessions, s = job[t].session, NEW b \in Ids, b = answer[t],
           NEW a \in Ids, a = last[s]
    PROVE  /\ \A f \in Ids : ShownTotal(f)' = IF f = a THEN ShownTotal(f) + 1 ELSE ShownTotal(f)
           /\ \A f, g \in Ids : Shown(f, g)' = IF f = a /\ g = b THEN Shown(f, g) + 1 ELSE Shown(f, g)
<1> USE DEF CountInv
<1>1. a # None /\ matrix' = matrix /\ totals' = totals /\ pc[t] \in {"registering", "session"}
    BY Zenon, NoneElse DEF MoveSession, Registered
<1>2. GoesTo(t, "cell", [job[t] EXCEPT !.from = a])
    BY Zenon, <1>1, RecordMoves
<1>3. OnlyMoves(t) /\ pc'[t] = "cell" /\ job'[t].from = a /\ answer'[t] = b
    BY <1>2, Moved, Here DEF Jobs
<1>4. ASSUME NEW f \in Ids, NEW g \in Ids
      PROVE  /\ ShownTotal(f)' = IF f = a THEN ShownTotal(f) + 1 ELSE ShownTotal(f)
             /\ Shown(f, g)' = IF f = a /\ g = b THEN Shown(f, g) + 1 ELSE Shown(f, g)
    <2>1. /\ t \notin Cells(f, g) /\ t \notin Begins(f) /\ t \notin Halves(f)
          /\ t \in Cells(f, g)' <=> (f = a /\ g = b)
          /\ t \in Begins(f)' <=> f = a
          /\ t \notin Halves(f)'
        BY <1>1, <1>3 DEF Cells, Begins, Halves
    <2>2. matrix[f][g] \in Nat /\ totals[f] \in Nat
        BY Counted
    <2> QED
        BY <1>1, <1>3, <2>1, <2>2, UnderWayMoves DEF Shown, ShownTotal
<1> QED
    BY <1>4

\* A transition more in one row is one more for its routes in the locked predictor.
LEMMA MarkAdds ==
    ASSUME DenseInv, patterns' = patterns, NEW l \in Patterns, NEW p \in Patterns,
           Modelled(l), Modelled(p),
           \A f \in Ids : ShownTotal(f)' = IF f = patterns[l] THEN ShownTotal(f) + 1 ELSE ShownTotal(f),
           \A f, g \in Ids : Shown(f, g)' =
               IF f = patterns[l] /\ g = patterns[p] THEN Shown(f, g) + 1 ELSE Shown(f, g)
    PROVE  /\ MarkCells' = [MarkCells EXCEPT ![l][p] = @ + 1]
           /\ MarkTotals' = [MarkTotals EXCEPT ![l] = @ + 1]
<1>1. \A q \in Patterns : Modelled(q)' <=> Modelled(q)
    BY DEF Modelled
<1>2. \A q \in Patterns : Modelled(q) => patterns[q] \in Ids /\ NameOf(patterns[q]) = q
    BY ModelledIds
<1>3. ASSUME NEW q \in Patterns, Modelled(q)
      PROVE  MarkTotals'[q] = IF q = l THEN MarkTotals[q] + 1 ELSE MarkTotals[q]
    <2>1. PICK f \in Ids : f = patterns[q]
        BY <1>2, <1>3
    <2>2. MarkTotals[q] = ShownTotal(f)
        BY <1>3, <2>1, MarkIs
    <2>3. MarkTotals'[q] = ShownTotal(f)'
        BY <1>1, <1>3, <2>1 DEF MarkTotals, ShownTotal
    <2>4. f = patterns[l] <=> q = l
        BY <1>2, <1>3, <2>1
    <2> QED
        BY <2>2, <2>3, <2>4
<1>4. ASSUME NEW q \in Patterns, ~Modelled(q)
      PROVE  MarkTotals'[q] = MarkTotals[q] /\ q # l
    BY <1>1, <1>4 DEF MarkTotals
<1>5. ASSUME NEW q \in Patterns, NEW r \in Patterns, Modelled(q), Modelled(r)
      PROVE  MarkCells'[q][r] = IF q = l /\ r = p THEN MarkCells[q][r] + 1 ELSE MarkCells[q][r]
    <2>1. PICK f \in Ids : f = patterns[q]
        BY <1>2, <1>5
    <2>2. PICK g \in Ids : g = patterns[r]
        BY <1>2, <1>5
    <2>3. MarkCells[q][r] = Shown(f, g)
        BY <1>5, <2>1, <2>2, MarkIs
    <2>4. MarkCells'[q][r] = Shown(f, g)'
        BY <1>1, <1>5, <2>1, <2>2 DEF MarkCells, Shown
    <2>5. (f = patterns[l] <=> q = l) /\ (g = patterns[p] <=> r = p)
        BY <1>2, <1>5, <2>1, <2>2
    <2> QED
        BY <2>3, <2>4, <2>5
<1>6. ASSUME NEW q \in Patterns, NEW r \in Patterns, ~(Modelled(q) /\ Modelled(r))
      PROVE  MarkCells'[q][r] = MarkCells[q][r] /\ ~(q = l /\ r = p)
    BY <1>1, <1>6 DEF MarkCells
<1>7. MarkTotals' = [MarkTotals EXCEPT ![l] = @ + 1]
    <2>1. MarkTotals = [q \in Patterns |-> MarkTotals[q]] /\ MarkTotals' = [q \in Patterns |-> MarkTotals'[q]]
        BY DEF MarkTotals
    <2>2. \A q \in Patterns : MarkTotals'[q] = IF q = l THEN MarkTotals[l] + 1 ELSE MarkTotals[q]
        BY <1>3, <1>4
    <2> QED
        BY <2>1, <2>2
<1>8. MarkCells' = [MarkCells EXCEPT ![l][p] = @ + 1]
    <2>1. /\ MarkCells = [q \in Patterns |-> [r \in Patterns |-> MarkCells[q][r]]]
          /\ MarkCells' = [q \in Patterns |-> [r \in Patterns |-> MarkCells'[q][r]]]
        BY DEF MarkCells
    <2>2. \A q, r \in Patterns :
              MarkCells'[q][r] = IF q = l /\ r = p THEN MarkCells[l][p] + 1 ELSE MarkCells[q][r]
        BY <1>5, <1>6
    <2> QED
        BY <2>1, <2>2
<1> QED
    BY <1>7, <1>8

\* The step in which a session moves is the locked predictor's Record.
LEMMA MoveSessionMark ==
    ASSUME CountInv, CountInv', [Next]_vars, NEW t \in Threads, MoveSession(t)
    PROVE  Markov!Next
<1> USE DEF CountInv
<1>1. /\ asked[t] \in Patterns /\ answer[t] \in Ids /\ patterns[asked[t]] = answer[t]
      /\ job[t].session \in Sessions /\ pc[t] \in {"registering", "session"}
      /\ UNCHANGED <<matrix, totals>> /\ patterns' = patterns
    <2>1. CASE pc[t] = "session"
        BY <2>1 DEF MoveSession, registryVars, Locals, LocalOf, DenseInv, Places
    <2>2. CASE Registered(t) /\ Usable(t)
        BY <2>2, UsableIds DEF MoveSession, registryVars, Registered, DenseInv, Places
    <2> QED
        BY <2>1, <2>2 DEF MoveSession
<1> DEFINE s == job[t].session  p == asked[t]  b == answer[t]
<1>2. MarkMoves(s, p)
    BY <1>1, MoveMark
<1>3. MarkLast[s] = None <=> last[s] = None
    BY <1>1, MarkTracked
<1>4. CASE last[s] = None
    <2>1. GoesTo(t, "idle", NoJob)
        BY Zenon, <1>4, RecordMoves
    <2>2. OnlyMoves(t) /\ pc'[t] = "idle"
        BY <2>1, Moved
    <2>3. MarkCells' = MarkCells /\ MarkTotals' = MarkTotals
        BY <1>1, <2>2, QuietShown, MarkKept
    <2> HIDE DEF s, p
    <2> QED
        BY Zenon, <1>1, <1>2, <1>3, <1>4, <2>3, MarkRecord DEF s, p
<1>5. CASE last[s] # None
    <2> DEFINE l == NameOf(last[s])
    <2>1. last[s] \in Ids /\ Named(last[s])
        BY <1>1, <1>5, Typed DEF Used
    <2>2. l \in Patterns /\ patterns[l] = last[s] /\ Modelled(l) /\ MarkLast[s] = l
        BY <1>1, <1>5, <2>1, NamedHere DEF MarkLast
    <2>3. Modelled(p)
        <3>1. b # None /\ b < MaxRoutes
            BY <1>1, NoneElse, Counters DEF Ids
        <3> QED
            BY <1>1, <3>1 DEF Modelled
    <2>4. /\ \A f \in Ids : ShownTotal(f)' = IF f = last[s] THEN ShownTotal(f) + 1 ELSE ShownTotal(f)
          /\ \A f, g \in Ids : Shown(f, g)' = IF f = last[s] /\ g = b THEN Shown(f, g) + 1 ELSE Shown(f, g)
        BY <1>1, <2>1, MoveShows
    <2> HIDE DEF s, p, b, l
    <2>5. patterns[p] = b /\ p \in Patterns
        BY <1>1 DEF p, b
    <2>6. /\ MarkCells' = [MarkCells EXCEPT ![l][p] = @ + 1]
          /\ MarkTotals' = [MarkTotals EXCEPT ![l] = @ + 1]
        BY <1>1, <2>2, <2>3, <2>4, <2>5, MarkAdds
    <2> QED
        BY <1>1, <1>2, <1>3, <1>5, <2>2, <2>5, <2>6, MarkRecord DEF s
<1> QED
    BY <1>4, <1>5

\* ResetSession is ResetSession.
LEMMA ResetSessionMark ==
    ASSUME CountInv, CountInv', [Next]_vars, NEW s \in Sessions, ResetSession(s)
    PROVE  Markov!Next
<1> USE DEF CountInv
<1>1. /\ last \in [Sessions -> Ids \cup {None}] /\ last' = [last EXCEPT ![s] = None]
      /\ UNCHANGED <<registryVars, matrix, totals, pc, job>>
    BY Typed DEF ResetSession
<1>2. MarkCells' = MarkCells /\ MarkTotals' = MarkTotals
    <2>1. patterns' = patterns /\ answer' = answer
        BY <1>1 DEF registryVars
    <2>2. \A f, g \in Ids : Shown(f, g)' = Shown(f, g) /\ ShownTotal(f)' = ShownTotal(f)
        BY <1>1, <2>1 DEF Shown, ShownTotal, Uncounted, Half, Begun
    <2> QED
        BY <2>1, <2>2, MarkKept
<1>3. \A r \in Sessions : MarkLast'[r] = IF r = s THEN None ELSE MarkLast[r]
    <2> TAKE r \in Sessions
    <2>1. CASE r = s
        BY <1>1, <2>1 DEF MarkLast
    <2>2. CASE r # s
        BY <1>1, <2>2, LastKept
    <2> QED
        BY <2>1, <2>2
<1>4. MarkLast' = [MarkLast EXCEPT ![s] = None]
    <2>1. MarkLast = [r \in Sessions |-> MarkLast[r]] /\ MarkLast' = [r \in Sessions |-> MarkLast'[r]]
        BY DEF MarkLast
    <2> QED
        BY <1>3, <2>1
<1> QED
    BY <1>2, <1>4, MarkReset

\* A rescaling leaves the sessions and the other rows alone.
LEMMA RescaleSteps ==
    ASSUME DenseInv, NEW t \in Threads, RescaleLoad(t) \/ RescaleStore(t) \/ RescaleTotal(t)
    PROVE  Rescales
<1> DEFINE a == job[t].from
<1>1. pc[t] \in Rescaling /\ a \in Ids /\ matrix \in [Ids -> [Ids -> 0..(Word - 1)]]
      /\ totals \in [Ids -> 0..(Word - 1)]
    BY Here DEF RescaleLoad, RescaleStore, RescaleTotal, Rescaling
<1>2. pc'[t] # pc[t]
    <2>1. pc \in [Threads -> {"idle", "registering", "session", "cell", "total", "naming"}
                                \cup Rescaling \cup Reading]
        BY Typed
    <2> QED
        BY <2>1 DEF RescaleLoad, RescaleStore, RescaleTotal, Goto, Finish
<1>3. UNCHANGED <<patterns, last>>
    BY DEF RescaleLoad, RescaleStore, RescaleTotal, registryVars
<1>4. \A f \in Ids \ {a} : matrix'[f] = matrix[f] /\ totals'[f] = totals[f]
    BY <1>1 DEF RescaleLoad, RescaleStore, RescaleTotal
<1> QED
    BY <1>1, <1>2, <1>3, <1>4 DEF Rescales

\* Initially neither predictor has counted anything.
LEMMA MarkovInit == Init => Markov!Init
<1> SUFFICES ASSUME Init PROVE Markov!Init
    OBVIOUS
<1>1. last = [s \in Sessions |-> None] /\ \A p \in Patterns : ~Modelled(p)
    BY DEF Init, RegistryInit, Modelled
<1>2. /\ MarkLast = [s \in Sessions |-> None]
      /\ MarkCells = [p \in Patterns |-> [q \in Patterns |-> 0]]
      /\ MarkTotals = [p \in Patterns |-> 0]
    BY <1>1 DEF MarkLast, MarkCells, MarkTotals
<1> QED
    BY Zenon, <1>2 DEF Markov!Init, MarkLast, MarkCells, MarkTotals, Begun

\* The lock-free predictor is the locked one, but for rescaling: each navigation takes
\* effect once, when its session moves, for the routes it was of, whatever other
\* goroutines of Record, Predict and the registry do between its two additions.
THEOREM LockFreeAsLocked == ASSUME Unwrapped PROVE Spec => ImplementsMarkov
<1>1. CountInv /\ CountInv' /\ [Next]_vars => [Rescales \/ Markov!Next]_(Markov!markovVars)
    <2> SUFFICES ASSUME CountInv, CountInv', [Next]_vars
                 PROVE  Rescales \/ Markov!Next \/ UNCHANGED Markov!markovVars
        OBVIOUS
    <2>1. ASSUME NEW t \in Threads, RecordStep(t)
          PROVE  Rescales \/ Markov!Next \/ UNCHANGED Markov!markovVars
        <3>1. CASE Registering(t) \/ Ignore(t) \/ StoreConcrete(t)
            BY <3>1, QuietMark, MarkStutters
        <3>2. CASE MoveSession(t)
            BY <3>2, MoveSessionMark
        <3>3. CASE AddCell(t) \/ AddTotal(t)
            BY <3>3, AddCellMark, AddTotalMark, MarkStutters
        <3>4. CASE RescaleLoad(t) \/ RescaleStore(t) \/ RescaleTotal(t)
            BY <3>4, RescaleSteps DEF CountInv
        <3> QED
            BY <2>1, <3>1, <3>2, <3>3, <3>4 DEF RecordStep
    <2>2. ASSUME NEW t \in Threads,
                 \/ PredictStep(t)
                 \/ \E s \in Sessions : BeginPredict(t, s) \/ \E p \in Patterns : BeginRecord(t, s, p)
          PROVE  UNCHANGED Markov!markovVars
        BY <2>2, QuietMark, MarkStutters
    <2>3. ASSUME NEW s \in Sessions, ResetSession(s)
          PROVE  Markov!Next
        BY <2>3, ResetSessionMark
    <2>4. CASE UNCHANGED vars
        BY <2>4 DEF vars, denseVars, registryVars, Markov!markovVars, NameOf, Modelled, Uncounted, Half
    <2> QED
        BY <2>1, <2>2, <2>3, <2>4 DEF Next
<1> QED
    BY <1>1, MarkovInit, CountsKept, PTL DEF Spec, ImplementsMarkov
================================================================================
