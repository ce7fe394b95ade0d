--------------------------- MODULE PrefetcherProofs ---------------------------
(***************************************************************************)
(* The whole engine keeps what the middleware keeps: a prefetch job is one *)
(* more caller, whose steps obey the same rules as a request's.  On top of *)
(* that the pool's books balance, Close leaves nothing running, and of all *)
(* flights of a resource one makes the response that is shared.            *)
(***************************************************************************)
EXTENDS Prefetcher, MiddlewareProofs, FiniteSetTheorems

JobPlaces == {"idle", "probe", "enter", "jobRecheck", "jobLeading", "jobFlight", "done"}

\* Jobs and requests are in places of their own, other callers do nothing.
OwnPlaces ==
    \A c \in Callers :
        /\ c \in Jobs => at[c] \in JobPlaces
        /\ c \notin Jobs => at[c] \notin JobPlaces \ {"idle", "done"}
        /\ c \notin Jobs \cup Requests => at[c] = "idle"

\* A queued job was predicted by a request, whose headers it is made from.
QueueFrom == \A i \in 1..Len(queue) : kind[queue[i].from] \in KindType

\* Every worker waits, runs one job, or has exited; Close returns after the last.
Pool ==
    /\ closing \in {"open", "waiting", "closed"}
    /\ closed = (closing # "open")
    /\ ready \in Nat /\ exited \in Nat
    /\ IsFiniteSet(Running)
    /\ ready + exited + Cardinality(Running) = Workers
    /\ closing = "closed" => exited = Workers

EInv == MInv /\ OwnPlaces /\ QueueFrom /\ Pool

LEMMA JobFacts ==
    ASSUME NEW j \in Jobs
    PROVE  j \in Callers /\ j \notin Requests
  BY PrefetcherAssumption

\* What a step of a job comes to: it moves among a job's places, and leaves a
\* request's books alone.
JobMoves(j) ==
    /\ at' = [at EXCEPT ![j] = at'[j]] /\ at'[j] \in JobPlaces \ {"idle"}
    /\ UNCHANGED <<held, learned, got>>

\* The caller's own invariant asks little of a job.
LEMMA JobInv ==
    ASSUME NEW j \in Jobs, at'[j] \in JobPlaces, Stands(j)', Flies(j)'
    PROVE  CallerInv(j)'
  BY JobFacts DEF JobPlaces, CallerInv, Holds, Given, Counted, Fresh

\* A worker's job starts from what the queue holds.
LEMMA DequeueOwn ==
    ASSUME EInv, NEW j \in Jobs, Dequeue(j)
    PROVE  /\ Steps(j) /\ Sound' /\ RestTyped' /\ QueueFrom' /\ JobMoves(j)
           /\ UNCHANGED inflightVars
  <1>1. j \in Callers /\ at[j] = "idle" /\ queue # << >> /\ ~Finished(j)
    BY JobFacts DEF Dequeue, Finished
  <1>2. PICK job : /\ job = Head(queue)
                   /\ kind' = [kind EXCEPT ![j] = [kind[job.from] EXCEPT
                        !.resource = job.target, !.variant = DefaultVariant,
                        !.route = "cached", !.directives = {}, !.speculative = TRUE]]
    BY DEF Dequeue
  <1>3. /\ Len(queue) \in Nat /\ Len(queue) >= 1
        /\ job = queue[1] /\ job \in [from : Callers, target : Predictable]
        /\ queue' \in Seq([from : Callers, target : Predictable])
        /\ Len(queue') = Len(queue) - 1
        /\ \A i \in 1..Len(queue') : queue'[i] = queue[i + 1] /\ queue'[i].from \in Callers
    <2> DEFINE Job == [from : Callers, target : Predictable]
    <2>1. queue \in Seq(Job) /\ queue' = Tail(queue) /\ job = Head(queue) /\ queue # << >>
      BY <1>1, <1>2 DEF Dequeue, EInv, MInv, RestTyped
    <2> HIDE DEF Job
    <2>2. /\ Len(queue) \in Nat /\ Len(queue) >= 1 /\ job = queue[1] /\ job \in Job
          /\ queue' \in Seq(Job) /\ Len(queue') = Len(queue) - 1
          /\ \A i \in 1..Len(queue') : queue'[i] = queue[i + 1] /\ queue'[i] \in Job
      BY <2>1
    <2> QED
      BY <2>2 DEF Job
  <1>4. kind[job.from] \in KindType
    BY <1>3 DEF EInv, QueueFrom
  <1>5. kind'[j] \in KindType /\ kind' = [kind EXCEPT ![j] = kind'[j]]
    <2>1. job.target \in Resources
      BY <1>3, MiddlewareAssumption
    <2>2. [kind[job.from] EXCEPT !.resource = job.target, !.variant = DefaultVariant,
             !.route = "cached", !.directives = {}, !.speculative = TRUE] \in KindType
      BY <1>4, <2>1, PrefetcherAssumption DEF KindType
    <2> QED
      BY <1>1, <1>2, <2>2 DEF EInv, MInv, Sound
  <1>6. /\ at' = [at EXCEPT ![j] = "probe"] /\ at'[j] = "probe"
        /\ UNCHANGED <<held, made, stored, runs, learned, todo, closed, got>>
        /\ UNCHANGED inflightVars
    BY <1>1 DEF Dequeue, Goto, storeVars, EInv, MInv, Sound
  <1>7. stage[j] = "outside" /\ joined[j] = None /\ result[j] = None
    BY <1>1 DEF EInv, MInv, CallerInv, Stands, Apart, IInv, HoldsLeader
  <1>8. OnlyOf(j) /\ Keeps(j) /\ Stores(j)
    BY <1>1, <1>5, <1>6 DEF OnlyOf, Keeps, Stores, inflightVars, EInv, MInv, Sound
  <1>9. CallerInv(j)'
    <2>1. Stands(j)'
      BY <1>6, <1>7 DEF Stands, Apart, Leading, inflightVars
    <2>2. Flies(j)'
      BY <1>1, <1>6, <1>7, InflightAssumption DEF Flies, inflightVars
    <2> QED
      BY <1>6, <2>1, <2>2, JobInv DEF JobPlaces
  <1>10. Sound'
    BY <1>1, <1>5, <1>6 DEF EInv, MInv, Sound, Places
  <1>11. RestTyped'
    BY <1>1, <1>3, <1>6, MiddlewareAssumption DEF EInv, MInv, RestTyped
  <1>12. QueueFrom'
    <2>1. ASSUME NEW i \in 1..Len(queue') PROVE kind'[queue'[i].from] \in KindType
      <3>1. i + 1 \in 1..Len(queue) /\ queue'[i] = queue[i + 1]
        BY <1>3, <2>1
      <3> DEFINE from == queue'[i].from
      <3>2. kind[from] \in KindType
        BY <3>1 DEF EInv, QueueFrom
      <3>3. from \in Callers
        BY <1>3, <2>1
      <3> QED
        BY <1>1, <1>5, <3>2, <3>3 DEF EInv, MInv, Sound
    <2> QED
      BY <2>1 DEF QueueFrom
  <1> QED
    BY <1>6, <1>8, <1>9, <1>10, <1>11, <1>12 DEF Steps, JobMoves, JobPlaces

--------------------------------------------------------------------------------
\* The types, after a step of a job that is under way.
LEMMA JobRest ==
    ASSUME EInv, NEW j \in Jobs, at[j] # "idle", JobMoves(j),
           UNCHANGED <<kind, todo, queue, closed>>,
           stored' = stored \/ Put(PrimaryKey(j), j),
           \/ made' = made /\ runs' = runs
           \/ Ran(j) /\ \E r \in Responses : made' = [made EXCEPT ![j] = r]
    PROVE  Sound' /\ RestTyped' /\ QueueFrom'
  <1>1. j \in Callers /\ MInv
    BY JobFacts DEF EInv
  <1>2. stored' \in [StoreKeys -> SUBSET Callers]
    BY <1>1 DEF Put, MInv, Sound
  <1>3. Sound'
    BY <1>1, <1>2 DEF JobMoves, JobPlaces, Places, MInv, Sound
  <1>4. made' \in [Callers -> Responses \cup {None}] /\ runs' \in [Callers -> Nat]
    <2>1. made' \in [Callers -> Responses \cup {None}]
      BY <1>1 DEF MInv, RestTyped
    <2>2. runs \in [Callers -> Nat] /\ [runs EXCEPT ![j] = @ + 1] \in [Callers -> Nat]
      BY <1>1 DEF MInv, RestTyped
    <2> QED
      BY <2>1, <2>2 DEF Ran
  <1>5. RestTyped'
    BY <1>1, <1>4 DEF JobMoves, MInv, RestTyped
  <1>6. QueueFrom'
    BY DEF EInv, QueueFrom
  <1> QED
    BY <1>3, <1>5, <1>6

\* A job that finds the page cached, or whose flight is over.
LEMMA ProbeOwn ==
    ASSUME EInv, NEW j \in Jobs, Probe(j) \/ JobEnds(j)
    PROVE  /\ Steps(j) /\ Sound' /\ RestTyped' /\ QueueFrom' /\ JobMoves(j)
           /\ UNCHANGED inflightVars
  <1>1. j \in Callers /\ MInv
    BY JobFacts DEF EInv
  <1>2. /\ \/ at[j] = "probe" /\ at'[j] \in {"enter", "done"}
           \/ at[j] = "jobFlight" /\ at'[j] = "done" /\ stage[j] = "left"
        /\ at' = [at EXCEPT ![j] = at'[j]]
        /\ UNCHANGED <<kind, held, made, stored, runs, learned, todo, queue, closed, got>>
        /\ UNCHANGED inflightVars
    <2>1. CASE Probe(j)
      BY <1>1, <2>1 DEF Probe, Finish, Move, Goto, storeVars, MInv, Sound
    <2>2. CASE JobEnds(j)
      BY <1>1, <2>2 DEF JobEnds, Finish, Goto, storeVars, MInv, Sound
    <2> QED
      BY <2>1, <2>2
  <1>3. JobMoves(j)
    BY <1>2 DEF JobMoves, JobPlaces
  <1>4. Sound' /\ RestTyped' /\ QueueFrom'
    BY <1>2, <1>3, JobRest
  <1>5. OnlyOf(j) /\ Keeps(j) /\ Stores(j)
    BY <1>1, <1>2 DEF OnlyOf, Keeps, Stores, Finished, inflightVars, MInv, Sound
  <1>6. Stands(j)'
    BY <1>1, <1>2, JobFacts DEF MInv, CallerInv, Stands, Apart, Leading, inflightVars
  <1>7. Flies(j)'
    BY <1>1, <1>2, <1>5, JobFacts, FitKept DEF MInv, CallerInv, Flies, inflightVars
  <1> QED
    BY <1>2, <1>3, <1>4, <1>5, <1>6, <1>7, JobInv DEF Steps, JobMoves

\* A job leads a flight of the key everybody shares, or waits for one.
LEMMA EnterOwn ==
    ASSUME EInv, NEW j \in Jobs, Enter(j)
    PROVE  /\ Steps(j) /\ Sound' /\ RestTyped' /\ QueueFrom' /\ JobMoves(j)
           /\ [InflightNext]_inflightVars
  <1> DEFINE flight == <<kind[j].resource, Shared>>
  <1>1. j \in Callers /\ MInv /\ at[j] = "enter" /\ j \notin Requests
    BY JobFacts DEF EInv, Enter
  <1>2. flight \in Keys /\ (Lead(j, flight) \/ Join(j, flight))
    BY <1>1, KindFields, MiddlewareAssumption DEF Enter, MInv, Sound, FlightKeys
  <1>3. stage[j] = "outside" /\ result[j] = None
    BY <1>1 DEF MInv, CallerInv, Stands, Apart
  <1>4. /\ UNCHANGED <<kind, held, made, stored, runs, learned, todo, queue, closed, got, result>>
        /\ at' = [at EXCEPT ![j] = at'[j]] /\ stage' = [stage EXCEPT ![j] = stage'[j]]
        /\ key' = [key EXCEPT ![j] = flight] /\ joined' = [joined EXCEPT ![j] = joined'[j]]
        /\ \/ at'[j] = "jobRecheck" /\ stage'[j] = "running"
           \/ at'[j] = "jobFlight" /\ stage'[j] = "waiting"
    BY <1>1 DEF Enter, Move, Goto, Lead, Join, storeVars, MInv, Sound, IInv, InflightTypeOK
  <1>5. JobMoves(j)
    BY <1>4 DEF JobMoves, JobPlaces
  <1>6. Sound' /\ RestTyped' /\ QueueFrom'
    BY <1>1, <1>4, <1>5, JobRest
  <1>7. OnlyOf(j) /\ Keeps(j) /\ Stores(j)
    BY <1>1, <1>4 DEF OnlyOf, Keeps, Stores, Finished, MInv, Sound, IInv, InflightTypeOK
  <1>8. Stands(j)'
    BY <1>1, <1>3, <1>4 DEF Stands, Apart, Leading, MInv, IInv, InflightTypeOK
  <1>9. Flies(j)'
    BY <1>3, <1>4, InflightAssumption DEF Flies
  <1> QED
    BY <1>1, <1>2, <1>5, <1>6, <1>7, <1>8, <1>9, JobInv DEF Steps, JobMoves, InflightNext

\* A job whose fn returns what may be shared, or nothing.
LEMMA JobReturnOwn ==
    ASSUME EInv, NEW j \in Jobs, at[j] \in {"jobRecheck", "jobLeading"},
           at' = [at EXCEPT ![j] = "jobFlight"],
           UNCHANGED <<kind, held, learned, got>>,
           NEW o \in Outcomes, FnReturns(j, o),
           \/ made' = made /\ runs' = runs
           \/ at[j] = "jobLeading" /\ Ran(j) /\ \E r : made' = [made EXCEPT ![j] = r],
           Stores(j),
           o \in Callers => Fit(o, kind[j].resource)'
    PROVE  Steps(j) /\ JobMoves(j) /\ InflightNext
  <1>1. j \in Callers /\ j \notin Requests /\ MInv /\ stage[j] = "running"
        /\ joined[j] = j /\ key[j][2] = Shared /\ at'[j] = "jobFlight"
    <2>1. j \in Callers /\ j \notin Requests /\ MInv /\ stage[j] = "running"
      BY JobFacts DEF EInv, FnReturns
    <2>2. joined[j] = j
      BY <2>1 DEF MInv, IInv, HoldsLeader, Registered
    <2> QED
      BY <2>1, <2>2, KeyMeaning, InflightAssumption DEF MInv, Sound
  <1>2. /\ stage' = [stage EXCEPT ![j] = "ran"] /\ stage'[j] = "ran"
        /\ result' = [result EXCEPT ![j] = o] /\ result'[j] = o
        /\ key' = key /\ joined' = joined
    BY <1>1 DEF FnReturns, MInv, IInv, InflightTypeOK
  <1>3. OnlyOf(j) /\ Keeps(j)
    BY <1>1, <1>2 DEF OnlyOf, Keeps, Finished, Ran, MInv, Sound, RestTyped, IInv, InflightTypeOK
  <1>4. Stands(j)'
    BY <1>1, <1>2 DEF MInv, CallerInv, Stands, Apart, Leading
  <1>5. Flies(j)'
    BY <1>1, <1>2 DEF Flies
  <1>6. JobMoves(j)
    BY <1>1 DEF JobMoves, JobPlaces
  <1>7. InflightNext
    BY <1>1 DEF InflightNext
  <1> QED
    BY <1>1, <1>3, <1>4, <1>5, <1>6, <1>7, JobInv DEF Steps, JobPlaces

\* The job's double-check of the cache, inside the flight.
LEMMA RecheckOwn ==
    ASSUME EInv, NEW j \in Jobs, Recheck(j)
    PROVE  /\ Steps(j) /\ Sound' /\ RestTyped' /\ QueueFrom' /\ JobMoves(j)
           /\ [InflightNext]_inflightVars
  <1>1. j \in Callers /\ MInv /\ at[j] = "jobRecheck" /\ ~Finished(j)
    BY JobFacts DEF EInv, Recheck, Finished
  <1>2. UNCHANGED <<kind, held, made, stored, runs, learned, todo, queue, closed, got>>
    BY DEF Recheck, Move, storeVars
  <1>3. PICK e \in Found(PrimaryKey(j)) :
          \/ e # None /\ FnReturns(j, e) /\ Goto(j, "jobFlight")
          \/ e = None /\ UNCHANGED inflightVars /\ Goto(j, "jobLeading")
    BY DEF Recheck, Move
  <1>4. CASE e # None
    <2>1. Fit(e, kind[j].resource) /\ e \in Callers /\ e \in Outcomes
      BY <1>1, <1>3, <1>4, FoundFit, MiddlewareAssumption DEF Fit
    <2>2. at' = [at EXCEPT ![j] = "jobFlight"] /\ FnReturns(j, e) /\ joined' = joined
      BY <1>3, <1>4 DEF Goto, FnReturns
    <2>3. Finished(e)'
      BY <1>1, <2>1, <2>2 DEF Fit, Finished, MInv, Sound
    <2>4. Fit(e, kind[j].resource)'
      BY <1>2, <2>1, <2>3 DEF Fit, Declassified
    <2>5. Stores(j)
      BY <1>2 DEF Stores
    <2>6. Steps(j) /\ JobMoves(j) /\ InflightNext
      BY <1>1, <1>2, <2>1, <2>2, <2>4, <2>5, JobReturnOwn
    <2> QED
      BY <1>1, <1>2, <2>6, JobRest
  <1>5. CASE e = None
    <2>1. /\ at' = [at EXCEPT ![j] = "jobLeading"] /\ at'[j] = "jobLeading"
          /\ UNCHANGED inflightVars
      BY <1>1, <1>3, <1>5 DEF Goto, MInv, Sound
    <2>2. JobMoves(j)
      BY <1>2, <2>1 DEF JobMoves, JobPlaces
    <2>3. OnlyOf(j) /\ Keeps(j) /\ Stores(j)
      BY <1>1, <1>2, <2>1 DEF OnlyOf, Keeps, Stores, inflightVars, MInv, Sound
    <2>4. Stands(j)'
      BY <1>1, <1>2, <2>1, JobFacts DEF MInv, CallerInv, Stands, Apart, Leading, inflightVars
    <2>5. Flies(j)'
      BY <1>1, <1>2, <2>1, <2>3, JobFacts, FitKept DEF MInv, CallerInv, Flies, inflightVars
    <2> QED
      BY <1>1, <1>2, <2>1, <2>2, <2>3, <2>4, <2>5, JobRest, JobInv DEF Steps, JobMoves
  <1> QED
    BY <1>4, <1>5

\* What execute stores is fit for everybody, made with a user's credentials or not.
LEMMA WarmOwn ==
    ASSUME EInv, NEW j \in Jobs, NEW r \in Responses, Warm(j, r)
    PROVE  /\ Steps(j) /\ Sound' /\ RestTyped' /\ QueueFrom' /\ JobMoves(j)
           /\ [InflightNext]_inflightVars
  <1>1. j \in Callers /\ MInv /\ at[j] = "jobLeading" /\ {j, NoEntry} \subseteq Outcomes
        /\ NoEntry \notin Callers
    BY JobFacts, MiddlewareAssumption DEF EInv, Warm
  <1>2. /\ at' = [at EXCEPT ![j] = "jobFlight"] /\ Ran(j) /\ made' = [made EXCEPT ![j] = r]
        /\ at'[j] = "jobFlight" /\ made'[j] = r
        /\ UNCHANGED <<kind, held, learned, todo, queue, closed, got>>
    BY <1>1 DEF Warm, Move, Goto, MInv, Sound, RestTyped
  <1>3. CASE CanWarm(j, r) /\ Put(PrimaryKey(j), j) /\ FnReturns(j, j)
    <2>1. Fit(j, kind[j].resource)'
      BY <1>1, <1>2, <1>3 DEF CanWarm, Fit, Finished, Declassified
    <2>2. Stores(j)
      BY <1>1, <1>2, <1>3, <2>1, PutStores
    <2>3. Steps(j) /\ JobMoves(j) /\ InflightNext
      BY <1>1, <1>2, <1>3, <2>1, <2>2, JobReturnOwn
    <2> QED
      BY <1>1, <1>2, <1>3, <2>3, JobRest
  <1>4. CASE UNCHANGED stored /\ FnReturns(j, NoEntry)
    <2>1. Steps(j) /\ JobMoves(j) /\ InflightNext
      BY <1>1, <1>2, <1>4, JobReturnOwn DEF Stores
    <2> QED
      BY <1>1, <1>2, <1>4, <2>1, JobRest
  <1> QED
    BY <1>3, <1>4 DEF Warm

\* Any step of a job.
LEMMA JobOwn ==
    ASSUME EInv, NEW j \in Jobs, Dequeue(j) \/ JobStep(j)
    PROVE  /\ Steps(j) /\ Sound' /\ RestTyped' /\ QueueFrom'
           /\ at' = [at EXCEPT ![j] = at'[j]] /\ at'[j] \in JobPlaces
           /\ [InflightNext]_inflightVars
  <1>1. CASE JobInFlight(j)
    <2>1. j \in Callers /\ MInv /\ UNCHANGED requestVars
          /\ (Unregister(j) \/ Close(j) \/ Wake(j))
      BY <1>1, JobFacts DEF EInv, JobInFlight
    <2>2. Sound' /\ RestTyped' /\ QueueFrom'
      BY <2>1 DEF requestVars, EInv, MInv, Sound, RestTyped, QueueFrom
    <2>3. at' = [at EXCEPT ![j] = at'[j]] /\ at'[j] \in JobPlaces
      BY <2>1 DEF requestVars, EInv, MInv, Sound, OwnPlaces
    <2> QED
      BY <2>1, <2>2, <2>3, InFlightOwn DEF InflightNext
  <1>2. CASE ~JobInFlight(j)
    BY <1>2, DequeueOwn, ProbeOwn, EnterOwn, RecheckOwn, WarmOwn DEF JobStep, JobMoves
  <1> QED
    BY <1>1, <1>2

--------------------------------------------------------------------------------
\* The pool.  A job takes a ready worker when it starts and gives it back at its end.
LEMMA JobPool ==
    ASSUME EInv, NEW j \in Jobs, Dequeue(j) \/ JobStep(j)
    PROVE  /\ Pool' /\ UNCHANGED <<exited, closing>>
           /\ at'[j] # "idle"
  <1>1. j \in Callers /\ MInv /\ Pool /\ at \in [Callers -> Places]
        /\ Cardinality(Running) \in Nat /\ IsFiniteSet(Running)
    BY JobFacts, FS_CardinalityType DEF EInv, Pool, MInv, Sound
  <1>2. UNCHANGED <<exited, closing, closed>>
    BY DEF Dequeue, JobStep, Probe, Enter, Recheck, Warm, JobInFlight, JobEnds, Finish, Move,
       requestVars, poolVars
  <1>3. /\ at' = [at EXCEPT ![j] = at'[j]]
        /\ \/ at[j] = "idle" /\ at'[j] = "probe" /\ ready > 0 /\ ready' = ready - 1
           \/ at[j] \in {"probe", "jobFlight"} /\ at'[j] = "done" /\ ready' = ready + 1
           \/ at[j] \notin {"idle", "done"} /\ at'[j] \notin {"idle", "done"} /\ ready' = ready
    <2>1. CASE Dequeue(j)
      BY <1>1, <2>1 DEF Dequeue, Goto
    <2>2. CASE Probe(j) \/ JobEnds(j)
      BY <1>1, <2>2 DEF Probe, JobEnds, Finish, Move, Goto
    <2>3. CASE Enter(j) \/ Recheck(j) \/ \E r \in Responses : Warm(j, r)
      BY <1>1, <2>3 DEF Enter, Recheck, Warm, Move, Goto, poolVars
    <2>4. CASE JobInFlight(j)
      <3>1. stage[j] \notin {"outside", "left"}
        BY <2>4 DEF JobInFlight, Unregister, Close, Wake, Landed
      <3>2. at[j] \notin {"idle", "done"}
        BY <1>1, <3>1 DEF MInv, CallerInv, Stands, Apart
      <3> QED
        BY <1>1, <2>4, <3>2 DEF JobInFlight, requestVars, poolVars
    <2> QED
      BY <2>1, <2>2, <2>3, <2>4 DEF JobStep
  <1>4. /\ IsFiniteSet(Running')
        /\ ready' \in Nat /\ ready' + exited + Cardinality(Running') = Workers
    <2>0. ready \in Nat /\ exited \in Nat /\ ready + exited + Cardinality(Running) = Workers
      BY <1>1 DEF Pool
    <2>1. CASE at[j] = "idle" /\ at'[j] = "probe" /\ ready > 0 /\ ready' = ready - 1
      <3>1. Running' = Running \cup {j} /\ j \notin Running
        BY <1>1, <1>3, <2>1, JobFacts DEF Running
      <3>2. IsFiniteSet(Running') /\ Cardinality(Running') = Cardinality(Running) + 1
        BY <1>1, <3>1, FS_AddElement
      <3> QED
        BY <1>1, <2>0, <2>1, <3>2
    <2>2. CASE at[j] \in {"probe", "jobFlight"} /\ at'[j] = "done" /\ ready' = ready + 1
      <3>1. Running' = Running \ {j} /\ j \in Running
        BY <1>1, <1>3, <2>2, JobFacts DEF Running
      <3>2. IsFiniteSet(Running') /\ Cardinality(Running') = Cardinality(Running) - 1
        BY <1>1, <3>1, FS_RemoveElement
      <3> QED
        BY <1>1, <2>0, <2>2, <3>2
    <2>3. CASE /\ at[j] \notin {"idle", "done"} /\ at'[j] \notin {"idle", "done"}
               /\ ready' = ready
      <3>1. Running' = Running
        BY <1>1, <1>3, <2>3, JobFacts DEF Running
      <3> QED
        BY <1>1, <2>0, <2>3, <3>1
    <2> QED
      BY <1>3, <2>1, <2>2, <2>3
  <1>5. Pool'
    BY <1>1, <1>2, <1>4 DEF Pool
  <1> QED
    BY <1>2, <1>3, <1>5

\* A request stays in its own places, and queues itself with its predictions.
LEMMA RequestPlaces ==
    ASSUME EInv, NEW c \in Requests,
           RequestStep(c) \/ ClientGone(c) \/ \E k \in Kinds : Arrive(c, k)
    PROVE  /\ at'[c] \notin JobPlaces \ {"idle", "done"}
           /\ kind' = kind \/ \E k \in Kinds : kind' = [kind EXCEPT ![c] = k]
           /\ queue' = queue \/ \E p : /\ queue' = Append(queue, [from |-> c, target |-> p])
                                       /\ kind[c] \in KindType
           /\ closed' = closed
  <1>1. c \in Callers /\ c \notin Jobs /\ at \in [Callers -> Places]
        /\ at[c] \notin JobPlaces \ {"idle", "done"}
    BY MiddlewareAssumption, PrefetcherAssumption DEF EInv, MInv, Sound, OwnPlaces
  <1> USE <1>1 DEF JobPlaces
  <1>2. CASE InFlight(c) \/ ClientGone(c)
    BY <1>2 DEF InFlight, ClientGone, requestVars
  <1>3. CASE \E k \in Kinds : Arrive(c, k)
    BY <1>3 DEF Arrive, Goto
  <1>4. CASE \/ LookupPrimary(c) \/ LookupVariant(c) \/ MissAlone(c) \/ MissCoalesced(c)
             \/ RecheckPrimary(c) \/ RecheckVariant(c) \/ LeadWithCached(c)
             \/ LeadStoresVariant(c) \/ LeadPanics(c) \/ LandAlone(c)
             \/ \E r \in Responses : LeadUpstream(c, r)
    <2>1. \E p \in {"lookupVariant", "hit", "missed", "direct", "recheck", "recheckVariant",
                    "cached", "leading", "leadVariant", "flight"} : Move(c, p)
      BY <1>4 DEF LookupPrimary, LookupVariant, MissAlone, MissCoalesced, RecheckPrimary,
         RecheckVariant, LeadWithCached, LeadStoresVariant, LeadPanics, LandAlone, LeadUpstream,
         AfterPrimary, Verdict
    <2> QED
      BY <2>1 DEF Move, Goto
  <1>5. CASE \/ PassThrough(c) \/ Hit(c)
             \/ LandStreamed(c) \/ LandShared(c) \/ LandOwn(c) \/ LandPanicked(c)
             \/ DirectStoresVariant(c) \/ DirectPanics(c)
             \/ \E r \in Responses : DirectUpstream(c, r)
    <2>1. /\ \E p \in {"done", "submitting", "directVariant"} : Goto(c, p)
          /\ UNCHANGED <<kind, queue, closed>>
      BY <1>5 DEF PassThrough, Hit, LandStreamed, LandShared, LandOwn, LandPanicked,
         DirectStoresVariant, DirectPanics, DirectUpstream, Answer, AnswerStreamed, Abort, Move
    <2> QED
      BY <2>1 DEF Goto
  <1>6. CASE Submit(c)
    <2>1. kind[c] \in KindType
      BY <1>6 DEF Submit, EInv, MInv, Sound
    <2> QED
      BY <1>6, <2>1 DEF Submit, Goto
  <1> QED
    BY <1>2, <1>3, <1>4, <1>5, <1>6 DEF RequestStep

--------------------------------------------------------------------------------
\* Steps of the workers and of Close that no caller notices.
LEMMA Unnoticed ==
    ASSUME EInv, UNCHANGED inflightVars,
           UNCHANGED <<at, kind, held, made, runs, learned, todo, queue, got>>,
           closed' \in BOOLEAN, stored' \in [StoreKeys -> SUBSET Callers], StoredFit'
    PROVE  MInv' /\ OwnPlaces' /\ QueueFrom'
  <1>1. IInv'
    BY InvStep DEF EInv, MInv
  <1>2. Sound' /\ RestTyped'
    BY DEF EInv, MInv, Sound, RestTyped
  <1>3. ASSUME NEW c \in Callers PROVE CallerInv(c)'
    <2>1. \A e, res : Fit(e, res) => Fit(e, res)'
      BY DEF Fit, Finished, Declassified, inflightVars
    <2>2. Stands(c)' /\ Counted(c)' /\ Fresh(c)'
      BY <1>3 DEF EInv, MInv, CallerInv, Stands, FlightKey, CanCoalesce, ExplicitlyPublic,
         Counted, HandlerRan, Fresh, inflightVars
    <2>3. Holds(c)'
      BY <1>3, <2>1 DEF EInv, MInv, CallerInv, Holds, Servable, MatchesVary, ExplicitlyPublic
    <2>4. Flies(c)' /\ Given(c)'
      BY <1>3, <2>1 DEF EInv, MInv, CallerInv, Flies, Given, Declassified, VariantFor, inflightVars
    <2> QED
      BY <2>2, <2>3, <2>4 DEF CallerInv
  <1>4. OwnPlaces' /\ QueueFrom'
    BY DEF EInv, OwnPlaces, QueueFrom
  <1> QED
    BY <1>1, <1>2, <1>3, <1>4 DEF MInv

LEMMA EInvInit == Init => EInv
  <1> SUFFICES ASSUME Init PROVE EInv
    OBVIOUS
  <1>1. MInv
    BY MInvInit DEF Init
  <1>2. OwnPlaces
    BY DEF Init, MiddlewareInit, OwnPlaces, JobPlaces
  <1>3. QueueFrom
    BY DEF Init, MiddlewareInit, QueueFrom
  <1>4. Pool
    <2>1. Running = {}
      BY PrefetcherAssumption DEF Init, MiddlewareInit, Running
    <2>2. IsFiniteSet(Running) /\ Cardinality(Running) = 0
      BY <2>1, FS_EmptySet
    <2>3. closed = (closing # "open")
      BY DEF Init, MiddlewareInit
    <2> QED
      BY <2>2, <2>3, PrefetcherAssumption DEF Init, Pool
  <1> QED
    BY <1>1, <1>2, <1>3, <1>4 DEF EInv

LEMMA RequestKeeps ==
    ASSUME EInv, NEW c \in Requests, UNCHANGED poolVars,
           RequestStep(c) \/ ClientGone(c) \/ \E k \in Kinds : Arrive(c, k)
    PROVE  EInv'
  <1>1. c \in Callers /\ c \notin Jobs /\ MInv /\ at \in [Callers -> Places]
    BY MiddlewareAssumption, PrefetcherAssumption DEF EInv, MInv, Sound
  <1>2. MInv' /\ Steps(c)
    BY <1>1, MInvStep, RequestOwn DEF MiddlewareNext
  <1>3. \A d \in Callers \ {c} : at'[d] = at[d]
    BY <1>2 DEF Steps, OnlyOf
  <1>4. OwnPlaces'
    BY <1>1, <1>3, RequestPlaces DEF EInv, OwnPlaces
  <1>5. \A d : kind[d] \in KindType /\ d \in Callers => kind'[d] \in KindType
    BY <1>1, RequestPlaces, MiddlewareAssumption DEF MInv, Sound
  <1>6. QueueFrom'
    <2> DEFINE Job == [from : Callers, target : Predictable]
    <2>1. queue \in Seq(Job) /\ queue' \in Seq(Job)
      BY <1>1, <1>2 DEF MInv, RestTyped
    <2>2. ASSUME NEW i \in 1..Len(queue') PROVE kind'[queue'[i].from] \in KindType
      <3>1. queue'[i].from \in Callers
        <4>1. queue'[i] \in Job
          <5> HIDE DEF Job
          <5> QED
            BY <2>1, <2>2
        <4> QED
          BY <4>1
      <3>2. CASE queue' = queue
        BY <1>5, <2>2, <3>1, <3>2 DEF EInv, QueueFrom
      <3>3. ASSUME NEW p, queue' = Append(queue, [from |-> c, target |-> p]), kind[c] \in KindType
            PROVE  kind'[queue'[i].from] \in KindType
        <4>1. Len(queue) \in Nat /\ i \in 1..(Len(queue) + 1)
              /\ queue'[i] = IF i = Len(queue) + 1 THEN [from |-> c, target |-> p] ELSE queue[i]
          <5> HIDE DEF Job
          <5> QED
            BY <2>1, <2>2, <3>3
        <4>2. CASE i = Len(queue) + 1
          BY <1>1, <1>5, <3>3, <4>1, <4>2
        <4>3. CASE i # Len(queue) + 1
          <5>1. i \in 1..Len(queue) /\ queue'[i] = queue[i]
            BY <4>1, <4>3
          <5>2. kind[queue[i].from] \in KindType
            BY <5>1 DEF EInv, QueueFrom
          <5> QED
            BY <1>5, <3>1, <5>1, <5>2
        <4> QED
          BY <4>2, <4>3
      <3> QED
        BY <3>2, <3>3, RequestPlaces
    <2> QED
      BY <2>2 DEF QueueFrom
  <1>7. Pool'
    <2>1. Running' = Running
      BY <1>1, <1>3, JobFacts DEF Running
    <2>2. UNCHANGED <<ready, exited, closing, closed>>
      BY RequestPlaces DEF poolVars
    <2> QED
      BY <2>1, <2>2 DEF EInv, Pool
  <1> QED
    BY <1>2, <1>4, <1>6, <1>7 DEF EInv

LEMMA JobKeeps ==
    ASSUME EInv, NEW j \in Jobs, Dequeue(j) \/ JobStep(j)
    PROVE  EInv'
  <1>1. j \in Callers /\ MInv
    BY JobFacts DEF EInv
  <1>2. StoredFit' /\ \A d \in Callers : CallerInv(d)'
    BY <1>1, JobOwn, Framed
  <1>3. MInv'
    BY <1>1, <1>2, JobOwn, InvStep DEF MInv
  <1>4. OwnPlaces'
    BY <1>1, JobOwn, JobFacts DEF EInv, OwnPlaces, MInv, Sound
  <1> QED
    BY <1>3, <1>4, JobOwn, JobPool DEF EInv

LEMMA PoolKeeps ==
    ASSUME EInv, WorkerExits \/ CloseBegins \/ CloseEnds \/ UNCHANGED vars
    PROVE  EInv'
  <1>1. MInv /\ Pool /\ Running' = Running /\ Cardinality(Running) \in Nat /\ UNCHANGED at
    <2>1. UNCHANGED at
      BY DEF WorkerExits, CloseBegins, CloseEnds, vars, mwVars, requestVars
    <2> QED
      BY <2>1, FS_CardinalityType DEF EInv, Pool, Running
  <1>2. UNCHANGED inflightVars
        /\ UNCHANGED <<at, kind, held, made, runs, learned, todo, queue, got>>
    <2>1. CASE WorkerExits \/ UNCHANGED vars
      BY <2>1 DEF WorkerExits, vars, mwVars, requestVars
    <2>2. CASE CloseBegins \/ CloseEnds
      BY <2>2 DEF CloseBegins, CloseEnds, storeVars
    <2> QED
      BY <2>1, <2>2
  <1>3. stored' = stored \/ stored' = [k \in StoreKeys |-> {}]
    <2>1. CASE WorkerExits \/ UNCHANGED vars
      BY <2>1 DEF WorkerExits, vars, mwVars, requestVars
    <2>2. CASE CloseBegins \/ CloseEnds
      BY <2>2 DEF CloseBegins, CloseEnds, storeVars
    <2> QED
      BY <2>1, <2>2
  <1>4. closed' \in BOOLEAN
    BY <1>1 DEF WorkerExits, CloseBegins, CloseEnds, vars, mwVars, requestVars, MInv, RestTyped
  <1>5. StoredFit' /\ stored' \in [StoreKeys -> SUBSET Callers]
    <2>1. CASE stored' = stored
      BY <1>1, <1>2, <2>1
         DEF MInv, Sound, StoredFit, Fit, Finished, Declassified, inflightVars
    <2>2. CASE stored' = [k \in StoreKeys |-> {}]
      BY <2>2 DEF StoredFit
    <2> QED
      BY <1>3, <2>1, <2>2
  <1>6. Pool'
    <2> USE <1>1, PrefetcherAssumption DEF Pool
    <2>1. CASE WorkerExits
      <3>1. /\ closed /\ ready > 0 /\ ready' = ready - 1 /\ exited' = exited + 1
            /\ UNCHANGED <<closing, closed>>
        BY <2>1 DEF WorkerExits, mwVars, requestVars
      <3>2. closing # "closed"
        BY <3>1
      <3>3. ready' \in Nat /\ exited' \in Nat /\ ready' + exited' + Cardinality(Running) = Workers
        BY <3>1
      <3>4. closed' = (closing' # "open") /\ closing' = closing
        BY <3>1
      <3> QED
        BY <3>2, <3>3, <3>4
    <2>2. CASE CloseBegins
      BY <2>2 DEF CloseBegins
    <2>3. CASE CloseEnds
      BY <2>3 DEF CloseEnds
    <2>4. CASE UNCHANGED vars
      BY <2>4 DEF vars, mwVars, requestVars, poolVars
    <2> QED
      BY <2>1, <2>2, <2>3, <2>4
  <1> QED
    BY <1>2, <1>4, <1>5, <1>6, Unnoticed DEF EInv

LEMMA EInvStep ==
    ASSUME EInv, [Next]_vars
    PROVE  EInv'
  BY RequestKeeps, JobKeeps, PoolKeeps DEF Next, MiddlewareNext

THEOREM EInvariance == Spec => []EInv
  BY EInvInit, EInvStep, PTL DEF Spec

--------------------------------------------------------------------------------
\* Jobs, like requests, use the coalescer only as Do lets them: what is proved of
\* InflightSpec holds of the requests and the jobs that meet in one flight.
LEMMA EngineComposition == Spec => InflightSpec
  <1>1. ASSUME EInv, [Next]_vars PROVE [InflightNext]_inflightVars
    <2>1. CASE MiddlewareNext
      BY <1>1, <2>1, Step DEF EInv, MInv
    <2>2. ASSUME NEW j \in Jobs, Dequeue(j) \/ JobStep(j) PROVE [InflightNext]_inflightVars
      BY <1>1, <2>2, JobOwn
    <2>3. CASE WorkerExits \/ CloseBegins \/ CloseEnds \/ UNCHANGED vars
      BY <2>3 DEF WorkerExits, CloseBegins, CloseEnds, vars, mwVars
    <2> QED
      BY <1>1, <2>1, <2>2, <2>3 DEF Next
  <1>2. Init => InflightInit
    BY DEF Init, MiddlewareInit
  <1> QED
    BY <1>1, <1>2, EInvariance, PTL DEF Spec, InflightSpec

\* Every variable keeps its type; every worker waits, runs one job, or has exited.
THEOREM EngineTypes == Spec => []PrefetcherTypeOK
  <1>1. ASSUME EInv PROVE PrefetcherTypeOK
    <2>1. MiddlewareTypeOK
      BY <1>1, TypesFollow DEF EInv
    <2>2. Cardinality(Running) \in Nat
      BY <1>1, FS_CardinalityType DEF EInv, Pool
    <2>3. ready \in 0..Workers /\ exited \in 0..Workers
      BY <1>1, <2>2, PrefetcherAssumption DEF EInv, Pool
    <2> QED
      BY <1>1, <2>1, <2>3 DEF EInv, Pool, PrefetcherTypeOK
  <1> QED
    BY <1>1, EInvariance, PTL

\* Once Close has returned no job runs, holds a flight or may store: the workers have
\* exited, and the pool's books leave none for a job.
THEOREM CloseLeavesQuiet == Spec => []QuietAfterClose
  <1>1. ASSUME EInv, closing = "closed", NEW j \in Jobs
        PROVE  at[j] \in {"idle", "done"} /\ stage[j] \in {"outside", "left"}
    <2>1. IsFiniteSet(Running) /\ Cardinality(Running) \in Nat /\ ready \in Nat
          /\ exited = Workers /\ ready + exited + Cardinality(Running) = Workers
      BY <1>1, FS_CardinalityType DEF EInv, Pool
    <2>2. Cardinality(Running) = 0
      BY <2>1, PrefetcherAssumption
    <2>3. Running = {}
      BY <2>1, <2>2, FS_EmptySet
    <2>4. at[j] \in {"idle", "done"}
      BY <2>3 DEF Running
    <2> QED
      BY <1>1, <2>4, JobFacts DEF EInv, MInv, CallerInv, Stands, Apart
  <1>2. EInv => QuietAfterClose
    BY <1>1 DEF QuietAfterClose
  <1> QED
    BY <1>2, EInvariance, PTL

\* Prefetched or not, whoever receives a response made for somebody else receives one
\* that HTTP lets them share: what execute stores is as public as what canCache admits.
THEOREM EngineIsolated == Spec => []Isolation
  BY EInvariance, IsolationFollows, PTL DEF EInv

\* Warming stores under the primary key only, yet lookups compare the variant.
THEOREM EngineVariantsMatch == Spec => []LookupsMatchVary
  BY EInvariance, VariantFollows, PTL DEF EInv

\* No prefetch answers a request that asked for a run of its own.
THEOREM EngineNoCacheFresh == Spec => []NoCacheRunsFresh
  BY EInvariance, FreshFollows, PTL DEF EInv

\* With prefetch jobs in its flights, a request still runs the handler at most once.
THEOREM EngineHandlerRunsOnce == Spec => []OncePerRequest
  BY EInvariance, OnceFollows, PTL DEF EInv

--------------------------------------------------------------------------------
\* One run per resource.  It takes a store that keeps what it is given, and pages that
\* are not negotiated: when variants differ a run outside of any flight may replace the
\* primary entry by one for another variant, and a job stores no variant's entry.
Unnegotiated ==
    (\A v, w \in Variants : v = w) \/ (\A r \in Responses : r.vary # "header")

\* Where the handler is about to run inside a flight, and where it has not run.
AtRun == {"leading", "jobLeading"}
Before == Apart \cup (Leading \ {"leadVariant"})

\* Responses come from runs, and whoever runs alone does not lead a flight.
NotYet(c) ==
    /\ at[c] \in Before => made[c] = None
    /\ at[c] \in {"direct", "directVariant"} => joined[c] # c

\* The leader of an open flight whose response is the one to share.
Maker(c) == joined[c] = c /\ key[c][2] = Shared /\ Shareable(c)

\* Its response is in the store, and no other leader of the key makes one or will.
Sole ==
    closing # "closed" =>
        \A c \in Callers : Maker(c) =>
            /\ stored[<<key[c][1], Primary>>] # {}
            /\ \A d \in Callers \ {c} :
                  joined[d] = d /\ key[d] = key[c] => ~Maker(d) /\ at[d] \notin AtRun

OInv == EInv /\ (\A c \in Callers : NotYet(c)) /\ Sole

\* How the step of one caller may change who makes a response.
Grows == \A k \in StoreKeys : stored[k] # {} => stored'[k] # {}
Turn(c) ==
    /\ Grows /\ NotYet(c)'
    /\ Maker(c)' => /\ joined[c] = c /\ key'[c] = key[c]
                    /\ \/ Maker(c)
                       \/ at[c] \in AtRun /\ stored'[<<key[c][1], Primary>>] # {}
    /\ joined'[c] = c /\ key'[c][2] = Shared /\ at'[c] \in AtRun =>
          /\ joined[c] = c /\ key'[c] = key[c]
          /\ at[c] \in AtRun \/ stored[<<key[c][1], Primary>>] = {}

LEMMA TurnKeeps ==
    ASSUME OInv, EInv', closing' = closing, NEW c \in Callers, OnlyOf(c), Turn(c)
    PROVE  OInv'
  <1>1. \A d \in Callers \ {c} :
          /\ NotYet(d)' <=> NotYet(d)
          /\ Maker(d)' <=> Maker(d)
          /\ joined'[d] = joined[d] /\ key'[d] = key[d] /\ at'[d] = at[d]
    BY DEF OnlyOf, NotYet, Maker, Shareable, CanWarm, CanCache, ExplicitlyPublic
  <1>2. \A d \in Callers : NotYet(d)'
    BY <1>1 DEF OInv, Turn
  <1>3. ASSUME closing # "closed", NEW a \in Callers, Maker(a)'
        PROVE  /\ (stored[<<key[a][1], Primary>>] # {})'
               /\ \A b \in Callers \ {a} : joined'[b] = b /\ key'[b] = key'[a]
                     => ~Maker(b)' /\ at'[b] \notin AtRun
    <2>1. \A d \in Callers : joined[d] = d => <<key[d][1], Primary>> \in StoreKeys
      BY KeyMeaning, KindFields, InflightAssumption DEF OInv, EInv, StoreKeys
    <2>2. (stored[<<key[a][1], Primary>>] # {})'
      <3>1. CASE a = c /\ ~Maker(a)
        BY <1>3, <3>1 DEF Turn
      <3>2. CASE Maker(a)
        <4>1. stored[<<key[a][1], Primary>>] # {} /\ joined[a] = a
          BY <1>3, <3>2 DEF OInv, Sole, Maker
        <4>2. key'[a] = key[a]
          BY <1>1, <1>3 DEF Turn
        <4> QED
          BY <2>1, <4>1, <4>2 DEF Turn, Grows
      <3> QED
        BY <1>1, <1>3, <3>1, <3>2
    <2>3. ASSUME NEW b \in Callers \ {a}, joined'[b] = b, key'[b] = key'[a]
          PROVE  ~Maker(b)' /\ at'[b] \notin AtRun
      <3>1. CASE a # c /\ b # c
        BY <1>1, <1>3, <2>3, <3>1 DEF OInv, Sole
      <3>2. CASE a = c
        <4>1. joined[a] = a /\ key'[a] = key[a] /\ (Maker(a) \/ at[a] \in AtRun)
              /\ joined[b] = b /\ key[b] = key[a]
          BY <1>1, <1>3, <2>3, <3>2 DEF Turn
        <4>2. CASE Maker(a)
          BY <1>1, <1>3, <2>3, <3>2, <4>1, <4>2 DEF OInv, Sole
        <4>3. CASE at[a] \in AtRun
          <5>1. ~Maker(b)
            BY <1>3, <2>3, <4>1, <4>3 DEF OInv, Sole
          <5>2. at[b] \notin AtRun
            <6>1. SUFFICES ASSUME at[b] \in AtRun PROVE FALSE
              OBVIOUS
            <6>2. stage[a] = "running" /\ stage[b] = "running"
              BY <1>3, <2>3, <4>3, <6>1 DEF OInv, EInv, MInv, CallerInv, Stands, AtRun, Leading
            <6> QED
              BY <1>3, <2>3, <4>1, <6>2 DEF OInv, EInv, MInv, IInv, MapAgrees, Registered
          <5> QED
            BY <1>1, <2>3, <3>2, <5>1, <5>2
        <4> QED
          BY <4>1, <4>2, <4>3
      <3>3. CASE b = c
        <4>1. Maker(a) /\ joined[a] = a /\ key'[a] = key[a] /\ key'[a][2] = Shared
          BY <1>1, <1>3, <2>3, <3>3 DEF Maker
        <4>2. joined[b] = b /\ key[b] = key[a] => ~Maker(b) /\ at[b] \notin AtRun
          BY <1>3, <2>3, <4>1 DEF OInv, Sole
        <4>3. stored[<<key[a][1], Primary>>] # {}
          BY <1>3, <4>1 DEF OInv, Sole
        <4> QED
          BY <2>3, <3>3, <4>1, <4>2, <4>3 DEF Turn
      <3> QED
        BY <3>1, <3>2, <3>3
    <2> QED
      BY <2>2, <2>3
  <1>4. Sole'
    BY <1>3 DEF Sole
  <1> QED
    BY <1>2, <1>4 DEF OInv

\* A step after which c leads no flight, or has not run its handler and is not about to.
LEMMA NoMaker ==
    ASSUME Grows, NEW c \in Callers, NotYet(c)',
           joined'[c] # c \/ (made'[c] = None /\ at'[c] \notin AtRun)
    PROVE  Turn(c)
  BY DEF Turn, Maker, Shareable

\* A step that changes nothing its response depends on.
LEMMA Quiet ==
    ASSUME Grows, NEW c \in Callers, NotYet(c), UNCHANGED <<made, joined, key>>,
           kind' = kind, at'[c] \notin AtRun,
           at'[c] \in Before => at[c] \in Before,
           at'[c] \in {"direct", "directVariant"} =>
              at[c] \in {"direct", "directVariant"} \/ joined[c] # c
    PROVE  Turn(c)
  BY DEF NotYet, Turn, Maker, Shareable, CanWarm, CanCache, ExplicitlyPublic

\* Whoever may wait in a flight open to everybody may be given any entry that is fit.
LEMMA SharedServable ==
    ASSUME Unnegotiated, EInv, NEW c \in Requests, joined[c] # None, key[c][2] = Shared,
           NEW e, NEW res, Fit(e, res)
    PROVE  Servable(e, c)
  <1>1. c \in Callers /\ e \in Callers /\ MInv /\ made[e] \in Responses /\ made[e] \in ResponseType
        /\ made[e].vary # "star" /\ None \notin Callers
    BY MiddlewareAssumption, InflightAssumption DEF EInv, Fit
  <1>2. ~kind[c].auth \/ ExplicitlyPublic(c)
    BY <1>1, KeyMeaning
  <1>3. kind[c].variant \in Variants /\ kind[e].variant \in Variants
    BY <1>1, KeyMeaning, KindFields DEF Fit, Finished, MInv, Sound
  <1>4. made[e].vary \in {"none", "header"}
    BY <1>1 DEF ResponseType
  <1>5. MatchesVary(e, c)
    BY <1>1, <1>3, <1>4 DEF Unnegotiated, MatchesVary
  <1> QED
    BY <1>1, <1>2, <1>5 DEF Servable

\* A leader goes on to run the handler only if there is nothing stored.
LEMMA RecheckTurn ==
    ASSUME Unnegotiated, Reliable, OInv, NEW c \in Requests, RecheckPrimary(c) \/ RecheckVariant(c)
    PROVE  Turn(c)
  <1>1. c \in Callers /\ MInv /\ EInv /\ at[c] \in {"recheck", "recheckVariant"}
        /\ joined[c] = c /\ made[c] = None /\ None \notin Callers
    <2>1. c \in Callers /\ MInv /\ EInv /\ at[c] \in {"recheck", "recheckVariant"} /\ NotYet(c)
          /\ None \notin Callers
      BY MiddlewareAssumption, InflightAssumption DEF OInv, EInv, RecheckPrimary, RecheckVariant
    <2>2. stage[c] = "running" /\ made[c] = None
      BY <2>1 DEF MInv, CallerInv, Stands, Leading, NotYet, Before
    <2> QED
      BY <2>1, <2>2 DEF MInv, IInv, HoldsLeader, Registered
  <1>2. UNCHANGED <<made, stored, joined, key>>
    BY DEF RecheckPrimary, RecheckVariant, storeVars, inflightVars
  <1>3. at'[c] \in {"recheckVariant", "cached", "leading"}
    BY <1>1 DEF RecheckPrimary, RecheckVariant, Move, Goto, AfterPrimary, Verdict, MInv, Sound
  <1>4. NotYet(c)' /\ Grows
    BY <1>1, <1>2, <1>3 DEF NotYet, Grows
  <1>5. ASSUME at'[c] = "leading", key[c][2] = Shared
        PROVE  stored[<<key[c][1], Primary>>] = {}
    <2>1. \A e, res : Fit(e, res) => Servable(e, c)
      BY <1>1, <1>5, SharedServable
    <2>2. CASE RecheckPrimary(c)
      <3>1. PICK e \in Found(PrimaryKey(c)) :
              at'[c] = AfterPrimary(e, c, "recheckVariant", "cached", "leading")
        BY <1>1, <2>2 DEF RecheckPrimary, Move, Goto, MInv, Sound
      <3>2. ~Servable(e, c)
        BY <1>5, <3>1 DEF AfterPrimary, Verdict
      <3>3. e = None
        BY <1>1, <2>1, <3>1, <3>2, FoundFit
      <3>4. stored[PrimaryKey(c)] = {}
        <4>1. PrimaryKey(c) \in StoreKeys
          BY <1>1, KindFields DEF MInv, Sound, PrimaryKey, StoreKeys
        <4> QED
          BY <1>1, <3>1, <3>3, <4>1 DEF Found, MInv, Sound
      <3>5. PrimaryKey(c) = <<key[c][1], Primary>>
        BY <1>1, KeyMeaning DEF PrimaryKey
      <3> QED
        BY <3>4, <3>5
    <2>3. CASE RecheckVariant(c)
      <3>1. PICK v \in Found(VariantKey(c)) :
              at'[c] = Verdict(IF v # None THEN v ELSE held[c], c, "cached", "leading")
        BY <1>1, <2>3 DEF RecheckVariant, Move, Goto, MInv, Sound
      <3>2. Fit(held[c], kind[c].resource)
        BY <1>1, <2>3 DEF RecheckVariant, MInv, CallerInv, Holds
      <3>3. Fit(IF v # None THEN v ELSE held[c], kind[c].resource)
        BY <1>1, <3>1, <3>2, FoundFit
      <3> QED
        BY <1>5, <2>1, <3>1, <3>3 DEF Verdict
    <2> QED
      BY <2>2, <2>3
  <1> QED
    BY <1>1, <1>2, <1>3, <1>4, <1>5 DEF Turn, Maker, Shareable, AtRun

\* A leader's run is stored before anybody can find its flight gone.
LEMMA UpstreamTurn ==
    ASSUME OInv, NEW c \in Requests, NEW r \in Responses, LeadUpstream(c, r)
    PROVE  Turn(c)
  <1>1. c \in Callers /\ MInv /\ at[c] = "leading" /\ joined[c] = c /\ c \notin Jobs
    <2>1. c \in Callers /\ MInv /\ at[c] = "leading" /\ c \notin Jobs
      BY MiddlewareAssumption, PrefetcherAssumption DEF OInv, EInv, LeadUpstream
    <2>2. stage[c] = "running"
      BY <2>1 DEF MInv, CallerInv, Stands, Leading
    <2> QED
      BY <2>1, <2>2 DEF MInv, IInv, HoldsLeader, Registered
  <1>2. /\ made' = [made EXCEPT ![c] = r] /\ made'[c] = r
        /\ at'[c] \in {"flight", "leadVariant"} /\ UNCHANGED <<kind, joined, key>>
        /\ stored' = stored \/ Put(PrimaryKey(c), c)
        /\ ~r.streamed /\ CanCache(c, r) => Put(PrimaryKey(c), c)
    BY <1>1 DEF LeadUpstream, Move, Goto, FnReturns, inflightVars, MInv, Sound, RestTyped
  <1>3. PrimaryKey(c) = <<key[c][1], Primary>> /\ PrimaryKey(c) \in StoreKeys
    BY <1>1, KeyMeaning, KindFields, InflightAssumption DEF PrimaryKey, StoreKeys
  <1>4. Grows /\ (~r.streamed /\ CanCache(c, r) => stored'[PrimaryKey(c)] # {})
    BY <1>1, <1>2, <1>3 DEF Grows, Put, MInv, Sound
  <1>5. NotYet(c)'
    BY <1>2 DEF NotYet, Before, Apart, Leading
  <1>6. Maker(c)' => ~r.streamed /\ CanCache(c, r)
    BY <1>1, <1>2 DEF Maker, Shareable, CanCache, ExplicitlyPublic
  <1> QED
    BY <1>1, <1>2, <1>3, <1>4, <1>5, <1>6 DEF Turn, AtRun

\* The steps of a request that do not make a shared response.
LEMMA RequestTurn ==
    ASSUME Unnegotiated, Reliable, OInv, NEW c \in Requests,
           RequestStep(c) \/ ClientGone(c) \/ \E k \in Kinds : Arrive(c, k)
    PROVE  Turn(c)
  <1>1. c \in Callers /\ MInv /\ EInv /\ NotYet(c) /\ c \notin Jobs
        /\ at \in [Callers -> Places] /\ at[c] \in Places
    BY MiddlewareAssumption, PrefetcherAssumption DEF OInv, EInv, MInv, Sound
  <1>2. stage[c] = "outside" => joined[c] = None
    BY <1>1 DEF MInv, IInv, HoldsLeader
  <1>3. Grows
    <2>1. at[c] # "idle" => PrimaryKey(c) \in StoreKeys /\ VariantKey(c) \in StoreKeys
      BY <1>1, FoundType DEF MInv
    <2>2. stored' = stored \/ (at[c] # "idle" /\ \E k \in {PrimaryKey(c), VariantKey(c)} : Put(k, c))
      <3>1. CASE InFlight(c) \/ ClientGone(c) \/ \E k \in Kinds : Arrive(c, k)
        BY <3>1 DEF InFlight, ClientGone, Arrive, requestVars, storeVars
      <3>2. CASE \/ PassThrough(c) \/ LookupPrimary(c) \/ LookupVariant(c) \/ Hit(c)
                 \/ MissAlone(c) \/ MissCoalesced(c) \/ RecheckPrimary(c) \/ RecheckVariant(c)
                 \/ LeadWithCached(c) \/ LeadPanics(c) \/ LandStreamed(c) \/ LandShared(c)
                 \/ LandOwn(c) \/ LandPanicked(c) \/ LandAlone(c) \/ DirectPanics(c) \/ Submit(c)
        BY <3>2 DEF PassThrough, LookupPrimary, LookupVariant, Hit, MissAlone, MissCoalesced,
           RecheckPrimary, RecheckVariant, LeadWithCached, LeadPanics, LandStreamed, LandShared,
           LandOwn, LandPanicked, LandAlone, DirectPanics, Submit, storeVars
      <3>3. CASE LeadStoresVariant(c) \/ DirectStoresVariant(c)
        BY <3>3 DEF LeadStoresVariant, DirectStoresVariant
      <3>4. CASE \E r \in Responses : LeadUpstream(c, r) \/ DirectUpstream(c, r)
        BY <3>4 DEF LeadUpstream, DirectUpstream
      <3> QED
        BY <3>1, <3>2, <3>3, <3>4 DEF RequestStep
    <2> QED
      BY <1>1, <2>1, <2>2 DEF Grows, Put, MInv, Sound
  <1>4. CASE RecheckPrimary(c) \/ RecheckVariant(c) \/ \E r \in Responses : LeadUpstream(c, r)
    BY <1>4, RecheckTurn, UpstreamTurn
  <1>5. CASE LookupPrimary(c) \/ LookupVariant(c) \/ MissCoalesced(c) \/ LeadWithCached(c)
    <2>1. made[c] = None /\ made' = made
          /\ at'[c] \in {"lookupVariant", "hit", "missed", "recheck", "flight"}
      BY <1>1, <1>5 DEF LookupPrimary, LookupVariant, MissCoalesced, LeadWithCached, Move, Goto,
         AfterPrimary, Verdict, storeVars, NotYet, Before, Apart, Leading
    <2> QED
      BY <1>1, <1>3, <2>1, NoMaker DEF NotYet, AtRun
  <1>6. CASE \E k \in Kinds : Arrive(c, k)
    <2>1. joined'[c] = None /\ made' = made /\ made[c] = None
          /\ at'[c] \in {"passing", "missed", "lookup"}
      BY <1>1, <1>2, <1>6
         DEF Arrive, Goto, storeVars, inflightVars, NotYet, Before, Apart, MInv, CallerInv, Stands
    <2> QED
      BY <1>1, <1>3, <2>1, NoMaker, InflightAssumption DEF NotYet
  <1>7. CASE MissAlone(c) \/ LandAlone(c) \/ \E r \in Responses : DirectUpstream(c, r)
    <2>1. joined'[c] = joined[c] /\ joined[c] # c
          /\ at'[c] \in {"direct", "directVariant", "submitting", "done"}
      <3>1. CASE MissAlone(c)
        BY <1>1, <1>2, <3>1, InflightAssumption
           DEF MissAlone, Move, Goto, inflightVars, MInv, CallerInv, Stands, Apart
      <3>2. CASE LandAlone(c)
        BY <1>1, <3>2 DEF LandAlone, Led, Move, Goto, inflightVars
      <3>3. CASE \E r \in Responses : DirectUpstream(c, r)
        BY <1>1, <3>3 DEF DirectUpstream, NotYet, Answer, AnswerStreamed, Move, Goto, inflightVars
      <3> QED
        BY <1>7, <3>1, <3>2, <3>3
    <2> QED
      BY <1>1, <1>3, <2>1, NoMaker DEF NotYet, Before, Apart, Leading
  <1>8. CASE InFlight(c) \/ ClientGone(c)
    <2>1. UNCHANGED <<at, kind, made, joined, key>>
      BY <1>8 DEF InFlight, ClientGone, requestVars, Unregister, Close, Wake, Abandon, CancelContext
    <2>2. stage[c] # "running"
      BY <1>8 DEF InFlight, ClientGone, Unregister, Close, Wake, Abandon, Landed
    <2>3. at[c] \notin AtRun
      BY <1>1, <2>2 DEF MInv, CallerInv, Stands, AtRun, Leading
    <2> QED
      BY <1>1, <1>3, <2>1, <2>3, Quiet
  <1>9. CASE \/ PassThrough(c) \/ Hit(c) \/ LeadStoresVariant(c) \/ LeadPanics(c)
             \/ LandStreamed(c) \/ LandShared(c) \/ LandOwn(c) \/ LandPanicked(c)
             \/ DirectStoresVariant(c) \/ DirectPanics(c) \/ Submit(c)
    <2>1. UNCHANGED <<kind, made, joined, key>>
      BY <1>9 DEF PassThrough, Hit, LeadStoresVariant, LeadPanics, LandStreamed, LandShared, LandOwn,
         LandPanicked, DirectStoresVariant, DirectPanics, Submit, Answer, AnswerStreamed, Abort,
         Move, FnReturns, FnPanics, storeVars, inflightVars
    <2>2. at'[c] \in {"flight", "submitting", "done"}
      BY <1>1, <1>9 DEF PassThrough, Hit, LeadStoresVariant, LeadPanics, LandStreamed, LandShared,
         LandOwn, LandPanicked, DirectStoresVariant, DirectPanics, Submit, Answer, AnswerStreamed,
         Abort, Move, Goto
    <2> QED
      BY <1>1, <1>3, <2>1, <2>2, Quiet DEF AtRun, Before, Apart, Leading
  <1> QED
    BY <1>4, <1>5, <1>6, <1>7, <1>8, <1>9 DEF RequestStep

\* A job runs the handler only if it found nothing stored, and stores what it shares.
LEMMA JobTurn ==
    ASSUME Reliable, OInv, NEW j \in Jobs, Dequeue(j) \/ JobStep(j)
    PROVE  Turn(j)
  <1>1. j \in Callers /\ MInv /\ EInv /\ NotYet(j) /\ at \in [Callers -> Places]
        /\ j \notin Requests /\ None \notin Callers
    BY JobFacts, InflightAssumption DEF OInv, EInv, MInv, Sound
  <1>2. /\ at[j] # "idle" => PrimaryKey(j) \in StoreKeys
        /\ joined[j] = j => PrimaryKey(j) = <<key[j][1], Primary>>
        /\ stage[j] = "running" => joined[j] = j
        /\ stage[j] = "outside" => joined[j] = None
    <2>1. joined[j] = j => PrimaryKey(j) = <<key[j][1], Primary>>
      BY <1>1, KeyMeaning DEF PrimaryKey
    <2> QED
      BY <1>1, <2>1, KindFields
         DEF MInv, Sound, IInv, HoldsLeader, Registered, PrimaryKey, StoreKeys
  <1>3. CASE Dequeue(j)
    <2>1. stage[j] = "outside" /\ UNCHANGED <<made, stored, joined>> /\ at'[j] = "probe"
          /\ made[j] = None
      BY <1>1, <1>3 DEF Dequeue, Goto, storeVars, inflightVars, MInv, CallerInv, Stands, Apart,
         NotYet, Before
    <2> QED
      BY <1>1, <1>2, <2>1, NoMaker DEF Grows, NotYet
  <1>4. CASE Enter(j)
    <2>1. UNCHANGED <<made, stored>> /\ made[j] = None /\ at'[j] \in {"jobRecheck", "jobFlight"}
      BY <1>1, <1>4 DEF Enter, Move, Goto, storeVars, NotYet, Before, Apart
    <2> QED
      BY <1>1, <2>1, NoMaker DEF Grows, NotYet, AtRun
  <1>5. CASE Recheck(j)
    <2>1. stage[j] = "running" /\ made[j] = None /\ at[j] = "jobRecheck"
      BY <1>1, <1>5 DEF Recheck, NotYet, Before, MInv, CallerInv, Stands, Leading
    <2>2. UNCHANGED <<made, stored, joined, key>>
      BY <1>5 DEF Recheck, FnReturns, storeVars, inflightVars
    <2>3. PICK e \in Found(PrimaryKey(j)) :
            at'[j] = IF e # None THEN "jobFlight" ELSE "jobLeading"
      BY <1>1, <1>5 DEF Recheck, Move, Goto
    <2>4. at'[j] \in AtRun => stored[PrimaryKey(j)] = {}
      BY <1>1, <1>2, <2>1, <2>3 DEF Found, AtRun, MInv, Sound
    <2>5. Grows /\ NotYet(j)' /\ made'[j] = None
      BY <2>1, <2>2, <2>3 DEF Grows, NotYet
    <2> QED
      BY <1>2, <2>1, <2>2, <2>4, <2>5 DEF Turn, Maker, Shareable
  <1>6. ASSUME NEW r \in Responses, Warm(j, r) PROVE Turn(j)
    <2>1. stage[j] = "running" /\ at[j] = "jobLeading"
      BY <1>1, <1>6 DEF Warm, MInv, CallerInv, Stands, Leading
    <2>2. /\ made'[j] = r /\ at'[j] = "jobFlight" /\ UNCHANGED <<kind, joined, key>>
          /\ stored' = stored \/ Put(PrimaryKey(j), j)
          /\ CanWarm(j, r) => Put(PrimaryKey(j), j)
      BY <1>1, <1>6 DEF Warm, Move, Goto, FnReturns, MInv, RestTyped
    <2>3. Grows /\ (CanWarm(j, r) => stored'[PrimaryKey(j)] # {})
      <3> DEFINE k == PrimaryKey(j)
      <3>1. k \in StoreKeys /\ stored \in [StoreKeys -> SUBSET Callers]
        BY <1>1, <1>2, <2>1 DEF MInv, Sound
      <3>2. /\ stored' = stored \/ stored' = [stored EXCEPT ![k] = {j}]
            /\ (CanWarm(j, r) => stored' = [stored EXCEPT ![k] = {j}])
        BY <2>2 DEF Put
      <3>3. Grows /\ (CanWarm(j, r) => stored'[k] # {})
        <4> HIDE DEF k
        <4> QED
          BY <3>1, <3>2 DEF Grows
      <3> QED
        BY <3>3
    <2>4. Maker(j)' => CanWarm(j, r)
      BY <2>2 DEF Maker, Shareable, CanWarm
    <2>5. NotYet(j)'
      BY <2>2 DEF NotYet, Before, Apart, Leading
    <2> QED
      BY <1>2, <2>1, <2>2, <2>3, <2>4, <2>5 DEF Turn, AtRun
  <1>7. CASE Probe(j) \/ JobEnds(j) \/ JobInFlight(j)
    <2>1. UNCHANGED <<kind, made, stored, joined, key>>
      BY <1>7 DEF Probe, JobEnds, JobInFlight, Finish, Move, Unregister, Close, Wake,
         storeVars, requestVars, inflightVars
    <2>2. at'[j] \notin AtRun \cup {"direct", "directVariant"} /\ (at'[j] \in Before => at[j] \in Before)
      <3>1. CASE Probe(j) \/ JobEnds(j)
        BY <1>1, <3>1 DEF Probe, JobEnds, Finish, Move, Goto, AtRun, Before, Apart, Leading
      <3>2. CASE JobInFlight(j)
        <4>1. at' = at /\ stage[j] # "running"
          BY <3>2 DEF JobInFlight, requestVars, Unregister, Close, Wake, Landed
        <4>2. at[j] \in JobPlaces
          BY <1>1 DEF EInv, OwnPlaces
        <4> QED
          BY <1>1, <4>1, <4>2 DEF MInv, CallerInv, Stands, AtRun, Leading, JobPlaces
      <3> QED
        BY <1>7, <3>1, <3>2
    <2> QED
      BY <1>1, <2>1, <2>2, Quiet DEF Grows
  <1> QED
    BY <1>3, <1>4, <1>5, <1>6, <1>7 DEF JobStep

LEMMA OInvInit == Init => OInv
  <1> SUFFICES ASSUME Init PROVE OInv
    OBVIOUS
  <1>1. EInv
    BY EInvInit
  <1>2. \A c \in Callers : NotYet(c) /\ ~Maker(c)
    BY InflightAssumption DEF Init, MiddlewareInit, InflightInit, NotYet, Maker
  <1> QED
    BY <1>1, <1>2 DEF OInv, Sole

LEMMA OInvStep ==
    ASSUME Unnegotiated, Reliable, OInv, [Next]_vars
    PROVE  OInv'
  <1>1. EInv /\ EInv'
    BY EInvStep DEF OInv
  <1>2. ASSUME NEW c \in Requests, UNCHANGED poolVars,
               RequestStep(c) \/ ClientGone(c) \/ \E k \in Kinds : Arrive(c, k)
        PROVE  OInv'
    <2>1. c \in Callers /\ Steps(c) /\ Turn(c) /\ closing' = closing
      BY <1>1, <1>2, RequestOwn, RequestTurn, MiddlewareAssumption DEF EInv, poolVars
    <2> QED
      BY <1>1, <2>1, TurnKeeps DEF Steps
  <1>3. ASSUME NEW j \in Jobs, Dequeue(j) \/ JobStep(j) PROVE OInv'
    <2>1. j \in Callers /\ Steps(j) /\ Turn(j) /\ closing' = closing
      BY <1>1, <1>3, JobOwn, JobTurn, JobPool, JobFacts
    <2> QED
      BY <1>1, <2>1, TurnKeeps DEF Steps
  <1>4. CASE WorkerExits \/ CloseBegins \/ CloseEnds \/ UNCHANGED vars
    <2>1. UNCHANGED <<at, kind, made, joined, key>>
          /\ (closing' # "closed" => closing # "closed" /\ stored' = stored)
      <3>1. CASE WorkerExits \/ UNCHANGED vars
        BY <3>1 DEF WorkerExits, vars, mwVars, requestVars, inflightVars, poolVars
      <3>2. CASE CloseBegins \/ CloseEnds
        BY <3>2 DEF CloseBegins, CloseEnds, storeVars, inflightVars
      <3> QED
        BY <1>4, <3>1, <3>2
    <2>2. \A c : (NotYet(c)' <=> NotYet(c)) /\ (Maker(c)' <=> Maker(c))
      BY <2>1 DEF NotYet, Maker, Shareable, CanWarm, CanCache, ExplicitlyPublic
    <2>3. Sole'
      BY <2>1, <2>2 DEF OInv, Sole
    <2> QED
      BY <1>1, <2>2, <2>3 DEF OInv
  <1> QED
    BY <1>2, <1>3, <1>4 DEF Next, MiddlewareNext

\* Of all the flights of a resource, by requests and by jobs, one at most makes a response
\* that may be shared, for any number of callers, workers and resources: the leader that
\* comes later finds it in its double-check, for it was stored before the key was given
\* back.  With CoalesceAuthenticated a user's flights are apart from the anonymous ones,
\* whose page need not be marked public and yet replaces the user's public one.
THEOREM OneSharedRun ==
    ASSUME Reliable, Unnegotiated, ~CoalesceAuthenticated
    PROVE  Spec => []OneRunPerResource
  <1>1. ASSUME OInv PROVE OneRunPerResource
    <2>1. SUFFICES ASSUME closing # "closed", NEW c \in Callers, NEW d \in Callers,
                          joined[c] = c, joined[d] = d, key[c] = key[d],
                          Shareable(c), Shareable(d), c # d
                   PROVE  FALSE
      BY DEF OneRunPerResource
    <2>2. key[c][2] = Shared
      BY <1>1, <2>1, KeyMeaning, InflightAssumption DEF OInv, EInv
    <2> QED
      BY <1>1, <2>1, <2>2 DEF OInv, Sole, Maker
  <1>2. OInv /\ [Next]_vars => OInv'
    BY OInvStep
  <1> QED
    BY <1>1, <1>2, OInvInit, PTL DEF Spec
================================================================================
