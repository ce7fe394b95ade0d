------------------------------ MODULE Prefetcher ------------------------------
(***************************************************************************)
(* The whole engine: the requests of Middleware and the worker pool of     *)
(* prefetcher.go that takes their predictions from the queue, runs the     *)
(* handler in advance inside the same coalescer and warms the same store,  *)
(* until Engine.Close.  A job is a caller of the coalescer, with a         *)
(* context that nobody cancels (Do), and its response one like any other.  *)
(***************************************************************************)
EXTENDS Middleware

CONSTANTS Jobs,           \* the callers that are prefetch jobs
          Workers,        \* Config.Workers
          DefaultVariant, \* the variant of a synthetic request: no header to negotiate
          MayClose        \* BOOLEAN: whether the engine is closed at some point

ASSUME PrefetcherAssumption ==
    /\ Jobs \subseteq Callers /\ Jobs \cap (Requests \cup Cancellable) = {}
    /\ Workers \in Nat \ {0}
    /\ DefaultVariant \in Variants

VARIABLES ready,    \* workers blocked in their select
          exited,   \* workers that returned
          closing   \* Engine.Close: not called, waits for the workers, returned

poolVars == <<ready, exited, closing>>
vars == <<mwVars, poolVars>>

Init ==
    /\ MiddlewareInit
    /\ ready = Workers
    /\ exited = 0
    /\ closing = "open"

\* Fault: a job made with a user's credentials warms like any other.
CanWarmAuthenticated(j, r) ==
    /\ r.ok /\ ~r.setCookie
    /\ r.cc \cap {"no-store", "private"} = {}
    /\ r.vary # "star"

\* What execute checks before it stores: nothing about size, streaming or
\* public routes, and a recovered panic leaves the recorder's 200.
CanWarm(j, r) ==
    /\ r.ok /\ ~r.setCookie
    /\ r.cc \cap {"no-store", "private"} = {}
    /\ r.vary # "star"
    /\ ~kind[j].auth \/ "public" \in r.cc

\* Fault: a job is started without a worker of its own.
DequeueUnbounded(j) ==
    /\ ready > 0 /\ queue # << >>
    /\ at[j] = "idle"
    /\ LET job == Head(queue) IN
       kind' = [kind EXCEPT ![j] = [kind[job.from] EXCEPT
                    !.resource = job.target, !.variant = DefaultVariant,
                    !.route = "cached", !.directives = {}, !.speculative = TRUE]]
    /\ queue' = Tail(queue)
    /\ Goto(j, "probe")
    /\ UNCHANGED <<inflightVars, storeVars, held, runs, learned, todo, closed, got, poolVars>>

\* A worker takes a job: the headers and cookies of the request that
\* predicted it make the synthetic request.
Dequeue(j) ==
    /\ ready > 0 /\ queue # << >>
    /\ at[j] = "idle"
    /\ LET job == Head(queue) IN
       kind' = [kind EXCEPT ![j] = [kind[job.from] EXCEPT
                    !.resource = job.target, !.variant = DefaultVariant,
                    !.route = "cached", !.directives = {}, !.speculative = TRUE]]
    /\ queue' = Tail(queue)
    /\ ready' = ready - 1
    /\ Goto(j, "probe")
    /\ UNCHANGED <<inflightVars, storeVars, held, runs, learned, todo, closed, got, exited, closing>>

\* Fault: the worker ends with its job, without wg.Done.
FinishLost(j) ==
    /\ Goto(j, "done")
    /\ UNCHANGED <<kind, learned, todo, queue, closed, got, ready>>

Finish(j) ==
    /\ Goto(j, "done")
    /\ ready' = ready + 1
    /\ UNCHANGED <<kind, learned, todo, queue, closed, got>>

\* Already cached: the job is over, whatever the entry is.
Probe(j) ==
    /\ at[j] = "probe"
    /\ \E e \in Found(PrimaryKey(j)) :
          IF e # None THEN Finish(j) ELSE Move(j, "enter") /\ UNCHANGED ready
    /\ UNCHANGED <<inflightVars, storeVars, held, runs, exited, closing>>

Enter(j) ==
    /\ at[j] = "enter"
    /\ LET flight == <<kind[j].resource, Shared>> IN
       \/ Lead(j, flight) /\ Move(j, "jobRecheck")
       \/ Join(j, flight) /\ Move(j, "jobFlight")
    /\ UNCHANGED <<storeVars, held, runs, poolVars>>

\* Fault: the job does not look at the cache again.
RecheckAbsent(j) ==
    /\ at[j] = "jobRecheck"
    /\ Move(j, "jobLeading")
    /\ UNCHANGED <<inflightVars, storeVars, held, runs, poolVars>>

\* The double-check returns what it finds to whoever waits for this job.
Recheck(j) ==
    /\ at[j] = "jobRecheck"
    /\ \E e \in Found(PrimaryKey(j)) :
          IF e # None THEN FnReturns(j, e) /\ Move(j, "jobFlight")
                      ELSE UNCHANGED inflightVars /\ Move(j, "jobLeading")
    /\ UNCHANGED <<storeVars, held, runs, poolVars>>

\* The handler runs on a recorder, with a deadline and under recover().
Warm(j, r) ==
    /\ at[j] = "jobLeading"
    /\ Ran(j)
    /\ made' = [made EXCEPT ![j] = r]
    /\ \/ CanWarm(j, r) /\ Put(PrimaryKey(j), j) /\ FnReturns(j, j)
       \/ ~CanWarm(j, r) /\ UNCHANGED stored /\ FnReturns(j, NoEntry)
    /\ Move(j, "jobFlight")
    /\ UNCHANGED <<held, poolVars>>

JobInFlight(j) ==
    /\ Unregister(j) \/ Close(j) \/ Wake(j)
    /\ UNCHANGED <<requestVars, poolVars>>

JobEnds(j) ==
    /\ at[j] = "jobFlight" /\ stage[j] = "left"
    /\ Finish(j)
    /\ UNCHANGED <<inflightVars, storeVars, held, runs, exited, closing>>

\* Both arms of the worker's select may be ready: jobs may still start.
WorkerExits ==
    /\ closed /\ ready > 0
    /\ ready' = ready - 1
    /\ exited' = exited + 1
    /\ UNCHANGED <<mwVars, closing>>

CloseBegins ==
    /\ MayClose /\ closing = "open"
    /\ closed' = TRUE
    /\ closing' = "waiting"
    /\ UNCHANGED <<inflightVars, at, kind, held, storeVars, runs, learned, todo, queue, got, ready, exited>>

\* Fault: Close does not wait for the workers.
CloseEndsEarly ==
    /\ closing = "waiting"
    /\ closing' = "closed"
    /\ stored' = [k \in StoreKeys |-> {}]
    /\ UNCHANGED <<inflightVars, at, kind, held, made, runs, learned, todo, queue, closed, got, ready, exited>>

\* The workers are gone, the store is emptied; requests may go on.
CloseEnds ==
    /\ closing = "waiting" /\ exited = Workers
    /\ closing' = "closed"
    /\ stored' = [k \in StoreKeys |-> {}]
    /\ UNCHANGED <<inflightVars, at, kind, held, made, runs, learned, todo, queue, closed, got, ready, exited>>

JobStep(j) ==
    \/ Probe(j) \/ Enter(j) \/ Recheck(j)
    \/ \E r \in Responses : Warm(j, r)
    \/ JobInFlight(j) \/ JobEnds(j)

Next ==
    \/ MiddlewareNext /\ UNCHANGED poolVars
    \/ \E j \in Jobs : Dequeue(j) \/ JobStep(j)
    \/ WorkerExits
    \/ CloseBegins \/ CloseEnds

Spec == Init /\ [][Next]_vars

\* Requests, busy workers and Close are goroutines the scheduler runs; handlers end.
EngineFairSpec ==
    /\ Spec
    /\ \A c \in Requests : WF_vars(RequestStep(c) /\ UNCHANGED poolVars)
    /\ \A j \in Jobs : WF_vars(JobStep(j))
    /\ WF_vars(WorkerExits) /\ WF_vars(CloseEnds)
--------------------------------------------------------------------------------
Running == {j \in Jobs : at[j] \notin {"idle", "done"}}

\* Types, and the pool: every worker waits, runs one job, or has exited.
PrefetcherTypeOK ==
    /\ MiddlewareTypeOK
    /\ closing \in {"open", "waiting", "closed"}
    /\ closed = (closing # "open")
    /\ ready \in 0..Workers /\ exited \in 0..Workers
    /\ ready + exited + Cardinality(Running) = Workers

\* Engine.Close "flushes background workers" before it closes the store
\* (precog.go:220): no job is running, holds a flight or may store once it returned.
QuietAfterClose ==
    closing = "closed" => \A j \in Jobs : at[j] \in {"idle", "done"}
                                         /\ stage[j] \in {"outside", "left"}

\* "Only 200 OK responses are stored" (README:68): a response that a panic or a
\* deadline cut short is not one the handler gave.
StoredWhole ==
    \A k \in StoreKeys : \A e \in stored[k] : made[e].whole

\* Callers whose response every other caller may share.
Shareable(c) ==
    /\ made[c] # None /\ ~made[c].streamed
    /\ IF c \in Jobs THEN CanWarm(c, made[c]) ELSE CanCache(c, made[c])

\* "50 simultaneous cache misses trigger exactly one handler execution"
\* (README:14), a prefetch being one more: of all the flights of a key, by
\* requests and jobs, at most one makes a response that may be shared; whoever
\* comes later waits for it or finds it, until Close empties the store.  (A waiter
\* that got nothing to share runs the handler outside of any flight.)
OneRunPerResource ==
    closing # "closed" =>
        \A c, d \in Callers :
            /\ joined[c] = c /\ joined[d] = d /\ key[c] = key[d]
            /\ kind[c].variant = kind[d].variant
            /\ Shareable(c) /\ Shareable(d)
            => c = d

\* Close returns although workers wait on flights that requests lead, and the
\* other way round; jobs left in the queue are dropped.
CloseReturns == closing = "waiting" ~> closing = "closed"
================================================================================
