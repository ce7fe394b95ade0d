------------------------------ MODULE Middleware ------------------------------
(***************************************************************************)
(* Engine.Middleware of middleware.go: a request looks the store up, joins *)
(* or leads a flight of the coalescer on a miss, or runs the handler by    *)
(* itself, stores what may be stored, teaches the predictor and offers its *)
(* predictions to the prefetcher's queue.  Requests are callers of the     *)
(* InflightGroup; a response is named by the caller whose handler run      *)
(* produced it.  The store is known by its contract only: Get returns      *)
(* nothing or something set under that key (TTL, eviction, refused sets).  *)
(***************************************************************************)
EXTENDS InflightGroup, Naturals, Sequences, FiniteSets

CONSTANTS Requests,      \* the callers that are HTTP requests
          Resources,     \* canonical (method, host, path, query) cache keys
          PublicRoutes,  \* resources under Config.PublicRoutes
          Sessions,      \* session ids
          Variants,      \* values of the request headers a Vary may name
          Kinds,         \* the requests clients send, see KindType
          Responses,     \* the responses handlers write, see ResponseType
          MayPanic,      \* BOOLEAN: handlers may panic
          CoalesceAuthenticated, \* Config.CoalesceAuthenticated
          Predictable,   \* resources the predictor may return with enough confidence
          QueueCap,      \* capacity of the prefetcher's queue
          Reliable,      \* BOOLEAN: the store refuses, expires and evicts nothing
          Primary,       \* the store's slot for the key without variant
          Shared,        \* flights open to everybody
          NotShareable,  \* ErrNotShareable
          Streaming,     \* ErrStreamingResponse
          NoEntry,       \* (nil, nil), what a prefetch that stored nothing returns
          Aborted        \* the connection of a request whose handler panicked

\* route: skipped (SkipRoutes, client assets), passed (unsafe method, upgrade,
\* SSE, Range) or cached.  directives: of the client's Cache-Control and Pragma.
KindType == [route : {"skipped", "passed", "cached"}, resource : Resources,
             variant : Variants, session : Sessions, auth : BOOLEAN, cookies : BOOLEAN,
             directives : SUBSET {"no-cache", "no-store"}, speculative : BOOLEAN]

\* ok: status 200.  streamed: flushed, hijacked or larger than MaxResponseSize.
\* whole: the handler was not cut short by its context (or a panic).
ResponseType == [ok : BOOLEAN, setCookie : BOOLEAN,
                 cc : SUBSET {"public", "private", "no-store"},
                 vary : {"none", "header", "star"}, streamed : BOOLEAN, whole : BOOLEAN]

FlightKeys == Resources \X (Sessions \cup {Shared})

ASSUME MiddlewareAssumption ==
    /\ Requests \subseteq Callers
    /\ PublicRoutes \subseteq Resources /\ Predictable \subseteq Resources
    /\ Kinds \subseteq KindType /\ Responses \subseteq ResponseType
    /\ Keys = FlightKeys
    /\ Outcomes = Callers \cup {NotShareable, Streaming, NoEntry}
    /\ Callers \cap {NotShareable, Streaming, NoEntry, Panicked, Cancelled, Aborted} = {}
    /\ Aborted # None
    /\ QueueCap \in Nat
    /\ {MayPanic, CoalesceAuthenticated, Reliable} \subseteq BOOLEAN
    /\ Shared \notin Sessions /\ Primary \notin Variants

VARIABLES at,       \* at[c]: where request c is in the handler function
          kind,     \* kind[c]: what the client sent
          held,     \* held[c]: the entry a lookup found
          made,     \* made[c]: the response c's handler run wrote
          stored,   \* stored[k]: responses Get(k) may return
          runs,     \* runs[c]: handler executions on behalf of c
          learned,  \* learned[c]: predictor.Record calls on behalf of c
          todo,     \* todo[c]: predictions c has yet to submit
          queue,    \* the prefetcher's jobChan
          closed,   \* Prefetcher.Close was called
          got       \* got[c]: whose response c's client received

storeVars == <<made, stored>>
requestVars == <<at, kind, held, made, stored, runs, learned, todo, queue, closed, got>>
mwVars == <<inflightVars, requestVars>>

StoreKeys == Resources \X (Variants \cup {Primary})
\* Of a request, and (second line from the end) of a prefetch job.
Places == {"idle", "passing", "lookup", "lookupVariant", "hit", "missed",
           "recheck", "recheckVariant", "cached", "leading", "leadVariant", "flight",
           "direct", "directVariant", "submitting",
           "probe", "enter", "jobRecheck", "jobLeading", "jobFlight",
           "done"}

MiddlewareInit ==
    /\ InflightInit
    /\ at = [c \in Callers |-> "idle"]
    /\ kind = [c \in Callers |-> None]
    /\ held = [c \in Callers |-> None]
    /\ made = [c \in Callers |-> None]
    /\ stored = [k \in StoreKeys |-> {}]
    /\ runs = [c \in Callers |-> 0]
    /\ learned = [c \in Callers |-> 0]
    /\ todo = [c \in Callers |-> {}]
    /\ queue = << >>
    /\ closed = FALSE
    /\ got = [c \in Callers |-> None]
--------------------------------------------------------------------------------
PrimaryKey(c) == <<kind[c].resource, Primary>>
VariantKey(c) == <<kind[c].resource, kind[c].variant>>
ExplicitlyPublic(c) == kind[c].resource \in PublicRoutes

\* Store.Get and Store.Set.
Found(k) == IF Reliable /\ stored[k] # {} THEN stored[k] ELSE stored[k] \cup {None}
Put(k, e) == stored' = [stored EXCEPT ![k] = IF Reliable THEN {e} ELSE @ \cup {e}]

\* ResponseEntry.MatchesVary: the recorded request headers are c's own.
MatchesVary(e, c) ==
    \/ made[e].vary = "none"
    \/ made[e].vary = "header" /\ kind[e].variant = kind[c].variant

\* Fault: a variant is served without comparing the recorded headers.
ServableUnmatched(e, c) ==
    /\ e # None
    /\ ~kind[c].auth \/ ExplicitlyPublic(c) \/ "public" \in made[e].cc

\* Whether a lookup of c may be answered with entry e.
Servable(e, c) ==
    /\ e # None
    /\ MatchesVary(e, c)
    /\ ~kind[c].auth \/ ExplicitlyPublic(c) \/ "public" \in made[e].cc

\* Fault: the answer to an authenticated request is stored like any other.
CanCacheAuthenticated(c, r) ==
    /\ r.ok /\ ~r.setCookie
    /\ r.cc \cap {"no-store", "private"} = {}
    /\ r.vary # "star"
    /\ "no-store" \notin kind[c].directives

\* canCache && !isClientNoStore.
CanCache(c, r) ==
    /\ r.ok /\ ~r.setCookie
    /\ r.cc \cap {"no-store", "private"} = {}
    /\ r.vary # "star"
    /\ ~kind[c].auth \/ ExplicitlyPublic(c) \/ "public" \in r.cc
    /\ "no-store" \notin kind[c].directives

\* Fault: the client's directives do not keep it out of a flight.
CanCoalesceAny(c) == ExplicitlyPublic(c) \/ (~kind[c].auth /\ ~kind[c].cookies)

CanCoalesce(c) ==
    /\ kind[c].directives = {}
    /\ ExplicitlyPublic(c) \/ (~kind[c].auth /\ ~kind[c].cookies)

\* coalesceKey, None when empty.
FlightKey(c) ==
    IF CanCoalesce(c) THEN <<kind[c].resource, Shared>>
    ELSE IF kind[c].auth /\ CoalesceAuthenticated THEN <<kind[c].resource, kind[c].session>>
    ELSE None

Goto(c, place) == at' = [at EXCEPT ![c] = place]
Ran(c) == runs' = [runs EXCEPT ![c] = @ + 1]
Learn(c) == learned' = [learned EXCEPT ![c] = IF kind[c].speculative THEN @ ELSE @ + 1]

\* Record, then Predict (at most three) and the start of Submit; the response
\* written to the client is e's.
Answer(c, e) ==
    /\ Learn(c)
    /\ got' = [got EXCEPT ![c] = e]
    /\ \E preds \in SUBSET Predictable :
          /\ Cardinality(preds) <= 3
          /\ kind[c].speculative => preds = {}
          /\ todo' = [todo EXCEPT ![c] = preds]
          /\ Goto(c, IF preds = {} THEN "done" ELSE "submitting")
    /\ UNCHANGED <<kind, queue, closed>>

\* The handler already wrote to the client: Record, no prediction.
AnswerStreamed(c) ==
    /\ Learn(c)
    /\ got' = [got EXCEPT ![c] = c]
    /\ Goto(c, "done")
    /\ UNCHANGED <<kind, held, todo, queue, closed>>

\* A panic of the handler reaches net/http, which drops the connection.
Abort(c) ==
    /\ got' = [got EXCEPT ![c] = Aborted]
    /\ Goto(c, "done")
    /\ UNCHANGED <<kind, held, learned, todo, queue, closed>>

Move(c, place) ==
    /\ Goto(c, place)
    /\ UNCHANGED <<kind, learned, todo, queue, closed, got>>
--------------------------------------------------------------------------------
Arrive(c, k) ==
    /\ at[c] = "idle"
    /\ kind' = [kind EXCEPT ![c] = k]
    /\ Goto(c, IF k.route # "cached" THEN "passing"
               ELSE IF "no-cache" \in k.directives THEN "missed" ELSE "lookup")
    /\ UNCHANGED <<inflightVars, storeVars, held, runs, learned, todo, queue, closed, got>>

\* Skipped routes and assets leave no trace; methods and protocols that pass
\* straight through are recorded, unless the handler panicked.
PassThrough(c) ==
    /\ at[c] = "passing"
    /\ Ran(c)
    /\ \/ /\ IF kind[c].route = "skipped" THEN UNCHANGED learned ELSE Learn(c)
          /\ got' = [got EXCEPT ![c] = c]
       \/ MayPanic /\ got' = [got EXCEPT ![c] = Aborted] /\ UNCHANGED learned
    /\ Goto(c, "done")
    /\ UNCHANGED <<inflightVars, storeVars, kind, held, todo, queue, closed>>

\* Where a lookup that found e goes: the variant's key if e varies, else its verdict.
Verdict(e, c, hit, miss) == IF Servable(e, c) THEN hit ELSE miss
AfterPrimary(e, c, variant, hit, miss) ==
    IF e # None /\ made[e].vary = "header" THEN variant ELSE Verdict(e, c, hit, miss)

LookupPrimary(c) ==
    /\ at[c] = "lookup"
    /\ \E e \in Found(PrimaryKey(c)) :
          /\ held' = [held EXCEPT ![c] = e]
          /\ Move(c, AfterPrimary(e, c, "lookupVariant", "hit", "missed"))
    /\ UNCHANGED <<inflightVars, storeVars, runs>>

LookupVariant(c) ==
    /\ at[c] = "lookupVariant"
    /\ \E v \in Found(VariantKey(c)) :
          LET e == IF v # None THEN v ELSE held[c] IN
          /\ held' = [held EXCEPT ![c] = e]
          /\ Move(c, Verdict(e, c, "hit", "missed"))
    /\ UNCHANGED <<inflightVars, storeVars, runs>>

Hit(c) ==
    /\ at[c] = "hit"
    /\ Answer(c, held[c])
    /\ UNCHANGED <<inflightVars, storeVars, held, runs>>

\* A miss without coalescing key runs the handler on its own.
MissAlone(c) ==
    /\ at[c] = "missed"
    /\ FlightKey(c) = None
    /\ Move(c, "direct")
    /\ UNCHANGED <<inflightVars, storeVars, held, runs>>

\* A miss with a coalescing key enters DoContext, to lead or to wait.
MissCoalesced(c) ==
    /\ at[c] = "missed"
    /\ FlightKey(c) # None
    /\ \/ Lead(c, FlightKey(c)) /\ Move(c, "recheck")
       \/ Join(c, FlightKey(c)) /\ Move(c, "flight")
    /\ UNCHANGED <<storeVars, held, runs>>

\* The leader's double-check of the cache, inside the flight.
RecheckPrimary(c) ==
    /\ at[c] = "recheck"
    /\ \E e \in Found(PrimaryKey(c)) :
          /\ held' = [held EXCEPT ![c] = e]
          /\ Move(c, AfterPrimary(e, c, "recheckVariant", "cached", "leading"))
    /\ UNCHANGED <<inflightVars, storeVars, runs>>

RecheckVariant(c) ==
    /\ at[c] = "recheckVariant"
    /\ \E v \in Found(VariantKey(c)) :
          LET e == IF v # None THEN v ELSE held[c] IN
          /\ held' = [held EXCEPT ![c] = e]
          /\ Move(c, Verdict(e, c, "cached", "leading"))
    /\ UNCHANGED <<inflightVars, storeVars, runs>>

LeadWithCached(c) ==
    /\ at[c] = "cached"
    /\ FnReturns(c, held[c])
    /\ Move(c, "flight")
    /\ UNCHANGED <<storeVars, held, runs>>

\* The leader runs the handler with a context that no client cancels.
LeadUpstream(c, r) ==
    /\ at[c] = "leading"
    /\ r.whole
    /\ Ran(c)
    /\ made' = [made EXCEPT ![c] = r]
    /\ \/ /\ r.streamed
          /\ FnReturns(c, Streaming) /\ Move(c, "flight")
          /\ UNCHANGED stored
       \/ /\ ~r.streamed /\ CanCache(c, r)
          /\ Put(PrimaryKey(c), c)
          /\ IF r.vary = "header"
               THEN Move(c, "leadVariant") /\ UNCHANGED inflightVars
               ELSE Move(c, "flight") /\ FnReturns(c, c)
       \/ /\ ~r.streamed /\ ~CanCache(c, r)
          /\ FnReturns(c, NotShareable) /\ Move(c, "flight")
          /\ UNCHANGED stored
    /\ UNCHANGED held

LeadStoresVariant(c) ==
    /\ at[c] = "leadVariant"
    /\ Put(VariantKey(c), c)
    /\ FnReturns(c, c)
    /\ Move(c, "flight")
    /\ UNCHANGED <<made, held, runs>>

LeadPanics(c) ==
    /\ MayPanic
    /\ at[c] = "leading"
    /\ Ran(c)
    /\ FnPanics(c)
    /\ Move(c, "flight")
    /\ UNCHANGED <<storeVars, held>>

\* The coalescer's own steps of a request inside DoContext.
InFlight(c) ==
    /\ Unregister(c) \/ Close(c) \/ Wake(c) \/ Abandon(c)
    /\ UNCHANGED requestVars

\* What DoContext returned, in the order the code looks at it.
Landing(c) == at[c] = "flight" /\ stage[c] = "left"
Led(c) == joined[c] = c

LandStreamed(c) ==
    /\ Landing(c)
    /\ Led(c) /\ ret[c] = Streaming
    /\ AnswerStreamed(c)
    /\ UNCHANGED <<inflightVars, storeVars, runs>>

LandShared(c) ==
    /\ Landing(c)
    /\ ret[c] \in Callers
    /\ Answer(c, ret[c])
    /\ UNCHANGED <<inflightVars, storeVars, held, runs>>

LandOwn(c) ==
    /\ Landing(c)
    /\ Led(c) /\ ret[c] = NotShareable
    /\ Answer(c, c)
    /\ UNCHANGED <<inflightVars, storeVars, held, runs>>

LandPanicked(c) ==
    /\ Landing(c)
    /\ Led(c) /\ ret[c] = Panicked
    /\ Abort(c)
    /\ UNCHANGED <<inflightVars, storeVars, runs>>

\* Fault: a leader with an unshareable response may fall through as well.
LandAloneLeaderToo(c) ==
    /\ Landing(c)
    /\ ret[c] \notin Callers
    /\ Move(c, "direct")
    /\ UNCHANGED <<inflightVars, storeVars, held, runs>>

\* Fault: only the two sentinel errors are handled, not the leader's panic.
LandAloneSentinels(c) ==
    /\ Landing(c)
    /\ ~Led(c) /\ ret[c] \in {NotShareable, Streaming}
    /\ Move(c, "direct")
    /\ UNCHANGED <<inflightVars, storeVars, held, runs>>

\* A waiter left with nothing to share falls through to its own execution.
LandAlone(c) ==
    /\ Landing(c)
    /\ ~Led(c) /\ ret[c] \notin Callers
    /\ Move(c, "direct")
    /\ UNCHANGED <<inflightVars, storeVars, held, runs>>
--------------------------------------------------------------------------------
\* The handler sees the request's own context, which may end while it runs: it may
\* cut its answer short.
DirectUpstream(c, r) ==
    /\ at[c] = "direct"
    /\ r.whole \/ c \in Cancellable
    /\ Ran(c)
    /\ made' = [made EXCEPT ![c] = r]
    /\ \/ /\ r.streamed
          /\ AnswerStreamed(c)
          /\ UNCHANGED stored
       \/ /\ ~r.streamed /\ CanCache(c, r)
          /\ Put(PrimaryKey(c), c)
          /\ IF r.vary = "header" THEN Move(c, "directVariant") ELSE Answer(c, c)
          /\ UNCHANGED held
       \/ /\ ~r.streamed /\ ~CanCache(c, r)
          /\ Answer(c, c)
          /\ UNCHANGED <<stored, held>>
    /\ UNCHANGED inflightVars

DirectStoresVariant(c) ==
    /\ at[c] = "directVariant"
    /\ Put(VariantKey(c), c)
    /\ Answer(c, c)
    /\ UNCHANGED <<inflightVars, made, held, runs>>

DirectPanics(c) ==
    /\ MayPanic
    /\ at[c] = "direct"
    /\ Ran(c)
    /\ Abort(c)
    /\ UNCHANGED <<inflightVars, storeVars>>

\* One send of Submit: never blocks, drops when the queue is full, stops
\* when the prefetcher is closed.
Submit(c) ==
    /\ at[c] = "submitting"
    /\ \E p \in todo[c] :
          /\ todo' = [todo EXCEPT ![c] = IF closed THEN {} ELSE @ \ {p}]
          /\ queue' = IF closed \/ Len(queue) = QueueCap THEN queue
                      ELSE Append(queue, [from |-> c, target |-> p])
    /\ Goto(c, IF todo'[c] = {} THEN "done" ELSE "submitting")
    /\ UNCHANGED <<inflightVars, storeVars, kind, held, runs, learned, closed, got>>

\* The client goes away while its request waits in a select.  One that left earlier
\* leaves as soon as the request waits; what a handler makes of it is in its response.
ClientGone(c) ==
    /\ stage[c] = "waiting"
    /\ CancelContext(c)
    /\ UNCHANGED requestVars

RequestStep(c) ==
    \/ PassThrough(c)
    \/ LookupPrimary(c) \/ LookupVariant(c) \/ Hit(c)
    \/ MissAlone(c) \/ MissCoalesced(c)
    \/ RecheckPrimary(c) \/ RecheckVariant(c) \/ LeadWithCached(c)
    \/ LeadStoresVariant(c) \/ LeadPanics(c)
    \/ InFlight(c)
    \/ LandStreamed(c) \/ LandShared(c) \/ LandOwn(c) \/ LandPanicked(c) \/ LandAlone(c)
    \/ DirectStoresVariant(c) \/ DirectPanics(c)
    \/ \E r \in Responses : LeadUpstream(c, r) \/ DirectUpstream(c, r)
    \/ Submit(c)

MiddlewareNext ==
    \E c \in Requests :
        \/ \E k \in Kinds : Arrive(c, k)
        \/ RequestStep(c)
        \/ ClientGone(c)

MiddlewareSpec == MiddlewareInit /\ [][MiddlewareNext]_mwVars
--------------------------------------------------------------------------------
\* Types, and the bound of the prefetcher's queue.
MiddlewareTypeOK ==
    /\ InflightTypeOK
    /\ at \in [Callers -> Places]
    /\ kind \in [Callers -> KindType \cup {None}]
    /\ held \in [Callers -> Callers \cup {None}]
    /\ made \in [Callers -> Responses \cup {None}]
    /\ stored \in [StoreKeys -> SUBSET Callers]
    /\ runs \in [Callers -> Nat] /\ learned \in [Callers -> Nat]
    /\ todo \in [Callers -> SUBSET Predictable]
    /\ queue \in Seq([from : Callers, target : Predictable])
    /\ Len(queue) <= QueueCap
    /\ closed \in BOOLEAN
    /\ got \in [Callers -> Callers \cup {Aborted, None}]

\* "Authentication Isolation" and "Cross-User Coalescing Defense" (README:69-70):
\* whoever receives a response made for another request, from the cache or from
\* a flight, receives one that HTTP lets them share; if either of the two is
\* authenticated the response or its route is declared public.
Isolation ==
    \A c \in Requests : got[c] \in Callers \ {c} =>
        LET d == got[c] IN
        /\ kind[d].resource = kind[c].resource
        /\ made[d].ok /\ ~made[d].setCookie /\ made[d].vary # "star"
        /\ made[d].cc \cap {"private", "no-store"} = {}
        /\ kind[c].auth \/ kind[d].auth => ExplicitlyPublic(c) \/ "public" \in made[d].cc

RightVariant(c) ==
    got[c] \in Callers /\ made[got[c]] # None /\ made[got[c]].vary = "header"
        => kind[got[c]].variant = kind[c].variant

\* Responses that vary are "verified on subsequent lookups" (README:73): a request
\* that did not wait on somebody's flight never gets another variant's response,
\* although primary and variant keys are written and read in separate steps.
LookupsMatchVary ==
    \A c \in Requests : joined[c] \in {None, c} => RightVariant(c)

\* "Content negotiation differences must result in cache misses and separate
\* storage" (security_and_correctness_test.go:166), for waiters as well.
EveryResponseMatchesVary == \A c \in Requests : RightVariant(c)

\* "Client Cache-Control: no-cache ... fully respected" (README:71): the client
\* gets the answer of a handler run of its own, on every path of the function.
\* Not so in a flight of one user (CoalesceAuthenticated), which the directive
\* does not keep a request out of.
NoCacheRunsFresh ==
    \A c \in Requests :
        /\ got[c] # None /\ "no-cache" \in kind[c].directives
        /\ ~(kind[c].auth /\ CoalesceAuthenticated)
        => got[c] \in {c, Aborted}

\* The fall-through from the coalesced to the direct path never runs the handler
\* twice for one request, nor at all for a request that is given another's response;
\* and each of the five ways to answer records the navigation exactly once, skipped
\* routes, speculative requests and aborted ones never.
OncePerRequest ==
    \A c \in Requests :
        /\ runs[c] <= 1
        /\ got[c] \in {c, Aborted} => runs[c] = 1
        /\ got[c] \in Callers \ {c} => runs[c] = 0
        /\ got[c] # None =>
              learned[c] = IF got[c] = Aborted \/ kind[c].speculative \/ kind[c].route = "skipped"
                           THEN 0 ELSE 1

\* Every request is answered or dropped, whatever its leader's fate.
EveryRequestAnswered == \A c \in Requests : at[c] # "idle" ~> at[c] = "done"
================================================================================
