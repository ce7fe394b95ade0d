--------------------------- MODULE MiddlewareProofs ---------------------------
(***************************************************************************)
(* The middleware uses the coalescer only as DoContext allows: every       *)
(* behaviour of Middleware is one of InflightGroup, so that what is proved *)
(* of the coalescer holds of the requests that go through it.  And what a  *)
(* client receives is fit for it: the invariant says so caller by caller   *)
(* and entry by entry, so that a step of one caller only has to be shown   *)
(* to keep that caller's part.                                             *)
(***************************************************************************)
EXTENDS Middleware, InflightGroupProofs

\* What the keys and the results of flights are made of.
Sound ==
    /\ at \in [Callers -> Places]
    /\ kind \in [Callers -> KindType \cup {None}]
    /\ held \in [Callers -> Callers \cup {None}]
    /\ stored \in [StoreKeys -> SUBSET Callers]
    /\ \A c \in Callers :
        /\ at[c] # "idle" => kind[c] \in KindType
        /\ at[c] \in {"hit", "cached"} => held[c] # None

LEMMA KindFields ==
    ASSUME NEW k \in KindType
    PROVE  k.resource \in Resources /\ k.variant \in Variants /\ k.session \in Sessions
  BY DEF KindType

LEMMA FoundType ==
    ASSUME Sound, NEW c \in Requests, at[c] # "idle"
    PROVE  /\ PrimaryKey(c) \in StoreKeys /\ VariantKey(c) \in StoreKeys
           /\ Found(PrimaryKey(c)) \subseteq Callers \cup {None}
           /\ Found(VariantKey(c)) \subseteq Callers \cup {None}
  BY KindFields, MiddlewareAssumption
     DEF Sound, PrimaryKey, VariantKey, StoreKeys, Found

LEMMA FlightKeyType ==
    ASSUME Sound, NEW c \in Requests, at[c] # "idle", FlightKey(c) # None
    PROVE  FlightKey(c) \in Keys
  BY KindFields, MiddlewareAssumption DEF Sound, FlightKey, FlightKeys

LEMMA SoundInit == MiddlewareInit => Sound
  BY DEF MiddlewareInit, Sound, Places, StoreKeys

--------------------------------------------------------------------------------
\* A lookup, of a request or of a flight's leader, may end with an entry.
LEMMA LookupStep ==
    ASSUME Sound, NEW c \in Requests,
           LookupPrimary(c) \/ LookupVariant(c) \/ RecheckPrimary(c) \/ RecheckVariant(c)
    PROVE  Sound' /\ UNCHANGED inflightVars
  <1>1. c \in Callers /\ at[c] # "idle"
    BY MiddlewareAssumption DEF LookupPrimary, LookupVariant, RecheckPrimary, RecheckVariant
  <1>2. PICK e \in Callers \cup {None}, place \in Places :
          /\ held' = [held EXCEPT ![c] = e]
          /\ at' = [at EXCEPT ![c] = place] /\ place # "idle"
          /\ place \in {"hit", "cached"} => e # None
          /\ UNCHANGED <<kind, stored, inflightVars>>
    <2>1. CASE LookupPrimary(c) \/ RecheckPrimary(c)
      BY <2>1, <1>1, FoundType
         DEF LookupPrimary, RecheckPrimary, Move, Goto, AfterPrimary, Verdict, Servable,
             Places, storeVars
    <2>2. CASE LookupVariant(c) \/ RecheckVariant(c)
      BY <2>2, <1>1, FoundType
         DEF LookupVariant, RecheckVariant, Move, Goto, Verdict, Servable, Places,
             storeVars, Sound
    <2> QED
      BY <2>1, <2>2
  <1> QED
    BY <1>1, <1>2 DEF Sound

\* A request that moves without touching held: it is not back at the start, and
\* it has not found an entry.
Moves(c) ==
    /\ \E place \in Places \ {"idle", "hit", "cached"} : at' = [at EXCEPT ![c] = place]
    /\ UNCHANGED <<kind, held>>
    /\ stored' = stored \/ \E k \in StoreKeys : Put(k, c)

LEMMA MovesSound ==
    ASSUME Sound, NEW c \in Requests, at[c] # "idle", Moves(c)
    PROVE  Sound'
  BY MiddlewareAssumption DEF Sound, Moves, Put

\* Requests outside the coalescer.
LEMMA AloneStep ==
    ASSUME Sound, NEW c \in Requests,
           \/ PassThrough(c) \/ Hit(c) \/ MissAlone(c)
           \/ LandStreamed(c) \/ LandShared(c) \/ LandOwn(c) \/ LandPanicked(c) \/ LandAlone(c)
           \/ DirectStoresVariant(c) \/ DirectPanics(c) \/ Submit(c)
           \/ \E r \in Responses : DirectUpstream(c, r)
    PROVE  Sound' /\ UNCHANGED inflightVars
  <1>1. CASE PassThrough(c) \/ Hit(c) \/ MissAlone(c) \/ Submit(c)
    <2>1. at[c] # "idle" /\ Moves(c) /\ UNCHANGED inflightVars
      BY <1>1 DEF PassThrough, Hit, MissAlone, Submit, Answer, Move, Goto, Moves, Places, storeVars
    <2> QED
      BY <2>1, MovesSound
  <1>2. CASE LandStreamed(c) \/ LandShared(c) \/ LandOwn(c) \/ LandPanicked(c) \/ LandAlone(c)
    <2>1. at[c] # "idle" /\ Moves(c) /\ UNCHANGED inflightVars
      BY <1>2 DEF LandStreamed, LandShared, LandOwn, LandPanicked, LandAlone, Landing,
                  Answer, AnswerStreamed, Abort, Move, Goto, Moves, Places, storeVars
    <2> QED
      BY <2>1, MovesSound
  <1>3. CASE DirectStoresVariant(c) \/ DirectPanics(c)
    <2>1. at[c] # "idle"
      BY <1>3 DEF DirectStoresVariant, DirectPanics
    <2>2. Moves(c) /\ UNCHANGED inflightVars
      BY <1>3, <2>1, FoundType
         DEF DirectStoresVariant, DirectPanics, Answer, Abort, Goto, Moves, Places, storeVars
    <2> QED
      BY <2>1, <2>2, MovesSound
  <1>4. ASSUME NEW r \in Responses, DirectUpstream(c, r)
        PROVE  Sound' /\ UNCHANGED inflightVars
    <2>1. at[c] # "idle"
      BY <1>4 DEF DirectUpstream
    <2>2. Moves(c) /\ UNCHANGED inflightVars
      BY <1>4, <2>1, FoundType
         DEF DirectUpstream, Answer, AnswerStreamed, Move, Goto, Moves, Places
    <2> QED
      BY <2>1, <2>2, MovesSound
  <1> QED
    BY <1>1, <1>2, <1>3, <1>4

\* Requests that enter, lead, wait in or leave a flight.
LEMMA FlightStep ==
    ASSUME Sound, NEW c \in Requests,
           \/ MissCoalesced(c) \/ LeadWithCached(c)
           \/ LeadStoresVariant(c) \/ LeadPanics(c) \/ InFlight(c) \/ ClientGone(c)
           \/ \E r \in Responses : LeadUpstream(c, r)
    PROVE  Sound' /\ [InflightNext]_inflightVars
  <1>1. c \in Callers /\ Callers \cup {NotShareable, Streaming} \subseteq Outcomes
    BY MiddlewareAssumption
  <1>2. CASE MissCoalesced(c)
    <2>1. at[c] # "idle" /\ Moves(c)
      BY <1>2 DEF MissCoalesced, Move, Goto, Moves, Places, storeVars
    <2>2. FlightKey(c) \in Keys /\ (Lead(c, FlightKey(c)) \/ Join(c, FlightKey(c)))
      BY <1>2, <2>1, FlightKeyType DEF MissCoalesced
    <2> QED
      BY <1>1, <2>1, <2>2, MovesSound DEF InflightNext
  <1>3. CASE LeadWithCached(c)
    <2>1. at[c] # "idle" /\ Moves(c) /\ held[c] \in Outcomes /\ FnReturns(c, held[c])
      BY <1>1, <1>3 DEF LeadWithCached, Move, Goto, Moves, Places, storeVars, Sound
    <2> QED
      BY <1>1, <2>1, MovesSound DEF InflightNext
  <1>4. CASE LeadStoresVariant(c)
    <2>1. at[c] # "idle" /\ FnReturns(c, c)
      BY <1>4 DEF LeadStoresVariant
    <2>2. Moves(c)
      BY <1>4, <2>1, FoundType DEF LeadStoresVariant, Move, Goto, Moves, Places
    <2> QED
      BY <1>1, <2>1, <2>2, MovesSound DEF InflightNext
  <1>5. CASE LeadPanics(c)
    <2>1. at[c] # "idle" /\ Moves(c) /\ FnPanics(c)
      BY <1>5 DEF LeadPanics, Move, Goto, Moves, Places, storeVars
    <2> QED
      BY <1>1, <2>1, MovesSound DEF InflightNext
  <1>6. ASSUME NEW r \in Responses, LeadUpstream(c, r)
        PROVE  Sound' /\ [InflightNext]_inflightVars
    <2>1. at[c] # "idle"
      BY <1>6 DEF LeadUpstream
    <2>2. Moves(c)
      BY <1>6, <2>1, FoundType DEF LeadUpstream, Move, Goto, Moves, Places
    <2>3. UNCHANGED inflightVars \/ \E o \in Outcomes : FnReturns(c, o)
      BY <1>1, <1>6 DEF LeadUpstream
    <2> QED
      BY <1>1, <2>1, <2>2, <2>3, MovesSound DEF InflightNext
  <1>7. CASE InFlight(c) \/ ClientGone(c)
    <2>1. Sound'
      BY <1>7 DEF InFlight, ClientGone, requestVars, Sound
    <2>2. Unregister(c) \/ Close(c) \/ Wake(c) \/ Abandon(c) \/ CancelContext(c)
      BY <1>7 DEF InFlight, ClientGone
    <2> QED
      BY <1>1, <2>1, <2>2 DEF InflightNext
  <1> QED
    BY <1>2, <1>3, <1>4, <1>5, <1>6, <1>7

LEMMA ArriveStep ==
    ASSUME Sound, NEW c \in Requests, NEW k \in Kinds, Arrive(c, k)
    PROVE  Sound' /\ UNCHANGED inflightVars
  BY MiddlewareAssumption DEF Arrive, Goto, storeVars, Sound, Places

--------------------------------------------------------------------------------
LEMMA Step ==
    ASSUME Sound, [MiddlewareNext]_mwVars
    PROVE  Sound' /\ [InflightNext]_inflightVars
  <1>1. CASE UNCHANGED mwVars
    BY <1>1 DEF mwVars, requestVars, Sound
  <1>2. ASSUME NEW c \in Requests, RequestStep(c)
        PROVE  Sound' /\ [InflightNext]_inflightVars
    BY <1>2, LookupStep, AloneStep, FlightStep DEF RequestStep
  <1> QED
    BY <1>1, <1>2, ArriveStep, FlightStep DEF MiddlewareNext

\* Requests use the coalescer as DoContext lets them: what is proved of every
\* behaviour of InflightSpec is true of the middleware.
LEMMA Composition == MiddlewareSpec => InflightSpec
  <1>1. MiddlewareInit => InflightInit
    BY DEF MiddlewareInit
  <1> QED
    BY <1>1, SoundInit, Step, PTL DEF MiddlewareSpec, InflightSpec

--------------------------------------------------------------------------------
\* Where a caller is outside of the coalescer, and where it runs a flight's fn.
Apart == {"idle", "passing", "lookup", "lookupVariant", "hit", "missed", "probe", "enter"}
Leading == {"recheck", "recheckVariant", "cached", "leading", "leadVariant",
            "jobRecheck", "jobLeading"}

\* Callers whose own handler run, if there was one, is over for good.
Finished(e) ==
    \/ at[e] \in {"leadVariant", "directVariant", "submitting", "done", "jobFlight"}
    \/ at[e] = "flight" /\ joined[e] = e

Declassified(e) == kind[e].resource \in PublicRoutes \/ "public" \in made[e].cc

\* Entry e may be shared under resource res, whoever made it.
Fit(e, res) ==
    /\ e \in Callers /\ Finished(e)
    /\ kind[e].resource = res
    /\ made[e] \in Responses
    /\ made[e].ok /\ ~made[e].setCookie /\ made[e].vary # "star"
    /\ made[e].cc \cap {"no-store", "private"} = {}
    /\ kind[e].auth => Declassified(e)

VariantFor(e, c) == made[e].vary = "header" => kind[e].variant = kind[c].variant

StoredFit == \A k \in StoreKeys : \A e \in stored[k] : Fit(e, k[1])

\* The handler function and the coalescer agree on where a caller is, and on its key.
Stands(c) ==
    /\ at[c] \in Apart => stage[c] = "outside"
    /\ at[c] \in Leading => stage[c] = "running"
    /\ at[c] \in {"flight", "jobFlight"} => stage[c] \notin {"outside", "running", "gone"}
    /\ at[c] \in {"direct", "directVariant", "submitting", "done"} =>
          stage[c] \in {"outside", "left"}
    /\ stage[c] \in {"outside", "running", "panicking", "unwinding"} => result[c] = None
    /\ joined[c] # None => key[c] = IF c \in Requests THEN FlightKey(c)
                                    ELSE <<kind[c].resource, Shared>>

\* What a lookup found is fit for the resource; what it accepted, for the request.  So
\* is a response of which the variant is still to be stored.
Holds(c) ==
    /\ at[c] \in {"lookupVariant", "recheckVariant", "hit", "cached"} =>
        /\ Fit(held[c], kind[c].resource)
        /\ at[c] \in {"hit", "cached"} => Servable(held[c], c)
    /\ at[c] \in {"leadVariant", "directVariant"} => Fit(c, kind[c].resource)

\* What a flight's fn returned to share is fit for everybody its key lets in.
Flies(c) ==
    joined[c] = c /\ result[c] \in Callers =>
        /\ Fit(result[c], kind[c].resource)
        /\ key[c][2] # Shared => Declassified(result[c])
        /\ c \in Requests => VariantFor(result[c], c)

\* Somebody else's response is fit for the request that was given it.
Given(c) ==
    c \in Requests /\ got[c] \in Callers \ {c} =>
        /\ Fit(got[c], kind[c].resource)
        /\ kind[c].auth => Declassified(got[c])
        /\ joined[c] \in {None, c} => VariantFor(got[c], c)

\* Where a request is says whether its handler ran: a leader's did unless its flight
\* returned a cached entry.
HandlerRan(c) ==
    \/ at[c] \in {"leadVariant", "directVariant"}
    \/ at[c] = "flight" /\ joined[c] = c /\ result[c] \notin Callers \ {c}
    \/ at[c] \in {"submitting", "done"} /\ got[c] \in {c, Aborted}

Counted(c) ==
    c \in Requests =>
        /\ runs[c] = IF HandlerRan(c) THEN 1 ELSE 0
        /\ got[c] # None <=> at[c] \in {"submitting", "done"}
        /\ got[c] = None => learned[c] = 0
        /\ got[c] # None =>
              learned[c] = IF got[c] = Aborted \/ kind[c].speculative \/ kind[c].route = "skipped"
                           THEN 0 ELSE 1
        /\ at[c] \notin {"idle", "passing", "submitting", "done"} => kind[c].route = "cached"

\* no-cache keeps a request out of the cache and, but for one user's, out of flights.
Fresh(c) ==
    /\ c \in Requests /\ at[c] # "idle" /\ "no-cache" \in kind[c].directives
    /\ ~(kind[c].auth /\ CoalesceAuthenticated)
    => /\ at[c] \notin {"lookup", "lookupVariant", "hit"}
       /\ got[c] \in {None, c, Aborted}

CallerInv(c) ==
    Stands(c) /\ Holds(c) /\ Flies(c) /\ Given(c) /\ Counted(c) /\ Fresh(c)

\* The types Sound leaves out.
RestTyped ==
    /\ made \in [Callers -> Responses \cup {None}]
    /\ runs \in [Callers -> Nat] /\ learned \in [Callers -> Nat]
    /\ todo \in [Callers -> SUBSET Predictable]
    /\ queue \in Seq([from : Callers, target : Predictable])
    /\ Len(queue) <= QueueCap
    /\ closed \in BOOLEAN
    /\ got \in [Callers -> Callers \cup {Aborted, None}]

MInv ==
    /\ IInv /\ Sound /\ RestTyped
    /\ StoredFit
    /\ \A c \in Callers : CallerInv(c)

--------------------------------------------------------------------------------
\* A step of c is c's: it touches nothing another caller's invariant reads, leaves
\* c's response alone once c is finished, and stores nothing but c's, when fit.
OnlyOf(c) ==
    \A d \in Callers \ {c} :
        /\ at'[d] = at[d] /\ kind'[d] = kind[d] /\ held'[d] = held[d] /\ made'[d] = made[d]
        /\ runs'[d] = runs[d] /\ learned'[d] = learned[d] /\ got'[d] = got[d]
        /\ stage'[d] = stage[d] /\ key'[d] = key[d] /\ joined'[d] = joined[d]
        /\ result'[d] = result[d]
Keeps(c) == Finished(c) => Finished(c)' /\ made'[c] = made[c] /\ kind'[c] = kind[c]
Stores(c) ==
    \A k \in StoreKeys : \A e \in stored'[k] : e \in stored[k] \/ (e = c /\ Fit(c, k[1])')

Steps(c) == OnlyOf(c) /\ Keeps(c) /\ Stores(c) /\ CallerInv(c)'

LEMMA FitKept ==
    ASSUME NEW c \in Callers, OnlyOf(c), Keeps(c), NEW e, NEW res, Fit(e, res)
    PROVE  /\ Fit(e, res)' /\ made'[e] = made[e] /\ kind'[e] = kind[e]
           /\ Declassified(e) <=> Declassified(e)'
  <1>1. made'[e] = made[e] /\ kind'[e] = kind[e] /\ Finished(e)'
    BY DEF OnlyOf, Keeps, Fit, Finished
  <1> QED
    BY <1>1 DEF Fit, Declassified

LEMMA Framed ==
    ASSUME MInv, NEW c \in Callers, Steps(c)
    PROVE  StoredFit' /\ \A d \in Callers : CallerInv(d)'
  <1>1. StoredFit'
    BY FitKept DEF MInv, StoredFit, Steps, Stores
  <1>2. ASSUME NEW d \in Callers \ {c} PROVE CallerInv(d)'
    <2> USE <1>2 DEF Steps
    <2>1. Stands(d)'
      BY DEF MInv, CallerInv, OnlyOf, Stands, FlightKey, CanCoalesce, ExplicitlyPublic
    <2>2. Holds(d)'
      BY FitKept DEF MInv, CallerInv, OnlyOf, Holds, Servable, MatchesVary, ExplicitlyPublic
    <2>3. Flies(d)'
      BY FitKept DEF MInv, CallerInv, OnlyOf, Flies, VariantFor
    <2>4. Given(d)'
      BY FitKept DEF MInv, CallerInv, OnlyOf, Given, VariantFor
    <2>5. Counted(d)' /\ Fresh(d)'
      BY DEF MInv, CallerInv, OnlyOf, Counted, HandlerRan, Fresh
    <2> QED
      BY <2>1, <2>2, <2>3, <2>4, <2>5 DEF CallerInv
  <1> QED
    BY <1>1, <1>2 DEF Steps

\* What a lookup may find is fit for the resource.
LEMMA FoundFit ==
    ASSUME MInv, NEW c \in Callers, at[c] # "idle",
           NEW e \in Found(PrimaryKey(c)) \cup Found(VariantKey(c)), e # None
    PROVE  Fit(e, kind[c].resource)
  <1>1. PrimaryKey(c) \in StoreKeys /\ VariantKey(c) \in StoreKeys
    BY KindFields DEF MInv, Sound, PrimaryKey, VariantKey, StoreKeys
  <1> QED
    BY <1>1 DEF MInv, StoredFit, Found, PrimaryKey, VariantKey

\* A lookup: the request, or the leader of a flight, moves to where the entry found sends it.
LEMMA LookupOwn ==
    ASSUME MInv, NEW c \in Requests,
           LookupPrimary(c) \/ LookupVariant(c) \/ RecheckPrimary(c) \/ RecheckVariant(c)
    PROVE  Steps(c)
  <1>1. c \in Callers /\ at[c] # "idle" /\ ~Finished(c)
    BY MiddlewareAssumption
       DEF LookupPrimary, LookupVariant, RecheckPrimary, RecheckVariant, Finished
  <1>2. PICK e \in Callers \cup {None}, place \in Places :
          /\ held' = [held EXCEPT ![c] = e] /\ at' = [at EXCEPT ![c] = place]
          /\ UNCHANGED <<inflightVars, kind, learned, todo, queue, closed, got, storeVars, runs>>
          /\ \/ at[c] \in {"lookup", "lookupVariant"} /\ place \in {"lookupVariant", "hit", "missed"}
             \/ at[c] \in {"recheck", "recheckVariant"}
                /\ place \in {"recheckVariant", "cached", "leading"}
          /\ place \notin {"missed", "leading"} => Fit(e, kind[c].resource)
          /\ place \in {"hit", "cached"} => Servable(e, c)
    <2>1. CASE LookupPrimary(c) \/ RecheckPrimary(c)
      <3>1. PICK e \in Found(PrimaryKey(c)), place \in Places :
              /\ held' = [held EXCEPT ![c] = e] /\ at' = [at EXCEPT ![c] = place]
              /\ \/ at[c] = "lookup" /\ place = AfterPrimary(e, c, "lookupVariant", "hit", "missed")
                 \/ at[c] = "recheck"
                    /\ place = AfterPrimary(e, c, "recheckVariant", "cached", "leading")
        BY <2>1 DEF LookupPrimary, RecheckPrimary, Move, Goto, AfterPrimary, Verdict, Places
      <3>2. e # None => Fit(e, kind[c].resource)
        BY <1>1, FoundFit
      <3> QED
        BY <1>1, <2>1, <3>1, <3>2, FoundType
           DEF LookupPrimary, RecheckPrimary, Move, AfterPrimary, Verdict, Servable, MInv
    <2>2. CASE LookupVariant(c) \/ RecheckVariant(c)
      <3> DEFINE Chosen(v) == IF v # None THEN v ELSE held[c]
      <3>1. PICK v \in Found(VariantKey(c)), place \in Places :
              /\ held' = [held EXCEPT ![c] = Chosen(v)] /\ at' = [at EXCEPT ![c] = place]
              /\ \/ at[c] = "lookupVariant" /\ place = Verdict(Chosen(v), c, "hit", "missed")
                 \/ at[c] = "recheckVariant" /\ place = Verdict(Chosen(v), c, "cached", "leading")
        BY <2>2 DEF LookupVariant, RecheckVariant, Move, Goto, Verdict, Places
      <3>2. Fit(held[c], kind[c].resource)
        BY <1>1, <2>2 DEF LookupVariant, RecheckVariant, MInv, CallerInv, Holds
      <3>3. Fit(Chosen(v), kind[c].resource) /\ Chosen(v) \in Callers
        BY <1>1, <3>1, <3>2, FoundFit DEF Fit
      <3> QED
        BY <1>1, <2>2, <3>1, <3>3
           DEF LookupVariant, RecheckVariant, Move, Verdict, MInv
    <2> QED
      BY <2>1, <2>2
  <1>3. OnlyOf(c) /\ Keeps(c) /\ Stores(c)
    <2>1. OnlyOf(c)
      BY <1>1, <1>2 DEF OnlyOf, inflightVars, storeVars, MInv, Sound
    <2>2. stored' = stored
      BY <1>2 DEF storeVars
    <2> QED
      BY <1>1, <2>1, <2>2 DEF Keeps, Stores
  <1>4. Stands(c)' /\ Flies(c)' /\ Given(c)' /\ Counted(c)' /\ Fresh(c)'
    <2>1. Stands(c)'
      BY <1>1, <1>2 DEF MInv, CallerInv, Stands, Sound, inflightVars, Apart, Leading,
         FlightKey, CanCoalesce, ExplicitlyPublic
    <2>2. Flies(c)' /\ Given(c)'
      BY <1>1, <1>2, <1>3, FitKept DEF MInv, CallerInv, Flies, Given, VariantFor, Sound, inflightVars
    <2>3. Counted(c)' /\ Fresh(c)'
      BY <1>1, <1>2 DEF MInv, CallerInv, Counted, HandlerRan, Fresh, Sound, inflightVars
    <2> QED
      BY <2>1, <2>2, <2>3
  <1>5. Holds(c)'
    <2>1. Fit(e, kind[c].resource) => Fit(e, kind[c].resource)'
      BY <1>1, <1>2, <1>3, FitKept
    <2> QED
      BY <1>1, <1>2, <2>1 DEF Holds, Servable, MatchesVary, ExplicitlyPublic, MInv, Sound, storeVars
  <1> QED
    BY <1>3, <1>4, <1>5 DEF Steps, CallerInv

\* A miss that runs the handler alone, a waiter that falls through to its own run.
LEMMA AloneOwn ==
    ASSUME MInv, NEW c \in Requests, MissAlone(c) \/ LandAlone(c)
    PROVE  Steps(c)
  <1>1. c \in Callers /\ at[c] # "idle" /\ ~Finished(c) /\ ~Finished(c)'
    BY MiddlewareAssumption DEF MissAlone, LandAlone, Landing, Led, Finished, Move, Goto,
       inflightVars, MInv, Sound
  <1>2. /\ at' = [at EXCEPT ![c] = "direct"]
        /\ UNCHANGED <<kind, held, made, stored, runs, learned, got>> /\ UNCHANGED inflightVars
        /\ at[c] = "missed" \/ (at[c] = "flight" /\ stage[c] = "left" /\ joined[c] # c)
    BY DEF MissAlone, LandAlone, Landing, Led, Move, Goto, storeVars
  <1>3. OnlyOf(c)
    BY <1>1, <1>2 DEF OnlyOf, inflightVars, MInv, Sound
  <1>4. Keeps(c) /\ Stores(c)
    BY <1>1, <1>2 DEF Keeps, Stores
  <1>5. Stands(c)'
    BY <1>1, <1>2 DEF MInv, CallerInv, Stands, Sound, inflightVars, Apart, Leading,
       FlightKey, CanCoalesce, ExplicitlyPublic
  <1>6. Flies(c)' /\ Given(c)'
    BY <1>1, <1>2, <1>3, <1>4, FitKept DEF MInv, CallerInv, Flies, Given, VariantFor, inflightVars
  <1>7. Holds(c)' /\ Counted(c)' /\ Fresh(c)'
    BY <1>1, <1>2 DEF MInv, CallerInv, Holds, Counted, HandlerRan, Fresh, Sound, inflightVars
  <1> QED
    BY <1>3, <1>4, <1>5, <1>6, <1>7 DEF Steps, CallerInv

--------------------------------------------------------------------------------
\* What the key of a flight says of a caller inside it.
LEMMA KeyMeaning ==
    ASSUME MInv, NEW c \in Callers, joined[c] # None
    PROVE  /\ kind[c] \in KindType /\ at[c] # "idle"
           /\ key[c] \in Keys /\ key[c][1] = kind[c].resource
           /\ c \in Requests =>
                /\ key[c][2] = Shared => ~kind[c].auth \/ ExplicitlyPublic(c)
                /\ key[c][2] # Shared => kind[c].auth /\ CoalesceAuthenticated
                /\ "no-cache" \in kind[c].directives => kind[c].auth /\ CoalesceAuthenticated
           /\ c \notin Requests => key[c][2] = Shared
  <1>1. kind[c] \in KindType /\ key[c] \in Keys /\ None \notin Keys /\ at[c] # "idle"
    BY InflightAssumption DEF MInv, IInv, HoldsLeader, Sound, CallerInv, Stands, Apart
  <1>2. key[c] = IF c \in Requests THEN FlightKey(c) ELSE <<kind[c].resource, Shared>>
    BY DEF MInv, CallerInv, Stands
  <1> QED
    BY <1>1, <1>2, KindFields, MiddlewareAssumption DEF FlightKey, CanCoalesce

\* What DoContext hands to a request is fit for it, and never its own if it waited.
LEMMA LandFacts ==
    ASSUME MInv, NEW c \in Requests, Landing(c)
    PROVE  /\ c \in Callers /\ joined[c] # None /\ stage[c] = "left"
           /\ Led(c) => ret[c] = result[c]
           /\ ret[c] \in Callers =>
                /\ Fit(ret[c], kind[c].resource)
                /\ kind[c].auth => Declassified(ret[c])
                /\ Led(c) => VariantFor(ret[c], c)
                /\ ~Led(c) => ret[c] # c
  <1> DEFINE l == joined[c]
  <1>1. c \in Callers /\ stage[c] = "left" /\ at[c] = "flight" /\ l \in Callers
        /\ joined[l] = l /\ key[l] = key[c] /\ l # None
    BY MiddlewareAssumption DEF Landing, MInv, IInv, InflightTypeOK, HoldsLeader
  <1>2. (ret[c] = Cancelled /\ l # c) \/ ret[c] = result[l]
    BY <1>1 DEF MInv, IInv, SharedResult
  <1>3. ASSUME ret[c] \in Callers
        PROVE  /\ Fit(ret[c], kind[c].resource)
               /\ kind[c].auth => Declassified(ret[c])
    <2>1. ret[c] = result[l]
      BY <1>2, <1>3, MiddlewareAssumption
    <2>2. Fit(ret[c], kind[l].resource) /\ (key[c][2] # Shared => Declassified(ret[c]))
      BY <1>1, <1>3, <2>1 DEF MInv, CallerInv, Flies
    <2>3. kind[l].resource = kind[c].resource
      BY <1>1, KeyMeaning
    <2>4. key[c][2] = Shared => ~kind[c].auth \/ ExplicitlyPublic(c)
      BY <1>1, KeyMeaning
    <2> QED
      BY <2>2, <2>3, <2>4 DEF Fit, Declassified, ExplicitlyPublic
  <1>4. ASSUME ret[c] \in Callers, Led(c) PROVE VariantFor(ret[c], c)
    BY <1>1, <1>2, <1>4 DEF Led, MInv, CallerInv, Flies
  <1>5. ASSUME ret[c] \in Callers, ~Led(c) PROVE ret[c] # c
    BY <1>1, <1>3, <1>5 DEF Fit, Finished, Led
  <1> QED
    BY <1>1, <1>2, <1>3, <1>4, <1>5 DEF Led

--------------------------------------------------------------------------------
\* A request is answered with e (or dropped): what every way to do so comes to.
Answers(c, e) ==
    /\ at[c] \notin {"idle", "submitting", "done"} /\ stage[c] \in {"outside", "left"}
    /\ at' \in {[at EXCEPT ![c] = "submitting"], [at EXCEPT ![c] = "done"]}
    /\ got' = [got EXCEPT ![c] = e]
    /\ learned' = [learned EXCEPT ![c] =
          IF e = Aborted \/ kind[c].speculative \/ kind[c].route = "skipped" THEN 0 ELSE 1]
    /\ runs' = [runs EXCEPT ![c] = IF e \in {c, Aborted} THEN 1 ELSE 0]
    /\ made' = made \/ (at[c] = "direct" /\ \E r : made' = [made EXCEPT ![c] = r])
    /\ UNCHANGED <<kind, held>> /\ UNCHANGED inflightVars
    /\ Stores(c)

\* A response made for somebody else is given with a reason.
MayGet(c, e) ==
    /\ Fit(e, kind[c].resource)
    /\ kind[c].auth => Declassified(e)
    /\ joined[c] \in {None, c} => VariantFor(e, c)
    /\ "no-cache" \in kind[c].directives => kind[c].auth /\ CoalesceAuthenticated

LEMMA AnswersOwn ==
    ASSUME MInv, NEW c \in Requests, NEW e \in Callers \cup {Aborted},
           Answers(c, e), e \in Callers \ {c} => MayGet(c, e)
    PROVE  Steps(c)
  <1>1. c \in Callers /\ Aborted \notin Callers /\ None \notin Callers /\ Aborted # None
    BY MiddlewareAssumption, InflightAssumption
  <1>2. at'[c] \in {"submitting", "done"} /\ \A d \in Callers \ {c} : at'[d] = at[d]
    BY <1>1 DEF Answers, MInv, Sound
  <1>3. OnlyOf(c)
    BY <1>1, <1>2 DEF OnlyOf, Answers, inflightVars, MInv, Sound, RestTyped
  <1>4. Keeps(c) /\ Stores(c)
    BY <1>1, <1>2 DEF Keeps, Answers, Finished
  <1>5. Stands(c)'
    BY <1>1, <1>2 DEF Answers, MInv, CallerInv, Stands, inflightVars, Apart, Leading,
       FlightKey, CanCoalesce, ExplicitlyPublic
  <1>6. Flies(c)'
    BY <1>1, <1>3, <1>4, FitKept
       DEF Answers, MInv, CallerInv, Flies, VariantFor, inflightVars
  <1>7. got'[c] = e /\ runs'[c] = (IF e \in {c, Aborted} THEN 1 ELSE 0)
        /\ learned'[c] = IF e = Aborted \/ kind[c].speculative \/ kind[c].route = "skipped"
                         THEN 0 ELSE 1
    BY <1>1 DEF Answers, MInv, RestTyped
  <1>8. Given(c)'
    BY <1>1, <1>3, <1>4, <1>7, FitKept DEF Answers, MayGet, Given, VariantFor, inflightVars
  <1>9. Holds(c)' /\ Counted(c)'
    BY <1>1, <1>2, <1>7 DEF Answers, Holds, Counted, HandlerRan
  <1>10. Fresh(c)'
    BY <1>1, <1>2, <1>7 DEF Answers, MayGet, Fresh
  <1> QED
    BY <1>3, <1>4, <1>5, <1>6, <1>8, <1>9, <1>10 DEF Steps, CallerInv

\* Record and Predict after an answer the cache or a flight may have produced.
LEMMA AnswerAnswers ==
    ASSUME MInv, NEW c \in Requests, NEW e \in Callers,
           at[c] \notin {"idle", "passing", "submitting", "done"},
           stage[c] \in {"outside", "left"}, Answer(c, e),
           UNCHANGED inflightVars, held' = held,
           runs'[c] = IF e = c THEN 1 ELSE 0, runs' = [runs EXCEPT ![c] = runs'[c]],
           made' = made \/ (at[c] = "direct" /\ \E r : made' = [made EXCEPT ![c] = r]),
           Stores(c)
    PROVE  Answers(c, e)
  <1>1. c \in Callers /\ e # Aborted /\ learned[c] = 0 /\ kind[c].route = "cached"
    BY MiddlewareAssumption DEF MInv, CallerInv, Counted
  <1>2. kind[c].speculative \in BOOLEAN
    BY <1>1 DEF MInv, Sound, KindType
  <1>3. learned' = [learned EXCEPT ![c] =
          IF e = Aborted \/ kind[c].speculative \/ kind[c].route = "skipped" THEN 0 ELSE 1]
    <2>1. learned' = [learned EXCEPT ![c] = IF kind[c].speculative THEN @ ELSE @ + 1]
      BY DEF Answer, Learn
    <2>2. learned' = [learned EXCEPT ![c] = IF kind[c].speculative THEN 0 ELSE 1]
      BY <1>1, <2>1
    <2>3. ~(e = Aborted) /\ ~(kind[c].route = "skipped")
      BY <1>1
    <2> QED
      BY <2>2, <2>3
  <1>4. at' \in {[at EXCEPT ![c] = "submitting"], [at EXCEPT ![c] = "done"]}
    BY DEF Answer, Goto
  <1>5. runs' = [runs EXCEPT ![c] = IF e \in {c, Aborted} THEN 1 ELSE 0]
    BY <1>1
  <1> QED
    BY <1>3, <1>4, <1>5 DEF Answer, Answers

\* The handler wrote to the client itself, or panicked.
LEMMA StreamedAnswers ==
    ASSUME MInv, NEW c \in Requests, NEW e \in {c, Aborted},
           at[c] \notin {"idle", "passing", "submitting", "done"},
           stage[c] \in {"outside", "left"},
           \/ AnswerStreamed(c) /\ e = c
           \/ Abort(c) /\ e = Aborted,
           UNCHANGED inflightVars, runs' = [runs EXCEPT ![c] = 1],
           made' = made \/ (at[c] = "direct" /\ \E r : made' = [made EXCEPT ![c] = r]),
           Stores(c)
    PROVE  Answers(c, e)
  <1>1. c \in Callers /\ Aborted \notin Callers /\ learned[c] = 0 /\ kind[c].route = "cached"
    BY MiddlewareAssumption DEF MInv, CallerInv, Counted
  <1>2. kind[c].speculative \in BOOLEAN
    BY <1>1 DEF MInv, Sound, KindType
  <1>3. learned' = [learned EXCEPT ![c] =
          IF e = Aborted \/ kind[c].speculative \/ kind[c].route = "skipped" THEN 0 ELSE 1]
    BY <1>1, <1>2 DEF AnswerStreamed, Abort, Learn, MInv, RestTyped
  <1> QED
    BY <1>3 DEF AnswerStreamed, Abort, Answers, Goto

\* Before a request is answered or enters a flight, its handler has not run.
LEMMA NotRunYet ==
    ASSUME MInv, NEW c \in Requests,
           \/ at[c] \in {"passing", "hit", "leading", "direct", "cached"}
           \/ Landing(c) /\ ~Led(c)
    PROVE  /\ c \in Callers /\ runs[c] = 0 /\ learned[c] = 0 /\ got[c] = None
           /\ at[c] # "passing" => kind[c].route = "cached"
           /\ at[c] \in {"passing", "hit"} => stage[c] = "outside" /\ joined[c] = None
           /\ at[c] = "direct" => stage[c] \in {"outside", "left"}
  <1>1. c \in Callers
    BY MiddlewareAssumption
  <1>2. Counted(c) /\ Stands(c)
    BY <1>1 DEF MInv, CallerInv
  <1>3. stage[c] = "outside" => joined[c] = None
    BY <1>1 DEF MInv, IInv, HoldsLeader
  <1> QED
    BY <1>1, <1>2, <1>3 DEF Counted, HandlerRan, Stands, Apart, Landing, Led

LEMMA PassThroughOwn ==
    ASSUME MInv, NEW c \in Requests, PassThrough(c)
    PROVE  Steps(c)
  <1>1. at[c] = "passing" /\ c \in Callers /\ Aborted \notin Callers /\ stage[c] = "outside"
        /\ learned[c] = 0 /\ runs[c] = 0
    BY NotRunYet, MiddlewareAssumption DEF PassThrough
  <1>2. kind[c].speculative \in BOOLEAN
    BY <1>1 DEF MInv, Sound, KindType
  <1>3. stored' = stored /\ made' = made /\ runs' = [runs EXCEPT ![c] = 1]
        /\ at' = [at EXCEPT ![c] = "done"] /\ UNCHANGED <<kind, held>> /\ UNCHANGED inflightVars
    BY <1>1 DEF PassThrough, Ran, Goto, storeVars
  <1>4. PICK e \in {c, Aborted} :
          /\ got' = [got EXCEPT ![c] = e]
          /\ IF e = Aborted \/ kind[c].route = "skipped" THEN learned' = learned
             ELSE learned' = [learned EXCEPT ![c] = IF kind[c].speculative THEN @ ELSE @ + 1]
    <2>1. c # Aborted
      BY <1>1
    <2> QED
      BY <2>1 DEF PassThrough, Learn
  <1>5. learned' = [learned EXCEPT ![c] =
          IF e = Aborted \/ kind[c].speculative \/ kind[c].route = "skipped" THEN 0 ELSE 1]
    <2>1. learned = [learned EXCEPT ![c] = 0]
      BY <1>1 DEF MInv, RestTyped
    <2>2. CASE e = Aborted \/ kind[c].route = "skipped"
      BY <1>4, <2>1, <2>2
    <2>3. CASE ~(e = Aborted \/ kind[c].route = "skipped")
      <3>1. learned' = [learned EXCEPT ![c] = IF kind[c].speculative THEN 0 ELSE 1]
        BY <1>1, <1>4, <2>3
      <3> QED
        BY <2>3, <3>1
    <2> QED
      BY <2>2, <2>3
  <1>6. Stores(c)
    BY <1>3 DEF Stores
  <1>7. Answers(c, e)
    BY <1>1, <1>3, <1>4, <1>5, <1>6 DEF Answers
  <1> QED
    BY <1>1, <1>7, AnswersOwn

LEMMA HitOwn ==
    ASSUME MInv, NEW c \in Requests, Hit(c)
    PROVE  Steps(c)
  <1>1. c \in Callers /\ at[c] = "hit" /\ stage[c] = "outside" /\ joined[c] = None /\ runs[c] = 0
    BY NotRunYet DEF Hit
  <1>2. Fit(held[c], kind[c].resource) /\ Servable(held[c], c)
    BY <1>1 DEF MInv, CallerInv, Holds
  <1>3. held[c] \in Callers \ {c}
    BY <1>1, <1>2 DEF Fit, Finished
  <1>4. "no-cache" \in kind[c].directives => kind[c].auth /\ CoalesceAuthenticated
    BY <1>1 DEF MInv, CallerInv, Fresh
  <1>5. MayGet(c, held[c])
    BY <1>2, <1>4 DEF MayGet, Servable, MatchesVary, VariantFor, ExplicitlyPublic, Fit, Declassified
  <1>6. stored' = stored /\ made' = made /\ held' = held /\ UNCHANGED inflightVars
        /\ runs' = [runs EXCEPT ![c] = runs'[c]] /\ runs'[c] = 0 /\ Answer(c, held[c])
    BY <1>1 DEF Hit, storeVars, MInv, RestTyped
  <1>7. Stores(c)
    BY <1>6 DEF Stores
  <1>8. Answers(c, held[c])
    BY <1>1, <1>3, <1>6, <1>7, AnswerAnswers
  <1> QED
    BY <1>3, <1>5, <1>8, AnswersOwn

\* What DoContext returned is passed on: another's response, or the leader's own.
LEMMA LandOwnStep ==
    ASSUME MInv, NEW c \in Requests,
           LandShared(c) \/ LandOwn(c) \/ LandStreamed(c) \/ LandPanicked(c)
    PROVE  Steps(c)
  <1>1. Landing(c) /\ stored' = stored /\ made' = made /\ runs' = runs /\ UNCHANGED inflightVars
    BY DEF LandShared, LandOwn, LandStreamed, LandPanicked, storeVars
  <1>2. c \in Callers /\ at[c] = "flight" /\ stage[c] = "left"
        /\ (Led(c) => ret[c] = result[c]) /\ Stores(c)
    BY <1>1, LandFacts DEF Landing, Stores
  <1>3. runs[c] = IF Led(c) /\ result[c] \notin Callers \ {c} THEN 1 ELSE 0
    BY <1>2 DEF MInv, CallerInv, Counted, HandlerRan, Led
  <1>4. runs' = [runs EXCEPT ![c] = runs'[c]] /\ runs = [runs EXCEPT ![c] = runs[c]]
    BY <1>1, <1>2 DEF MInv, RestTyped
  <1>5. CASE LandShared(c)
    <2>1. ret[c] \in Callers /\ Answer(c, ret[c]) /\ held' = held
      BY <1>5 DEF LandShared
    <2>2. runs'[c] = IF ret[c] = c THEN 1 ELSE 0
      BY <1>1, <1>2, <1>3, <2>1, LandFacts
    <2>3. Answers(c, ret[c])
      BY <1>1, <1>2, <1>4, <2>1, <2>2, AnswerAnswers
    <2>4. "no-cache" \in kind[c].directives => kind[c].auth /\ CoalesceAuthenticated
      BY <1>1, <1>2, LandFacts, KeyMeaning
    <2>5. MayGet(c, ret[c])
      BY <1>1, <2>1, <2>4, LandFacts DEF MayGet, Led
    <2> QED
      BY <2>1, <2>3, <2>5, AnswersOwn
  <1>6. ASSUME Led(c), ret[c] \in {NotShareable, Streaming, Panicked}
        PROVE  runs = [runs EXCEPT ![c] = 1] /\ runs[c] = 1
    BY <1>2, <1>3, <1>4, <1>6, MiddlewareAssumption
  <1>7. CASE LandOwn(c)
    <2>1. Answer(c, c) /\ held' = held /\ runs'[c] = 1
      BY <1>1, <1>6, <1>7 DEF LandOwn
    <2>2. Answers(c, c)
      BY <1>1, <1>2, <1>4, <2>1, AnswerAnswers
    <2> QED
      BY <1>2, <2>2, AnswersOwn
  <1>8. CASE LandStreamed(c)
    <2>1. AnswerStreamed(c) /\ runs' = [runs EXCEPT ![c] = 1]
      BY <1>1, <1>6, <1>8 DEF LandStreamed
    <2>2. Answers(c, c)
      BY <1>1, <1>2, <2>1, StreamedAnswers
    <2> QED
      BY <1>2, <2>2, AnswersOwn
  <1>9. CASE LandPanicked(c)
    <2>1. Abort(c) /\ runs' = [runs EXCEPT ![c] = 1]
      BY <1>1, <1>6, <1>9 DEF LandPanicked
    <2>2. Answers(c, Aborted)
      BY <1>1, <1>2, <2>1, StreamedAnswers
    <2> QED
      BY <1>2, <2>2, AnswersOwn, MiddlewareAssumption
  <1> QED
    BY <1>5, <1>7, <1>8, <1>9

--------------------------------------------------------------------------------
\* What canCache admits is fit for everybody once it is made, and may be stored.
LEMMA CachedFit ==
    ASSUME MInv, NEW c \in Requests, NEW r \in Responses, CanCache(c, r),
           kind' = kind, made' = [made EXCEPT ![c] = r], Finished(c)'
    PROVE  Fit(c, kind[c].resource)'
  <1>1. c \in Callers /\ made'[c] = r
    BY MiddlewareAssumption DEF MInv, RestTyped
  <1> QED
    BY <1>1 DEF CanCache, Fit, Declassified, ExplicitlyPublic

LEMMA PutStores ==
    ASSUME MInv, NEW c \in Callers, at[c] # "idle", kind' = kind, Fit(c, kind[c].resource)',
           Put(PrimaryKey(c), c) \/ Put(VariantKey(c), c)
    PROVE  Stores(c)
  <1>1. PrimaryKey(c) \in StoreKeys /\ VariantKey(c) \in StoreKeys
    BY KindFields DEF MInv, Sound, PrimaryKey, VariantKey, StoreKeys
  <1>2. PrimaryKey(c)[1] = kind[c].resource /\ VariantKey(c)[1] = kind[c].resource
    BY DEF PrimaryKey, VariantKey
  <1>3. PICK k \in StoreKeys : k[1] = kind[c].resource /\ Put(k, c)
    BY <1>1, <1>2
  <1>4. \A j \in StoreKeys : \A e \in stored'[j] : e \in stored[j] \/ (e = c /\ j = k)
    BY <1>3 DEF Put, MInv, Sound
  <1>5. Fit(c, k[1])'
    BY <1>3 DEF Fit
  <1> QED
    BY <1>4, <1>5 DEF Stores

\* The response is made and stored under its primary key, the variant's is next.
LEMMA ToVariant ==
    ASSUME MInv, NEW c \in Requests, NEW r \in Responses, CanCache(c, r),
           \/ at[c] = "direct" /\ at' = [at EXCEPT ![c] = "directVariant"]
           \/ at[c] = "leading" /\ at' = [at EXCEPT ![c] = "leadVariant"],
           made' = [made EXCEPT ![c] = r], runs' = [runs EXCEPT ![c] = @ + 1],
           Put(PrimaryKey(c), c),
           UNCHANGED <<kind, held, learned, got>>, UNCHANGED inflightVars
    PROVE  Steps(c)
  <1>1. c \in Callers /\ ~Finished(c) /\ Finished(c)'
        /\ at'[c] \in {"directVariant", "leadVariant"}
    BY MiddlewareAssumption DEF MInv, Sound, Finished
  <1>2. Fit(c, kind[c].resource)'
    BY <1>1, CachedFit
  <1>3. Stores(c)
    BY <1>1, <1>2, PutStores
  <1>4. OnlyOf(c) /\ Keeps(c)
    BY <1>1 DEF OnlyOf, Keeps, inflightVars, MInv, Sound, RestTyped
  <1>5. Stands(c)'
    BY <1>1 DEF MInv, CallerInv, Stands, Sound, inflightVars, Apart, Leading,
       FlightKey, CanCoalesce, ExplicitlyPublic
  <1>6. Flies(c)' /\ Given(c)'
    BY <1>1, <1>4, FitKept DEF MInv, CallerInv, Flies, Given, VariantFor, inflightVars
  <1>7. Holds(c)'
    BY <1>1, <1>2 DEF Holds
  <1>8. Counted(c)' /\ Fresh(c)'
    <2>1. runs[c] = 0 /\ got[c] = None /\ learned[c] = 0 /\ kind[c].route = "cached"
      BY NotRunYet
    <2> QED
      BY <1>1, <2>1 DEF Counted, HandlerRan, Fresh, MInv, CallerInv, RestTyped
  <1> QED
    BY <1>3, <1>4, <1>5, <1>6, <1>7, <1>8 DEF Steps, CallerInv

\* A request that runs the handler on its own.
LEMMA DirectOwn ==
    ASSUME MInv, NEW c \in Requests, NEW r \in Responses, DirectUpstream(c, r)
    PROVE  Steps(c)
  <1>1. c \in Callers /\ at[c] = "direct" /\ stage[c] \in {"outside", "left"} /\ runs[c] = 0
        /\ UNCHANGED inflightVars /\ made' = [made EXCEPT ![c] = r]
        /\ runs' = [runs EXCEPT ![c] = @ + 1]
    BY NotRunYet DEF DirectUpstream, Ran
  <1>2. runs' = [runs EXCEPT ![c] = 1] /\ runs'[c] = 1
    BY <1>1 DEF MInv, RestTyped
  <1>3. ASSUME stored' = stored PROVE Stores(c)
    BY <1>3 DEF Stores
  <1>4. CASE r.streamed
    <2>1. AnswerStreamed(c) /\ stored' = stored
      BY <1>4 DEF DirectUpstream
    <2>2. Answers(c, c)
      BY <1>1, <1>2, <1>3, <2>1, StreamedAnswers
    <2> QED
      BY <1>1, <2>2, AnswersOwn
  <1>5. CASE ~r.streamed /\ CanCache(c, r)
    <2>1. held' = held /\ Put(PrimaryKey(c), c) /\ (Move(c, "directVariant") \/ Answer(c, c))
      BY <1>5 DEF DirectUpstream
    <2>2. CASE Move(c, "directVariant")
      BY <1>1, <1>5, <2>1, <2>2, ToVariant DEF Move, Goto
    <2>3. CASE Answer(c, c)
      <3>1. kind' = kind /\ Finished(c)'
        BY <1>1, <2>3 DEF Answer, Goto, Finished, MInv, Sound
      <3>2. Stores(c)
        BY <1>1, <1>5, <2>1, <3>1, CachedFit, PutStores
      <3>3. Answers(c, c)
        BY <1>1, <1>2, <2>1, <2>3, <3>2, AnswerAnswers
      <3> QED
        BY <1>1, <3>3, AnswersOwn
    <2> QED
      BY <2>1, <2>2, <2>3
  <1>6. CASE ~r.streamed /\ ~CanCache(c, r)
    <2>1. Answer(c, c) /\ UNCHANGED <<stored, held>>
      BY <1>6 DEF DirectUpstream
    <2>2. Answers(c, c)
      BY <1>1, <1>2, <1>3, <2>1, AnswerAnswers
    <2> QED
      BY <1>1, <2>2, AnswersOwn
  <1> QED
    BY <1>4, <1>5, <1>6

LEMMA DirectRest ==
    ASSUME MInv, NEW c \in Requests, DirectStoresVariant(c) \/ DirectPanics(c) \/ Submit(c)
    PROVE  Steps(c)
  <1>1. c \in Callers /\ at[c] # "idle"
    BY MiddlewareAssumption DEF DirectStoresVariant, DirectPanics, Submit
  <1>2. CASE DirectStoresVariant(c)
    <2>1. at[c] = "directVariant" /\ Put(VariantKey(c), c) /\ Answer(c, c)
          /\ UNCHANGED <<made, held, runs>> /\ UNCHANGED inflightVars
      BY <1>2 DEF DirectStoresVariant
    <2>2. Fit(c, kind[c].resource) /\ runs[c] = 1 /\ stage[c] \in {"outside", "left"}
      BY <1>1, <2>1 DEF MInv, CallerInv, Holds, Counted, HandlerRan, Stands
    <2>3. kind' = kind /\ Finished(c)' /\ runs' = [runs EXCEPT ![c] = runs'[c]]
      BY <1>1, <2>1 DEF Answer, Goto, Finished, MInv, Sound, RestTyped
    <2>4. Fit(c, kind[c].resource)'
      BY <2>1, <2>2, <2>3 DEF Fit, Declassified
    <2>5. Stores(c)
      BY <1>1, <2>1, <2>3, <2>4, PutStores
    <2>6. Answers(c, c)
      BY <1>1, <2>1, <2>2, <2>3, <2>5, AnswerAnswers
    <2> QED
      BY <1>1, <2>6, AnswersOwn
  <1>3. CASE DirectPanics(c)
    <2>1. at[c] = "direct" /\ Ran(c) /\ Abort(c) /\ UNCHANGED storeVars /\ UNCHANGED inflightVars
      BY <1>3 DEF DirectPanics
    <2>2. runs[c] = 0 /\ stage[c] \in {"outside", "left"}
      BY <2>1, NotRunYet
    <2>3. runs' = [runs EXCEPT ![c] = 1] /\ made' = made /\ stored' = stored
      BY <1>1, <2>1, <2>2 DEF Ran, storeVars, MInv, RestTyped
    <2>4. Answers(c, Aborted)
      BY <2>1, <2>2, <2>3, StreamedAnswers DEF Stores
    <2> QED
      BY <1>1, <2>4, AnswersOwn, MiddlewareAssumption
  <1>4. CASE Submit(c)
    <2>1. /\ at[c] = "submitting" /\ at'[c] \in {"submitting", "done"}
          /\ at' = [at EXCEPT ![c] = at'[c]]
          /\ UNCHANGED <<made, stored, kind, held, runs, learned, got>>
          /\ UNCHANGED inflightVars
      BY <1>1, <1>4 DEF Submit, Goto, storeVars, MInv, Sound
    <2>2. OnlyOf(c) /\ Keeps(c) /\ Stores(c)
      <3>1. OnlyOf(c)
        BY <1>1, <2>1 DEF OnlyOf, inflightVars, MInv, Sound
      <3>2. Keeps(c) /\ Stores(c)
        BY <1>1, <2>1 DEF Keeps, Finished, Stores
      <3> QED
        BY <3>1, <3>2
    <2>3. Stands(c)' /\ Holds(c)' /\ Fresh(c)'
      BY <1>1, <2>1 DEF MInv, CallerInv, Stands, Holds, Fresh, inflightVars, Apart, Leading,
         FlightKey, CanCoalesce, ExplicitlyPublic
    <2>4. Flies(c)' /\ Given(c)'
      BY <1>1, <2>1, <2>2, FitKept DEF MInv, CallerInv, Flies, Given, VariantFor, inflightVars
    <2>5. Counted(c)'
      BY <1>1, <2>1 DEF MInv, CallerInv, Counted, HandlerRan
    <2> QED
      BY <2>2, <2>3, <2>4, <2>5 DEF Steps, CallerInv
  <1> QED
    BY <1>2, <1>3, <1>4

--------------------------------------------------------------------------------
\* A caller whose fn returns what may be shared, or nothing to share, waits for the
\* flight to land.
LEMMA ReturnOwn ==
    ASSUME MInv, NEW c \in Requests, at[c] \in Leading,
           at' = [at EXCEPT ![c] = "flight"], UNCHANGED <<kind, held, learned, got>>,
           FnPanics(c) \/ \E o \in Outcomes : FnReturns(c, o),
           made' = made \/ (at[c] = "leading" /\ \E r : made' = [made EXCEPT ![c] = r]),
           Stores(c),
           runs' = [runs EXCEPT ![c] = IF result'[c] \in Callers \ {c} THEN 0 ELSE 1],
           result'[c] \in Callers =>
              /\ Fit(result[c], kind[c].resource)'
              /\ kind[c].auth => Declassified(result[c])'
              /\ VariantFor(result[c], c)'
    PROVE  Steps(c)
  <1>1. c \in Callers /\ at[c] # "idle" /\ at'[c] = "flight" /\ stage[c] = "running"
        /\ joined[c] = c /\ joined' = joined /\ key' = key
    BY MiddlewareAssumption
       DEF FnPanics, FnReturns, Leading, MInv, Sound, IInv, HoldsLeader, Registered, CallerInv, Stands
  <1>2. /\ stage' = [stage EXCEPT ![c] = stage'[c]] /\ stage'[c] \in {"ran", "panicking"}
        /\ result' = [result EXCEPT ![c] = result'[c]]
        /\ stage'[c] = "panicking" => result'[c] = None
    BY <1>1 DEF FnPanics, FnReturns, MInv, IInv, InflightTypeOK, CallerInv, Stands
  <1>3. OnlyOf(c)
    BY <1>1, <1>2 DEF OnlyOf, MInv, Sound, RestTyped, IInv, InflightTypeOK
  <1>4. Keeps(c)
    BY <1>1 DEF Keeps, Finished, Leading
  <1>5. Stands(c)' /\ Holds(c)' /\ Fresh(c)'
    BY <1>1, <1>2 DEF MInv, CallerInv, Stands, Holds, Fresh, Apart, Leading,
       FlightKey, CanCoalesce, ExplicitlyPublic
  <1>6. Flies(c)' /\ Given(c)'
    <2>1. key[c][2] # Shared => kind[c].auth
      BY <1>1, KeyMeaning, InflightAssumption
    <2>2. got[c] = None
      BY <1>1 DEF MInv, CallerInv, Counted, Leading
    <2> QED
      BY <1>1, <2>1, <2>2, InflightAssumption DEF Flies, Given
  <1>7. Counted(c)'
    BY <1>1, InflightAssumption DEF MInv, CallerInv, Counted, HandlerRan, Leading, RestTyped
  <1> QED
    BY <1>3, <1>4, <1>5, <1>6, <1>7 DEF Steps, CallerInv

LEMMA LeadWithCachedOwn ==
    ASSUME MInv, NEW c \in Requests, LeadWithCached(c)
    PROVE  Steps(c)
  <1>1. c \in Callers /\ at[c] = "cached" /\ runs[c] = 0
    BY NotRunYet DEF LeadWithCached
  <1>2. Fit(held[c], kind[c].resource) /\ Servable(held[c], c)
    BY <1>1 DEF MInv, CallerInv, Holds
  <1>3. held[c] \in Callers \ {c} /\ held[c] \in Outcomes
    BY <1>1, <1>2, MiddlewareAssumption DEF Fit, Finished
  <1>4. /\ at' = [at EXCEPT ![c] = "flight"] /\ UNCHANGED <<kind, held, learned, got>>
        /\ made' = made /\ stored' = stored /\ runs' = runs
        /\ FnReturns(c, held[c])
    BY DEF LeadWithCached, Move, Goto, storeVars
  <1>5. result'[c] = held[c] /\ joined' = joined
    BY <1>1, <1>4 DEF FnReturns, MInv, IInv, InflightTypeOK
  <1>6. Finished(held[c])'
    BY <1>1, <1>2, <1>3, <1>4, <1>5 DEF Fit, Finished, MInv, Sound
  <1>7. Fit(result[c], kind[c].resource)' /\ VariantFor(result[c], c)'
        /\ (kind[c].auth => Declassified(result[c])')
    BY <1>2, <1>4, <1>5, <1>6
       DEF Fit, Declassified, VariantFor, Servable, MatchesVary, ExplicitlyPublic
  <1>8. runs' = [runs EXCEPT ![c] = IF result'[c] \in Callers \ {c} THEN 0 ELSE 1]
    BY <1>1, <1>3, <1>4, <1>5 DEF MInv, RestTyped
  <1> QED
    BY <1>1, <1>3, <1>4, <1>7, <1>8, ReturnOwn DEF Leading, Stores

LEMMA LeadUpstreamOwn ==
    ASSUME MInv, NEW c \in Requests, NEW r \in Responses, LeadUpstream(c, r)
    PROVE  Steps(c)
  <1>1. c \in Callers /\ at[c] = "leading" /\ runs[c] = 0
        /\ Callers \cap {NotShareable, Streaming} = {}
    BY NotRunYet, MiddlewareAssumption DEF LeadUpstream
  <1>2. runs' = [runs EXCEPT ![c] = @ + 1] /\ runs' = [runs EXCEPT ![c] = 1]
        /\ made' = [made EXCEPT ![c] = r] /\ held' = held
    BY <1>1 DEF LeadUpstream, Ran
  <1>3. CASE stored' = stored /\ Move(c, "flight")
             /\ (FnReturns(c, Streaming) \/ FnReturns(c, NotShareable))
    <2>1. result'[c] \notin Callers
      BY <1>1, <1>3 DEF FnReturns, MInv, IInv, InflightTypeOK
    <2> QED
      BY <1>1, <1>2, <1>3, <2>1, ReturnOwn, MiddlewareAssumption DEF Move, Goto, Leading, Stores
  <1>4. CASE ~r.streamed /\ CanCache(c, r) /\ Put(PrimaryKey(c), c)
             /\ Move(c, "leadVariant") /\ UNCHANGED inflightVars
    BY <1>1, <1>2, <1>4, ToVariant DEF Move, Goto
  <1>5. CASE ~r.streamed /\ CanCache(c, r) /\ Put(PrimaryKey(c), c)
             /\ Move(c, "flight") /\ FnReturns(c, c)
    <2>1. /\ at' = [at EXCEPT ![c] = "flight"] /\ UNCHANGED <<kind, held, learned, got>>
          /\ result'[c] = c /\ joined'[c] = c
      BY <1>1, <1>2, <1>5 DEF Move, Goto, FnReturns, MInv, IInv, InflightTypeOK, HoldsLeader, Registered
    <2>2. Finished(c)'
      BY <1>1, <2>1 DEF Finished, MInv, Sound
    <2>3. Fit(c, kind[c].resource)'
      BY <1>2, <1>5, <2>1, <2>2, CachedFit
    <2>4. Stores(c)
      BY <1>1, <1>5, <2>1, <2>3, PutStores
    <2>5. (kind[c].auth => Declassified(c)') /\ VariantFor(c, c)'
      BY <2>1, <2>3 DEF Fit, VariantFor
    <2>6. Fit(result[c], kind[c].resource)' /\ VariantFor(result[c], c)'
          /\ (kind[c].auth => Declassified(result[c])')
      BY <2>1, <2>3, <2>5 DEF Fit, Declassified, VariantFor
    <2> QED
      BY <1>1, <1>2, <1>5, <2>1, <2>4, <2>6, ReturnOwn, MiddlewareAssumption DEF Leading
  <1> QED
    BY <1>3, <1>4, <1>5 DEF LeadUpstream

LEMMA LeadRest ==
    ASSUME MInv, NEW c \in Requests, LeadStoresVariant(c) \/ LeadPanics(c)
    PROVE  Steps(c)
  <1>1. c \in Callers /\ at[c] \in Leading /\ at[c] # "idle"
    BY MiddlewareAssumption DEF LeadStoresVariant, LeadPanics, Leading
  <1>2. CASE LeadStoresVariant(c)
    <2>1. /\ at[c] = "leadVariant" /\ Put(VariantKey(c), c) /\ FnReturns(c, c)
          /\ at' = [at EXCEPT ![c] = "flight"] /\ UNCHANGED <<kind, held, learned, got>>
          /\ made' = made /\ runs' = runs
      BY <1>2 DEF LeadStoresVariant, Move, Goto
    <2>2. Fit(c, kind[c].resource) /\ runs[c] = 1
      BY <1>1, <2>1 DEF MInv, CallerInv, Holds, Counted, HandlerRan
    <2>3. result'[c] = c /\ Finished(c)'
      BY <1>1, <2>1 DEF FnReturns, Finished, MInv, Sound, IInv, InflightTypeOK, HoldsLeader, Registered
    <2>4. Fit(c, kind[c].resource)' /\ VariantFor(c, c)' /\ (kind[c].auth => Declassified(c)')
      BY <2>1, <2>2, <2>3 DEF Fit, Declassified, VariantFor
    <2>5. Stores(c)
      BY <1>1, <2>1, <2>4, PutStores
    <2>6. runs' = [runs EXCEPT ![c] = IF result'[c] \in Callers \ {c} THEN 0 ELSE 1]
      BY <1>1, <2>1, <2>2, <2>3 DEF MInv, RestTyped
    <2>7. Fit(result[c], kind[c].resource)' /\ VariantFor(result[c], c)'
          /\ (kind[c].auth => Declassified(result[c])')
      BY <2>1, <2>3, <2>4 DEF Fit, Declassified, VariantFor
    <2> QED
      BY <1>1, <2>1, <2>5, <2>6, <2>7, ReturnOwn, MiddlewareAssumption
  <1>3. CASE LeadPanics(c)
    <2>1. /\ at[c] = "leading" /\ FnPanics(c) /\ Ran(c)
          /\ at' = [at EXCEPT ![c] = "flight"] /\ UNCHANGED <<kind, held, learned, got>>
          /\ made' = made /\ stored' = stored
      BY <1>3 DEF LeadPanics, Move, Goto, storeVars
    <2>2. result'[c] = None /\ None \notin Callers
      BY <1>1, <2>1, InflightAssumption DEF FnPanics, MInv, CallerInv, Stands
    <2>3. runs[c] = 0
      BY <2>1, NotRunYet
    <2>4. runs' = [runs EXCEPT ![c] = IF result'[c] \in Callers \ {c} THEN 0 ELSE 1]
      BY <2>1, <2>2, <2>3 DEF Ran
    <2> QED
      BY <1>1, <2>1, <2>2, <2>4, ReturnOwn DEF Stores
  <1> QED
    BY <1>2, <1>3

--------------------------------------------------------------------------------
LEMMA ArriveOwn ==
    ASSUME MInv, NEW c \in Requests, NEW k \in Kinds, Arrive(c, k)
    PROVE  Steps(c)
  <1>1. c \in Callers /\ k \in KindType /\ at[c] = "idle" /\ stage[c] = "outside"
        /\ joined[c] = None /\ got[c] = None
    BY MiddlewareAssumption
       DEF Arrive, MInv, CallerInv, Stands, Counted, Apart, IInv, HoldsLeader
  <1>2. /\ kind' = [kind EXCEPT ![c] = k] /\ at' = [at EXCEPT ![c] = at'[c]]
        /\ at'[c] = IF k.route # "cached" THEN "passing"
                    ELSE IF "no-cache" \in k.directives THEN "missed" ELSE "lookup"
        /\ UNCHANGED <<held, made, stored, runs, learned, got>> /\ UNCHANGED inflightVars
    BY <1>1 DEF Arrive, Goto, storeVars, MInv, Sound
  <1>3. OnlyOf(c) /\ Keeps(c)
    BY <1>1, <1>2 DEF OnlyOf, Keeps, Finished, inflightVars, MInv, Sound
  <1>4. Stores(c)
    BY <1>2 DEF Stores
  <1>5. Stands(c)' /\ Holds(c)'
    BY <1>1, <1>2 DEF MInv, CallerInv, Stands, Holds, inflightVars, Apart, Leading
  <1>6. Flies(c)' /\ Given(c)'
    BY <1>1, <1>2, InflightAssumption DEF Flies, Given, inflightVars
  <1>7. Counted(c)' /\ Fresh(c)'
    BY <1>1, <1>2 DEF MInv, CallerInv, Counted, HandlerRan, Fresh, inflightVars, Sound
  <1> QED
    BY <1>3, <1>4, <1>5, <1>6, <1>7 DEF Steps, CallerInv

\* A miss enters DoContext and leads or waits.
LEMMA MissCoalescedOwn ==
    ASSUME MInv, NEW c \in Requests, MissCoalesced(c)
    PROVE  Steps(c)
  <1>1. c \in Callers /\ at[c] = "missed" /\ stage[c] = "outside" /\ result[c] = None
        /\ got[c] = None /\ ~Finished(c)
    BY MiddlewareAssumption
       DEF MissCoalesced, MInv, CallerInv, Stands, Counted, Apart, Finished
  <1>2. FlightKey(c) \in Keys
    BY <1>1, FlightKeyType DEF MissCoalesced, MInv
  <1>3. /\ UNCHANGED <<kind, held, made, stored, runs, learned, got, result>>
        /\ at' = [at EXCEPT ![c] = at'[c]] /\ stage' = [stage EXCEPT ![c] = stage'[c]]
        /\ key' = [key EXCEPT ![c] = FlightKey(c)]
        /\ joined' = [joined EXCEPT ![c] = joined'[c]]
        /\ \/ at'[c] = "recheck" /\ stage'[c] = "running"
           \/ at'[c] = "flight" /\ stage'[c] = "waiting"
    BY <1>1 DEF MissCoalesced, Move, Goto, Lead, Join, storeVars, MInv, Sound, IInv, InflightTypeOK
  <1>4. IInv'
    BY <1>1, <1>2, InvStep DEF MInv, MissCoalesced, InflightNext
  <1>5. at'[c] = "flight" => joined'[c] # c
    BY <1>1, <1>3, <1>4 DEF IInv, HoldsLeader
  <1>6. OnlyOf(c) /\ Keeps(c)
    BY <1>1, <1>3 DEF OnlyOf, Keeps, MInv, Sound, IInv, InflightTypeOK
  <1>7. Stores(c)
    BY <1>3 DEF Stores
  <1>8. Stands(c)' /\ Holds(c)'
    BY <1>1, <1>3 DEF MInv, CallerInv, Stands, Holds, Apart, Leading, FlightKey, CanCoalesce,
       ExplicitlyPublic, IInv, InflightTypeOK
  <1>9. Flies(c)' /\ Given(c)'
    BY <1>1, <1>3, InflightAssumption DEF Flies, Given
  <1>10. Counted(c)' /\ Fresh(c)'
    BY <1>1, <1>3, <1>5 DEF MInv, CallerInv, Counted, HandlerRan, Fresh, Sound
  <1> QED
    BY <1>6, <1>7, <1>8, <1>9, <1>10 DEF Steps, CallerInv

\* The coalescer's own steps, of requests as of prefetch jobs.
LEMMA InFlightOwn ==
    ASSUME MInv, NEW c \in Callers,
           Unregister(c) \/ Close(c) \/ Wake(c) \/ Abandon(c) \/ CancelContext(c),
           UNCHANGED requestVars
    PROVE  Steps(c)
  <1>1. UNCHANGED <<at, kind, held, made, stored, runs, learned, got>>
    BY DEF requestVars
  <1>2. UNCHANGED <<key, joined>>
    BY DEF Unregister, Close, Wake, Abandon, CancelContext
  <1>3. CASE CancelContext(c)
    <2>1. UNCHANGED <<stage, result>>
      BY <1>3 DEF CancelContext
    <2>2. OnlyOf(c)
      BY <1>1, <1>2, <2>1 DEF OnlyOf
    <2>3. Keeps(c) /\ Stores(c)
      BY <1>1, <1>2 DEF Keeps, Stores, Finished
    <2>4. Stands(c)' /\ Holds(c)'
      BY <1>1, <1>2, <2>1, <2>2, <2>3, FitKept
         DEF MInv, CallerInv, Stands, Holds, FlightKey, CanCoalesce, ExplicitlyPublic,
             Servable, MatchesVary
    <2>5. Flies(c)' /\ Given(c)'
      BY <1>1, <1>2, <2>1, <2>2, <2>3, FitKept DEF MInv, CallerInv, Flies, Given, VariantFor
    <2>6. Counted(c)' /\ Fresh(c)'
      BY <1>1, <1>2, <2>1 DEF MInv, CallerInv, Counted, HandlerRan, Fresh
    <2> QED
      BY <2>2, <2>3, <2>4, <2>5, <2>6 DEF Steps, CallerInv
  <1>4. CASE Unregister(c) \/ Close(c) \/ Wake(c) \/ Abandon(c)
    <2>1. at[c] \in {"flight", "jobFlight"}
      <3>1. stage[c] \in Landed \cup {"ran", "panicking", "waiting"}
        BY <1>4 DEF Unregister, Close, Wake, Abandon
      <3> QED
        BY <3>1 DEF MInv, CallerInv, Stands, Sound, Places, Apart, Leading, Landed
    <2>2. /\ stage' = [stage EXCEPT ![c] = stage'[c]]
          /\ stage'[c] \in {"closing", "unwinding", "left"}
          /\ stage[c] \in {"waiting"} => stage'[c] = "left"
          /\ stage'[c] = "unwinding" => stage[c] = "panicking"
      BY <1>4 DEF Unregister, Close, Wake, Abandon, Landed, MInv, IInv, InflightTypeOK
    <2>3. /\ result' = [result EXCEPT ![c] = result'[c]]
          /\ result'[c] = result[c] \/ (result'[c] = Panicked /\ result[c] = None /\ stage'[c] = "left")
      BY <1>4 DEF Unregister, Close, Wake, Abandon, Landed, MInv, IInv, InflightTypeOK,
                  CallerInv, Stands
    <2>4. OnlyOf(c)
      BY <1>1, <1>2, <2>2, <2>3 DEF OnlyOf, MInv, IInv, InflightTypeOK
    <2>5. Keeps(c) /\ Stores(c)
      BY <1>1, <1>2 DEF Keeps, Stores, Finished
    <2>6. Stands(c)' /\ Holds(c)'
      BY <1>1, <1>2, <2>1, <2>2, <2>3
         DEF MInv, CallerInv, Stands, Holds, FlightKey, CanCoalesce, ExplicitlyPublic,
             Apart, Leading
    <2>7. Panicked \notin Callers /\ None \notin Callers
      BY MiddlewareAssumption, InflightAssumption
    <2>8. Flies(c)' /\ Given(c)'
      BY <1>1, <1>2, <2>3, <2>4, <2>5, <2>7, FitKept
         DEF MInv, CallerInv, Flies, Given, VariantFor
    <2>9. Counted(c)' /\ Fresh(c)'
      BY <1>1, <1>2, <2>3, <2>7 DEF MInv, CallerInv, Counted, HandlerRan, Fresh
    <2> QED
      BY <2>4, <2>5, <2>6, <2>8, <2>9 DEF Steps, CallerInv
  <1> QED
    BY <1>3, <1>4

--------------------------------------------------------------------------------
\* The types of responses, counters and answers.
LEMMA AnswerTyped ==
    ASSUME RestTyped, NEW c \in Requests, NEW e \in Callers, Answer(c, e)
    PROVE  /\ learned' \in [Callers -> Nat] /\ got' \in [Callers -> Callers \cup {Aborted, None}]
           /\ todo' \in [Callers -> SUBSET Predictable] /\ UNCHANGED <<queue, closed>>
  <1>1. learned' \in [Callers -> Nat]
    BY MiddlewareAssumption DEF Answer, Learn, RestTyped
  <1>2. got' \in [Callers -> Callers \cup {Aborted, None}]
    BY DEF Answer, RestTyped
  <1>3. todo' \in [Callers -> SUBSET Predictable] /\ UNCHANGED <<queue, closed>>
    BY DEF Answer, RestTyped
  <1> QED
    BY <1>1, <1>2, <1>3

LEMMA RestStep ==
    ASSUME MInv, NEW c \in Requests,
           RequestStep(c) \/ ClientGone(c) \/ \E k \in Kinds : Arrive(c, k)
    PROVE  RestTyped'
  <1>1. c \in Callers /\ RestTyped
    BY MiddlewareAssumption DEF MInv
  <1>0. runs \in [Callers -> Nat] /\ learned \in [Callers -> Nat]
    BY <1>1 DEF RestTyped
  <1>2. ASSUME runs' = runs \/ Ran(c) PROVE runs' \in [Callers -> Nat]
    <2>1. [runs EXCEPT ![c] = @ + 1] \in [Callers -> Nat]
      BY <1>0, <1>1
    <2> QED
      BY <1>0, <1>2, <2>1 DEF Ran
  <1>3. ASSUME made' = made \/ \E r \in Responses : made' = [made EXCEPT ![c] = r]
        PROVE  made' \in [Callers -> Responses \cup {None}]
    BY <1>1, <1>3 DEF RestTyped
  <1>4. CASE \/ LookupPrimary(c) \/ LookupVariant(c) \/ MissAlone(c) \/ MissCoalesced(c)
             \/ RecheckPrimary(c) \/ RecheckVariant(c) \/ LeadWithCached(c)
             \/ LeadStoresVariant(c) \/ LeadPanics(c) \/ InFlight(c) \/ LandAlone(c)
             \/ ClientGone(c) \/ \E k \in Kinds : Arrive(c, k)
    <2>1. UNCHANGED <<made, learned, todo, queue, closed, got>> /\ (runs' = runs \/ Ran(c))
      BY <1>4 DEF LookupPrimary, LookupVariant, MissAlone, MissCoalesced, RecheckPrimary,
         RecheckVariant, LeadWithCached, LeadStoresVariant, LeadPanics, InFlight, LandAlone,
         ClientGone, Arrive, Move, storeVars, requestVars
    <2> QED
      BY <1>1, <1>2, <2>1 DEF RestTyped
  <1>5. CASE Hit(c) \/ LandShared(c) \/ LandOwn(c) \/ DirectStoresVariant(c)
    <2>1. \E e \in Callers : Answer(c, e)
      <3>1. CASE Hit(c)
        <4>1. Fit(held[c], kind[c].resource)
          BY <1>1, <3>1 DEF Hit, MInv, CallerInv, Holds
        <4> QED
          BY <3>1, <4>1 DEF Hit, Fit
      <3> QED
        BY <1>1, <1>5, <3>1 DEF LandShared, LandOwn, DirectStoresVariant
    <2>2. UNCHANGED <<made, runs>>
      BY <1>5 DEF Hit, LandShared, LandOwn, DirectStoresVariant, storeVars
    <2> QED
      BY <1>1, <2>1, <2>2, AnswerTyped DEF RestTyped
  <1>6. ASSUME AnswerStreamed(c) \/ Abort(c)
        PROVE  /\ learned' \in [Callers -> Nat] /\ got' \in [Callers -> Callers \cup {Aborted, None}]
               /\ UNCHANGED <<todo, queue, closed>>
    <2>1. learned' \in [Callers -> Nat]
      BY <1>1, <1>6 DEF AnswerStreamed, Abort, Learn, RestTyped
    <2> QED
      BY <1>1, <1>6, <2>1 DEF AnswerStreamed, Abort, RestTyped
  <1>7. CASE LandStreamed(c) \/ LandPanicked(c) \/ DirectPanics(c)
    <2>1. (AnswerStreamed(c) \/ Abort(c)) /\ made' = made /\ (runs' = runs \/ Ran(c))
      BY <1>7 DEF LandStreamed, LandPanicked, DirectPanics, storeVars
    <2> QED
      BY <1>1, <1>2, <1>6, <2>1 DEF RestTyped
  <1>8. ASSUME NEW r \in Responses, LeadUpstream(c, r) PROVE RestTyped'
    <2>1. UNCHANGED <<learned, todo, queue, closed, got>> /\ Ran(c) /\ made' = [made EXCEPT ![c] = r]
      BY <1>8 DEF LeadUpstream, Move
    <2> QED
      BY <1>1, <1>2, <1>3, <2>1 DEF RestTyped
  <1>9. ASSUME NEW r \in Responses, DirectUpstream(c, r) PROVE RestTyped'
    <2>1. Ran(c) /\ made' = [made EXCEPT ![c] = r]
          /\ \/ AnswerStreamed(c) \/ Answer(c, c)
             \/ UNCHANGED <<learned, todo, queue, closed, got>>
      BY <1>9 DEF DirectUpstream, Move
    <2> QED
      BY <1>1, <1>2, <1>3, <1>6, <2>1, AnswerTyped DEF RestTyped
  <1>10. CASE PassThrough(c)
    <2>1. learned' \in [Callers -> Nat]
      <3>1. learned' = learned
            \/ learned' = [learned EXCEPT ![c] = IF kind[c].speculative THEN @ ELSE @ + 1]
        BY <1>10 DEF PassThrough, Learn
      <3> QED
        BY <1>0, <1>1, <3>1
    <2>2. got' \in [Callers -> Callers \cup {Aborted, None}] /\ Ran(c)
          /\ UNCHANGED <<made, todo, queue, closed>>
      BY <1>1, <1>10 DEF PassThrough, RestTyped, storeVars
    <2> QED
      BY <1>1, <1>2, <2>1, <2>2 DEF RestTyped
  <1>11. CASE Submit(c)
    <2>1. PICK p \in todo[c] :
            /\ todo' = [todo EXCEPT ![c] = IF closed THEN {} ELSE @ \ {p}]
            /\ queue' = IF closed \/ Len(queue) = QueueCap THEN queue
                        ELSE Append(queue, [from |-> c, target |-> p])
      BY <1>11 DEF Submit
    <2>2. p \in Predictable
      BY <1>1, <2>1 DEF RestTyped
    <2>3. todo' \in [Callers -> SUBSET Predictable]
      BY <1>1, <2>1 DEF RestTyped
    <2>4. queue' \in Seq([from : Callers, target : Predictable]) /\ Len(queue') <= QueueCap
      <3>1. queue \in Seq([from : Callers, target : Predictable]) /\ Len(queue) <= QueueCap
            /\ QueueCap \in Nat
        BY <1>1, MiddlewareAssumption DEF RestTyped
      <3>2. [from |-> c, target |-> p] \in [from : Callers, target : Predictable]
        BY <1>1, <2>2
      <3>3. CASE queue' = queue
        BY <3>1, <3>3
      <3>4. CASE queue' = Append(queue, [from |-> c, target |-> p]) /\ Len(queue) # QueueCap
        <4> DEFINE job == [from |-> c, target |-> p]
                   Job == [from : Callers, target : Predictable]
        <4>1. job \in Job /\ queue \in Seq(Job) /\ queue' = Append(queue, job)
          BY <3>1, <3>2, <3>4
        <4> HIDE DEF job, Job
        <4>2. queue' \in Seq(Job) /\ Len(queue') = Len(queue) + 1 /\ Len(queue) \in Nat
          BY <4>1
        <4> QED
          BY <3>1, <3>4, <4>2 DEF Job
      <3> QED
        BY <2>1, <3>3, <3>4
    <2>5. UNCHANGED <<made, runs, learned, closed, got>>
      BY <1>11 DEF Submit, storeVars
    <2> QED
      BY <1>1, <2>3, <2>4, <2>5 DEF RestTyped
  <1> QED
    BY <1>4, <1>5, <1>7, <1>8, <1>9, <1>10, <1>11 DEF RequestStep

--------------------------------------------------------------------------------
LEMMA MInvInit == MiddlewareInit => MInv
  <1> SUFFICES ASSUME MiddlewareInit PROVE MInv
    OBVIOUS
  <1>1. IInv /\ Sound
    BY InvInit, SoundInit DEF MiddlewareInit
  <1>2. RestTyped
    <2>1. queue = << >>
      BY DEF MiddlewareInit
    <2>2. queue \in Seq([from : Callers, target : Predictable]) /\ Len(queue) <= QueueCap
      <3> DEFINE Job == [from : Callers, target : Predictable]
      <3> HIDE DEF Job
      <3>1. << >> \in Seq(Job) /\ Len(<< >>) = 0
        OBVIOUS
      <3> QED
        BY <2>1, <3>1, MiddlewareAssumption DEF Job
    <2> QED
      BY <2>2 DEF MiddlewareInit, RestTyped
  <1>3. StoredFit
    BY DEF MiddlewareInit, StoredFit
  <1>4. ASSUME NEW c \in Callers PROVE CallerInv(c)
    BY InflightAssumption
       DEF MiddlewareInit, InflightInit, CallerInv, Stands, Holds, Flies, Given, Counted,
           HandlerRan, Fresh, Apart, Leading
  <1> QED
    BY <1>1, <1>2, <1>3, <1>4 DEF MInv

\* Any step of a request keeps everything its own invariant and the others' say.
LEMMA RequestOwn ==
    ASSUME MInv, NEW c \in Requests,
           RequestStep(c) \/ ClientGone(c) \/ \E k \in Kinds : Arrive(c, k)
    PROVE  Steps(c)
  <1>1. c \in Callers
    BY MiddlewareAssumption
  <1>2. CASE InFlight(c) \/ ClientGone(c)
    BY <1>1, <1>2, InFlightOwn DEF InFlight, ClientGone
  <1>3. CASE \E k \in Kinds : Arrive(c, k)
    BY <1>3, ArriveOwn
  <1>4. CASE RequestStep(c) /\ ~InFlight(c)
    BY <1>4, LookupOwn, AloneOwn, PassThroughOwn, HitOwn, LandOwnStep, DirectOwn, DirectRest,
       LeadWithCachedOwn, LeadUpstreamOwn, LeadRest, MissCoalescedOwn DEF RequestStep
  <1> QED
    BY <1>2, <1>3, <1>4

LEMMA MInvStep ==
    ASSUME MInv, [MiddlewareNext]_mwVars
    PROVE  MInv'
  <1>1. IInv' /\ Sound'
    BY Step, InvStep DEF MInv
  <1>2. CASE UNCHANGED mwVars
    <2>1. UNCHANGED inflightVars /\ UNCHANGED requestVars
      BY <1>2 DEF mwVars
    <2>2. RestTyped' /\ StoredFit'
      BY <2>1 DEF MInv, RestTyped, StoredFit, requestVars, inflightVars, Fit, Finished, Declassified
    <2>3. ASSUME NEW c \in Callers PROVE CallerInv(c)'
      BY <2>1, <2>3 DEF MInv, CallerInv, requestVars, inflightVars, Stands, Holds, Flies, Given,
         Counted, HandlerRan, Fresh, Fit, Finished, Declassified, VariantFor, Servable, MatchesVary,
         ExplicitlyPublic, FlightKey, CanCoalesce
    <2> QED
      BY <1>1, <2>2, <2>3 DEF MInv
  <1>3. ASSUME NEW c \in Requests,
               RequestStep(c) \/ ClientGone(c) \/ \E k \in Kinds : Arrive(c, k)
        PROVE  MInv'
    <2>1. RestTyped'
      BY <1>3, RestStep
    <2>2. StoredFit' /\ \A d \in Callers : CallerInv(d)'
      BY <1>3, RequestOwn, Framed, MiddlewareAssumption
    <2> QED
      BY <1>1, <2>1, <2>2 DEF MInv
  <1> QED
    BY <1>2, <1>3 DEF MiddlewareNext

THEOREM MInvariance == MiddlewareSpec => []MInv
  BY MInvInit, MInvStep, PTL DEF MiddlewareSpec

\* Every variable of the middleware keeps its type, the prefetcher's queue its bound.
LEMMA TypesFollow == MInv => MiddlewareTypeOK
  <1> SUFFICES ASSUME MInv PROVE MiddlewareTypeOK
    OBVIOUS
  <1> QED
    BY DEF MInv, IInv, Sound, RestTyped, MiddlewareTypeOK

THEOREM MiddlewareTypes == MiddlewareSpec => []MiddlewareTypeOK
  BY MInvariance, TypesFollow, PTL

\* Whoever receives a response made for another request receives one HTTP lets them
\* share: canCache decides what is stored and returned to a flight, the lookup's
\* verdict and the coalescing key decide who gets it.
LEMMA IsolationFollows == MInv => Isolation
  <1> SUFFICES ASSUME MInv, NEW c \in Requests, got[c] \in Callers \ {c}
               PROVE  /\ kind[got[c]].resource = kind[c].resource
                      /\ made[got[c]].ok /\ ~made[got[c]].setCookie /\ made[got[c]].vary # "star"
                      /\ made[got[c]].cc \cap {"private", "no-store"} = {}
                      /\ kind[c].auth \/ kind[got[c]].auth
                            => ExplicitlyPublic(c) \/ "public" \in made[got[c]].cc
    BY DEF Isolation
  <1>1. Fit(got[c], kind[c].resource) /\ (kind[c].auth => Declassified(got[c]))
    BY MiddlewareAssumption DEF MInv, CallerInv, Given
  <1> QED
    BY <1>1 DEF Fit, Declassified, ExplicitlyPublic

THEOREM AnswersIsolated == MiddlewareSpec => []Isolation
  BY MInvariance, IsolationFollows, PTL

\* A request that did not wait on another's flight never gets another variant.
LEMMA VariantFollows == MInv => LookupsMatchVary
  <1> SUFFICES ASSUME MInv, NEW c \in Requests, joined[c] \in {None, c}
               PROVE  RightVariant(c)
    BY DEF LookupsMatchVary
  <1>1. got[c] \in Callers \ {c} => VariantFor(got[c], c)
    BY MiddlewareAssumption DEF MInv, CallerInv, Given
  <1> QED
    BY <1>1 DEF VariantFor, RightVariant

THEOREM VariantsMatch == MiddlewareSpec => []LookupsMatchVary
  BY MInvariance, VariantFollows, PTL

\* A request with no-cache is answered by a run of the handler of its own.
LEMMA FreshFollows == MInv => NoCacheRunsFresh
  <1> SUFFICES ASSUME MInv, NEW c \in Requests, got[c] # None, "no-cache" \in kind[c].directives,
                      ~(kind[c].auth /\ CoalesceAuthenticated)
               PROVE  got[c] \in {c, Aborted}
    BY DEF NoCacheRunsFresh
  <1>1. Counted(c) /\ Fresh(c)
    BY MiddlewareAssumption DEF MInv, CallerInv
  <1> QED
    BY <1>1 DEF Counted, Fresh

THEOREM NoCacheFresh == MiddlewareSpec => []NoCacheRunsFresh
  BY MInvariance, FreshFollows, PTL

\* The handler runs at most once for a request, and not at all for one that is given
\* another's response; the navigation is recorded once.
LEMMA OnceFollows == MInv => OncePerRequest
  <1> SUFFICES ASSUME MInv, NEW c \in Requests
               PROVE  /\ runs[c] <= 1
                      /\ got[c] \in {c, Aborted} => runs[c] = 1
                      /\ got[c] \in Callers \ {c} => runs[c] = 0
                      /\ got[c] # None =>
                            learned[c] = IF \/ got[c] = Aborted \/ kind[c].speculative
                                            \/ kind[c].route = "skipped"
                                         THEN 0 ELSE 1
    BY DEF OncePerRequest
  <1>1. Counted(c) /\ None # Aborted /\ c # None /\ c # Aborted /\ None \notin Callers
        /\ Aborted \notin Callers
    BY MiddlewareAssumption, InflightAssumption DEF MInv, CallerInv
  <1> QED
    BY <1>1 DEF Counted, HandlerRan

THEOREM HandlerRunsOnce == MiddlewareSpec => []OncePerRequest
  BY MInvariance, OnceFollows, PTL
================================================================================
