-------------------------- MODULE BrowserCacheProofs --------------------------
(***************************************************************************)
(* Theorems about BrowserCache, for any number of fetches, prefetches,     *)
(* resets, URLs and users.                                                 *)
(***************************************************************************)
EXTENDS BrowserCache, FiniteSetTheorems, TLAPS

\* What a task knows at the await it is at.
TaskOK(t) ==
    /\ t \in Clears => pc[t] \in {"idle", "delete", "open", "done"}
    /\ t \notin Clears => pc[t] \in {"idle", "next", "match", "network", "put", "done"}
    /\ t \in Fetches => pc[t] # "next"
    /\ pc[t] \in {"match", "network", "put"} => job[t].url \in Urls
    /\ pc[t] \in {"match", "put"} => job[t].from \in Caches /\ job[t].from < opened
    /\ pc[t] \in {"network", "put", "delete", "open"} => job[t].user \in Nat /\ job[t].user <= user
    /\ cache = None =>
          /\ pc[t] \notin {"next", "match", "put", "delete", "open"}
          /\ t \in Prefetches => pc[t] # "network"

\* A response asked for by a user who was gone when a reset began was on the
\* network when that reset ended, or when another one opened the cache for it.
FlightOK(t) ==
    pc[t] \in {"network", "put"} =>
        /\ job[t].user < swept => t \in carried
        /\ \A r \in Clears : named # None /\ pc[r] = "open" /\ job[t].user < job[r].user
              => t \in carried

\* The cache with the name has, for every reset about to adopt it, only such entries.
Adoptable ==
    \A r \in Clears, u \in Urls :
        named # None /\ pc[r] = "open" =>
            content[named][u] = None \/ content[named][u].user >= job[r].user
                \/ content[named][u].by \in carried

\* The same of the caches in use, for the resets that ended.
Swept ==
    \A g \in {cache, named} \ {None}, u \in Urls :
        content[g][u] = None \/ content[g][u].user >= swept \/ content[g][u].by \in carried

Deleted == {r \in Clears : pc[r] \in {"open", "done"}}

\* Caches are made one by one, each for a name that was deleted.
Numbered ==
    /\ named # None => named < opened
    /\ cache # None => cache < opened
    /\ cache = None => named # None
    /\ cache # None /\ (\A r \in Clears : pc[r] # "open") => cache = named
    /\ \A g \in Caches : g >= opened => content[g] = Empty
    /\ IF named = None THEN opened <= Cardinality(Deleted) ELSE opened <= Cardinality(Deleted) + 1
    /\ swept <= user

BInv ==
    /\ BrowserTypeOK /\ Numbered /\ Swept /\ Adoptable
    /\ \A t \in Tasks : TaskOK(t) /\ FlightOK(t)

LEMMA Sizes ==
    /\ Cardinality(Clears) \in Nat /\ IsFiniteSet(Deleted) /\ Cardinality(Deleted) \in Nat
    /\ Cardinality(Deleted) <= Cardinality(Clears)
    /\ 0 \in Caches /\ None \notin Caches /\ Caches \subseteq Nat
<1>1. IsFiniteSet(Clears) /\ Cardinality(Clears) \in Nat
    BY BrowserAssumption, FS_CardinalityType
<1>2. IsFiniteSet(Deleted) /\ Cardinality(Deleted) <= Cardinality(Clears)
    BY <1>1, FS_Subset DEF Deleted
<1>3. Cardinality(Deleted) \in Nat
    BY <1>2, FS_CardinalityType
<1> QED
    BY <1>1, <1>2, <1>3, BrowserAssumption DEF Caches

LEMMA NoJobIsJob == NoJob \in Jobs
BY DEF NoJob, Jobs

LEMMA BrowserInit == Init => BInv
<1> SUFFICES ASSUME Init PROVE BInv
    OBVIOUS
<1>0. user = 0 /\ swept = 0 /\ opened = 1 /\ named = 0 /\ cache = None /\ \A t \in Tasks : pc[t] = "idle"
    BY DEF Init
<1>1. BrowserTypeOK
    <2>1. content \in [Caches -> [Urls -> Responses \cup {None}]]
        BY BrowserAssumption DEF Init, Empty, Responses
    <2>2. opened \in 1..(Cardinality(Clears) + 1)
        BY <1>0, Sizes
    <2> QED
        BY <2>1, <2>2, <1>0, Sizes, NoJobIsJob, BrowserAssumption DEF Init, BrowserTypeOK
<1>2. Numbered
    <2>1. \A g \in Caches : g >= 1 => content[g] = Empty
        BY Sizes DEF Init
    <2> QED
        BY <1>0, <2>1, Sizes, BrowserAssumption DEF Numbered
<1>3. Swept
    <2>1. \A u \in Urls : content[0][u] = None \/ content[0][u].user >= 0
        BY Sizes DEF Init, Empty
    <2> QED
        BY <1>0, <2>1 DEF Swept
<1>4. Adoptable
    BY <1>0 DEF Adoptable, Tasks
<1>5. \A t \in Tasks : TaskOK(t) /\ FlightOK(t)
    BY <1>0 DEF TaskOK, FlightOK
<1> QED
    BY <1>1, <1>2, <1>3, <1>4, <1>5 DEF BInv
--------------------------------------------------------------------------------
Places == {"idle", "next", "match", "network", "put", "delete", "open", "done"}

\* Steps of fetches and prefetches that touch no cache: only the tasks that move
\* have something to show.
LEMMA LocalStep ==
    ASSUME BInv, UNCHANGED <<content, named, opened, cache, user, swept, carried>>,
           evicting' \subseteq Caches \X Urls,
           pc' \in [Tasks -> Places], job' \in [Tasks -> Jobs],
           NEW moved \in SUBSET Tasks, moved \cap Clears = {},
           \A x \in Tasks \ moved : pc'[x] = pc[x] /\ job'[x] = job[x],
           \A x \in moved : TaskOK(x)' /\ FlightOK(x)'
    PROVE  BInv'
<1>1. \A r \in Clears : pc'[r] = pc[r] /\ job'[r] = job[r]
    BY DEF Tasks
<1>2. BrowserTypeOK'
    BY DEF BInv, BrowserTypeOK, Places
<1>3. Numbered'
    <2>1. Deleted' = Deleted
        BY <1>1 DEF Deleted
    <2> QED
        BY <1>1, <2>1 DEF BInv, Numbered
<1>4. Swept' /\ Adoptable'
    BY <1>1 DEF BInv, Swept, Adoptable
<1>5. ASSUME NEW x \in Tasks PROVE TaskOK(x)' /\ FlightOK(x)'
    <2>1. CASE x \in moved
        BY <2>1
    <2>2. CASE x \notin moved
        <3>1. TaskOK(x) /\ FlightOK(x) /\ pc'[x] = pc[x] /\ job'[x] = job[x]
            BY <2>2 DEF BInv
        <3> QED
            BY <1>1, <3>1 DEF TaskOK, FlightOK
    <2> QED
        BY <2>1, <2>2
<1> QED
    BY <1>2, <1>3, <1>4, <1>5 DEF BInv

\* A request that goes out now is the present user's, whom no reset is to clear.
LEMMA AsksNow ==
    ASSUME BInv, UNCHANGED <<named, user, swept, carried>>, NEW t \in Tasks,
           \A r \in Clears : pc'[r] = pc[r] /\ job'[r] = job[r],
           job'[t].user = user
    PROVE  FlightOK(t)'
<1>1. swept <= user /\ swept \in Nat /\ user \in Nat
    BY BrowserAssumption DEF BInv, BrowserTypeOK, Numbered
<1>2. \A r \in Clears : pc[r] = "open" => job[r].user \in Nat /\ job[r].user <= user
    BY DEF BInv, TaskOK, Tasks
<1> QED
    BY <1>1, <1>2 DEF FlightOK

LEMMA TypesNow ==
    ASSUME BInv
    PROVE  /\ pc \in [Tasks -> Places] /\ job \in [Tasks -> Jobs]
           /\ evicting \subseteq Caches \X Urls /\ user \in Nat /\ user \in 0..MaxUser
           /\ cache \in Caches \cup {None} /\ opened \in Nat
           /\ cache # None => cache < opened
           /\ Fetches \cap Clears = {} /\ Prefetches \cap Clears = {} /\ Fetches \cap Prefetches = {}
           /\ Fetches \subseteq Tasks /\ Prefetches \subseteq Tasks /\ Clears \subseteq Tasks
<1>1. Fetches \cap Clears = {} /\ Prefetches \cap Clears = {} /\ Fetches \cap Prefetches = {}
    BY BrowserAssumption
<1> QED
    BY <1>1, Sizes, BrowserAssumption DEF BInv, BrowserTypeOK, Places, Tasks, Numbered

\* The prefetch that record() starts has predictions if the cache is open.
LEMMA Starts ==
    ASSUME BInv, NEW w \in Prefetches, NEW predicted \in SUBSET Urls, pc[w] = "idle"
    PROVE  /\ PcOf(w, predicted) = [pc EXCEPT ![w] = IF cache = None \/ predicted = {} THEN "done" ELSE "next"]
           /\ PcOf(w, predicted) \in [Tasks -> Places]
           /\ JobOf(w, predicted) \in [Tasks -> Jobs]
           /\ \A x \in Tasks \ {w} : PcOf(w, predicted)[x] = pc[x] /\ JobOf(w, predicted)[x] = job[x]
<1>1. job[w] \in Jobs
    BY TypesNow
<1> DEFINE j == [job[w] EXCEPT !.todo = IF cache = None THEN {} ELSE predicted]
<1>2. j \in Jobs
    BY <1>1 DEF Jobs
<1>3. JobOf(w, predicted) = [job EXCEPT ![w] = j]
    BY TypesNow DEF JobOf
<1> HIDE DEF j
<1> QED
    BY <1>2, <1>3, TypesNow DEF PcOf, Places

LEMMA RecordInv ==
    ASSUME BInv, NEW w \in Prefetches, NEW predicted \in SUBSET Urls, Record(w, predicted)
    PROVE  BInv'
<1>1. pc' = PcOf(w, predicted) /\ job' = JobOf(w, predicted) /\ pc[w] = "idle"
      /\ UNCHANGED <<content, named, opened, cache, evicting, user, swept, carried>>
    BY DEF Record
<1>2. TaskOK(w)' /\ FlightOK(w)'
    BY <1>1, Starts, TypesNow DEF TaskOK, FlightOK
<1>3. /\ {w} \in SUBSET Tasks /\ {w} \cap Clears = {}
      /\ pc' \in [Tasks -> Places] /\ job' \in [Tasks -> Jobs] /\ evicting' \subseteq Caches \X Urls
      /\ \A x \in Tasks \ {w} : pc'[x] = pc[x] /\ job'[x] = job[x]
      /\ \A x \in {w} : TaskOK(x)' /\ FlightOK(x)'
    BY <1>1, <1>2, Starts, TypesNow
<1> QED
    BY <1>1, <1>3, LocalStep

\* A fetch asks the cache if it is open, else the network.
LEMMA FetchStartsInv ==
    ASSUME BInv, NEW t \in Fetches, NEW u \in Urls, NEW speculative \in BOOLEAN,
           NEW pcs \in [Tasks -> Places], NEW jobs \in [Tasks -> Jobs],
           NEW others \in SUBSET Prefetches,
           \A x \in Tasks \ others : pcs[x] = pc[x] /\ jobs[x] = job[x],
           \A x \in others : pcs[x] \in {"done", "next"} /\ (cache = None => pcs[x] = "done"),
           FetchStarts(t, u, speculative, pcs, jobs)
    PROVE  BInv'
<1> DEFINE place == IF cache = None THEN "network" ELSE "match"
           j == [NoJob EXCEPT !.url = u, !.from = cache, !.user = user, !.speculative = speculative]
           moved == others \cup {t}
<1>1. /\ pc' = [pcs EXCEPT ![t] = place] /\ job' = [jobs EXCEPT ![t] = j]
      /\ UNCHANGED <<content, named, opened, cache, evicting, user, swept, carried>>
    BY DEF FetchStarts
<1>2. j \in Jobs /\ j.user = user /\ j.url = u /\ j.from = cache
    BY TypesNow DEF NoJob, Jobs
<1> HIDE DEF j
<1>3. /\ moved \in SUBSET Tasks /\ moved \cap Clears = {} /\ t \notin others
      /\ pc' \in [Tasks -> Places] /\ job' \in [Tasks -> Jobs] /\ evicting' \subseteq Caches \X Urls
      /\ \A x \in Tasks \ moved : pc'[x] = pc[x] /\ job'[x] = job[x]
      /\ pc'[t] = place /\ job'[t] = j /\ \A x \in others : pc'[x] = pcs[x]
    BY <1>1, <1>2, TypesNow DEF Places
<1>4. TaskOK(t)'
    BY <1>1, <1>2, <1>3, TypesNow DEF TaskOK
<1>5. FlightOK(t)'
    <2>1. \A r \in Clears : pc'[r] = pc[r] /\ job'[r] = job[r]
        BY <1>3, TypesNow
    <2> QED
        BY <1>1, <1>2, <1>3, <2>1, TypesNow, AsksNow
<1>6. ASSUME NEW x \in others PROVE TaskOK(x)' /\ FlightOK(x)'
    <2>1. pc'[x] \in {"done", "next"} /\ (cache = None => pc'[x] = "done") /\ x \in Prefetches
        BY <1>3
    <2> QED
        BY <1>1, <2>1, TypesNow DEF TaskOK, FlightOK
<1>7. \A x \in moved : TaskOK(x)' /\ FlightOK(x)'
    BY <1>4, <1>5, <1>6
<1> HIDE DEF moved
<1> QED
    BY <1>1, <1>3, <1>7, LocalStep

LEMMA FetchInv ==
    ASSUME BInv, NEW t \in Fetches, NEW u \in Urls, NEW w \in Prefetches,
           NEW predicted \in SUBSET Urls, Fetch(t, u, w, predicted)
    PROVE  BInv'
<1>1. pc[w] = "idle" /\ FetchStarts(t, u, FALSE, PcOf(w, predicted), JobOf(w, predicted))
    BY DEF Fetch
<1>2. /\ PcOf(w, predicted) \in [Tasks -> Places] /\ JobOf(w, predicted) \in [Tasks -> Jobs]
      /\ \A x \in Tasks \ {w} : PcOf(w, predicted)[x] = pc[x] /\ JobOf(w, predicted)[x] = job[x]
      /\ {w} \in SUBSET Prefetches
      /\ \A x \in {w} : /\ PcOf(w, predicted)[x] \in {"done", "next"}
                        /\ cache = None => PcOf(w, predicted)[x] = "done"
    BY <1>1, Starts, TypesNow
<1> QED
    BY <1>1, <1>2, FetchStartsInv

LEMMA SpeculativeFetchInv ==
    ASSUME BInv, NEW t \in Fetches, NEW u \in Urls, SpeculativeFetch(t, u)
    PROVE  BInv'
<1>1. FetchStarts(t, u, TRUE, pc, job)
    BY DEF SpeculativeFetch
<1>2. pc \in [Tasks -> Places] /\ job \in [Tasks -> Jobs] /\ {} \in SUBSET Prefetches
    BY TypesNow
<1> QED
    BY <1>1, <1>2, FetchStartsInv

\* LocalStep for one task.
LEMMA OneGoes ==
    ASSUME BInv, UNCHANGED <<content, named, opened, cache, user, swept, carried>>,
           evicting' \subseteq Caches \X Urls,
           NEW t \in Fetches \cup Prefetches, NEW place \in Places, NEW j \in Jobs,
           pc' = [pc EXCEPT ![t] = place], job' = [job EXCEPT ![t] = j],
           TaskOK(t)', FlightOK(t)'
    PROVE  BInv'
<1>1. /\ {t} \in SUBSET Tasks /\ {t} \cap Clears = {}
      /\ pc' \in [Tasks -> Places] /\ job' \in [Tasks -> Jobs]
      /\ \A x \in Tasks \ {t} : pc'[x] = pc[x] /\ job'[x] = job[x]
      /\ \A x \in {t} : TaskOK(x)' /\ FlightOK(x)'
    BY TypesNow
<1> QED
    BY <1>1, LocalStep

\* A task that is over, or goes on with its loop, holds nothing.
LEMMA EndsOK ==
    ASSUME BInv, UNCHANGED <<opened, cache, user>>, NEW t \in Fetches \cup Prefetches,
           pc[t] # "idle" /\ pc[t] # "done",
           \/ Ends(t)
           \/ t \in Prefetches /\ Goes(t, "done")
    PROVE  \E place \in {"done", "next"}, j \in Jobs :
               /\ pc' = [pc EXCEPT ![t] = place] /\ job' = [job EXCEPT ![t] = j]
               /\ TaskOK(t)' /\ FlightOK(t)'
<1> DEFINE place == IF Ends(t) /\ t \in Prefetches THEN "next" ELSE "done"
           j == [NoJob EXCEPT !.todo = job[t].todo]
<1>1. job[t] \in Jobs /\ j \in Jobs
    BY TypesNow DEF NoJob, Jobs
<1> HIDE DEF j
<1>2. pc' = [pc EXCEPT ![t] = place] /\ job' = [job EXCEPT ![t] = j] /\ place \in {"done", "next"}
    BY TypesNow DEF Ends, Goes, j
<1>3. t \in Prefetches => cache # None
    BY TypesNow DEF BInv, TaskOK, Places
<1>4. place = "next" => t \in Prefetches
    OBVIOUS
<1> HIDE DEF place
<1>5. TaskOK(t)' /\ FlightOK(t)'
    BY <1>2, <1>3, <1>4, TypesNow DEF TaskOK, FlightOK
<1> QED
    BY <1>1, <1>2, <1>5

LEMMA EndsInv ==
    ASSUME BInv, UNCHANGED <<content, named, opened, cache, user, swept, carried>>,
           evicting' \subseteq Caches \X Urls,
           NEW t \in Fetches \cup Prefetches, pc[t] # "idle" /\ pc[t] # "done",
           Ends(t) \/ (t \in Prefetches /\ Goes(t, "done"))
    PROVE  BInv'
<1>1. PICK place \in {"done", "next"}, j \in Jobs :
         /\ pc' = [pc EXCEPT ![t] = place] /\ job' = [job EXCEPT ![t] = j]
         /\ TaskOK(t)' /\ FlightOK(t)'
    BY EndsOK
<1> QED
    BY <1>1, OneGoes DEF Places

LEMMA NextPredictionInv == ASSUME BInv, NEW w \in Prefetches, NextPrediction(w) PROVE BInv'
<1>1. pc[w] = "next" /\ UNCHANGED <<content, named, opened, cache, evicting, user, swept, carried>>
    BY DEF NextPrediction
<1>2. CASE Goes(w, "done")
    BY <1>1, <1>2, EndsInv, TypesNow
<1>3. ASSUME NEW u \in job[w].todo, pc' = [pc EXCEPT ![w] = "match"],
             job' = [job EXCEPT ![w].url = u, ![w].from = cache, ![w].todo = @ \ {u}]
      PROVE  BInv'
    <2> DEFINE j == [job[w] EXCEPT !.url = u, !.from = cache, !.todo = job[w].todo \ {u}]
    <2>1. job[w] \in Jobs /\ cache # None
        BY <1>1, TypesNow DEF BInv, TaskOK
    <2>2. j \in Jobs /\ j.url \in Urls /\ j.from = cache
        BY <2>1, TypesNow DEF Jobs
    <2>3. job' = [job EXCEPT ![w] = j]
        BY <1>3, TypesNow
    <2> HIDE DEF j
    <2>4. TaskOK(w)' /\ FlightOK(w)'
        BY <1>1, <1>3, <2>1, <2>2, <2>3, TypesNow DEF TaskOK, FlightOK
    <2> QED
        BY <1>1, <1>3, <2>2, <2>3, <2>4, OneGoes, TypesNow DEF Places
<1> QED
    BY <1>2, <1>3 DEF NextPrediction

LEMMA MatchInv == ASSUME BInv, NEW t \in Fetches \cup Prefetches, Match(t) PROVE BInv'
<1>1. /\ pc[t] = "match" /\ UNCHANGED <<content, named, opened, cache, user, swept, carried>>
      /\ job[t].url \in Urls /\ cache \in Caches /\ t \notin Clears
    BY TypesNow DEF Match, BInv, TaskOK
<1>2. CASE Ends(t) /\ evicting' = IF t \in Fetches THEN evicting \cup {<<cache, job[t].url>>} ELSE evicting
    <2>1. evicting' \subseteq Caches \X Urls
        BY <1>1, <1>2, TypesNow
    <2> QED
        BY <1>1, <1>2, <2>1, EndsInv
<1>3. CASE /\ pc' = [pc EXCEPT ![t] = "network"] /\ UNCHANGED evicting
           /\ job' = [job EXCEPT ![t].user = user, ![t].from = None]
    <2> DEFINE j == [job[t] EXCEPT !.user = user, !.from = None]
    <2>1. job[t] \in Jobs
        BY TypesNow
    <2>2. j \in Jobs /\ j.url \in Urls /\ j.user = user
        BY <1>1, <2>1, TypesNow DEF Jobs
    <2>3. job' = [job EXCEPT ![t] = j]
        BY <1>3, TypesNow
    <2> HIDE DEF j
    <2>4. TaskOK(t)'
        BY <1>1, <1>3, <2>2, <2>3, Sizes, TypesNow DEF TaskOK
    <2>5. FlightOK(t)'
        <3>1. \A r \in Clears : pc'[r] = pc[r] /\ job'[r] = job[r]
            BY <1>1, <1>3, <2>3, TypesNow
        <3> QED
            BY <1>1, <2>2, <2>3, <3>1, AsksNow, TypesNow
    <2> QED
        BY <1>1, <1>3, <2>2, <2>3, <2>4, <2>5, OneGoes, TypesNow DEF Places
<1> QED
    BY <1>2, <1>3 DEF Match

LEMMA RespondInv ==
    ASSUME BInv, NEW t \in Fetches \cup Prefetches, NEW storable \in BOOLEAN, Respond(t, storable)
    PROVE  BInv'
<1>1. /\ pc[t] = "network" /\ UNCHANGED <<content, named, opened, cache, evicting, user, swept, carried>>
      /\ TaskOK(t) /\ FlightOK(t) /\ t \notin Clears /\ job[t] \in Jobs
    BY TypesNow DEF Respond, BInv
<1>2. CASE Ends(t)
    BY <1>1, <1>2, EndsInv, TypesNow
<1>3. CASE cache # None /\ pc' = [pc EXCEPT ![t] = "put"] /\ job' = [job EXCEPT ![t].from = cache]
    <2> DEFINE j == [job[t] EXCEPT !.from = cache]
    <2>1. j \in Jobs /\ j.url = job[t].url /\ j.user = job[t].user /\ j.from = cache
        BY <1>1, TypesNow DEF Jobs
    <2>2. job' = [job EXCEPT ![t] = j]
        BY <1>3, TypesNow
    <2> HIDE DEF j
    <2>3. TaskOK(t)'
        BY <1>1, <1>3, <2>1, <2>2, TypesNow DEF TaskOK
    <2>4. FlightOK(t)'
        <3>1. \A r \in Clears : pc'[r] = pc[r] /\ job'[r] = job[r]
            BY <1>1, <1>3, <2>2, TypesNow
        <3> QED
            BY <1>1, <2>1, <2>2, <3>1, TypesNow DEF FlightOK
    <2> QED
        BY <1>1, <1>3, <2>1, <2>2, <2>3, <2>4, OneGoes, TypesNow DEF Places
<1> QED
    BY <1>2, <1>3 DEF Respond
--------------------------------------------------------------------------------
\* The page adopts the cache that has the name: no reset is under way before it.
LEMMA PageOpensInv == ASSUME BInv, PageOpens PROVE BInv'
<1>1. /\ cache = None /\ named \in Caches /\ named < opened
      /\ cache' = named /\ UNCHANGED <<named, opened, content, pc, job, evicting, user, swept, carried>>
    BY Sizes DEF PageOpens, OpenCache, BInv, Numbered, BrowserTypeOK
<1>2. BrowserTypeOK'
    BY <1>1 DEF BInv, BrowserTypeOK
<1>3. Numbered'
    BY <1>1, Sizes DEF BInv, Numbered, Deleted
<1>4. Swept' /\ Adoptable'
    BY <1>1, Sizes DEF BInv, Swept, Adoptable
<1>5. \A t \in Tasks : TaskOK(t)' /\ FlightOK(t)'
    BY <1>1, Sizes DEF BInv, TaskOK, FlightOK
<1> QED
    BY <1>2, <1>3, <1>4, <1>5 DEF BInv

LEMMA LogInInv == ASSUME BInv, LogIn PROVE BInv'
<1>1. /\ user' = user + 1 /\ user' \in 0..MaxUser /\ user \in Nat /\ swept \in Nat
      /\ UNCHANGED <<content, named, opened, cache, pc, job, evicting, swept, carried>>
    BY TypesNow, BrowserAssumption DEF LogIn, BInv, BrowserTypeOK
<1>2. BrowserTypeOK'
    BY <1>1 DEF BInv, BrowserTypeOK
<1>3. Numbered'
    BY <1>1 DEF BInv, Numbered, Deleted
<1>4. Swept' /\ Adoptable'
    BY <1>1 DEF BInv, Swept, Adoptable
<1>5. \A t \in Tasks : TaskOK(t)' /\ FlightOK(t)'
    BY <1>1 DEF BInv, TaskOK, FlightOK
<1> QED
    BY <1>2, <1>3, <1>4, <1>5 DEF BInv

\* An eviction only takes entries away.
LEMMA EvictInv == ASSUME BInv, NEW g \in Caches, NEW u \in Urls, Evict(g, u) PROVE BInv'
<1>1. /\ content' = [content EXCEPT ![g][u] = None] /\ evicting' \subseteq evicting
      /\ UNCHANGED <<named, opened, cache, pc, job, user, swept, carried>>
      /\ content \in [Caches -> [Urls -> Responses \cup {None}]]
    BY DEF Evict, BInv, BrowserTypeOK
<1>2. \A h \in Caches, v \in Urls : content'[h][v] = content[h][v] \/ content'[h][v] = None
    BY <1>1
<1>3. BrowserTypeOK'
    BY <1>1 DEF BInv, BrowserTypeOK
<1>4. Numbered'
    <2>1. \A h \in Caches : h >= opened => content'[h] = Empty
        BY <1>1 DEF BInv, Numbered, Empty
    <2> QED
        BY <1>1, <2>1 DEF BInv, Numbered, Deleted
<1>5. Swept' /\ Adoptable'
    BY <1>1, <1>2 DEF BInv, BrowserTypeOK, Swept, Adoptable
<1>6. \A t \in Tasks : TaskOK(t)' /\ FlightOK(t)'
    BY <1>1 DEF BInv, TaskOK, FlightOK
<1> QED
    BY <1>3, <1>4, <1>5, <1>6 DEF BInv

\* A response is stored for the user who asked for it.
LEMMA PutInv == ASSUME BInv, NEW t \in Fetches \cup Prefetches, Put(t) PROVE BInv'
<1> DEFINE g == job[t].from
           v == job[t].url
           e == [by |-> t, user |-> job[t].user]
<1>1. /\ pc[t] = "put" /\ TaskOK(t) /\ FlightOK(t) /\ t \in Tasks /\ t \notin Clears
      /\ g \in Caches /\ g < opened /\ v \in Urls /\ job[t] \in Jobs /\ job[t].user \in Nat
    BY TypesNow DEF Put, BInv, TaskOK
<1>2. e \in Responses /\ e.by = t /\ e.user = job[t].user
    <2>1. job[t].user \in 0..MaxUser
        BY <1>1, BrowserAssumption DEF Jobs
    <2> QED
        BY <1>1, <2>1 DEF Responses
<1>3. /\ content' = [content EXCEPT ![g][v] = e] /\ Ends(t)
      /\ UNCHANGED <<named, opened, cache, evicting, user, swept, carried>>
    BY DEF Put
<1>4. PICK place \in {"done", "next"}, j \in Jobs :
         /\ pc' = [pc EXCEPT ![t] = place] /\ job' = [job EXCEPT ![t] = j]
         /\ TaskOK(t)' /\ FlightOK(t)'
    BY <1>1, <1>3, EndsOK
<1> HIDE DEF e, g, v
<1>5. content \in [Caches -> [Urls -> Responses \cup {None}]]
    BY DEF BInv, BrowserTypeOK
<1>6. \A h \in Caches, u \in Urls : content'[h][u] = content[h][u] \/ content'[h][u] = e
    BY <1>3, <1>5
<1>7. \A r \in Clears : pc'[r] = pc[r] /\ job'[r] = job[r]
    BY <1>1, <1>4, TypesNow
<1>8. BrowserTypeOK'
    <2>1. content' \in [Caches -> [Urls -> Responses \cup {None}]]
        BY <1>1, <1>2, <1>3, <1>5
    <2>2. pc' \in [Tasks -> Places] /\ job' \in [Tasks -> Jobs]
        BY <1>4, TypesNow DEF Places
    <2> QED
        BY <1>3, <2>1, <2>2 DEF BInv, BrowserTypeOK, Places
<1>9. Numbered'
    <2>1. \A h \in Caches : h >= opened => content'[h] = Empty
        BY <1>1, <1>3, <1>5, Sizes, TypesNow DEF BInv, Numbered
    <2>2. Deleted' = Deleted
        BY <1>7 DEF Deleted
    <2> QED
        BY <1>3, <1>7, <2>1, <2>2 DEF BInv, Numbered
<1>10. Swept'
    <2>1. e.user >= swept \/ e.by \in carried
        BY <1>1, <1>2, BrowserAssumption DEF FlightOK, BInv, BrowserTypeOK
    <2>2. {cache, named} \ {None} \subseteq Caches
        BY DEF BInv, BrowserTypeOK
    <2> QED
        BY <1>3, <1>6, <2>1, <2>2 DEF BInv, Swept
<1>11. Adoptable'
    <2>1. ASSUME NEW r \in Clears, named # None, pc[r] = "open"
          PROVE  e.user >= job[r].user \/ e.by \in carried
        <3>1. job[r].user \in Nat
            BY <2>1 DEF BInv, TaskOK, Tasks
        <3> QED
            BY <1>1, <1>2, <2>1, <3>1 DEF FlightOK
    <2>2. named # None => named \in Caches
        BY DEF BInv, BrowserTypeOK
    <2> QED
        BY <1>3, <1>6, <1>7, <2>1, <2>2 DEF BInv, Adoptable
<1>12. ASSUME NEW x \in Tasks PROVE TaskOK(x)' /\ FlightOK(x)'
    <2>1. CASE x = t
        BY <1>4, <2>1
    <2>2. CASE x # t
        <3>1. pc'[x] = pc[x] /\ job'[x] = job[x] /\ TaskOK(x) /\ FlightOK(x)
            BY <1>4, <2>2, TypesNow DEF BInv
        <3> QED
            BY <1>3, <1>7, <3>1 DEF TaskOK, FlightOK
    <2> QED
        BY <2>1, <2>2
<1> QED
    BY <1>8, <1>9, <1>10, <1>11, <1>12 DEF BInv
--------------------------------------------------------------------------------
\* A reset before the cache is open is over at once; another one notes the user.
LEMMA ClearInv == ASSUME BInv, NEW r \in Clears, Clear(r) PROVE BInv'
<1>1. /\ pc[r] = "idle" /\ r \in Tasks /\ job[r] \in Jobs /\ r \notin Fetches \cup Prefetches
      /\ UNCHANGED <<content, named, opened, cache, evicting, user, swept, carried>>
    BY TypesNow DEF Clear
<1>2. PICK place \in {"done", "delete"}, j \in Jobs :
         /\ pc' = [pc EXCEPT ![r] = place] /\ job' = [job EXCEPT ![r] = j]
         /\ place = "delete" => cache # None /\ j.user = user
    <2>1. CASE cache = None
        <3> DEFINE j == [NoJob EXCEPT !.todo = job[r].todo]
        <3>1. j \in Jobs
            BY <1>1, TypesNow DEF NoJob, Jobs
        <3>2. pc' = [pc EXCEPT ![r] = "done"] /\ job' = [job EXCEPT ![r] = j]
            BY <2>1 DEF Clear, Goes
        <3> QED
            BY <3>1, <3>2
    <2>2. CASE cache # None
        <3> DEFINE j == [job[r] EXCEPT !.user = user]
        <3>1. j \in Jobs /\ j.user = user
            BY <1>1, TypesNow DEF Jobs
        <3>2. pc' = [pc EXCEPT ![r] = "delete"] /\ job' = [job EXCEPT ![r] = j]
            BY <1>1, <2>2, TypesNow DEF Clear
        <3> QED
            BY <2>2, <3>1, <3>2
    <2> QED
        BY <2>1, <2>2
<1>3. /\ pc' \in [Tasks -> Places] /\ job' \in [Tasks -> Jobs] /\ pc'[r] = place /\ job'[r] = j
      /\ \A x \in Tasks \ {r} : pc'[x] = pc[x] /\ job'[x] = job[x]
    BY <1>1, <1>2, TypesNow DEF Places
<1>4. \A q \in Clears : (pc'[q] = "open" <=> pc[q] = "open") /\ (pc[q] = "open" => job'[q] = job[q])
    BY <1>1, <1>2, <1>3, TypesNow
<1>5. BrowserTypeOK'
    BY <1>1, <1>3 DEF BInv, BrowserTypeOK, Places
<1>6. Numbered'
    <2>1. Deleted \subseteq Deleted' /\ Deleted' \subseteq Clears
        BY <1>1, <1>3, TypesNow DEF Deleted
    <2>2. IsFiniteSet(Deleted') /\ Cardinality(Deleted') \in Nat
        BY <2>1, BrowserAssumption, FS_Subset, FS_CardinalityType
    <2>3. Cardinality(Deleted) <= Cardinality(Deleted')
        BY <2>1, <2>2, FS_Subset
    <2>4. IF named = None THEN opened <= Cardinality(Deleted') ELSE opened <= Cardinality(Deleted') + 1
        BY <2>2, <2>3, Sizes, TypesNow DEF BInv, Numbered
    <2> QED
        BY <1>1, <1>4, <2>4 DEF BInv, Numbered
<1>7. Swept' /\ Adoptable'
    BY <1>1, <1>4 DEF BInv, Swept, Adoptable
<1>8. ASSUME NEW x \in Tasks PROVE TaskOK(x)' /\ FlightOK(x)'
    <2>1. CASE x = r
        BY <1>1, <1>2, <1>3, <2>1, TypesNow DEF TaskOK, FlightOK
    <2>2. CASE x # r
        <3>1. pc'[x] = pc[x] /\ job'[x] = job[x] /\ TaskOK(x) /\ FlightOK(x)
            BY <1>3, <2>2 DEF BInv
        <3> QED
            BY <1>1, <1>4, <3>1 DEF TaskOK, FlightOK
    <2> QED
        BY <2>1, <2>2
<1> QED
    BY <1>5, <1>6, <1>7, <1>8 DEF BInv

\* Deleting takes the name away: what the page holds stays as it is.
LEMMA DeleteInv == ASSUME BInv, NEW r \in Clears, Delete(r) PROVE BInv'
<1>1. /\ pc[r] = "delete" /\ r \in Tasks /\ named' = None /\ pc' = [pc EXCEPT ![r] = "open"]
      /\ UNCHANGED <<content, opened, cache, job, evicting, user, swept, carried>>
      /\ cache # None /\ TaskOK(r)
    BY TypesNow DEF Delete, BInv, TaskOK
<1>2. BrowserTypeOK'
    BY <1>1, TypesNow DEF BInv, BrowserTypeOK, Places
<1>3. Numbered'
    <2>1. Deleted' = Deleted \cup {r} /\ r \notin Deleted
        BY <1>1, TypesNow DEF Deleted
    <2>2. Cardinality(Deleted') = Cardinality(Deleted) + 1
        BY <2>1, Sizes, FS_AddElement
    <2>3. opened <= Cardinality(Deleted')
        BY <2>2, Sizes, TypesNow DEF BInv, Numbered
    <2>4. pc'[r] = "open"
        BY <1>1, TypesNow
    <2> QED
        BY <1>1, <2>3, <2>4 DEF BInv, Numbered
<1>4. Swept' /\ Adoptable'
    BY <1>1 DEF BInv, Swept, Adoptable
<1>5. ASSUME NEW x \in Tasks PROVE TaskOK(x)' /\ FlightOK(x)'
    <2>1. TaskOK(x) /\ FlightOK(x) /\ (x = r => pc'[x] = "open") /\ (x # r => pc'[x] = pc[x])
        BY <1>1, TypesNow DEF BInv
    <2> QED
        BY <1>1, <2>1, TypesNow DEF TaskOK, FlightOK
<1> QED
    BY <1>2, <1>3, <1>4, <1>5 DEF BInv

\* The reset that ends has the page use an empty cache, or the one another reset
\* has just made.
LEMMA ReopenInv == ASSUME BInv, NEW r \in Clears, Reopen(r) PROVE BInv'
<1> DEFINE j == [NoJob EXCEPT !.todo = job[r].todo]
<1>1. /\ pc[r] = "open" /\ r \in Tasks /\ TaskOK(r) /\ job[r].user \in Nat /\ job[r].user <= user
      /\ pc' = [pc EXCEPT ![r] = "done"] /\ job' = [job EXCEPT ![r] = j]
      /\ swept' = IF job[r].user > swept THEN job[r].user ELSE swept
      /\ carried' = carried \cup InFlight
      /\ UNCHANGED <<content, evicting, user>>
    BY TypesNow DEF Reopen, Goes, BInv, TaskOK
<1>2. j \in Jobs
    BY <1>1, TypesNow DEF NoJob, Jobs
<1> HIDE DEF j
<1>3. /\ pc' \in [Tasks -> Places] /\ job' \in [Tasks -> Jobs] /\ pc'[r] = "done" /\ job'[r] = j
      /\ \A x \in Tasks \ {r} : pc'[x] = pc[x] /\ job'[x] = job[x]
    BY <1>1, <1>2, TypesNow DEF Places
<1>4. swept \in Nat /\ swept <= user /\ swept' \in Nat /\ swept' <= user /\ swept' \in 0..MaxUser
    <2>1. swept \in Nat /\ swept <= user /\ user <= MaxUser /\ MaxUser \in Nat
        BY TypesNow, BrowserAssumption DEF BInv, BrowserTypeOK, Numbered
    <2> QED
        BY <1>1, <2>1, TypesNow
<1>5. Deleted' = Deleted
    BY <1>1, <1>3, TypesNow DEF Deleted
<1>6. /\ cache' \in Caches /\ named' = cache' /\ cache' < opened' /\ opened <= opened'
      /\ opened' \in 1..(Cardinality(Clears) + 1) /\ opened' <= Cardinality(Deleted) + 1
      /\ \/ named # None /\ named' = named /\ opened' = opened
         \/ content[cache'] = Empty
    <2>1. CASE named = None
        <3>1. named' = opened /\ opened' = opened + 1 /\ cache' = opened
            BY <2>1 DEF Reopen, OpenCache
        <3>2. opened <= Cardinality(Deleted) /\ opened \in Nat /\ opened \in Caches
            BY <2>1, Sizes, TypesNow DEF BInv, Numbered, Caches
        <3>3. content[opened] = Empty
            BY <3>2 DEF BInv, Numbered
        <3> QED
            BY <3>1, <3>2, <3>3, Sizes
    <2>2. CASE named # None
        <3>1. named' = named /\ opened' = opened /\ cache' = named
            BY <2>2 DEF Reopen, OpenCache
        <3> QED
            BY <2>2, <3>1, Sizes, TypesNow DEF BInv, Numbered, BrowserTypeOK
    <2> QED
        BY <2>1, <2>2
<1>7. BrowserTypeOK'
    <2>1. carried' \subseteq Tasks
        BY <1>1 DEF BInv, BrowserTypeOK, InFlight
    <2> QED
        BY <1>1, <1>3, <1>4, <1>6, <2>1 DEF BInv, BrowserTypeOK, Places
<1>8. Numbered'
    <2>1. \A g \in Caches : g >= opened' => content'[g] = Empty
        BY <1>1, <1>6, Sizes, TypesNow DEF BInv, Numbered
    <2> QED
        BY <1>1, <1>4, <1>5, <1>6, <2>1, Sizes DEF Numbered
<1>9. Swept'
    <2>1. ASSUME NEW u \in Urls
          PROVE  content[named'][u] = None \/ content[named'][u].user >= swept'
                    \/ content[named'][u].by \in carried'
        <3>1. CASE content[cache'] = Empty
            BY <1>6, <3>1 DEF Empty
        <3>2. CASE named # None /\ named' = named
            <4>1. content[named][u] = None \/ content[named][u].user >= swept \/ content[named][u].by \in carried
                BY <3>2 DEF BInv, Swept
            <4>2. content[named][u] = None \/ content[named][u].user >= job[r].user \/ content[named][u].by \in carried
                BY <1>1, <3>2 DEF BInv, Adoptable
            <4> QED
                BY <1>1, <3>2, <4>1, <4>2
        <3> QED
            BY <1>6, <3>1, <3>2
    <2> QED
        BY <1>1, <1>6, <2>1 DEF Swept
<1>10. Adoptable'
    <2>1. ASSUME NEW q \in Clears, NEW u \in Urls, pc'[q] = "open"
          PROVE  content[named'][u] = None \/ content[named'][u].user >= job'[q].user
                    \/ content[named'][u].by \in carried'
        <3>1. q # r /\ pc[q] = "open" /\ job'[q] = job[q]
            BY <1>3, <2>1, TypesNow
        <3>2. CASE content[cache'] = Empty
            BY <1>6, <3>2 DEF Empty
        <3>3. CASE named # None /\ named' = named
            BY <1>1, <3>1, <3>3 DEF BInv, Adoptable
        <3> QED
            BY <1>6, <3>2, <3>3
    <2> QED
        BY <1>1, <2>1 DEF Adoptable
<1>11. ASSUME NEW x \in Tasks PROVE TaskOK(x)' /\ FlightOK(x)'
    <2>1. CASE x = r
        BY <1>3, <2>1, TypesNow DEF TaskOK, FlightOK
    <2>2. CASE x # r
        <3>1. pc'[x] = pc[x] /\ job'[x] = job[x] /\ TaskOK(x) /\ FlightOK(x)
            BY <1>3, <2>2 DEF BInv
        <3>2. TaskOK(x)'
            <4>1. user' = user /\ cache' # None
                BY <1>1, <1>6, Sizes
            <4>2. ASSUME pc[x] \in {"match", "put"}
                  PROVE  job[x].from \in Caches /\ job[x].from < opened'
                <5>1. job[x].from \in Nat /\ job[x].from \in Caches /\ job[x].from < opened
                    BY <3>1, <4>2, Sizes DEF TaskOK
                <5>2. opened \in Nat /\ opened' \in Nat /\ opened <= opened'
                    BY <1>6, TypesNow, Sizes DEF BInv, BrowserTypeOK
                <5> QED
                    BY <5>1, <5>2
            <4> QED
                BY <3>1, <4>1, <4>2 DEF TaskOK
        <3>3. pc[x] \in {"network", "put"} => x \in carried'
            BY <1>1 DEF InFlight
        <3> QED
            BY <3>1, <3>2, <3>3 DEF FlightOK
    <2> QED
        BY <2>1, <2>2
<1> QED
    BY <1>7, <1>8, <1>9, <1>10, <1>11 DEF BInv
--------------------------------------------------------------------------------
\* Every task of the browser keeps the invariant.
THEOREM BrowserInvariance == Spec => []BInv
<1>1. BInv /\ [Next]_vars => BInv'
    <2> SUFFICES ASSUME BInv, [Next]_vars PROVE BInv'
        OBVIOUS
    <2>1. CASE UNCHANGED vars
        BY <2>1 DEF vars, BInv, BrowserTypeOK, Numbered, Deleted, Swept, Adoptable, TaskOK, FlightOK
    <2>2. CASE Next
        BY <2>2, PageOpensInv, LogInInv, RecordInv, FetchInv, SpeculativeFetchInv, NextPredictionInv,
           MatchInv, PutInv, RespondInv, EvictInv, ClearInv, DeleteInv, ReopenInv DEF Next
    <2> QED
        BY <2>1, <2>2
<1> QED
    BY <1>1, BrowserInit, PTL DEF Spec

\* The browser makes at most one cache for each reset.
THEOREM BrowserTypes == Spec => []BrowserTypeOK
<1>1. BInv => BrowserTypeOK
    BY DEF BInv
<1> QED
    BY <1>1, BrowserInvariance, PTL

\* Overlapping resets and the first open leave the page with the cache that has
\* the name.
THEOREM NamedCacheUsed == Spec => []UsesNamedCache
<1>1. BInv => UsesNamedCache
    BY DEF BInv, Numbered, UsesNamedCache
<1> QED
    BY <1>1, BrowserInvariance, PTL

\* A reset misses what was on the network when it ended, and nothing else.
THEOREM ResetMissesInFlightOnly == Spec => []OnlyInFlightSurvives
<1>1. BInv => OnlyInFlightSurvives
    <2> SUFFICES ASSUME BInv, NEW e \in Survivors PROVE e.by \in carried
        BY DEF OnlyInFlightSurvives
    <2>1. PICK g \in {cache, named} \ {None}, u \in Urls :
             e = content[g][u] /\ e # None /\ e.user < swept
        BY DEF Survivors
    <2>2. g \in Caches /\ swept \in Nat /\ content[g][u] \in Responses \cup {None}
        BY <2>1, BrowserAssumption DEF BInv, BrowserTypeOK
    <2>3. e.user \in Nat
        BY <2>1, <2>2 DEF Responses
    <2> QED
        BY <2>1, <2>2, <2>3 DEF BInv, Swept
<1> QED
    BY <1>1, BrowserInvariance, PTL
================================================================================
