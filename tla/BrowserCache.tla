----------------------------- MODULE BrowserCache -----------------------------
(***************************************************************************)
(* precog.js: one page's fetches, speculative prefetches and resets over   *)
(* the browser's CacheStorage.  JavaScript runs a task from one await to   *)
(* the next; what it awaits (a cache operation, the network) takes effect  *)
(* when the task goes on.  caches.delete only takes the name off a cache:  *)
(* whoever holds the object goes on using it, so caches are numbered.      *)
(* Predictions and what a URL may be are left open, history with them.     *)
(***************************************************************************)
EXTENDS Naturals, FiniteSets

CONSTANTS Fetches,     \* calls of window.fetch by the page
          Prefetches,  \* calls of triggerSpeculativePrefetch
          Clears,      \* calls of Precog.reset and Precog.clearCache
          Urls,        \* GET requests for resources that may be predicted
          MaxUser,     \* bound of the model: logins
          None

ASSUME BrowserAssumption ==
    /\ Fetches \cap (Prefetches \cup Clears) = {} /\ Prefetches \cap Clears = {}
    /\ IsFiniteSet(Clears)
    /\ MaxUser \in Nat /\ None \notin Nat

VARIABLES content,  \* content[g][u]: the response cache g holds for u
          named,    \* the cache CACHE_NAME stands for, None once deleted
          opened,   \* caches created so far
          cache,    \* precogCache
          pc,       \* pc[t]: what task t awaits
          job,      \* job[t]: its locals
          evicting, \* precogCache.delete calls nobody awaits
          user,     \* who is logged in
          swept,    \* history: who was, when the last reset that ended began
          carried   \* history: tasks that awaited the network when it ended

vars == <<content, named, opened, cache, pc, job, evicting, user, swept, carried>>

Tasks == Fetches \cup Prefetches \cup Clears
Caches == 0..Cardinality(Clears)
Responses == [by : Tasks \cup {"persisted"}, user : 0..MaxUser]
Empty == [u \in Urls |-> None]
NoJob == [url |-> None, from |-> None, user |-> None, todo |-> {}, speculative |-> FALSE]

\* CacheStorage outlives pages: an earlier one may have left entries behind.
Init ==
    /\ \E left \in {Empty, [u \in Urls |-> [by |-> "persisted", user |-> 0]]} :
          content = [g \in Caches |-> IF g = 0 THEN left ELSE Empty]
    /\ named = 0 /\ opened = 1
    /\ cache = None
    /\ pc = [t \in Tasks |-> "idle"]
    /\ job = [t \in Tasks |-> NoJob]
    /\ evicting = {}
    /\ user = 0
    /\ swept = 0 /\ carried = {}
--------------------------------------------------------------------------------
InFlight == {t \in Tasks : pc[t] \in {"network", "put"}}

\* Fault: a new cache each time.
OpenAnew ==
    named' = opened /\ opened' = opened + 1 /\ cache' = opened

\* caches.open: the named cache, or a new one.
OpenCache ==
    IF named = None
      THEN named' = opened /\ opened' = opened + 1 /\ cache' = opened
      ELSE cache' = named /\ UNCHANGED <<named, opened>>

PageOpens ==
    /\ cache = None
    /\ OpenCache
    /\ UNCHANGED <<content, pc, job, evicting, user, swept, carried>>

LogIn ==
    /\ user < MaxUser
    /\ user' = user + 1
    /\ UNCHANGED <<content, named, opened, cache, pc, job, evicting, swept, carried>>

\* The task goes on: a fetch is over, a prefetch has the rest of its loop.
Goes(t, where) ==
    /\ pc' = [pc EXCEPT ![t] = where]
    /\ job' = [job EXCEPT ![t] =
                  IF where \in {"done", "next"} THEN [NoJob EXCEPT !.todo = job[t].todo] ELSE @]

Ends(t) == Goes(t, IF t \in Fetches THEN "done" ELSE "next")

\* record(): a hover, a popstate or a fetch starts a prefetch, which runs up to
\* its first await in the same step.
PcOf(w, predicted) == [pc EXCEPT ![w] = IF cache = None \/ predicted = {} THEN "done" ELSE "next"]
JobOf(w, predicted) == [job EXCEPT ![w].todo = IF cache = None THEN {} ELSE predicted]

Record(w, predicted) ==
    /\ pc[w] = "idle"
    /\ pc' = PcOf(w, predicted)
    /\ job' = JobOf(w, predicted)
    /\ UNCHANGED <<content, named, opened, cache, evicting, user, swept, carried>>

\* window.fetch; the page's own prefetches, which name themselves, are not recorded.
FetchStarts(t, u, speculative, pcs, jobs) ==
    /\ pc[t] = "idle"
    /\ pc' = [pcs EXCEPT ![t] = IF cache = None THEN "network" ELSE "match"]
    /\ job' = [jobs EXCEPT ![t] = [NoJob EXCEPT !.url = u, !.from = cache, !.user = user,
                                                !.speculative = speculative]]
    /\ UNCHANGED <<content, named, opened, cache, evicting, user, swept, carried>>

Fetch(t, u, w, predicted) ==
    /\ pc[w] = "idle"
    /\ FetchStarts(t, u, FALSE, PcOf(w, predicted), JobOf(w, predicted))

SpeculativeFetch(t, u) == FetchStarts(t, u, TRUE, pc, job)

\* The next prediction of the loop: precogCache.match.
NextPrediction(w) ==
    /\ pc[w] = "next"
    /\ \/ job[w].todo = {} /\ Goes(w, "done")
       \/ \E u \in job[w].todo :
             /\ pc' = [pc EXCEPT ![w] = "match"]
             /\ job' = [job EXCEPT ![w].url = u, ![w].from = cache, ![w].todo = @ \ {u}]
    /\ UNCHANGED <<content, named, opened, cache, evicting, user, swept, carried>>

\* A hit answers a fetch, and is evicted from what precogCache is by then; a
\* prefetch goes on.  A miss asks the network, as the user of that moment.
Match(t) ==
    /\ pc[t] = "match"
    /\ \/ /\ content[job[t].from][job[t].url] # None
          /\ Ends(t)
          /\ evicting' = IF t \in Fetches THEN evicting \cup {<<cache, job[t].url>>} ELSE evicting
       \/ /\ content[job[t].from][job[t].url] = None
          /\ pc' = [pc EXCEPT ![t] = "network"]
          /\ job' = [job EXCEPT ![t].user = user, ![t].from = None]
          /\ UNCHANGED evicting
    /\ UNCHANGED <<content, named, opened, cache, user, swept, carried>>

Evict(g, u) ==
    /\ <<g, u>> \in evicting
    /\ evicting' = evicting \ {<<g, u>>}
    /\ content' = [content EXCEPT ![g][u] = None]
    /\ UNCHANGED <<named, opened, cache, pc, job, user, swept, carried>>

\* The network answers, with something to keep or not (private, Set-Cookie, an
\* error).  A prefetch or a speculative fetch puts it in what precogCache is now.
Respond(t, storable) ==
    /\ pc[t] = "network"
    /\ IF storable /\ cache # None /\ (t \in Prefetches \/ job[t].speculative)
         THEN /\ pc' = [pc EXCEPT ![t] = "put"]
              /\ job' = [job EXCEPT ![t].from = cache]
         ELSE Ends(t)
    /\ UNCHANGED <<content, named, opened, cache, evicting, user, swept, carried>>

Put(t) ==
    /\ pc[t] = "put"
    /\ content' = [content EXCEPT ![job[t].from][job[t].url] = [by |-> t, user |-> job[t].user]]
    /\ Ends(t)
    /\ UNCHANGED <<named, opened, cache, evicting, user, swept, carried>>
--------------------------------------------------------------------------------
\* reset and clearCache do nothing before the cache is open.
Clear(r) ==
    /\ pc[r] = "idle"
    /\ IF cache = None
         THEN Goes(r, "done")
         ELSE /\ pc' = [pc EXCEPT ![r] = "delete"]
              /\ job' = [job EXCEPT ![r].user = user]
    /\ UNCHANGED <<content, named, opened, cache, evicting, user, swept, carried>>

\* Fault: the cache is opened without being deleted first.
DeleteNothing(r) ==
    /\ pc[r] = "delete"
    /\ pc' = [pc EXCEPT ![r] = "open"]
    /\ UNCHANGED <<content, named, opened, cache, job, evicting, user, swept, carried>>

Delete(r) ==
    /\ pc[r] = "delete"
    /\ named' = None
    /\ pc' = [pc EXCEPT ![r] = "open"]
    /\ UNCHANGED <<content, opened, cache, job, evicting, user, swept, carried>>

\* Fault: precogCache is not replaced.
ReopenKeeping(r) ==
    /\ pc[r] = "open"
    /\ IF named = None THEN named' = opened /\ opened' = opened + 1
                       ELSE UNCHANGED <<named, opened>>
    /\ Goes(r, "done")
    /\ swept' = IF job[r].user > swept THEN job[r].user ELSE swept
    /\ carried' = carried \cup InFlight
    /\ UNCHANGED <<content, cache, evicting, user>>

Reopen(r) ==
    /\ pc[r] = "open"
    /\ OpenCache
    /\ Goes(r, "done")
    /\ swept' = IF job[r].user > swept THEN job[r].user ELSE swept
    /\ carried' = carried \cup InFlight
    /\ UNCHANGED <<content, evicting, user>>

Next ==
    \/ PageOpens \/ LogIn
    \/ \E w \in Prefetches, predicted \in SUBSET Urls :
          \/ Record(w, predicted)
          \/ \E t \in Fetches, u \in Urls : Fetch(t, u, w, predicted)
    \/ \E t \in Fetches, u \in Urls : SpeculativeFetch(t, u)
    \/ \E w \in Prefetches : NextPrediction(w)
    \/ \E t \in Fetches \cup Prefetches :
          Match(t) \/ Put(t) \/ \E storable \in BOOLEAN : Respond(t, storable)
    \/ \E g \in Caches, u \in Urls : Evict(g, u)
    \/ \E r \in Clears : Clear(r) \/ Delete(r) \/ Reopen(r)

Spec == Init /\ [][Next]_vars
--------------------------------------------------------------------------------
Jobs == [url : Urls \cup {None}, from : Caches \cup {None}, user : (0..MaxUser) \cup {None},
         todo : SUBSET Urls, speculative : BOOLEAN]

\* Types; caches.open makes one cache for each one that was deleted, none beyond.
BrowserTypeOK ==
    /\ content \in [Caches -> [Urls -> Responses \cup {None}]]
    /\ named \in Caches \cup {None} /\ opened \in 1..(Cardinality(Clears) + 1)
    /\ cache \in Caches \cup {None}
    /\ pc \in [Tasks -> {"idle", "next", "match", "network", "put", "delete", "open", "done"}]
    /\ job \in [Tasks -> Jobs]
    /\ evicting \subseteq Caches \X Urls
    /\ user \in 0..MaxUser /\ swept \in 0..MaxUser /\ carried \subseteq Tasks

\* Whatever resets, clearCache and the page's first open interleave: when none of
\* them is under way the SDK uses the cache the name stands for, and what it stores
\* is there for the next page and for the next reset to delete.
UsesNamedCache ==
    cache # None /\ (\A r \in Clears : pc[r] \in {"idle", "done"}) => cache = named

Survivors == {e \in {content[g][u] : g \in {cache, named} \ {None}, u \in Urls} :
                 e # None /\ e.user < swept}

\* What a completed reset leaves of earlier users was put there by a prefetch (or an
\* explicit speculative fetch) whose response was still to come, by nothing else.
OnlyInFlightSurvives ==
    \A e \in Survivors : e.by \in carried

\* "Exposes window.Precog.reset() to invalidate all browser cache entries upon user
\* logout" (README:161): once it has, nothing of an earlier user is in the cache.
NothingSurvives == Survivors = {}
================================================================================
