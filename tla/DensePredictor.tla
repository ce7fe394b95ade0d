---------------------------- MODULE DensePredictor ----------------------------
(***************************************************************************)
(* DenseMatrixPredictor of predictor_dense.go over the EndpointRegistry:   *)
(* the goroutines of requests record navigations and predict the next one. *)
(* Sessions are moved under their shard's lock; cells and row totals of    *)
(* the transition matrix are read, added to and rescaled by single atomic  *)
(* accesses without one.  Sessions stand for those of one shard.           *)
(***************************************************************************)
EXTENDS EndpointRegistry, Integers, FiniteSets

CONSTANTS Sessions,     \* session ids
          Static,       \* patterns without :id, :uuid, :hex
          MaxRoutes,    \* rows and columns of the matrix
          MaxSessions,  \* 500 for each shard
          TopK,         \* predictions asked for
          RescaleAt,    \* 0x7FFFFFFF
          Word,         \* 2^32
          MaxRecords,   \* bound of the model: calls of Record
          MaxPredicts   \* bound of the model: calls of Predict

ASSUME DenseAssumption ==
    /\ {MaxRoutes, MaxSessions, TopK, RescaleAt, Word} \subseteq Nat \ {0}
    /\ RescaleAt < Word /\ MaxRoutes <= InvalidRouteID
    /\ MaxRecords \in Nat /\ MaxPredicts \in Nat
    /\ Static \subseteq Patterns
    /\ None \notin Sessions

VARIABLES matrix,    \* matrix[i][j]: the counter of transitions from route i to j
          totals,    \* totals[i]: the counter of transitions out of i
          last,      \* last[s]: the ID of the last step in s's history
          concrete,  \* concrete[i]: the static route last recorded under ID i
          pc,        \* pc[t]: where thread t is in Record or Predict
          job,       \* job[t]: its local variables
          calls,     \* calls of Record and of Predict begun
          raced,     \* history: rows changed while a rescaling of theirs ran
          disturbed  \* history: predictions whose row changed under their scan

denseVars == <<matrix, totals, last, concrete, pc, job, calls, raced, disturbed>>
vars == <<registryVars, denseVars>>

Ids == 0..(MaxRoutes - 1)
ZeroRow == [i \in Ids |-> 0]
\* session, from: fromID, col: toID of a loop, sum: newTotal or total, old: a cell
\* read by rescaleRow, limit: registeredCount, row: the counts found, picks: the
\* candidates still to be named, out: the predictions.
NoJob == [session |-> None, from |-> None, col |-> 0, sum |-> 0, old |-> 0,
          limit |-> 0, row |-> ZeroRow, picks |-> {}, out |-> {}]

Init ==
    /\ RegistryInit
    /\ matrix = [i \in Ids |-> ZeroRow]
    /\ totals = ZeroRow
    /\ last = [s \in Sessions |-> None]
    /\ concrete = [i \in Ids |-> None]
    /\ pc = [t \in Threads |-> "idle"]
    /\ job = [t \in Threads |-> NoJob]
    /\ calls = [record |-> 0, predict |-> 0]
    /\ raced = {} /\ disturbed = {}
--------------------------------------------------------------------------------
Tracked == {s \in Sessions : last[s] # None}
Goto(t, place) == pc' = [pc EXCEPT ![t] = place]
Finish(t) == Goto(t, "idle") /\ job' = [job EXCEPT ![t] = NoJob]

Rescaling == {"rescale", "rescaleStore", "rescaleTotal"}
Reading == {"loadTotal", "loadCount", "scan"}
Others(t, f, places) == {u \in Threads \ {t} : job[u].from = f /\ pc[u] \in places}
\* A write of t to row f, seen by the history variables.
Touch(t, f) ==
    /\ raced' = IF Others(t, f, Rescaling) = {} THEN raced ELSE raced \cup {f}
    /\ disturbed' = disturbed \cup Others(t, f, Reading)

BeginRecord(t, s, p) ==
    /\ pc[t] = "idle" /\ calls.record < MaxRecords
    /\ Ask(t, p)
    /\ Goto(t, "registering")
    /\ job' = [job EXCEPT ![t].session = s]
    /\ calls' = [calls EXCEPT !.record = @ + 1]
    /\ UNCHANGED <<matrix, totals, last, concrete, raced, disturbed>>

Registering(t) ==
    /\ pc[t] = "registering"
    /\ RegistryStep(t)
    /\ UNCHANGED denseVars

\* GetOrRegister has returned.
Registered(t) == pc[t] = "registering" /\ reg[t] = "out"
Usable(t) == answer[t] # InvalidRouteID /\ answer[t] < MaxRoutes

Ignore(t) ==
    /\ Registered(t) /\ ~Usable(t)
    /\ Finish(t)
    /\ UNCHANGED <<registryVars, matrix, totals, last, concrete, calls, raced, disturbed>>

StoreConcrete(t) ==
    /\ Registered(t) /\ Usable(t)
    /\ asked[t] \in Static
    /\ concrete' = [concrete EXCEPT ![answer[t]] = asked[t]]
    /\ Goto(t, "session")
    /\ UNCHANGED <<registryVars, matrix, totals, last, job, calls, raced, disturbed>>

\* Fault: a session that is tracked already pushes another one out, a new one does not.
MoveToEvictingLate(s, id) ==
    IF last[s] # None /\ Cardinality(Tracked) >= MaxSessions
      THEN \E evicted \in Tracked : last' = [last EXCEPT ![evicted] = None, ![s] = id]
      ELSE last' = [last EXCEPT ![s] = id]

\* A new session may push out any other one of its shard.
MoveTo(s, id) ==
    IF last[s] = None /\ Cardinality(Tracked) >= MaxSessions
      THEN \E evicted \in Tracked : last' = [last EXCEPT ![evicted] = None, ![s] = id]
      ELSE last' = [last EXCEPT ![s] = id]

\* Under the shard's lock: read where the session was and move it.
MoveSession(t) ==
    /\ \/ pc[t] = "session"
       \/ Registered(t) /\ Usable(t) /\ asked[t] \notin Static
    /\ LET s == job[t].session IN
       /\ MoveTo(s, answer[t])
       /\ IF last[s] = None
            THEN Finish(t)
            ELSE Goto(t, "cell") /\ job' = [job EXCEPT ![t].from = last[s]]
    /\ UNCHANGED <<registryVars, matrix, totals, concrete, calls, raced, disturbed>>

\* Fault: row and column are swapped.
AddCellTransposed(t) ==
    /\ pc[t] = "cell"
    /\ matrix' = [matrix EXCEPT ![answer[t]][job[t].from] = (@ + 1) % Word]
    /\ Goto(t, "total")
    /\ Touch(t, job[t].from)
    /\ UNCHANGED <<registryVars, totals, last, concrete, job, calls>>

AddCell(t) ==
    /\ pc[t] = "cell"
    /\ matrix' = [matrix EXCEPT ![job[t].from][answer[t]] = (@ + 1) % Word]
    /\ Goto(t, "total")
    /\ Touch(t, job[t].from)
    /\ UNCHANGED <<registryVars, totals, last, concrete, job, calls>>

\* The total that reaches RescaleAt makes its thread rescale the row; a rescaling
\* that begins alone undoes what earlier races did to the row's sum.
AddTotal(t) ==
    /\ pc[t] = "total"
    /\ LET f == job[t].from  total == (totals[f] + 1) % Word IN
       /\ totals' = [totals EXCEPT ![f] = total]
       /\ disturbed' = disturbed \cup Others(t, f, Reading)
       /\ \/ /\ total >= RescaleAt
             /\ Goto(t, "rescale") /\ UNCHANGED job
             /\ raced' = IF Others(t, f, Rescaling \cup {"total"}) = {}
                           THEN raced \ {f} ELSE raced \cup {f}
          \/ /\ total < RescaleAt
             /\ Finish(t)
             /\ raced' = IF Others(t, f, Rescaling) = {} THEN raced ELSE raced \cup {f}
    /\ UNCHANGED <<registryVars, matrix, last, concrete, calls>>

RescaleLoad(t) ==
    /\ pc[t] = "rescale"
    /\ job' = [job EXCEPT ![t].old = matrix[job[t].from][job[t].col]]
    /\ Goto(t, "rescaleStore")
    /\ UNCHANGED <<registryVars, matrix, totals, last, concrete, calls, raced, disturbed>>

\* Fault: the new total adds up the old counters.
RescaleStoreOldSum(t) ==
    /\ pc[t] = "rescaleStore"
    /\ LET f == job[t].from  half == job[t].old \div 2 IN
       /\ matrix' = [matrix EXCEPT ![f][job[t].col] = half]
       /\ job' = [job EXCEPT ![t].sum = (@ + job[t].old) % Word, ![t].col = @ + 1]
       /\ Touch(t, f)
    /\ Goto(t, IF job[t].col + 1 = MaxRoutes THEN "rescaleTotal" ELSE "rescale")
    /\ UNCHANGED <<registryVars, totals, last, concrete, calls>>

RescaleStore(t) ==
    /\ pc[t] = "rescaleStore"
    /\ LET f == job[t].from  half == job[t].old \div 2 IN
       /\ matrix' = [matrix EXCEPT ![f][job[t].col] = half]
       /\ job' = [job EXCEPT ![t].sum = (@ + half) % Word, ![t].col = @ + 1]
       /\ Touch(t, f)
    /\ Goto(t, IF job[t].col + 1 = MaxRoutes THEN "rescaleTotal" ELSE "rescale")
    /\ UNCHANGED <<registryVars, totals, last, concrete, calls>>

RescaleTotal(t) ==
    /\ pc[t] = "rescaleTotal"
    /\ totals' = [totals EXCEPT ![job[t].from] = job[t].sum]
    /\ Touch(t, job[t].from)
    /\ Finish(t)
    /\ UNCHANGED <<registryVars, matrix, last, concrete, calls>>

ResetSession(s) ==
    /\ last' = [last EXCEPT ![s] = None]
    /\ UNCHANGED <<registryVars, matrix, totals, concrete, pc, job, calls, raced, disturbed>>
--------------------------------------------------------------------------------
BeginPredict(t, s) ==
    /\ pc[t] = "idle" /\ calls.predict < MaxPredicts
    /\ last[s] # None
    /\ Goto(t, "loadTotal")
    /\ job' = [job EXCEPT ![t].session = s, ![t].from = last[s]]
    /\ calls' = [calls EXCEPT !.predict = @ + 1]
    /\ UNCHANGED <<registryVars, matrix, totals, last, concrete, raced, disturbed>>

\* Nobody has written one half of an update of the row but not the other.
Settled(f) ==
    /\ f \notin raced
    /\ \A u \in Threads : job[u].from = f => pc[u] \notin Rescaling \cup {"total"}

LoadTotal(t) ==
    /\ pc[t] = "loadTotal"
    /\ LET f == job[t].from IN
       /\ IF totals[f] = 0
            THEN Finish(t)
            ELSE Goto(t, "loadCount") /\ job' = [job EXCEPT ![t].sum = totals[f]]
       /\ disturbed' = IF Settled(f) THEN disturbed \ {t} ELSE disturbed \cup {t}
    /\ UNCHANGED <<registryVars, matrix, totals, last, concrete, calls, raced>>

\* Fault: the scan ends where the reverse table does.
LoadCountNamed(t) ==
    /\ pc[t] = "loadCount"
    /\ job' = [job EXCEPT ![t].limit = IF Len(reverse) > MaxRoutes THEN MaxRoutes ELSE Len(reverse)]
    /\ Goto(t, "scan")
    /\ UNCHANGED <<registryVars, matrix, totals, last, concrete, calls, raced, disturbed>>

LoadCount(t) ==
    /\ pc[t] = "loadCount"
    /\ job' = [job EXCEPT ![t].limit = IF count > MaxRoutes THEN MaxRoutes ELSE count]
    /\ Goto(t, "scan")
    /\ UNCHANGED <<registryVars, matrix, totals, last, concrete, calls, raced, disturbed>>

Scan(t) ==
    /\ pc[t] = "scan"
    /\ job[t].col < job[t].limit
    /\ job' = [job EXCEPT ![t].row[job[t].col] = matrix[job[t].from][job[t].col],
                         ![t].col = @ + 1]
    /\ UNCHANGED <<registryVars, matrix, totals, last, concrete, pc, calls, raced, disturbed>>

Candidates(t) == {i \in Ids : job[t].row[i] > 0}

\* The sort and the cut to topK; equal counts come in any order.
Rank(t) ==
    /\ pc[t] = "scan"
    /\ job[t].col = job[t].limit
    /\ \E best \in SUBSET Candidates(t) :
          /\ best = Candidates(t) \/ Cardinality(best) = TopK
          /\ Cardinality(best) <= TopK
          /\ \A i \in best, j \in Candidates(t) \ best : job[t].row[i] >= job[t].row[j]
          /\ IF best = {} THEN Finish(t)
             ELSE Goto(t, "naming") /\ job' = [job EXCEPT ![t].picks = best]
    /\ UNCHANGED <<registryVars, matrix, totals, last, concrete, calls, raced, disturbed>>

\* Pattern(id), which the registry may not know yet.
Name(t) ==
    /\ pc[t] = "naming"
    /\ \E i \in job[t].picks :
          job' = [job EXCEPT ![t].picks = @ \ {i},
                             ![t].out = @ \cup {[id |-> i, pattern |-> PatternOf(i)]}]
    /\ UNCHANGED <<registryVars, matrix, totals, last, concrete, pc, calls, raced, disturbed>>

ReturnPredictions(t) ==
    /\ pc[t] = "naming" /\ job[t].picks = {}
    /\ Finish(t)
    /\ UNCHANGED <<registryVars, matrix, totals, last, concrete, calls, raced, disturbed>>

RecordStep(t) ==
    \/ Registering(t) \/ Ignore(t) \/ StoreConcrete(t) \/ MoveSession(t)
    \/ AddCell(t) \/ AddTotal(t)
    \/ RescaleLoad(t) \/ RescaleStore(t) \/ RescaleTotal(t)
PredictStep(t) ==
    \/ LoadTotal(t) \/ LoadCount(t) \/ Scan(t) \/ Rank(t)
    \/ Name(t) \/ ReturnPredictions(t)

Next ==
    \/ \E t \in Threads :
          \/ \E s \in Sessions : BeginPredict(t, s) \/ \E p \in Patterns : BeginRecord(t, s, p)
          \/ RecordStep(t) \/ PredictStep(t)
    \/ \E s \in Sessions : ResetSession(s)

Spec == Init /\ [][Next]_vars
--------------------------------------------------------------------------------
Jobs == [session : Sessions \cup {None}, from : Ids \cup {None}, col : 0..MaxRoutes,
         sum : 0..(Word - 1), old : 0..(Word - 1), limit : 0..MaxRoutes,
         row : [Ids -> 0..(Word - 1)], picks : SUBSET Ids,
         out : SUBSET [id : Ids, pattern : Patterns \cup {None}]]

\* Types, counters below 2^32 and no more sessions than the shard's bound.
DenseTypeOK ==
    /\ RegistryTypeOK
    /\ matrix \in [Ids -> [Ids -> 0..(Word - 1)]]
    /\ totals \in [Ids -> 0..(Word - 1)]
    /\ last \in [Sessions -> Ids \cup {None}]
    /\ Cardinality(Tracked) <= MaxSessions
    /\ concrete \in [Ids -> Static \cup {None}]
    /\ pc \in [Threads -> {"idle", "registering", "session", "cell", "total", "naming"}
                            \cup Rescaling \cup Reading]
    /\ job \in [Threads -> Jobs]
    /\ calls \in [record : 0..MaxRecords, predict : 0..MaxPredicts]
    /\ raced \subseteq Ids /\ disturbed \subseteq Threads

\* A prediction names the route its counter belongs to, and a cached static call
\* is of the route it is cached for; an ID may be predicted before it has a name
\* (see endpoint_index.go:64), never under another's.
RightNames ==
    /\ \A t \in Threads : \A pred \in job[t].out :
          pred.pattern # None => patterns[pred.pattern] = pred.id
    /\ \A i \in Ids : concrete[i] # None => patterns[concrete[i]] = i

\* The sums of a row's first counters, and of all.
SumUpTo(row) ==
    LET sum[n \in 0..MaxRoutes] == IF n = 0 THEN 0 ELSE sum[n - 1] + row[n - 1] IN sum
SumOf(row) == SumUpTo(row)[MaxRoutes]
Half(f) == Cardinality({t \in Threads : pc[t] = "total" /\ job[t].from = f})

\* A row's total is the sum of its counters, but for records between their two
\* additions: "preserving relative Markov probability distributions"
\* (predictor_dense.go:164) holds of a rescaling that ran alone, and the next one
\* that does so repairs what overlapping ones did.
RowsAddUp ==
    \A f \in Ids \ raced :
        (\A t \in Threads : job[t].from = f => pc[t] \notin Rescaling)
            => (totals[f] + Half(f)) % Word = SumOf(matrix[f]) % Word

\* The pattern of an ID, and how many threads have yet to count a transition.
NameOf(i) == CHOOSE p \in Patterns : patterns[p] = i
Uncounted(f, g) ==
    Cardinality({t \in Threads : pc[t] = "cell" /\ job[t].from = f /\ answer[t] = g})
Modelled(p) == patterns[p] # None /\ patterns[p] < MaxRoutes

Markov == INSTANCE MarkovPredictor WITH
    Weights <- {},
    last <- [s \in Sessions |-> IF last[s] = None THEN None ELSE NameOf(last[s])],
    transitions <- [p \in Patterns |-> [q \in Patterns |->
        IF Modelled(p) /\ Modelled(q)
          THEN matrix[patterns[p]][patterns[q]] + Uncounted(patterns[p], patterns[q]) ELSE 0]],
    rowTotals <- [p \in Patterns |->
        IF Modelled(p)
          THEN totals[patterns[p]] + Half(patterns[p])
               + Cardinality({t \in Threads : pc[t] = "cell" /\ job[t].from = patterns[p]})
          ELSE 0]

\* "Confidence score between 0.0 and 1.0" (predictor.go:17): the counts read in a
\* scan that nobody disturbed sum up to the total read before it, so a new route
\* cannot be missed although its ID is counted apart from its name and its cell;
\* and while no record of the row is half done they are, route by route, what the
\* locked predictor would answer a session that is there.
PredictsExactly ==
    \A t \in Threads :
        pc[t] = "scan" /\ job[t].col = job[t].limit /\ t \notin disturbed =>
            /\ SumOf(job[t].row) = job[t].sum
            /\ Others(t, job[t].from, {"cell", "total"}) = {} =>
                  \A s \in Sessions : last[s] = job[t].from =>
                      Markov!Predictions(s) =
                          {[pattern |-> NameOf(i), count |-> job[t].row[i], total |-> job[t].sum] :
                              i \in Candidates(t)}

\* A rescaling changes counters of its own row only.
Rescales ==
    \E t \in Threads :
        /\ pc[t] \in Rescaling /\ (job'[t] # job[t] \/ pc'[t] # pc[t])
        /\ UNCHANGED <<patterns, last>>
        /\ \A f \in Ids \ {job[t].from} : matrix'[f] = matrix[f] /\ totals'[f] = totals[f]

\* Apart from rescaling, the lock-free predictor is the locked one: a navigation
\* takes effect once, when its session moves, none is lost or counted for another
\* route or session, whatever is interleaved with its two additions.
ImplementsMarkov == Markov!Init /\ [][Rescales \/ Markov!Next]_(Markov!markovVars)
================================================================================
