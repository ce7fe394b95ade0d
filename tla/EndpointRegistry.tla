--------------------------- MODULE EndpointRegistry ---------------------------
(***************************************************************************)
(* EndpointRegistry of endpoint_index.go: route patterns get consecutive   *)
(* IDs.  Lookups read an immutable map without the lock; a new pattern is  *)
(* counted, put into a copy of the map and then into a copy of the reverse *)
(* table, each published by an atomic store of its own under the mutex.    *)
(***************************************************************************)
EXTENDS Naturals, Sequences

CONSTANTS Threads,          \* goroutines that call the registry
          Patterns,         \* normalized routes, "GET /items/:id"
          MaxIndexedRoutes, \* 4096
          InvalidRouteID,   \* 0xFFFF, the largest uint16
          None              \* no ID, no pattern, "" in the reverse table

ASSUME RegistryAssumption ==
    /\ MaxIndexedRoutes \in Nat /\ InvalidRouteID \in Nat
    /\ MaxIndexedRoutes <= InvalidRouteID
    /\ None \notin Patterns \cup Threads \cup Nat

VARIABLES patterns,  \* patterns[p]: the published map
          reverse,   \* the published reverse table, ID i at index i + 1
          count,     \* IDs given out
          mu,        \* the thread that holds the mutex from one step to the next
          reg,       \* reg[t]: where thread t is in GetOrRegister
          asked,     \* asked[t]: the pattern it asks for
          answer     \* answer[t]: the ID it was given

registryVars == <<patterns, reverse, count, mu, reg, asked, answer>>

RegistryInit ==
    /\ patterns = [p \in Patterns |-> None]
    /\ reverse = << >>
    /\ count = 0
    /\ mu = None
    /\ reg = [t \in Threads |-> "out"]
    /\ asked = [t \in Threads |-> None]
    /\ answer = [t \in Threads |-> None]

\* Pattern(id), "" for an ID the table does not reach yet.
PatternOf(id) == IF id < Len(reverse) THEN reverse[id + 1] ELSE None
--------------------------------------------------------------------------------
At(t, place) == reg' = [reg EXCEPT ![t] = place]
Return(t, id) == answer' = [answer EXCEPT ![t] = id]

\* The lock-free fast path; a pattern that is not there goes for the lock.
Ask(t, p) ==
    /\ reg[t] = "out"
    /\ asked' = [asked EXCEPT ![t] = p]
    /\ IF patterns[p] # None THEN Return(t, patterns[p]) /\ UNCHANGED reg
                             ELSE At(t, "slow") /\ UNCHANGED answer
    /\ UNCHANGED <<patterns, reverse, count, mu>>

\* Fault: no second look at the map under the lock.
RegisterUnchecked(t) ==
    /\ reg[t] = "slow" /\ mu = None
    /\ \/ /\ count >= MaxIndexedRoutes
          /\ Return(t, InvalidRouteID) /\ At(t, "out")
          /\ UNCHANGED <<count, mu>>
       \/ /\ count < MaxIndexedRoutes
          /\ Return(t, count % (InvalidRouteID + 1)) /\ At(t, "counted")
          /\ count' = count + 1
          /\ mu' = t
    /\ UNCHANGED <<patterns, reverse, asked>>

\* Fault: at capacity the last ID is given out again.
RegisterAliasing(t) ==
    /\ reg[t] = "slow" /\ mu = None
    /\ \/ /\ patterns[asked[t]] # None
          /\ Return(t, patterns[asked[t]]) /\ At(t, "out")
          /\ UNCHANGED <<count, mu>>
       \/ /\ patterns[asked[t]] = None /\ count >= MaxIndexedRoutes
          /\ Return(t, MaxIndexedRoutes - 1) /\ At(t, "out")
          /\ UNCHANGED <<count, mu>>
       \/ /\ patterns[asked[t]] = None /\ count < MaxIndexedRoutes
          /\ Return(t, count % (InvalidRouteID + 1)) /\ At(t, "counted")
          /\ count' = count + 1
          /\ mu' = t
    /\ UNCHANGED <<patterns, reverse, asked>>

\* Under the lock: someone else registered it, no room, or the next ID.
Register(t) ==
    /\ reg[t] = "slow" /\ mu = None
    /\ \/ /\ patterns[asked[t]] # None
          /\ Return(t, patterns[asked[t]]) /\ At(t, "out")
          /\ UNCHANGED <<count, mu>>
       \/ /\ patterns[asked[t]] = None /\ count >= MaxIndexedRoutes
          /\ Return(t, InvalidRouteID) /\ At(t, "out")
          /\ UNCHANGED <<count, mu>>
       \/ /\ patterns[asked[t]] = None /\ count < MaxIndexedRoutes
          /\ Return(t, count % (InvalidRouteID + 1)) /\ At(t, "counted")
          /\ count' = count + 1
          /\ mu' = t
    /\ UNCHANGED <<patterns, reverse, asked>>

StorePatterns(t) ==
    /\ reg[t] = "counted"
    /\ patterns' = [patterns EXCEPT ![asked[t]] = answer[t]]
    /\ At(t, "mapped")
    /\ UNCHANGED <<reverse, count, mu, asked, answer>>

\* The last store, and the unlock.
StoreReverse(t) ==
    /\ reg[t] = "mapped"
    /\ reverse' = [Append(reverse, None) EXCEPT ![answer[t] + 1] = asked[t]]
    /\ mu' = None
    /\ At(t, "out")
    /\ UNCHANGED <<patterns, count, asked, answer>>

RegistryStep(t) == Register(t) \/ StorePatterns(t) \/ StoreReverse(t)

RegistryNext ==
    \E t \in Threads : (\E p \in Patterns : Ask(t, p)) \/ RegistryStep(t)

RegistrySpec == RegistryInit /\ [][RegistryNext]_registryVars
--------------------------------------------------------------------------------
RegistryTypeOK ==
    /\ patterns \in [Patterns -> Nat \cup {None}]
    /\ reverse \in Seq(Patterns \cup {None})
    /\ count \in 0..MaxIndexedRoutes
    /\ mu \in Threads \cup {None}
    /\ reg \in [Threads -> {"out", "slow", "counted", "mapped"}]
    /\ asked \in [Threads -> Patterns \cup {None}]
    /\ answer \in [Threads -> Nat \cup {None}]

\* IDs mean one pattern each, for every thread and for good, although the map is
\* published before the reverse table: "At capacity: reject new patterns instead of
\* aliasing" (endpoint_index.go:53).  An ID without a name is the one whose
\* registration still holds the lock.
IdsAgree ==
    /\ \A p, q \in Patterns : patterns[p] # None /\ patterns[p] = patterns[q] => p = q
    /\ \A p \in Patterns : patterns[p] # None =>
          /\ patterns[p] < count
          /\ \/ PatternOf(patterns[p]) = p
             \/ \E t \in Threads : mu = t /\ reg[t] = "mapped" /\ asked[t] = p
    /\ \A i \in 1..Len(reverse) : reverse[i] \in Patterns /\ patterns[reverse[i]] = i - 1
    /\ \A t \in Threads :
          reg[t] = "out" /\ answer[t] \notin {None, InvalidRouteID}
              => patterns[asked[t]] = answer[t]

\* An ID once published is never taken back or given to another pattern: the
\* predictor's matrix is indexed by it.
IdsStable ==
    [][\A p \in Patterns : patterns[p] # None => patterns'[p] = patterns[p]]_registryVars
================================================================================
