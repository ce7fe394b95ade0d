---------------------------- MODULE MarkovPredictor ----------------------------
(***************************************************************************)
(* AdaptiveMarkovPredictor of predictor.go: under one lock, the last route *)
(* of every session and how often each route followed each other.  It is   *)
(* the specification the lock-free DensePredictor is held against.  Of a   *)
(* session's history only the last step is ever read.                      *)
(***************************************************************************)
EXTENDS Integers, FiniteSets

CONSTANTS Patterns,     \* normalized routes
          Sessions,     \* session ids
          MaxSessions,  \* sessions tracked at a time
          Weights,      \* what SeedTransition is called with
          None

VARIABLES last,         \* last[s]: the route session s is at
          transitions,  \* transitions[p][q]: how often q followed p
          rowTotals     \* the predictor's totals

markovVars == <<last, transitions, rowTotals>>

Tracked == {s \in Sessions : last[s] # None}

Init ==
    /\ last = [s \in Sessions |-> None]
    /\ transitions = [p \in Patterns |-> [q \in Patterns |-> 0]]
    /\ rowTotals = [p \in Patterns |-> 0]

AddTransition(p, q, weight) ==
    /\ transitions' = [transitions EXCEPT ![p][q] = @ + weight]
    /\ rowTotals' = [rowTotals EXCEPT ![p] = @ + weight]

\* A new session may push out any other one.
MoveTo(s, p) ==
    IF last[s] = None /\ Cardinality(Tracked) >= MaxSessions
      THEN \E evicted \in Tracked : last' = [last EXCEPT ![evicted] = None, ![s] = p]
      ELSE last' = [last EXCEPT ![s] = p]

Record(s, p) ==
    /\ MoveTo(s, p)
    /\ IF last[s] = None THEN UNCHANGED <<transitions, rowTotals>>
                         ELSE AddTransition(last[s], p, 1)

SeedTransition(p, q, weight) ==
    /\ AddTransition(p, q, weight)
    /\ UNCHANGED last

ResetSession(s) ==
    /\ last' = [last EXCEPT ![s] = None]
    /\ UNCHANGED <<transitions, rowTotals>>

Next ==
    \/ \E s \in Sessions : ResetSession(s) \/ \E p \in Patterns : Record(s, p)
    \/ \E p, q \in Patterns, weight \in Weights : SeedTransition(p, q, weight)

Spec == Init /\ [][Next]_markovVars
--------------------------------------------------------------------------------
\* Predict: the followers of the session's route, as counts out of a total.
Followers(s) == {q \in Patterns : transitions[last[s]][q] > 0}
Predictions(s) ==
    IF last[s] = None \/ rowTotals[last[s]] <= 0 THEN {}
    ELSE {[pattern |-> q, count |-> transitions[last[s]][q], total |-> rowTotals[last[s]]] :
              q \in Followers(s)}
================================================================================
