----------------------------- MODULE SingleFlight -----------------------------
(***************************************************************************)
(* What a request coalescer promises, without locks, maps or channels:     *)
(* at most one execution per key is in flight, every caller is attached to *)
(* one execution, an execution has one outcome decided once, and a caller  *)
(* is answered with the outcome of the execution it is attached to, or     *)
(* gives up because its own context was cancelled.                         *)
(***************************************************************************)
CONSTANTS Callers,    \* calls of the coalescer, each made once
          Keys,       \* coalescing keys
          Outcomes,   \* what an execution may end with
          Cancelled,  \* the answer of a caller that gave up
          None

VARIABLES flying,     \* flying[k]: the execution in flight for k, named by the call that began it
          attached,   \* attached[c]: the execution call c depends on
          outcome,    \* outcome[e]: what execution e ended with
          answer,     \* answer[c]: what call c returned
          cancelled   \* calls whose context is cancelled

vars == <<flying, attached, outcome, answer, cancelled>>

Init ==
    /\ flying = [k \in Keys |-> None]
    /\ attached = [c \in Callers |-> None]
    /\ outcome = [c \in Callers |-> None]
    /\ answer = [c \in Callers |-> None]
    /\ cancelled = {}

Begin(c, k) ==
    /\ attached[c] = None
    /\ flying[k] = None
    /\ flying' = [flying EXCEPT ![k] = c]
    /\ attached' = [attached EXCEPT ![c] = c]
    /\ UNCHANGED <<outcome, answer, cancelled>>

Attach(c, k) ==
    /\ attached[c] = None
    /\ flying[k] # None
    /\ attached' = [attached EXCEPT ![c] = flying[k]]
    /\ UNCHANGED <<flying, outcome, answer, cancelled>>

Land(k, o) ==
    /\ flying[k] # None
    /\ outcome[flying[k]] = None
    /\ outcome' = [outcome EXCEPT ![flying[k]] = o]
    /\ flying' = [flying EXCEPT ![k] = None]
    /\ UNCHANGED <<attached, answer, cancelled>>

Answer(c) ==
    /\ answer[c] = None
    /\ attached[c] # None
    /\ outcome[attached[c]] # None
    /\ answer' = [answer EXCEPT ![c] = outcome[attached[c]]]
    /\ UNCHANGED <<flying, attached, outcome, cancelled>>

GiveUp(c) ==
    /\ answer[c] = None
    /\ attached[c] \notin {None, c}
    /\ c \in cancelled
    /\ answer' = [answer EXCEPT ![c] = Cancelled]
    /\ UNCHANGED <<flying, attached, outcome, cancelled>>

Cancel(c) ==
    /\ cancelled' = cancelled \cup {c}
    /\ UNCHANGED <<flying, attached, outcome, answer>>

Next ==
    \/ \E c \in Callers, k \in Keys : Begin(c, k) \/ Attach(c, k)
    \/ \E k \in Keys, o \in Outcomes : Land(k, o)
    \/ \E c \in Callers : Answer(c) \/ GiveUp(c) \/ Cancel(c)

Spec == Init /\ [][Next]_vars
===============================================================================
