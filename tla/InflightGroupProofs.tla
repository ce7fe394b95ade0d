-------------------------- MODULE InflightGroupProofs --------------------------
(***************************************************************************)
(* Proofs about the coalescer of InflightGroup, for any number of callers, *)
(* keys and outcomes.  The argument: the map and the stages agree (a key   *)
(* is registered exactly while its leader is between the two critical      *)
(* sections), and whoever holds a call holds one whose creator leads it    *)
(* for the same key until its channel is closed.                           *)
(***************************************************************************)
EXTENDS InflightGroup, TLAPS

\* The shard's map and the leaders' progress tell the same story.
MapAgrees ==
    /\ \A k \in Keys : calls[k] # None =>
          key[calls[k]] = k /\ stage[calls[k]] \in Registered
    /\ \A c \in Callers : stage[c] \in Registered =>
          key[c] \in Keys /\ calls[key[c]] = c

\* A held call was created by a leader of the same key.
HoldsLeader ==
    \A c \in Callers :
        /\ stage[c] = "outside" <=> joined[c] = None
        /\ stage[c] \in Registered \cup Landed => joined[c] = c
        /\ stage[c] = "waiting" => joined[c] # c
        /\ joined[c] # None => /\ key[c] \in Keys
                               /\ joined[joined[c]] = joined[c]
                               /\ key[joined[c]] = key[c]

\* Results are written before the channel is closed, and answers after.
ClosedLast ==
    \A c \in Callers :
        /\ c \in done => stage[c] = "left" /\ result[c] # None
        /\ stage[c] \in {"ran", "closing"} => result[c] # None
        /\ stage[c] # "left" => ret[c] = None

IInv ==
    /\ InflightTypeOK
    /\ MapAgrees
    /\ HoldsLeader
    /\ ClosedLast
    /\ SharedResult

USE DEF Registered, Landed

\* No step breaks the types.
LEMMA TypeStep ==
  ASSUME InflightTypeOK, [InflightNext]_inflightVars
  PROVE  InflightTypeOK'
<1> USE InflightAssumption DEF InflightTypeOK, Stages
<1>1. ASSUME NEW c \in Callers, NEW k \in Keys, Lead(c, k) PROVE InflightTypeOK'
  BY <1>1 DEF Lead
<1>2. ASSUME NEW c \in Callers, NEW k \in Keys, Join(c, k) PROVE InflightTypeOK'
  BY <1>2 DEF Join
<1>3. ASSUME NEW c \in Callers, NEW o \in Outcomes, FnReturns(c, o) PROVE InflightTypeOK'
  BY <1>3 DEF FnReturns
<1>4. ASSUME NEW c \in Callers, FnPanics(c) PROVE InflightTypeOK'
  BY <1>4 DEF FnPanics
<1>5. ASSUME NEW c \in Callers, FnExits(c) PROVE InflightTypeOK'
  BY <1>5 DEF FnExits
<1>6. ASSUME NEW c \in Callers, Unregister(c) PROVE InflightTypeOK'
  BY <1>6 DEF Unregister
<1>7. ASSUME NEW c \in Callers, Close(c) PROVE InflightTypeOK'
  <2>1. result' \in [Callers -> Outcomes \cup {Panicked, None}]
    BY <1>7 DEF Close
  <2> QED
    BY <1>7, <2>1 DEF Close
<1>8. ASSUME NEW c \in Callers, Wake(c) PROVE InflightTypeOK'
  BY <1>8 DEF Wake
<1>9. ASSUME NEW c \in Callers, Abandon(c) PROVE InflightTypeOK'
  BY <1>9 DEF Abandon
<1>10. ASSUME NEW c \in Callers, CancelContext(c) PROVE InflightTypeOK'
  BY <1>10 DEF CancelContext
<1>11. CASE UNCHANGED inflightVars
  BY <1>11 DEF inflightVars
<1> QED
  BY <1>1, <1>2, <1>3, <1>4, <1>5, <1>6, <1>7, <1>8, <1>9, <1>10, <1>11 DEF InflightNext

\* Every variable keeps a value of its Go type, whatever the callers do.
THEOREM TypeCorrect == InflightSpec => []InflightTypeOK
<1>1. InflightInit => InflightTypeOK
  BY InflightAssumption DEF InflightInit, InflightTypeOK, Stages
<1> QED
  BY <1>1, TypeStep, PTL DEF InflightSpec

\* Before any call the invariant holds: nothing is registered or held.
LEMMA InvInit == InflightInit => IInv
  BY InflightAssumption DEF InflightInit, IInv, InflightTypeOK, Stages, MapAgrees,
     HoldsLeader, ClosedLast, SharedResult

\* The two critical sections keep the map and the leaders in agreement.
LEMMA MapAgreesStep ==
  ASSUME InflightTypeOK, MapAgrees, HoldsLeader, [InflightNext]_inflightVars
  PROVE  MapAgrees'
<1> USE InflightAssumption DEF InflightTypeOK, Stages, MapAgrees, HoldsLeader
<1>1. ASSUME NEW c \in Callers, NEW k \in Keys, Lead(c, k) PROVE MapAgrees'
  BY <1>1 DEF Lead
<1>2. ASSUME NEW c \in Callers, NEW k \in Keys, Join(c, k) PROVE MapAgrees'
  BY <1>2 DEF Join
<1>3. ASSUME NEW c \in Callers, NEW o \in Outcomes, FnReturns(c, o) PROVE MapAgrees'
  BY <1>3 DEF FnReturns
<1>4. ASSUME NEW c \in Callers, FnPanics(c) PROVE MapAgrees'
  BY <1>4 DEF FnPanics
<1>5. ASSUME NEW c \in Callers, FnExits(c) PROVE MapAgrees'
  BY <1>5 DEF FnExits
<1>6. ASSUME NEW c \in Callers, Unregister(c) PROVE MapAgrees'
  BY <1>6 DEF Unregister
<1>7. ASSUME NEW c \in Callers, Close(c) PROVE MapAgrees'
  BY <1>7 DEF Close
<1>8. ASSUME NEW c \in Callers, Wake(c) PROVE MapAgrees'
  BY <1>8 DEF Wake
<1>9. ASSUME NEW c \in Callers, Abandon(c) PROVE MapAgrees'
  BY <1>9 DEF Abandon
<1>10. ASSUME NEW c \in Callers, CancelContext(c) PROVE MapAgrees'
  BY <1>10 DEF CancelContext
<1>11. CASE UNCHANGED inflightVars
  BY <1>11 DEF inflightVars
<1> QED
  BY <1>1, <1>2, <1>3, <1>4, <1>5, <1>6, <1>7, <1>8, <1>9, <1>10, <1>11 DEF InflightNext

\* A call is handed out only while its creator leads it, and leads it for its key.
LEMMA HoldsLeaderStep ==
  ASSUME InflightTypeOK, MapAgrees, HoldsLeader, [InflightNext]_inflightVars
  PROVE  HoldsLeader'
<1> USE InflightAssumption DEF InflightTypeOK, Stages, MapAgrees, HoldsLeader
<1>1. ASSUME NEW c \in Callers, NEW k \in Keys, Lead(c, k) PROVE HoldsLeader'
  BY <1>1 DEF Lead
<1>2. ASSUME NEW c \in Callers, NEW k \in Keys, Join(c, k) PROVE HoldsLeader'
  BY <1>2 DEF Join
<1>3. ASSUME NEW c \in Callers, NEW o \in Outcomes, FnReturns(c, o) PROVE HoldsLeader'
  BY <1>3 DEF FnReturns
<1>4. ASSUME NEW c \in Callers, FnPanics(c) PROVE HoldsLeader'
  BY <1>4 DEF FnPanics
<1>5. ASSUME NEW c \in Callers, FnExits(c) PROVE HoldsLeader'
  BY <1>5 DEF FnExits
<1>6. ASSUME NEW c \in Callers, Unregister(c) PROVE HoldsLeader'
  BY <1>6 DEF Unregister
<1>7. ASSUME NEW c \in Callers, Close(c) PROVE HoldsLeader'
  BY <1>7 DEF Close
<1>8. ASSUME NEW c \in Callers, Wake(c) PROVE HoldsLeader'
  BY <1>8 DEF Wake
<1>9. ASSUME NEW c \in Callers, Abandon(c) PROVE HoldsLeader'
  BY <1>9 DEF Abandon
<1>10. ASSUME NEW c \in Callers, CancelContext(c) PROVE HoldsLeader'
  BY <1>10 DEF CancelContext
<1>11. CASE UNCHANGED inflightVars
  BY <1>11 DEF inflightVars
<1> QED
  BY <1>1, <1>2, <1>3, <1>4, <1>5, <1>6, <1>7, <1>8, <1>9, <1>10, <1>11 DEF InflightNext

\* Closing the channel is the last thing a leader does to its call.
LEMMA ClosedLastStep ==
  ASSUME InflightTypeOK, HoldsLeader, ClosedLast, [InflightNext]_inflightVars
  PROVE  ClosedLast'
<1> USE InflightAssumption DEF InflightTypeOK, Stages, HoldsLeader, ClosedLast
<1>1. ASSUME NEW c \in Callers, NEW k \in Keys, Lead(c, k) PROVE ClosedLast'
  BY <1>1 DEF Lead
<1>2. ASSUME NEW c \in Callers, NEW k \in Keys, Join(c, k) PROVE ClosedLast'
  BY <1>2 DEF Join
<1>3. ASSUME NEW c \in Callers, NEW o \in Outcomes, FnReturns(c, o) PROVE ClosedLast'
  BY <1>3 DEF FnReturns
<1>4. ASSUME NEW c \in Callers, FnPanics(c) PROVE ClosedLast'
  BY <1>4 DEF FnPanics
<1>5. ASSUME NEW c \in Callers, FnExits(c) PROVE ClosedLast'
  BY <1>5 DEF FnExits
<1>6. ASSUME NEW c \in Callers, Unregister(c) PROVE ClosedLast'
  BY <1>6 DEF Unregister
<1>7. ASSUME NEW c \in Callers, Close(c) PROVE ClosedLast'
  BY <1>7 DEF Close
<1>8. ASSUME NEW c \in Callers, Wake(c) PROVE ClosedLast'
  BY <1>8 DEF Wake
<1>9. ASSUME NEW c \in Callers, Abandon(c) PROVE ClosedLast'
  BY <1>9 DEF Abandon
<1>10. ASSUME NEW c \in Callers, CancelContext(c) PROVE ClosedLast'
  BY <1>10 DEF CancelContext
<1>11. CASE UNCHANGED inflightVars
  BY <1>11 DEF inflightVars
<1> QED
  BY <1>1, <1>2, <1>3, <1>4, <1>5, <1>6, <1>7, <1>8, <1>9, <1>10, <1>11 DEF InflightNext

\* An answer stays the answer of its flight.
LEMMA SharedResultStep ==
  ASSUME InflightTypeOK, HoldsLeader, ClosedLast, SharedResult, [InflightNext]_inflightVars
  PROVE  SharedResult'
<1> USE InflightAssumption DEF InflightTypeOK, Stages, HoldsLeader, ClosedLast, SharedResult
<1>1. ASSUME NEW c \in Callers, NEW k \in Keys, Lead(c, k) PROVE SharedResult'
  BY <1>1 DEF Lead
<1>2. ASSUME NEW c \in Callers, NEW k \in Keys, Join(c, k) PROVE SharedResult'
  BY <1>2 DEF Join
<1>3. ASSUME NEW c \in Callers, NEW o \in Outcomes, FnReturns(c, o) PROVE SharedResult'
  BY <1>3 DEF FnReturns
<1>4. ASSUME NEW c \in Callers, FnPanics(c) PROVE SharedResult'
  BY <1>4 DEF FnPanics
<1>5. ASSUME NEW c \in Callers, FnExits(c) PROVE SharedResult'
  BY <1>5 DEF FnExits
<1>6. ASSUME NEW c \in Callers, Unregister(c) PROVE SharedResult'
  BY <1>6 DEF Unregister
<1>7. ASSUME NEW c \in Callers, Close(c) PROVE SharedResult'
  BY <1>7 DEF Close
<1>8. ASSUME NEW c \in Callers, Wake(c) PROVE SharedResult'
  BY <1>8 DEF Wake
<1>9. ASSUME NEW c \in Callers, Abandon(c) PROVE SharedResult'
  BY <1>9 DEF Abandon
<1>10. ASSUME NEW c \in Callers, CancelContext(c) PROVE SharedResult'
  BY <1>10 DEF CancelContext
<1>11. CASE UNCHANGED inflightVars
  BY <1>11 DEF inflightVars
<1> QED
  BY <1>1, <1>2, <1>3, <1>4, <1>5, <1>6, <1>7, <1>8, <1>9, <1>10, <1>11 DEF InflightNext

\* IInv is inductive.
LEMMA InvStep ==
  ASSUME IInv, [InflightNext]_inflightVars
  PROVE  IInv'
  BY TypeStep, MapAgreesStep, HoldsLeaderStep, ClosedLastStep, SharedResultStep DEF IInv

THEOREM Invariance == InflightSpec => []IInv
  BY InvInit, InvStep, PTL DEF InflightSpec

\* No two callers of one key run fn at the same time (DoContext's first
\* critical section looks the key up before it registers it).
THEOREM NoDuplicateFlight == InflightSpec => []OneFlightPerKey
<1>1. IInv => OneFlightPerKey
  BY DEF IInv, MapAgrees, OneFlightPerKey
<1> QED
  BY <1>1, Invariance, PTL

\* Every returned caller holds the result of its flight, or gave up.
THEOREM ResultShared == InflightSpec => []SharedResult
<1>1. IInv => SharedResult
  BY DEF IInv
<1> QED
  BY <1>1, Invariance, PTL

\* A result that waiters may read without a lock is never written again.
THEOREM ResultStable == InflightSpec => PublishedResultStable
<1>1. ASSUME IInv, [InflightNext]_inflightVars
      PROVE  [\A c \in done : c \in done' /\ result'[c] = result[c]]_inflightVars
  <2> USE DEF IInv, InflightTypeOK, HoldsLeader, ClosedLast
  <2>1. ASSUME NEW c \in Callers, NEW k \in Keys, Lead(c, k)
        PROVE  \A d \in done : d \in done' /\ result'[d] = result[d]
    BY <1>1, <2>1 DEF Lead
  <2>2. ASSUME NEW c \in Callers, NEW k \in Keys, Join(c, k)
        PROVE  \A d \in done : d \in done' /\ result'[d] = result[d]
    BY <1>1, <2>2 DEF Join
  <2>3. ASSUME NEW c \in Callers, NEW o \in Outcomes, FnReturns(c, o)
        PROVE  \A d \in done : d \in done' /\ result'[d] = result[d]
    BY <1>1, <2>3 DEF FnReturns
  <2>4. ASSUME NEW c \in Callers, FnPanics(c)
        PROVE  \A d \in done : d \in done' /\ result'[d] = result[d]
    BY <1>1, <2>4 DEF FnPanics
  <2>5. ASSUME NEW c \in Callers, FnExits(c)
        PROVE  \A d \in done : d \in done' /\ result'[d] = result[d]
    BY <1>1, <2>5 DEF FnExits
  <2>6. ASSUME NEW c \in Callers, Unregister(c)
        PROVE  \A d \in done : d \in done' /\ result'[d] = result[d]
    BY <1>1, <2>6 DEF Unregister
  <2>7. ASSUME NEW c \in Callers, Close(c)
        PROVE  \A d \in done : d \in done' /\ result'[d] = result[d]
    BY <1>1, <2>7 DEF Close
  <2>8. ASSUME NEW c \in Callers, Wake(c)
        PROVE  \A d \in done : d \in done' /\ result'[d] = result[d]
    BY <1>1, <2>8 DEF Wake
  <2>9. ASSUME NEW c \in Callers, Abandon(c)
        PROVE  \A d \in done : d \in done' /\ result'[d] = result[d]
    BY <1>1, <2>9 DEF Abandon
  <2>10. ASSUME NEW c \in Callers, CancelContext(c)
        PROVE  \A d \in done : d \in done' /\ result'[d] = result[d]
    BY <1>1, <2>10 DEF CancelContext
  <2> QED
    BY <1>1, <2>1, <2>2, <2>3, <2>4, <2>5, <2>6, <2>7, <2>8, <2>9, <2>10 DEF InflightNext
<1> QED
  BY <1>1, Invariance, PTL DEF InflightSpec, PublishedResultStable

\* Each step of the coalescer is a step of SingleFlight or changes nothing in it.
LEMMA StepRefines ==
  ASSUME IInv, IInv', [InflightNext]_inflightVars
  PROVE  [SF!Next]_SF!vars
<1> USE InflightAssumption DEF IInv, InflightTypeOK, Stages, HoldsLeader, ClosedLast
<1>1. ASSUME NEW c \in Callers, NEW k \in Keys, Lead(c, k) PROVE SF!Begin(c, k)
  <2>1. FlightOutcome' = FlightOutcome
    BY <1>1 DEF Lead, FlightOutcome
  <2> QED
    BY <1>1, <2>1 DEF Lead, SF!Begin, FlightOutcome
<1>2. ASSUME NEW c \in Callers, NEW k \in Keys, Join(c, k) PROVE SF!Attach(c, k)
  <2>1. FlightOutcome' = FlightOutcome
    BY <1>2 DEF Join, FlightOutcome
  <2> QED
    BY <1>2, <2>1 DEF Join, SF!Attach, FlightOutcome
<1>3. ASSUME NEW c \in Callers,
             (\E o \in Outcomes : FnReturns(c, o)) \/ FnPanics(c) \/ FnExits(c)
      PROVE  UNCHANGED SF!vars
  <2>1. FlightOutcome' = FlightOutcome
    BY <1>3 DEF FnReturns, FnPanics, FnExits, FlightOutcome
  <2> QED
    BY <1>3, <2>1 DEF FnReturns, FnPanics, FnExits, SF!vars, FlightOutcome
<1>4. ASSUME NEW c \in Callers, Unregister(c)
      PROVE  \E k \in Keys, o \in Outcomes \cup {Panicked} : SF!Land(k, o)
  <2>1. key[c] \in Keys /\ calls[key[c]] = c
    BY <1>4 DEF MapAgrees, Unregister
  <2> DEFINE o == IF stage[c] = "ran" THEN result[c] ELSE Panicked
  <2>2. o \in Outcomes \cup {Panicked} /\ FlightOutcome[c] = None
    BY <1>4 DEF Unregister, FlightOutcome
  <2>3. FlightOutcome' = [FlightOutcome EXCEPT ![c] = o]
    BY <1>4 DEF Unregister, FlightOutcome
  <2>4. SF!Land(key[c], o)
    BY <1>4, <2>1, <2>2, <2>3 DEF SF!Land, Unregister, FlightOutcome
  <2> QED
    BY <2>1, <2>2, <2>4
<1>5. ASSUME NEW c \in Callers, Close(c) PROVE SF!Answer(c)
  <2>1. FlightOutcome' = FlightOutcome
    BY <1>5 DEF Close, FlightOutcome
  <2>2. FlightOutcome[c] = result'[c] /\ FlightOutcome[c] # None
    BY <1>5 DEF Close, FlightOutcome
  <2>3. joined[c] = c /\ ret[c] = None
    BY <1>5 DEF Close
  <2>4. ret' = [ret EXCEPT ![c] = FlightOutcome[c]] /\ UNCHANGED <<calls, joined, cancelled>>
    BY <1>5, <2>2 DEF Close
  <2>5. c # None
    OBVIOUS
  <2> QED
    BY <2>1, <2>2, <2>3, <2>4, <2>5 DEF SF!Answer
<1>6. ASSUME NEW c \in Callers, Wake(c) PROVE SF!Answer(c)
  <2>1. FlightOutcome' = FlightOutcome
    BY <1>6 DEF Wake, FlightOutcome
  <2>2. FlightOutcome[joined[c]] = result[joined[c]] /\ result[joined[c]] # None
    BY <1>6 DEF Wake, FlightOutcome
  <2> QED
    BY <1>6, <2>1, <2>2 DEF Wake, SF!Answer, FlightOutcome
<1>7. ASSUME NEW c \in Callers, Abandon(c) PROVE SF!GiveUp(c)
  <2>1. FlightOutcome' = FlightOutcome
    BY <1>7 DEF Abandon, FlightOutcome
  <2> QED
    BY <1>7, <2>1 DEF Abandon, SF!GiveUp, FlightOutcome
<1>8. ASSUME NEW c \in Callers, CancelContext(c) PROVE SF!Cancel(c)
  <2>1. FlightOutcome' = FlightOutcome
    BY <1>8 DEF CancelContext, FlightOutcome
  <2> QED
    BY <1>8, <2>1 DEF CancelContext, SF!Cancel, FlightOutcome
<1>9. CASE UNCHANGED inflightVars
  BY <1>9 DEF inflightVars, SF!vars, FlightOutcome
<1> QED
  BY <1>1, <1>2, <1>3, <1>4, <1>5, <1>6, <1>7, <1>8, <1>9 DEF InflightNext, SF!Next

\* DoContext implements the abstract coalescer: at most one execution per key,
\* one outcome per execution, every answer the outcome of its execution.
THEOREM Refinement == InflightSpec => ImplementsSingleFlight
<1>1. InflightInit => SF!Init
  BY DEF InflightInit, SF!Init, FlightOutcome
<1> QED
  BY <1>1, StepRefines, Invariance, PTL DEF InflightSpec, ImplementsSingleFlight, SF!Spec
================================================================================
