----------------------------- MODULE InflightGroup -----------------------------
(***************************************************************************)
(* The in-flight request coalescer of coalesce.go.  A caller is one call   *)
(* of DoContext.  The first caller of a key registers an inflightCall      *)
(* under the shard's mutex and runs fn (it leads); a caller that finds the *)
(* key registered waits on that call's done channel or on its own context. *)
(* An inflightCall is named by the caller that created it.  A section held *)
(* under the mutex is one step, so is each access to shared state outside. *)
(***************************************************************************)
CONSTANTS Callers,      \* calls of DoContext, each made once
          Keys,         \* coalescing keys
          Outcomes,     \* (entry, err) pairs fn may return
          Cancellable,  \* callers whose context may be cancelled (Do passes context.Background())
          MayExit,      \* callers whose fn may end its goroutine with runtime.Goexit
          Panicked,     \* the error (leader: the re-raised panic) of an fn that panicked
          Cancelled,    \* ctx.Err()
          None

\* What a caller returns, what it waits on and "nothing" are never confused.
ASSUME InflightAssumption ==
    /\ Cancellable \subseteq Callers
    /\ MayExit \subseteq Callers
    /\ Panicked \notin Outcomes
    /\ Cancelled \notin Outcomes \cup {Panicked}
    /\ None \notin Callers \cup Keys \cup Outcomes \cup {Panicked, Cancelled}

VARIABLES stage,      \* stage[c]: where caller c is in DoContext
          key,        \* key[c]: the key it asked for
          calls,      \* calls[k]: the call registered in the shard's map, None if absent
          joined,     \* joined[c]: the call c holds, its own if it leads
          result,     \* result[c]: entry and err of the call c created
          done,       \* the calls whose done channel is closed
          ret,        \* ret[c]: what DoContext returned to c
          cancelled   \* callers whose context is cancelled

inflightVars == <<stage, key, calls, joined, result, done, ret, cancelled>>

\* A caller is outside, waits, or leads: running fn, ran or panicking (fn is
\* over, the key still registered), closing or unwinding (key removed), left.
\* A caller whose fn called Goexit is gone and does nothing more.
Registered == {"running", "ran", "panicking", "gone"}
Landed == {"closing", "unwinding"}
Stages == {"outside", "waiting", "left"} \cup Registered \cup Landed

InflightInit ==
    /\ stage = [c \in Callers |-> "outside"]
    /\ key = [c \in Callers |-> None]
    /\ calls = [k \in Keys |-> None]
    /\ joined = [c \in Callers |-> None]
    /\ result = [c \in Callers |-> None]
    /\ done = {}
    /\ ret = [c \in Callers |-> None]
    /\ cancelled = {}

\* Fault: the key is registered without looking it up under the same lock.
LeadUnchecked(c, k) ==
    /\ stage[c] = "outside"
    /\ calls' = [calls EXCEPT ![k] = c]
    /\ stage' = [stage EXCEPT ![c] = "running"]
    /\ key' = [key EXCEPT ![c] = k]
    /\ joined' = [joined EXCEPT ![c] = c]
    /\ UNCHANGED <<result, done, ret, cancelled>>

\* Under the mutex: the key is free, the caller registers its own call.
Lead(c, k) ==
    /\ stage[c] = "outside"
    /\ calls[k] = None
    /\ calls' = [calls EXCEPT ![k] = c]
    /\ stage' = [stage EXCEPT ![c] = "running"]
    /\ key' = [key EXCEPT ![c] = k]
    /\ joined' = [joined EXCEPT ![c] = c]
    /\ UNCHANGED <<result, done, ret, cancelled>>

\* Under the mutex: the key is taken, the caller keeps the registered call.
Join(c, k) ==
    /\ stage[c] = "outside"
    /\ calls[k] # None
    /\ stage' = [stage EXCEPT ![c] = "waiting"]
    /\ key' = [key EXCEPT ![c] = k]
    /\ joined' = [joined EXCEPT ![c] = calls[k]]
    /\ UNCHANGED <<calls, result, done, ret, cancelled>>

FnReturns(c, o) ==
    /\ stage[c] = "running"
    /\ result' = [result EXCEPT ![c] = o]
    /\ stage' = [stage EXCEPT ![c] = "ran"]
    /\ UNCHANGED <<key, calls, joined, done, ret, cancelled>>

\* Fault: no recover(), a panic leaves DoContext past delete and close.
FnPanicsUnrecovered(c) ==
    /\ stage[c] = "running"
    /\ ret' = [ret EXCEPT ![c] = Panicked]
    /\ stage' = [stage EXCEPT ![c] = "left"]
    /\ UNCHANGED <<key, calls, joined, result, done, cancelled>>

FnPanics(c) ==
    /\ stage[c] = "running"
    /\ stage' = [stage EXCEPT ![c] = "panicking"]
    /\ UNCHANGED <<key, calls, joined, result, done, ret, cancelled>>

\* recover() does not stop runtime.Goexit: nothing after fn is executed.
FnExits(c) ==
    /\ c \in MayExit
    /\ stage[c] = "running"
    /\ stage' = [stage EXCEPT ![c] = "gone"]
    /\ UNCHANGED <<key, calls, joined, result, done, ret, cancelled>>

\* Under the mutex again: delete(sh.calls, key).
Unregister(c) ==
    /\ stage[c] \in {"ran", "panicking"}
    /\ calls' = [calls EXCEPT ![key[c]] = None]
    /\ stage' = [stage EXCEPT ![c] = IF @ = "ran" THEN "closing" ELSE "unwinding"]
    /\ UNCHANGED <<key, joined, result, done, ret, cancelled>>

\* Fault: the channel is closed before the panic becomes the call's error.
CloseBeforeError(c) ==
    /\ stage[c] \in Landed
    /\ done' = done \cup {c}
    /\ \/ /\ stage[c] = "unwinding" /\ c \notin done
          /\ UNCHANGED <<stage, result, ret>>
       \/ /\ stage[c] = "closing" \/ c \in done
          /\ result' = [result EXCEPT ![c] = IF stage[c] = "unwinding" THEN Panicked ELSE @]
          /\ ret' = [ret EXCEPT ![c] = result'[c]]
          /\ stage' = [stage EXCEPT ![c] = "left"]
    /\ UNCHANGED <<key, calls, joined, cancelled>>

\* Fault: the panic is never turned into an error, waiters get (nil, nil).
CloseWithoutError(c) ==
    /\ stage[c] \in Landed
    /\ done' = done \cup {c}
    /\ ret' = [ret EXCEPT ![c] = result[c]]
    /\ stage' = [stage EXCEPT ![c] = "left"]
    /\ UNCHANGED <<key, calls, joined, result, cancelled>>

\* A panic becomes the call's error, the channel is closed, the leader returns.
Close(c) ==
    /\ stage[c] \in Landed
    /\ result' = [result EXCEPT ![c] = IF stage[c] = "unwinding" THEN Panicked ELSE @]
    /\ done' = done \cup {c}
    /\ ret' = [ret EXCEPT ![c] = result'[c]]
    /\ stage' = [stage EXCEPT ![c] = "left"]
    /\ UNCHANGED <<key, calls, joined, cancelled>>

\* Fault: the waiter reads entry and err without waiting for the channel.
WakeEarly(c) ==
    /\ stage[c] = "waiting"
    /\ ret' = [ret EXCEPT ![c] = result[joined[c]]]
    /\ stage' = [stage EXCEPT ![c] = "left"]
    /\ UNCHANGED <<key, calls, joined, result, done, cancelled>>

\* The two arms of the waiter's select.
Wake(c) ==
    /\ stage[c] = "waiting"
    /\ joined[c] \in done
    /\ ret' = [ret EXCEPT ![c] = result[joined[c]]]
    /\ stage' = [stage EXCEPT ![c] = "left"]
    /\ UNCHANGED <<key, calls, joined, result, done, cancelled>>

\* Fault: the context is looked at only after the channel is closed.
AbandonLate(c) ==
    /\ stage[c] = "waiting"
    /\ c \in cancelled
    /\ joined[c] \in done
    /\ ret' = [ret EXCEPT ![c] = Cancelled]
    /\ stage' = [stage EXCEPT ![c] = "left"]
    /\ UNCHANGED <<key, calls, joined, result, done, cancelled>>

Abandon(c) ==
    /\ stage[c] = "waiting"
    /\ c \in cancelled
    /\ ret' = [ret EXCEPT ![c] = Cancelled]
    /\ stage' = [stage EXCEPT ![c] = "left"]
    /\ UNCHANGED <<key, calls, joined, result, done, cancelled>>

\* Fault: Do gives DoContext a context that may end, not context.Background().
CancelContextOfDo(c) ==
    /\ c \in Callers \ cancelled
    /\ cancelled' = cancelled \cup {c}
    /\ UNCHANGED <<stage, key, calls, joined, result, done, ret>>

\* The caller's client goes away, whatever the caller is doing; not that of a Do.
CancelContext(c) ==
    /\ c \in Cancellable \ cancelled
    /\ cancelled' = cancelled \cup {c}
    /\ UNCHANGED <<stage, key, calls, joined, result, done, ret>>

InflightNext ==
    \E c \in Callers :
        \/ \E k \in Keys : Lead(c, k) \/ Join(c, k)
        \/ \E o \in Outcomes : FnReturns(c, o)
        \/ FnPanics(c) \/ FnExits(c)
        \/ Unregister(c) \/ Close(c)
        \/ Wake(c) \/ Abandon(c)
        \/ CancelContext(c)

InflightSpec == InflightInit /\ [][InflightNext]_inflightVars

\* A goroutine that can run does run: what the Go scheduler guarantees.  That
\* fn ends is up to the application's handler, and not assumed.
FairInflightSpec ==
    /\ InflightSpec
    /\ \A c \in Callers : /\ WF_inflightVars(Unregister(c) \/ Close(c))
                          /\ WF_inflightVars(Wake(c) \/ Abandon(c))
--------------------------------------------------------------------------------
\* Every variable of the coalescer holds a value of its Go type; a caller of Do,
\* who hands in no context, is never cancelled and never gets ctx.Err().
InflightTypeOK ==
    /\ stage \in [Callers -> Stages]
    /\ key \in [Callers -> Keys \cup {None}]
    /\ calls \in [Keys -> Callers \cup {None}]
    /\ joined \in [Callers -> Callers \cup {None}]
    /\ result \in [Callers -> Outcomes \cup {Panicked, None}]
    /\ done \subseteq Callers
    /\ ret \in [Callers -> Outcomes \cup {Panicked, Cancelled, None}]
    /\ cancelled \subseteq Cancellable
    /\ \A c \in Callers \ Cancellable : ret[c] # Cancelled

\* Do "executes fn once for a given key" (coalesce.go:54): two callers of one
\* key never run fn at the same time, whatever is cancelled or panics.
OneFlightPerKey ==
    \A c, d \in Callers :
        stage[c] = "running" /\ stage[d] = "running" /\ key[c] = key[d] => c = d

\* "Concurrent callers ... share the returned entry" (coalesce.go:55): a call
\* that returned holds the finished result of the flight it was attached to,
\* a flight of its own key, or it is a waiter that returned ctx.Err().
SharedResult ==
    \A c \in Callers : stage[c] = "left" =>
        \/ ret[c] = Cancelled /\ c \in cancelled /\ joined[c] # c
        \/ /\ joined[c] \in done
           /\ key[joined[c]] = key[c]
           /\ ret[c] = result[joined[c]] /\ ret[c] # None

\* Waiters read entry and err without a lock once done is closed: no step
\* may write the result of a call whose channel is closed, or reopen it.
PublishedResultStable ==
    [][\A c \in done : c \in done' /\ result'[c] = result[c]]_inflightVars

\* Once fn is over everybody who depends on its flight returns, the leader too:
\* neither a panic nor a cancelled context leaves a channel nobody will close.
EveryCallReturns ==
    \A c \in Callers :
        joined[c] # None /\ stage[joined[c]] \notin {"running", "gone"} ~> stage[c] = "left"

\* A waiter with a cancelled context unblocks although its leader may hang
\* (CHANGELOG v1.1.2, "In-flight Waiter Context Cancellation").
CancelledWaiterReturns ==
    \A c \in Callers : stage[c] = "waiting" /\ c \in cancelled ~> stage[c] = "left"

\* The outcome of a flight is settled when its key is removed from the map.
FlightOutcome ==
    [c \in Callers |-> IF stage[c] = "unwinding" THEN Panicked
                       ELSE IF stage[c] = "closing" \/ c \in done THEN result[c]
                       ELSE None]

SF == INSTANCE SingleFlight WITH
        flying <- calls,
        attached <- joined,
        outcome <- FlightOutcome,
        answer <- ret,
        Outcomes <- Outcomes \cup {Panicked}

\* The coalescer implements its abstract specification, step by step.
ImplementsSingleFlight == SF!Spec
================================================================================
