---------------------------- MODULE MCPrefetcher ----------------------------
\* Model-checking definitions for Prefetcher.
EXTENDS Prefetcher, TLC

MCKeys == FlightKeys
MCOutcomes == Callers \cup {NotShareable, Streaming, NoEntry}

Anonymous(res) ==
    [route |-> "cached", resource |-> res, variant |-> "en", session |-> "s1",
     auth |-> FALSE, cookies |-> FALSE, directives |-> {}, speculative |-> FALSE]
Plain == [ok |-> TRUE, setCookie |-> FALSE, cc |-> {}, vary |-> "none",
          streamed |-> FALSE, whole |-> TRUE]

\* A stranger and a user of one page; what may be shared, may not, and streams.
EngineKinds == {Anonymous("page"), [Anonymous("page") EXCEPT !.auth = TRUE, !.cookies = TRUE]}
EngineResponses ==
    {Plain, [Plain EXCEPT !.vary = "header"], [Plain EXCEPT !.setCookie = TRUE],
     [Plain EXCEPT !.streamed = TRUE]}

\* A handler that may be cut short while a job runs it.
OneKind == {Anonymous("page")}
Partial == {Plain, [Plain EXCEPT !.whole = FALSE]}
=============================================================================
