---------------------------- MODULE MCMiddleware ----------------------------
\* Model-checking definitions for Middleware.
EXTENDS Middleware, TLC

RequestSymmetry == Permutations(Requests)
MCKeys == FlightKeys
MCOutcomes == Callers \cup {NotShareable, Streaming, NoEntry}

Anonymous(res, v) ==
    [route |-> "cached", resource |-> res, variant |-> v, session |-> "s1",
     auth |-> FALSE, cookies |-> FALSE, directives |-> {}, speculative |-> FALSE]
LoggedIn(res, s) == [Anonymous(res, "en") EXCEPT !.session = s, !.auth = TRUE, !.cookies = TRUE]

Plain == [ok |-> TRUE, setCookie |-> FALSE, cc |-> {}, vary |-> "none",
          streamed |-> FALSE, whole |-> TRUE]

\* Two variants, two users, their directives, a public route, routes that bypass.
AllKinds ==
    {Anonymous("page", "en"), Anonymous("page", "fr"),
     [Anonymous("page", "en") EXCEPT !.directives = {"no-cache"}],
     LoggedIn("page", "s1"), [LoggedIn("page", "s2") EXCEPT !.directives = {"no-store"}],
     [LoggedIn("catalog", "s1") EXCEPT !.speculative = TRUE],
     [Anonymous("page", "en") EXCEPT !.route = "skipped"],
     [Anonymous("page", "en") EXCEPT !.route = "passed"]}
AllResponses ==
    {Plain, [Plain EXCEPT !.cc = {"public"}, !.vary = "header"],
     [Plain EXCEPT !.cc = {"private"}, !.streamed = TRUE]}

\* A page negotiated for two variants.
TwoVariants == {Anonymous("page", "en"), Anonymous("page", "fr")}
OnlyVarying == {[Plain EXCEPT !.vary = "header"]}
=============================================================================
