------------------------------- MODULE LossyMap -------------------------------
(***************************************************************************)
(* What store.go's Store promises to the engine: a map that may forget.    *)
(* A key is absent until it is set, then holds what the last Set put       *)
(* there or nothing; no call brings back a value, moves it to another key  *)
(* or makes one up.                                                        *)
(***************************************************************************)
CONSTANTS Keys, Values, Absent

VARIABLE content   \* content[k]: what Get(k) would return now

Init == content = [k \in Keys |-> Absent]

\* A store may make room for k by dropping whatever it likes, k included.
Set(k, v) ==
    /\ content'[k] \in {v, Absent}
    /\ \A j \in Keys \ {k} : content'[j] \in {content[j], Absent}

\* Del, Close, expiry.
Forget == \A k \in Keys : content'[k] \in {content[k], Absent}

Next ==
    /\ content' \in [Keys -> Values \cup {Absent}]
    /\ Forget \/ \E k \in Keys, v \in Values : Set(k, v)

Spec == Init /\ [][Next]_content
================================================================================
