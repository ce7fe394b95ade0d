---------------------------- MODULE ResponseWriter ----------------------------
(***************************************************************************)
(* capturingResponseWriter of response_writer.go between a handler, which  *)
(* calls its methods in any order, and the server's own writer, and what   *)
(* the middleware does with it when the handler has returned.  The bytes   *)
(* of a body are numbered in the order the handler writes them.            *)
(***************************************************************************)
EXTENDS Integers, Sequences

CONSTANTS Codes,      \* status codes handlers choose, 200 among them
          MaxBytes,   \* Config.MaxResponseSize, 0 for no limit
          Sizes,      \* lengths of a handler's writes
          BodyBound,  \* bound of the model: bytes a handler writes
          None

ASSUME WriterAssumption ==
    /\ Codes \subseteq Nat \ {0} /\ 200 \in Codes
    /\ MaxBytes \in Nat /\ BodyBound \in Nat
    /\ Sizes \subseteq Nat \ {0}
    /\ None \notin Nat /\ None \notin [body : Seq(Nat), status : Codes]

VARIABLES written,       \* bytes the handler has written
          buf,           \* the recorder's buffer
          statusCode,    \* its code, 0 until WriteHeader
          eventStream,   \* a text/event-stream or Upgrade header is set
          headerWritten, streaming, overflow,
          wire,          \* the bytes given to the server's writer
          wireStatus,    \* the code given to it
          heads,         \* calls of its WriteHeader
          hijacker,      \* the server's writer is an http.Hijacker
          hijacked,      \* the connection is the handler's
          phase,         \* the handler runs, has returned, the request is over
          entry,         \* the response kept for the cache, None if streamed
          plain,         \* history: the code net/http alone would have latched
          rewritten,     \* history: WriteHeader was called after that
          late           \* history: streaming began with bytes left in the buffer

recorderVars == <<buf, statusCode, headerWritten, streaming, overflow>>
serverVars == <<wire, wireStatus, heads, hijacker, hijacked>>
vars == <<written, eventStream, recorderVars, serverVars, phase, entry, plain, rewritten, late>>

Bytes(from, to) == [i \in 1..(to - from) |-> from + i]

Init ==
    /\ written = 0 /\ buf = << >>
    /\ statusCode = 0
    /\ eventStream = FALSE
    /\ headerWritten = FALSE /\ streaming = FALSE /\ overflow = FALSE
    /\ wire = << >> /\ wireStatus = None /\ heads = 0
    /\ hijacker \in BOOLEAN /\ hijacked = FALSE
    /\ phase = "handler"
    /\ entry = None
    /\ plain = None /\ rewritten = FALSE /\ late = FALSE
--------------------------------------------------------------------------------
\* StatusCode(), with 200 for a handler that never chose one.
StatusOf(code) == IF code > 0 THEN code ELSE 200

\* The server's WriteHeader; it keeps the first code.
SendHeader(code) ==
    /\ wireStatus' = IF wireStatus = None THEN code ELSE wireStatus
    /\ heads' = heads + 1

\* Fault: the header goes out with every chunk.
CommitAlways(code) ==
    headerWritten' = TRUE /\ SendHeader(StatusOf(code))

\* commit(): headers and code go to the server once.
Commit(code) ==
    IF headerWritten THEN UNCHANGED <<headerWritten, wireStatus, heads>>
                     ELSE headerWritten' = TRUE /\ SendHeader(StatusOf(code))

Latch(code) == plain' = IF plain = None THEN code ELSE plain
Calls == phase = "handler" /\ ~hijacked

\* The handler sets a header; nothing looks at it before WriteHeader.
SetEventStream ==
    /\ Calls
    /\ eventStream' = TRUE
    /\ UNCHANGED <<written, recorderVars, serverVars, phase, entry, plain, rewritten, late>>

\* A code may be replaced until it is committed.
WriteHeader(code) ==
    /\ Calls
    /\ Latch(code)
    /\ rewritten' = (rewritten \/ (plain # None /\ ~headerWritten))
    /\ \/ headerWritten /\ UNCHANGED <<recorderVars, serverVars, late>>
       \/ /\ ~headerWritten
          /\ statusCode' = code
          /\ IF eventStream
               THEN /\ streaming' = TRUE
                    /\ Commit(code)
                    /\ late' = (late \/ buf # << >>)
               ELSE UNCHANGED <<streaming, headerWritten, wireStatus, heads, late>>
          /\ UNCHANGED <<buf, overflow, wire, hijacker, hijacked>>
    /\ UNCHANGED <<written, eventStream, phase, entry>>

Send(bytes) == Commit(statusCode) /\ wire' = wire \o bytes

\* Fault: only the new chunk is compared with the limit.
TooLargeAlone(n) == MaxBytes > 0 /\ n > MaxBytes

TooLarge(n) == MaxBytes > 0 /\ Len(buf) + n > MaxBytes

\* Straight through, through after what is buffered, or into the buffer.
Write(n) ==
    /\ Calls
    /\ written' = written + n
    /\ Latch(200)
    /\ LET chunk == Bytes(written, written + n) IN
       \/ /\ streaming
          /\ Send(chunk)
          /\ UNCHANGED <<buf, streaming, overflow>>
       \/ /\ ~streaming /\ TooLarge(n)
          /\ overflow' = TRUE /\ streaming' = TRUE
          /\ Send(buf \o chunk)
          /\ buf' = << >>
       \/ /\ ~streaming /\ ~TooLarge(n)
          /\ buf' = buf \o chunk
          /\ UNCHANGED <<headerWritten, streaming, overflow, wire, wireStatus, heads>>
    /\ UNCHANGED <<statusCode, eventStream, hijacker, hijacked, phase, entry, rewritten, late>>

\* Fault: the buffer is sent but not reset.
FlushKeeping ==
    /\ Calls
    /\ streaming' = TRUE
    /\ Latch(200)
    /\ Send(buf)
    /\ UNCHANGED <<written, buf, statusCode, eventStream, overflow, hijacker, hijacked,
                   phase, entry, rewritten, late>>

\* Flush switches to streaming and sends what is buffered.
Flush ==
    /\ Calls
    /\ streaming' = TRUE
    /\ Latch(200)
    /\ Send(buf)
    /\ buf' = << >>
    /\ UNCHANGED <<written, statusCode, eventStream, overflow, hijacker, hijacked,
                   phase, entry, rewritten, late>>

\* Hijack switches to streaming even if there is nothing to hijack.
Hijack ==
    /\ Calls
    /\ streaming' = TRUE
    /\ hijacked' = hijacker
    /\ late' = (late \/ buf # << >>)
    /\ UNCHANGED <<written, buf, statusCode, eventStream, headerWritten, overflow,
                   wire, wireStatus, heads, hijacker, phase, entry, plain, rewritten>>

Return ==
    /\ phase = "handler"
    /\ phase' = "returned"
    /\ UNCHANGED <<written, eventStream, recorderVars, serverVars, entry, plain, rewritten, late>>

\* The middleware, after the handler: a response that streamed is left alone.
FinishStreamed ==
    /\ phase = "returned"
    /\ streaming \/ overflow
    /\ phase' = "over"
    /\ UNCHANGED <<written, eventStream, recorderVars, serverVars, entry, plain, rewritten, late>>

\* Fault: a response that streamed is finished like any other.
FinishCapturedAlways ==
    /\ phase = "returned"
    /\ phase' = "over"
    /\ entry' = [body |-> buf, status |-> StatusOf(statusCode)]
    /\ SendHeader(StatusOf(statusCode))
    /\ wire' = wire \o buf
    /\ UNCHANGED <<written, eventStream, recorderVars, hijacker, hijacked, plain, rewritten, late>>

\* One that is captured becomes an entry, and is sent.
FinishCaptured ==
    /\ phase = "returned"
    /\ ~streaming /\ ~overflow
    /\ phase' = "over"
    /\ entry' = [body |-> buf, status |-> StatusOf(statusCode)]
    /\ SendHeader(StatusOf(statusCode))
    /\ wire' = wire \o buf
    /\ UNCHANGED <<written, eventStream, recorderVars, hijacker, hijacked, plain, rewritten, late>>

Next ==
    \/ SetEventStream
    \/ \E code \in Codes : WriteHeader(code)
    \/ \E n \in Sizes : written + n <= BodyBound /\ Write(n)
    \/ Flush \/ Hijack
    \/ Return \/ FinishStreamed \/ FinishCaptured

Spec == Init /\ [][Next]_vars
--------------------------------------------------------------------------------
\* Types, and "to protect server memory" (README:75): no more is held back for
\* the cache than MaxResponseSize.
WriterTypeOK ==
    /\ written \in Nat
    /\ buf \in Seq(Nat) /\ wire \in Seq(Nat)
    /\ statusCode \in Codes \cup {0}
    /\ wireStatus \in Codes \cup {None}
    /\ heads \in Nat
    /\ eventStream \in BOOLEAN /\ headerWritten \in BOOLEAN /\ streaming \in BOOLEAN
    /\ overflow \in BOOLEAN /\ hijacker \in BOOLEAN /\ hijacked \in BOOLEAN
    /\ rewritten \in BOOLEAN /\ late \in BOOLEAN
    /\ phase \in {"handler", "returned", "over"}
    /\ entry \in [body : Seq(Nat), status : Codes] \cup {None}
    /\ plain \in Codes \cup {None}
    /\ MaxBytes > 0 => Len(buf) <= MaxBytes

\* Every byte the handler wrote is sent or still buffered, once and in the order it
\* was written, through overflow, flushes and both ways to finish.  Not so when
\* Hijack or a late event-stream header begins to stream over a filled buffer.
NothingLost ==
    ~late => IF entry = None THEN wire \o buf = Bytes(0, written)
                             ELSE wire = Bytes(0, written)

\* The client gets the code net/http would have sent, in one header and before any
\* byte, although it is held back until the response is known to stream or be whole.
\* Not so for a handler that changes its mind before it is committed, or that has a
\* Hijack refused and then writes no body.
StatusKept ==
    /\ heads <= 1
    /\ wire # << >> => heads = 1
    /\ phase = "over" /\ heads = 1 /\ ~rewritten
          => wireStatus = IF plain = None THEN 200 ELSE plain
    /\ phase = "over" /\ heads = 0 => streaming /\ wire = << >>

\* What may be cached and shared is what the client received, and all of it:
\* "Responses exceeding MaxResponseSize stream through" (README:75).
EntryWhole ==
    entry # None =>
        /\ entry.body = Bytes(0, written) /\ entry.body = wire
        /\ entry.status = wireStatus
        /\ ~overflow /\ (MaxBytes > 0 => written <= MaxBytes)
================================================================================
