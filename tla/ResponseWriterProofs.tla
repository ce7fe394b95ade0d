------------------------- MODULE ResponseWriterProofs -------------------------
(***************************************************************************)
(* Theorems about ResponseWriter, for any limit, codes and lengths of      *)
(* writes, and bodies as long as the handler cares to write.               *)
(***************************************************************************)
EXTENDS ResponseWriter, SequenceTheorems, TLAPS

\* Numbered bytes are a sequence, and chunks in order make a longer one.
LEMMA BytesSeq ==
    ASSUME NEW a \in Nat, NEW n \in Nat
    PROVE  Bytes(a, a + n) \in Seq(Nat) /\ Len(Bytes(a, a + n)) = n
BY DEF Bytes

LEMMA Associative ==
    ASSUME NEW r \in Seq(Nat), NEW s \in Seq(Nat), NEW t \in Seq(Nat)
    PROVE  r \o (s \o t) = (r \o s) \o t
<1> DEFINE left == r \o (s \o t)
           right == (r \o s) \o t
<1>1. left \in Seq(Nat) /\ right \in Seq(Nat) /\ Len(left) = Len(right)
    BY DEF left, right
<1>2. \A i \in 1..Len(left) : left[i] = right[i]
    BY DEF left, right
<1> HIDE DEF left, right
<1>3. left = right
    BY <1>1, <1>2, SeqEqual
<1> QED
    BY <1>3 DEF left, right

LEMMA BytesNext ==
    ASSUME NEW w \in Nat, NEW n \in Nat
    PROVE  Bytes(0, w) \o Bytes(w, w + n) = Bytes(0, w + n)
<1> DEFINE s == Bytes(0, w)
           c == Bytes(w, w + n)
           l == Bytes(0, w + n)
<1>1. /\ s \in Seq(Nat) /\ Len(s) = w /\ \A i \in 1..w : s[i] = i
      /\ c \in Seq(Nat) /\ Len(c) = n /\ \A i \in 1..n : c[i] = w + i
      /\ l \in Seq(Nat) /\ Len(l) = w + n /\ \A i \in 1..(w + n) : l[i] = i
    BY DEF Bytes
<1> HIDE DEF s, c, l
<1>2. s \o c \in Seq(Nat) /\ Len(s \o c) = w + n
    BY <1>1
<1>3. \A i \in 1..(w + n) : (s \o c)[i] = i
    BY <1>1
<1>4. s \o c = l
    BY <1>1, <1>2, <1>3, SeqEqual
<1> QED
    BY <1>4 DEF s, c, l
--------------------------------------------------------------------------------
\* The recorder's modes: what streaming and a committed header go along with.
Modes ==
    /\ overflow => streaming
    /\ late => streaming
    /\ streaming /\ ~late => buf = << >>
    /\ ~streaming => ~headerWritten /\ (entry = None => wire = << >>)
    /\ entry = None =>
          /\ wire # << >> => headerWritten
          /\ heads = IF headerWritten THEN 1 ELSE 0
          /\ headerWritten <=> wireStatus # None
    /\ entry # None => phase = "over" /\ ~streaming /\ heads = 1
    /\ phase = "over" /\ entry = None => streaming

\* The code held back is the one net/http would have latched, unless the handler
\* called WriteHeader after that.
Latched ==
    /\ plain = None => statusCode = 0
    /\ headerWritten => plain # None /\ (~rewritten => wireStatus = plain)
    /\ ~headerWritten /\ ~rewritten => StatusOf(statusCode) = IF plain = None THEN 200 ELSE plain
    /\ entry # None => wireStatus = StatusOf(statusCode)

WInv == WriterTypeOK /\ Modes /\ Latched /\ NothingLost /\ EntryWhole

\* A code is one the handler may choose, never "none".
LEMMA Codes200 ==
    /\ None \notin Codes /\ 0 \notin Codes /\ 200 \in Codes /\ Codes \subseteq Nat
    /\ \A code \in Codes \cup {0} : StatusOf(code) \in Codes
    /\ \A code \in Codes : StatusOf(code) = code
    /\ StatusOf(0) = 200
<1>1. None \notin Codes /\ 0 \notin Codes /\ 200 \in Codes /\ Codes \subseteq Nat
    BY WriterAssumption
<1>2. ASSUME NEW code \in Codes PROVE StatusOf(code) = code
    <2>1. code \in Nat /\ code # 0
        BY <1>1
    <2>2. code > 0
        BY <2>1
    <2> QED
        BY <2>2 DEF StatusOf
<1>3. StatusOf(0) = 200
    BY DEF StatusOf
<1> QED
    BY <1>1, <1>2, <1>3

LEMMA NoBytes == Bytes(0, 0) = << >> /\ << >> \in Seq(Nat) /\ Len(<< >>) = 0
BY BytesSeq DEF Bytes

LEMMA WriterInit == Init => WInv
<1> SUFFICES ASSUME Init PROVE WInv
    OBVIOUS
<1>1. WriterTypeOK
    <2>1. /\ written \in Nat /\ buf \in Seq(Nat) /\ wire \in Seq(Nat) /\ Len(buf) = 0
          /\ heads \in Nat /\ statusCode \in Codes \cup {0}
          /\ MaxBytes > 0 => Len(buf) <= MaxBytes
        BY NoBytes, WriterAssumption DEF Init
    <2> QED
        BY <2>1, Zenon DEF Init, WriterTypeOK
<1>2. Modes /\ Latched
    BY WriterAssumption DEF Init, Modes, Latched, StatusOf
<1>3. NothingLost /\ EntryWhole
    BY NoBytes DEF Init, NothingLost, EntryWhole
<1> QED
    BY <1>1, <1>2, <1>3 DEF WInv

\* commit(), whatever was committed before.
LEMMA Committed ==
    ASSUME WInv, entry = None, NEW code \in Codes \cup {0}, Commit(code)
    PROVE  /\ headerWritten' = TRUE /\ wireStatus' \in Codes /\ heads' = 1
           /\ wireStatus' = IF headerWritten THEN wireStatus ELSE StatusOf(code)
BY Codes200 DEF WInv, WriterTypeOK, Modes, Commit, SendHeader

\* While the handler runs no entry exists.
LEMMA NoEntryYet ==
    ASSUME WInv, phase # "over"
    PROVE  entry = None
BY DEF WInv, Modes

LEMMA SetEventStreamInv == ASSUME WInv, SetEventStream PROVE WInv'
BY DEF WInv, SetEventStream, recorderVars, serverVars, WriterTypeOK, Modes, Latched, NothingLost, EntryWhole

LEMMA ReturnInv == ASSUME WInv, Return PROVE WInv'
BY DEF WInv, Return, recorderVars, serverVars, WriterTypeOK, Modes, Latched, NothingLost, EntryWhole

LEMMA HijackInv == ASSUME WInv, Hijack PROVE WInv'
<1>1. entry = None
    BY NoEntryYet DEF Hijack, Calls
<1> QED
    BY <1>1 DEF WInv, Hijack, Calls, WriterTypeOK, Modes, Latched, NothingLost, EntryWhole

LEMMA FinishStreamedInv == ASSUME WInv, FinishStreamed PROVE WInv'
<1>1. entry = None
    BY NoEntryYet DEF FinishStreamed
<1> QED
    BY <1>1 DEF WInv, FinishStreamed, recorderVars, serverVars, WriterTypeOK, Modes, Latched, NothingLost, EntryWhole

\* A late event-stream header commits the code over what is buffered.
LEMMA WriteHeaderInv == ASSUME WInv, NEW code \in Codes, WriteHeader(code) PROVE WInv'
<1>1. entry = None
    BY NoEntryYet DEF WriteHeader, Calls
<1>2. CASE headerWritten
    BY <1>1, <1>2, Codes200 DEF WInv, WriteHeader, Latch, Calls, recorderVars, serverVars,
       WriterTypeOK, Modes, Latched, NothingLost, EntryWhole
<1>3. CASE ~headerWritten
    <2>1. /\ rewritten' \in BOOLEAN /\ late' \in BOOLEAN
          /\ ~rewritten' => ~rewritten /\ plain = None
          /\ ~late' => ~late
          /\ UNCHANGED <<written, eventStream, phase, entry, buf, overflow, wire, hijacker, hijacked>>
          /\ statusCode' = code
          /\ plain' = IF plain = None THEN code ELSE plain
        BY <1>3 DEF WriteHeader, Latch, WInv, WriterTypeOK
    <2>2. \/ /\ eventStream /\ streaming' = TRUE
             /\ headerWritten' = TRUE /\ wireStatus' = code /\ heads' = 1
             /\ ~late' => buf = << >>
          \/ UNCHANGED <<streaming, headerWritten, wireStatus, heads, late>>
        <3>1. CASE eventStream
            <4>1. headerWritten' = TRUE /\ wireStatus' = code /\ heads' = 1
                BY <1>1, <1>3, <3>1, Committed, Codes200 DEF WriteHeader
            <4> QED
                BY <1>3, <3>1, <4>1 DEF WriteHeader
        <3>2. CASE ~eventStream
            BY <1>3, <3>2 DEF WriteHeader
        <3> QED
            BY <3>1, <3>2
    <2>3. WriterTypeOK'
        <3> USE DEF WInv, WriterTypeOK
        <3>1. streaming' \in BOOLEAN /\ headerWritten' \in BOOLEAN
            BY <2>2, Zenon
        <3>2. wireStatus' \in Codes \cup {None} /\ heads' \in Nat
            BY <2>2
        <3>3. statusCode' \in Codes \cup {0} /\ plain' \in Codes \cup {None}
            BY <2>1
        <3> QED
            BY <2>1, <3>1, <3>2, <3>3
    <2>4. Modes'
        BY <1>1, <1>3, <2>1, <2>2, Codes200 DEF WInv, Modes, WriterTypeOK, WriteHeader, Calls
    <2>5. Latched'
        BY <1>1, <1>3, <2>1, <2>2, Codes200 DEF WInv, Latched, WriterTypeOK
    <2>6. NothingLost' /\ EntryWhole'
        BY <1>1, <2>1 DEF WInv, NothingLost, EntryWhole
    <2> QED
        BY <2>3, <2>4, <2>5, <2>6 DEF WInv
<1> QED
    BY <1>2, <1>3

\* What is buffered goes out before the handler writes on.
LEMMA FlushInv == ASSUME WInv, Flush PROVE WInv'
<1>1. entry = None /\ statusCode \in Codes \cup {0}
    BY NoEntryYet DEF Flush, Calls, WInv, WriterTypeOK
<1>2. /\ headerWritten' = TRUE /\ wireStatus' \in Codes /\ heads' = 1
      /\ wireStatus' = IF headerWritten THEN wireStatus ELSE StatusOf(statusCode)
    BY <1>1, Committed DEF Flush, Send
<1>3. wire' = wire \o buf /\ buf' = << >> /\ wire' \in Seq(Nat) /\ wire' \o buf' = wire \o buf
    BY NoBytes, ConcatEmptySeq DEF WInv, WriterTypeOK, Flush, Send
<1>4. WriterTypeOK'
    BY <1>1, <1>2, <1>3, Codes200, NoBytes, WriterAssumption DEF WInv, WriterTypeOK, Flush, Latch
<1>5. Modes'
    BY <1>1, <1>2, <1>3, Codes200 DEF WInv, Modes, Flush, Calls
<1>6. Latched'
    BY <1>1, <1>2, Codes200 DEF WInv, Latched, Flush, Latch
<1>7. NothingLost' /\ EntryWhole'
    BY <1>1, <1>3 DEF WInv, NothingLost, EntryWhole, Flush
<1> QED
    BY <1>4, <1>5, <1>6, <1>7 DEF WInv

\* Straight through, after what is buffered, or into the buffer: the next bytes.
LEMMA WriteInv == ASSUME WInv, NEW n \in Sizes, Write(n) PROVE WInv'
<1> DEFINE chunk == Bytes(written, written + n)
<1>1. /\ entry = None /\ phase = "handler" /\ statusCode \in Codes \cup {0}
      /\ n \in Nat /\ written \in Nat /\ buf \in Seq(Nat) /\ wire \in Seq(Nat)
    BY NoEntryYet, WriterAssumption DEF Write, Calls, WInv, WriterTypeOK
<1>2. /\ written' = written + n /\ plain' = IF plain = None THEN 200 ELSE plain
      /\ UNCHANGED <<statusCode, eventStream, hijacker, hijacked, phase, entry, rewritten, late>>
    BY DEF Write, Latch
<1>3. chunk \in Seq(Nat) /\ Len(chunk) = n /\ Bytes(0, written) \o chunk = Bytes(0, written')
    BY <1>1, <1>2, BytesSeq, BytesNext
<1>4. wire \o (buf \o chunk) = (wire \o buf) \o chunk
    <2> HIDE DEF chunk
    <2> QED
        BY <1>1, <1>3, Associative
<1> HIDE DEF chunk
\* What all three ways have in common.
<1>5. /\ \/ /\ headerWritten' = TRUE /\ wireStatus' \in Codes /\ heads' = 1
            /\ wireStatus' = IF headerWritten THEN wireStatus ELSE StatusOf(statusCode)
            /\ streaming' = TRUE
         \/ UNCHANGED <<headerWritten, wireStatus, heads, wire, streaming, overflow>>
      /\ buf' \in Seq(Nat) /\ wire' \in Seq(Nat)
      /\ MaxBytes > 0 => Len(buf') <= MaxBytes
      /\ overflow' \in BOOLEAN /\ (overflow' => streaming')
      /\ streaming' /\ ~late => buf' = << >>
      /\ streaming => streaming'
      /\ ~late => wire' \o buf' = (wire \o buf) \o chunk
    <2>1. CASE streaming
        <3>1. Send(chunk) /\ UNCHANGED <<buf, streaming, overflow>>
            BY <2>1 DEF Write, chunk
        <3>2. ~late => buf = << >>
            BY <2>1 DEF WInv, Modes
        <3>3. wire' = wire \o chunk /\ wire' \in Seq(Nat)
            BY <1>1, <1>3, <3>1, ConcatProperties DEF Send
        <3>4. ~late => wire' \o buf' = (wire \o buf) \o chunk
            BY <1>1, <3>1, <3>2, <3>3, ConcatEmptySeq
        <3> QED
            BY <1>1, <2>1, <3>1, <3>2, <3>3, <3>4, Committed DEF Send, WInv, WriterTypeOK
    <2>2. CASE ~streaming /\ TooLarge(n)
        <3>1. /\ Send(buf \o chunk) /\ buf' = << >> /\ overflow' = TRUE /\ streaming' = TRUE
            BY <2>2 DEF Write, chunk
        <3>2. wire' = wire \o (buf \o chunk) /\ wire' \in Seq(Nat) /\ buf' \in Seq(Nat) /\ Len(buf') = 0
            BY <1>1, <1>3, <3>1, ConcatProperties, NoBytes DEF Send
        <3>3. wire' \o buf' = (wire \o buf) \o chunk
            BY <1>4, <3>1, <3>2, ConcatEmptySeq
        <3>4. /\ headerWritten' = TRUE /\ wireStatus' \in Codes /\ heads' = 1
              /\ wireStatus' = IF headerWritten THEN wireStatus ELSE StatusOf(statusCode)
            BY <1>1, <3>1, Committed DEF Send
        <3>5. MaxBytes > 0 => Len(buf') <= MaxBytes
            BY <3>2, WriterAssumption
        <3> HIDE DEF WInv
        <3> QED
            BY <3>1, <3>2, <3>3, <3>4, <3>5, Zenon
    <2>3. CASE ~streaming /\ ~TooLarge(n)
        <3>1. /\ buf' = buf \o chunk
              /\ UNCHANGED <<headerWritten, streaming, overflow, wire, wireStatus, heads>>
            BY <2>3 DEF Write, chunk
        <3>2. buf' \in Seq(Nat) /\ Len(buf') = Len(buf) + n
            BY <1>1, <1>3, <3>1, ConcatProperties
        <3>3. MaxBytes > 0 => Len(buf') <= MaxBytes
            BY <1>1, <2>3, <3>2, WriterAssumption DEF TooLarge
        <3>4. overflow \in BOOLEAN /\ (overflow => streaming)
            BY DEF WInv, WriterTypeOK, Modes
        <3>5. wire' \o buf' = (wire \o buf) \o chunk
            BY <1>4, <3>1
        <3> QED
            BY <1>1, <2>3, <3>1, <3>2, <3>3, <3>4, <3>5, Zenon
    <2> QED
        BY <2>1, <2>2, <2>3
<1>6. WriterTypeOK'
    <2>1. streaming' \in BOOLEAN /\ headerWritten' \in BOOLEAN
        BY <1>5, Zenon DEF WInv, WriterTypeOK
    <2>2. wireStatus' \in Codes \cup {None} /\ heads' \in Nat
        BY <1>5 DEF WInv, WriterTypeOK
    <2>3. plain' \in Codes \cup {None} /\ written' \in Nat
        BY <1>1, <1>2, Codes200 DEF WInv, WriterTypeOK
    <2> QED
        BY <1>1, <1>2, <1>5, <2>1, <2>2, <2>3 DEF WInv, WriterTypeOK
<1>7. Modes'
    BY <1>1, <1>2, <1>5, Codes200 DEF WInv, Modes
<1>8. Latched'
    <2>1. /\ plain' # None /\ statusCode' = statusCode /\ entry' = None /\ rewritten' = rewritten
          /\ plain' = IF plain = None THEN 200 ELSE plain
        BY <1>1, <1>2, Codes200
    <2>2. ~headerWritten /\ ~rewritten => StatusOf(statusCode) = plain'
        BY <2>1 DEF WInv, Latched
    <2>3. headerWritten /\ ~rewritten => wireStatus = plain'
        BY <2>1 DEF WInv, Latched
    <2>4. \/ headerWritten' = TRUE /\ wireStatus' = IF headerWritten THEN wireStatus ELSE StatusOf(statusCode)
          \/ headerWritten' = headerWritten /\ wireStatus' = wireStatus
        BY <1>5
    <2>5. headerWritten' /\ ~rewritten' => wireStatus' = plain'
        BY <2>1, <2>2, <2>3, <2>4
    <2>6. ~headerWritten' /\ ~rewritten' => StatusOf(statusCode') = plain'
        BY <2>1, <2>2, <2>4
    <2> QED
        BY <2>1, <2>5, <2>6 DEF Latched
<1>9. NothingLost' /\ EntryWhole'
    BY <1>1, <1>2, <1>3, <1>5 DEF WInv, NothingLost, EntryWhole
<1> QED
    BY <1>6, <1>7, <1>8, <1>9 DEF WInv

\* What was captured is sent, and kept.
LEMMA FinishCapturedInv == ASSUME WInv, FinishCaptured PROVE WInv'
<1>1. /\ entry = None /\ ~streaming /\ ~overflow /\ ~late /\ ~headerWritten /\ wire = << >>
      /\ heads = 0 /\ wireStatus = None /\ statusCode \in Codes \cup {0}
      /\ buf \in Seq(Nat) /\ wire \in Seq(Nat)
    BY NoEntryYet DEF FinishCaptured, WInv, Modes, WriterTypeOK
<1> DEFINE code == StatusOf(statusCode)
<1>2. code \in Codes
    BY <1>1, Codes200
<1>3. /\ entry' = [body |-> buf, status |-> code] /\ wireStatus' = code /\ heads' = 1
      /\ phase' = "over" /\ wire' = wire \o buf
      /\ UNCHANGED <<written, eventStream, recorderVars, hijacker, hijacked, plain, rewritten, late>>
    BY <1>1 DEF FinishCaptured, SendHeader
<1>4. wire' = buf /\ buf = Bytes(0, written)
    BY <1>1, <1>3, ConcatEmptySeq DEF WInv, NothingLost
<1>5. entry' # None /\ entry' \in [body : Seq(Nat), status : Codes]
    BY <1>1, <1>2, <1>3, WriterAssumption
<1>6. WriterTypeOK'
    BY <1>1, <1>2, <1>3, <1>4, <1>5 DEF WInv, WriterTypeOK, recorderVars
<1>7. Modes'
    BY <1>1, <1>3, <1>5 DEF Modes, recorderVars
<1>8. Latched'
    BY <1>1, <1>3 DEF WInv, Latched, recorderVars
<1>9. NothingLost' /\ EntryWhole'
    <2>1. MaxBytes > 0 => written <= MaxBytes
        <3>1. written \in Nat /\ Len(Bytes(0, 0 + written)) = written /\ 0 + written = written
            BY BytesSeq DEF WInv, WriterTypeOK
        <3> QED
            BY <1>4, <3>1 DEF WInv, WriterTypeOK
    <2> QED
        BY <1>1, <1>3, <1>4, <1>5, <2>1 DEF NothingLost, EntryWhole, recorderVars
<1> QED
    BY <1>6, <1>7, <1>8, <1>9 DEF WInv

\* Every call of the handler and of the middleware keeps the invariant.
THEOREM WriterInvariance == Spec => []WInv
<1>1. WInv /\ [Next]_vars => WInv'
    <2> SUFFICES ASSUME WInv, [Next]_vars PROVE WInv'
        OBVIOUS
    <2>1. CASE UNCHANGED vars
        BY <2>1 DEF vars, recorderVars, serverVars, WInv, WriterTypeOK, Modes, Latched, NothingLost, EntryWhole
    <2>2. CASE Next
        BY <2>2, SetEventStreamInv, WriteHeaderInv, WriteInv, FlushInv, HijackInv, ReturnInv,
           FinishStreamedInv, FinishCapturedInv DEF Next
    <2> QED
        BY <2>1, <2>2
<1> QED
    BY <1>1, WriterInit, PTL DEF Spec

\* The buffer never outgrows MaxResponseSize.
THEOREM WriterTypes == Spec => []WriterTypeOK
<1>1. WInv => WriterTypeOK
    BY DEF WInv
<1> QED
    BY <1>1, WriterInvariance, PTL

\* No order of Write, Flush, WriteHeader and Hijack drops, repeats or reorders a
\* byte, but for those that start to stream over a filled buffer.
THEOREM BytesKept == Spec => []NothingLost
<1>1. WInv => NothingLost
    BY DEF WInv
<1> QED
    BY <1>1, WriterInvariance, PTL

\* The client gets the code net/http would have sent, once.
THEOREM CodeKept == Spec => []StatusKept
<1>1. WInv => StatusKept
    <2> SUFFICES ASSUME WInv PROVE StatusKept
        OBVIOUS
    <2>1. CASE entry = None
        BY <2>1 DEF WInv, WriterTypeOK, Modes, Latched, StatusKept
    <2>2. CASE entry # None
        BY <2>2 DEF WInv, WriterTypeOK, Modes, Latched, StatusKept
    <2> QED
        BY <2>1, <2>2
<1> QED
    BY <1>1, WriterInvariance, PTL

\* An entry of the cache is the whole response its first client received.
THEOREM EntriesWhole == Spec => []EntryWhole
<1>1. WInv => EntryWhole
    BY DEF WInv
<1> QED
    BY <1>1, WriterInvariance, PTL
================================================================================
