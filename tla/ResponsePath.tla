---------------------------- MODULE ResponsePath ----------------------------
(***************************************************************************)
(* How a response travels from a handler to the client: buildMiddleware in *)
(* internal/server/server.go wraps the router in CoreMiddleware, Metrics   *)
(* and CompressionMiddleware, so a write passes through                    *)
(*                                                                         *)
(*   mabooResponseWriter -> metricsResponseWriter -> compressWriter -> net *)
(*                                                                         *)
(* The first and the third come out of a sync.Pool and are used again for  *)
(* other requests.  Requests run concurrently and meet in those pools and  *)
(* in the counters of Metrics.                                             *)
(*                                                                         *)
(* A body is a sequence of chunks, a chunk the number of bytes one Write   *)
(* call passes.  What PHP answers is an input: engine.Execute is still a   *)
(* placeholder in the code, but the router forwards any status and header. *)
(* Left out: request ids, logging, the durations, and the pool of          *)
(* gzip.Writers, which startCompress resets before it uses one.            *)
(***************************************************************************)
EXTENDS Naturals, Sequences

CONSTANTS
    Requests,   \* the goroutines that serve requests
    MinSize,    \* compressMinSize, in units of the chunks
    Hints,      \* may PHP answer with a preload or preconnect Link?
    MaxServed   \* bound: how many requests a behaviour serves

ASSUME ResponseConfig ==
    /\ MinSize \in Nat /\ MinSize >= 2
    /\ Hints \in BOOLEAN
    /\ MaxServed \in Nat

EarlyHints == 103
NotSent == 0
Status == {200, 404, 500, 502, 503}

Small == MinSize - 1
Chunk == {Small, MinSize}
Bodies == {<<>>, <<Small>>, <<MinSize>>, <<Small, Small>>, <<MinSize, Small>>}

-----------------------------------------------------------------------------
(***************************************************************************)
(* What a handler answers.  header is FALSE for a handler that never calls *)
(* WriteHeader; text says that the Content-Type is compressible; panics    *)
(* says that Pool.Exec panicked before anything was written.               *)
(***************************************************************************)
Answer(route, header, status, text, link, body, panics) ==
    [route |-> route, header |-> header, status |-> status, text |-> text,
     link |-> link, body |-> body, panics |-> panics]

\* newPHPHandler: a response of PHP, with the status a writer would assume or
\* another one, and a body that is not empty.
PHPAnswers ==
    {Answer("php", TRUE, s, t, l, <<a>>, FALSE) :
        s \in {200, 404}, t \in BOOLEAN, l \in {FALSE, Hints}, a \in Chunk}

\* Exec returned an error, or panicked, which CoreMiddleware turns into a 500.
ExecError == Answer("php", TRUE, 502, TRUE, FALSE, <<Small>>, FALSE)
ExecPanic == Answer("php", TRUE, 500, TRUE, FALSE, <<Small>>, TRUE)

\* http.FileServer: a file in as many writes as io.Copy needs.
StaticAnswers ==
    {Answer("static", TRUE, 200, t, FALSE, b, FALSE) :
        t \in BOOLEAN, b \in Bodies}

\* http.FileServer: there is no such file.
StaticMissing == Answer("static", TRUE, 404, TRUE, FALSE, <<Small>>, FALSE)

\* HealthHandler: liveness and readiness.
HealthAnswers ==
    {Answer("health", TRUE, s, TRUE, FALSE, <<Small>>, FALSE) :
        s \in {200, 503}}

\* serveMetrics writes one large text and no status.
MetricsAnswers ==
    {Answer("metrics", FALSE, 200, TRUE, FALSE, <<MinSize>>, FALSE)}

Answers ==
    PHPAnswers \cup StaticAnswers \cup HealthAnswers \cup MetricsAnswers
    \cup {ExecError, ExecPanic, StaticMissing}

-----------------------------------------------------------------------------
(***************************************************************************)
(* The writers.  net is the connection as net/http keeps it: the status    *)
(* and the Content-Encoding it committed, and each chunk with the form it  *)
(* was sent in.  A 1xx status does not commit the response.                *)
(***************************************************************************)
NoNet == [hinted |-> FALSE, status |-> NotSent, encoding |-> "identity",
          body |-> <<>>]

NetWriteHeader(net, encoding, code) ==
    IF code = EarlyHints THEN [net EXCEPT !.hinted = TRUE]
    ELSE IF net.status # NotSent THEN net
    ELSE [net EXCEPT !.status = code, !.encoding = encoding]

NetWrite(net, encoding, chunks) ==
    LET n == NetWriteHeader(net, encoding, 200)
    IN  [n EXCEPT !.body = @ \o chunks]

\* A chunk goes out as it is, or through the gzip writer.
As(form, chunks) ==
    [i \in 1 .. Len(chunks) |-> [size |-> chunks[i], form |-> form]]

\* compressWriter after reset.  size is len(cw.buf).
NewCompress == [wroteHeader |-> FALSE, compressed |-> FALSE, buf |-> <<>>,
                size |-> 0]

\* Mutant: reset keeps what the last request left in the buffer.
ResetCompressKept(cw) == [NewCompress EXCEPT !.buf = cw.buf, !.size = cw.size]

ResetCompress(cw) == NewCompress

\* A response under way: s.cw is its compressWriter, s.out the connection and
\* s.enc the Content-Encoding header; text is what shouldCompress looks at.
ShouldCompress(s, text) == text /\ s.enc = "identity"

StartCompress(s) == [s EXCEPT !.enc = "gzip", !.cw.compressed = TRUE]

CompressWriteHeader(s, text, code) ==
    IF s.cw.wroteHeader THEN s
    ELSE LET t == [s EXCEPT !.cw.wroteHeader = TRUE]
             u == IF s.cw.size >= MinSize /\ ShouldCompress(s, text)
                  THEN StartCompress(t) ELSE t
         IN  [u EXCEPT !.out = NetWriteHeader(@, u.enc, code)]

CompressWrite(s, text, chunk) ==
    IF s.cw.compressed
    THEN [s EXCEPT !.out = NetWrite(@, s.enc, As("gzip", <<chunk>>))]
    ELSE LET t == [s EXCEPT !.cw.buf = Append(@, chunk), !.cw.size = @ + chunk]
             u == [StartCompress(t) EXCEPT !.cw.wroteHeader = TRUE]
         IN  IF t.cw.size >= MinSize /\ ~t.cw.wroteHeader
                /\ ShouldCompress(t, text)
             THEN [u EXCEPT !.out = NetWrite(NetWriteHeader(@, u.enc, 200), u.enc,
                                             As("gzip", t.cw.buf))]
             ELSE t

\* What is buffered and was never compressed goes out as it is.
CompressClose(s) ==
    IF ~s.cw.compressed /\ s.cw.size > 0
    THEN [s EXCEPT !.out = NetWrite(@, s.enc, As("identity", s.cw.buf))]
    ELSE s

-----------------------------------------------------------------------------
VARIABLES
    pc,        \* where the request of a goroutine is
    asked,     \* what its handler answers
    rest,      \* the chunks the handler has not written yet
    accepts,   \* does the client accept gzip?
    cws,       \* the compressWriters, by identity
    cwPool,    \* compressWriterPool, the ones nobody uses
    cwOf,      \* the one a goroutine took
    rws,       \* the mabooResponseWriters, by identity
    rwPool,    \* rwPool
    rwOf,      \* the one a goroutine took
    enc,       \* the Content-Encoding header of its response
    counted,   \* metricsResponseWriter.statusCode
    out,       \* its connection
    served     \* how many requests have been accepted

compressVars == <<cws, cwPool, cwOf>>
coreVars == <<rws, rwPool, rwOf>>
vars == <<pc, asked, rest, accepts, compressVars, coreVars, enc, counted, out,
          served>>

\* There are as many writers as goroutines that may hold one; sync.Pool hands
\* out any free one, or a new one, which reset makes the same.
Writer == Requests

\* Mutant: Metrics does not preset the status.
DefaultStatusUnset == NotSent

\* metricsResponseWriter.statusCode, for handlers that never set one.
DefaultStatus == 200

NewCore == [wroteHeader |-> FALSE, hintsSent |-> FALSE]

\* Mutant: reset forgets wroteHeader.
ResetCoreKept(rw) == [rw EXCEPT !.hintsSent = FALSE]

ResetCore(rw) == NewCore

Init ==
    /\ pc = [c \in Requests |-> "idle"]
    /\ asked = [c \in Requests |-> CHOOSE a \in MetricsAnswers : TRUE]
    /\ rest = [c \in Requests |-> <<>>]
    /\ accepts = [c \in Requests |-> FALSE]
    /\ cws = [w \in Writer |-> NewCompress]
    /\ cwPool = Writer
    /\ cwOf = [c \in Requests |-> c]
    /\ rws = [w \in Writer |-> NewCore]
    /\ rwPool = Writer
    /\ rwOf = [c \in Requests |-> c]
    /\ enc = [c \in Requests |-> "identity"]
    /\ counted = [c \in Requests |-> 200]
    /\ out = [c \in Requests |-> NoNet]
    /\ served = 0

-----------------------------------------------------------------------------
\* CompressionMiddleware: a client that accepts gzip gets a compressWriter.
TakeCompress(c, gzip) ==
    IF gzip
    THEN \E w \in cwPool : /\ cwOf' = [cwOf EXCEPT ![c] = w]
                           /\ cwPool' = cwPool \ {w}
                           /\ cws' = [cws EXCEPT ![w] = ResetCompress(@)]
    ELSE UNCHANGED compressVars

\* CoreMiddleware; Metrics answers its own path before it.
TakeCore(c, route) ==
    IF route # "metrics"
    THEN \E w \in rwPool : /\ rwOf' = [rwOf EXCEPT ![c] = w]
                           /\ rwPool' = rwPool \ {w}
                           /\ rws' = [rws EXCEPT ![w] = ResetCore(@)]
    ELSE UNCHANGED coreVars

\* A request comes in and reaches its handler.
Serve(c) ==
    /\ pc[c] \in {"idle", "done"}
    /\ served < MaxServed
    /\ \E a \in Answers, gzip \in BOOLEAN :
          /\ asked' = [asked EXCEPT ![c] = a]
          /\ rest' = [rest EXCEPT ![c] = a.body]
          /\ accepts' = [accepts EXCEPT ![c] = gzip]
          /\ TakeCompress(c, gzip)
          /\ TakeCore(c, a.route)
          /\ pc' = [pc EXCEPT ![c] = IF a.header THEN "header" ELSE "body"]
    /\ enc' = [enc EXCEPT ![c] = "identity"]
    /\ counted' = [counted EXCEPT ![c] = DefaultStatus]
    /\ out' = [out EXCEPT ![c] = NoNet]
    /\ served' = served + 1

\* The response of c as the writers below CoreMiddleware see it.
Response(c) == [cw |-> cws[cwOf[c]], out |-> out[c], enc |-> enc[c]]

SendHeader(c, s, text, code) ==
    IF accepts[c] THEN CompressWriteHeader(s, text, code)
    ELSE [s EXCEPT !.out = NetWriteHeader(@, s.enc, code)]

SendChunk(c, s, text, chunk) ==
    IF accepts[c] THEN CompressWrite(s, text, chunk)
    ELSE [s EXCEPT !.out = NetWrite(@, s.enc, As("identity", <<chunk>>))]

Store(c, s) ==
    /\ cws' = IF accepts[c] THEN [cws EXCEPT ![cwOf[c]] = s.cw] ELSE cws
    /\ out' = [out EXCEPT ![c] = s.out]
    /\ enc' = [enc EXCEPT ![c] = s.enc]

\* mabooResponseWriter.WriteHeader: 103 first if there is a Link to preload,
\* then the status, once.  metricsResponseWriter notes every code it passes on.
WriteHeader(c) ==
    LET a == asked[c]
        rw == rws[rwOf[c]]
        s == IF a.link /\ ~rw.hintsSent
             THEN SendHeader(c, Response(c), a.text, EarlyHints)
             ELSE Response(c)
    IN  /\ pc[c] = "header" /\ ~a.panics
        /\ IF rw.wroteHeader
           THEN Store(c, s) /\ UNCHANGED counted
           ELSE /\ Store(c, SendHeader(c, s, a.text, a.status))
                /\ counted' = [counted EXCEPT ![c] = a.status]
        /\ rws' = [rws EXCEPT ![rwOf[c]] = [wroteHeader |-> TRUE,
                                            hintsSent |-> TRUE]]
        /\ pc' = [pc EXCEPT ![c] = "body"]
        /\ UNCHANGED <<asked, rest, accepts, cwPool, cwOf, rwPool, rwOf, served>>

\* One Write of the handler.
Write(c) ==
    /\ pc[c] = "body" /\ rest[c] # <<>>
    /\ Store(c, SendChunk(c, Response(c), asked[c].text, Head(rest[c])))
    /\ rest' = [rest EXCEPT ![c] = Tail(@)]
    /\ rws' = IF asked[c].route = "metrics" THEN rws
              ELSE [rws EXCEPT ![rwOf[c]].wroteHeader = TRUE]
    /\ UNCHANGED <<pc, asked, accepts, cwPool, cwOf, rwPool, rwOf, counted,
                   served>>

\* The handler panics; CoreMiddleware recovers and answers with http.Error on
\* the writer below its own, which it does not return to the pool (the pool
\* will make a new one in its place).
Recover(c) ==
    LET s == SendHeader(c, Response(c), TRUE, asked[c].status)
    IN  /\ pc[c] = "header" /\ asked[c].panics
        /\ Store(c, SendChunk(c, s, TRUE, Head(rest[c])))
        /\ rest' = [rest EXCEPT ![c] = Tail(@)]
        /\ counted' = [counted EXCEPT ![c] = asked[c].status]
        /\ pc' = [pc EXCEPT ![c] = "body"]
        /\ UNCHANGED <<asked, accepts, cwPool, cwOf, coreVars, served>>

\* Mutant: the writer goes back to the pool before it is closed.
ReturnEarly(c) ==
    /\ pc[c] = "body" /\ rest[c] = <<>>
    /\ rwPool' = IF asked[c].route = "metrics" THEN rwPool
                 ELSE rwPool \cup {rwOf[c]}
    /\ cwPool' = IF accepts[c] THEN cwPool \cup {cwOf[c]} ELSE cwPool
    /\ pc' = [pc EXCEPT ![c] = "close"]
    /\ UNCHANGED <<asked, rest, accepts, cws, cwOf, rws, rwOf, enc, counted, out,
                   served>>

\* The handler has returned: rwPool.Put, and Metrics counts the status.
Return(c) ==
    /\ pc[c] = "body" /\ rest[c] = <<>>
    /\ rwPool' = IF asked[c].route = "metrics" THEN rwPool
                 ELSE rwPool \cup {rwOf[c]}
    /\ pc' = [pc EXCEPT ![c] = "close"]
    /\ UNCHANGED <<asked, rest, accepts, compressVars, rws, rwOf, enc, counted,
                   out, served>>

\* CompressionMiddleware's defer: cw.Close(), then compressWriterPool.Put.
Close(c) ==
    /\ pc[c] = "close"
    /\ IF accepts[c]
       THEN /\ Store(c, CompressClose(Response(c)))
            /\ cwPool' = cwPool \cup {cwOf[c]}
       ELSE UNCHANGED <<cws, out, enc, cwPool>>
    /\ pc' = [pc EXCEPT ![c] = "done"]
    /\ UNCHANGED <<asked, rest, accepts, cwOf, coreVars, counted, served>>

Next == \E c \in Requests :
            \/ Serve(c)
            \/ WriteHeader(c)
            \/ Write(c)
            \/ Recover(c)
            \/ Return(c)
            \/ Close(c)

Spec == Init /\ [][Next]_vars

-----------------------------------------------------------------------------
Encoding == {"identity", "gzip"}
Compress ==
    [wroteHeader : BOOLEAN, compressed : BOOLEAN, buf : Seq(Chunk), size : Nat]
Core == [wroteHeader : BOOLEAN, hintsSent : BOOLEAN]
Net ==
    [hinted : BOOLEAN, status : Status \cup {NotSent}, encoding : Encoding,
     body : Seq([size : Chunk, form : Encoding])]

TypeOK ==
    /\ pc \in [Requests -> {"idle", "header", "body", "close", "done"}]
    /\ asked \in [Requests -> Answers]
    /\ rest \in [Requests -> Seq(Chunk)]
    /\ accepts \in [Requests -> BOOLEAN]
    /\ cws \in [Writer -> Compress] /\ rws \in [Writer -> Core]
    /\ cwPool \subseteq Writer /\ rwPool \subseteq Writer
    /\ cwOf \in [Requests -> Writer] /\ rwOf \in [Requests -> Writer]
    /\ enc \in [Requests -> Encoding]
    /\ counted \in [Requests -> Status]
    /\ out \in [Requests -> Net]
    /\ served \in 0 .. MaxServed

\* Who holds which pooled writer.
UsesCompress(c) == accepts[c] /\ pc[c] \in {"header", "body", "close"}
UsesCore(c) == asked[c].route # "metrics" /\ pc[c] \in {"header", "body"}

\* A pooled writer serves one request at a time and is in its pool only when
\* it serves none.
WritersUnshared ==
    /\ \A c \in Requests : /\ UsesCompress(c) => cwOf[c] \notin cwPool
                           /\ UsesCore(c) => rwOf[c] \notin rwPool
    /\ \A c, d \in Requests : c # d =>
          /\ UsesCompress(c) /\ UsesCompress(d) => cwOf[c] # cwOf[d]
          /\ UsesCore(c) /\ UsesCore(d) => rwOf[c] # rwOf[d]

\* The client receives exactly the chunks the handler wrote, in their order,
\* whatever was buffered, compressed or left in a used writer, and every chunk
\* is in the form the committed Content-Encoding announces.
ResponseIntact ==
    \A c \in Requests : pc[c] = "done" =>
        /\ [i \in DOMAIN out[c].body |-> out[c].body[i].size] = asked[c].body
        /\ \A i \in DOMAIN out[c].body :
              out[c].body[i].form = out[c].encoding

\* The client receives the status of the handler, and the metrics count it.
StatusDelivered ==
    \A c \in Requests : pc[c] = "done" =>
        /\ out[c].status = asked[c].status
        /\ counted[c] = asked[c].status

=============================================================================
