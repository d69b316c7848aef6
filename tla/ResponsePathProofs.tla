------------------------- MODULE ResponsePathProofs -------------------------
(***************************************************************************)
(* The response path for any number of goroutines, any compression         *)
(* threshold and any number of requests: the pooled writers are never      *)
(* shared, the client receives the chunks the handler wrote, in the form   *)
(* the committed header announces, and, as long as PHP asks for no early   *)
(* hints, the status the handler set.                                      *)
(*                                                                         *)
(* The three layers of writers are functions from a response to a response *)
(* (SendHeader, SendChunk, CompressClose), so the argument has two parts:  *)
(* lemmas about what each of them does to one response, and the proof that *)
(* no step of another request touches a writer in use.                     *)
(***************************************************************************)
EXTENDS ResponsePath, SequenceTheorems, TLAPS

\* The sizes of the chunks the client received, and that all have one form.
Sizes(b) == [i \in DOMAIN b |-> b[i].size]
Formed(b, form) == \A i \in DOMAIN b : b[i].form = form

\* A response under way, as Response returns it.
Resp == [cw : Compress, out : Net, enc : Encoding]

\* A response between two calls of its handler, acc telling whether it has a
\* compressWriter.  Nothing is sent before a status is committed, and what is
\* sent has the form that was committed.  A compressWriter that has started
\* to compress has committed the response as gzip; one that has not holds
\* everything the handler wrote.
Consistent(acc, s) ==
    /\ s.out.status = NotSent => s.out.body = <<>>
    /\ Formed(s.out.body, s.out.encoding)
    /\ ~acc => s.enc = "identity" /\ s.out.encoding = "identity"
    /\ acc => /\ s.cw.size = 0 => s.cw.buf = <<>>
              /\ ~s.cw.wroteHeader => s.out.status = NotSent /\ ~s.cw.compressed
              /\ s.cw.compressed =>
                    /\ s.enc = "gzip" /\ s.out.encoding = "gzip"
                    /\ s.out.status # NotSent
              /\ ~s.cw.compressed =>
                    /\ s.enc = "identity" /\ s.out.encoding = "identity"
                    /\ s.out.body = <<>>

\* What the handler has written so far: it is sent, or buffered.
Passed(acc, s) ==
    IF acc /\ ~s.cw.compressed THEN s.cw.buf ELSE Sizes(s.out.body)

\* A response whose handler has written no chunk.
Blank(acc, s) ==
    /\ s.out.body = <<>>
    /\ acc => s.cw.buf = <<>> /\ s.cw.size = 0 /\ ~s.cw.compressed

-----------------------------------------------------------------------------
\* A request between Serve and the end of Close: the response is consistent,
\* and what the handler wrote and what it will write make up its body.
Flow(c) ==
    /\ pc[c] \in {"header", "body", "close"} =>
          /\ Consistent(accepts[c], Response(c))
          /\ Passed(accepts[c], Response(c)) \o rest[c] = asked[c].body
    /\ pc[c] = "close" => rest[c] = <<>>
    /\ pc[c] = "done" =>
          /\ Sizes(out[c].body) = asked[c].body
          /\ Formed(out[c].body, out[c].encoding)
          /\ out[c].status = NotSent => out[c].body = <<>>

\* Before its WriteHeader a response and its writers are as Serve left them.
Untouched(c) ==
    pc[c] = "header" =>
        /\ asked[c].header
        /\ rest[c] = asked[c].body
        /\ counted[c] = 200
        /\ out[c] = NoNet
        /\ enc[c] = "identity"
        /\ rws[rwOf[c]] = NewCore
        /\ accepts[c] => cws[cwOf[c]] = NewCompress

\* After it the client has, or will get, the status of the handler.
Committed(c) ==
    pc[c] \in {"body", "close", "done"} =>
        /\ counted[c] = asked[c].status
        /\ asked[c].header => out[c].status = asked[c].status
        /\ ~asked[c].header => out[c].status \in {NotSent, 200}

\* The inductive invariant of the response path.
Handled(c) == Flow(c) /\ Untouched(c) /\ (~Hints => Committed(c))

\* Together with the types and the ownership of the pooled writers it is inductive.
PathInv ==
    /\ TypeOK
    /\ WritersUnshared
    /\ \A c \in Requests : Handled(c)

-----------------------------------------------------------------------------
\* The facts about the numbers that the proofs use.
LEMMA Numbers ==
    /\ MinSize \in Nat /\ MinSize > 0
    /\ Chunk \subseteq Nat \ {0}
    /\ NotSent \notin Status /\ EarlyHints \notin Status /\ 200 \in Status
    /\ EarlyHints # NotSent
BY ResponseConfig DEF Small, Chunk, NotSent, EarlyHints, Status

\* What is known of any answer of a handler: only serveMetrics leaves the
\* status out, and it writes something; a handler that panics writes nothing
\* itself, and http.Error writes for it; only hints come with a Link.
AnswerShape(a) ==
    /\ a.header \in BOOLEAN /\ a.status \in Status
    /\ a.text \in BOOLEAN /\ a.link \in BOOLEAN /\ a.panics \in BOOLEAN
    /\ a.body \in Seq(Chunk)
    /\ a.header <=> a.route # "metrics"
    /\ ~a.header => a.status = 200 /\ a.body # <<>> /\ ~a.panics
    /\ a.panics => a.body # <<>>
    /\ ~Hints => ~a.link

\* Every answer of every handler has this shape.
LEMMA AnswerFacts ==
    ASSUME NEW a \in Answers
    PROVE  AnswerShape(a)
<1>1. /\ Small \in Chunk /\ MinSize \in Chunk
      /\ {200, 404, 500, 502, 503} \subseteq Status
  BY DEF Chunk, Status
<1>2. /\ \A h \in Chunk : <<h>> \in Seq(Chunk) /\ <<h>> # <<>>
      /\ \A g, h \in Chunk : <<g, h>> \in Seq(Chunk)
      /\ <<>> \in Seq(Chunk)
  OBVIOUS
<1>3. ASSUME a.header = TRUE, a.route # "metrics", a.status \in Status,
             a.text \in BOOLEAN, a.link = FALSE \/ a.link = Hints,
             a.body \in Seq(Chunk), a.panics = FALSE \/ a.body # <<>>,
             a.panics \in BOOLEAN
      PROVE  AnswerShape(a)
  <2>1. a.link \in BOOLEAN /\ (~Hints => ~a.link)
    <3>1. CASE a.link = FALSE
      BY <3>1, Zenon
    <3>2. CASE a.link = Hints
      BY <3>2, ResponseConfig, Zenon
    <3>3. QED
      BY <1>3, <3>1, <3>2, Zenon
  <2>2. QED
    BY <1>3, <2>1, Zenon DEF AnswerShape
<1>4. CASE a \in PHPAnswers
  <2>1. /\ a.header = TRUE /\ a.route = "php" /\ a.status \in {200, 404}
        /\ a.text \in BOOLEAN /\ a.panics = FALSE
        /\ a.link = FALSE \/ a.link = Hints
    BY <1>4 DEF PHPAnswers, Answer
  <2>2. \E h \in Chunk : a.body = <<h>>
    BY <1>4 DEF PHPAnswers, Answer
  <2>3. a.status \in Status /\ a.body \in Seq(Chunk) /\ a.route # "metrics"
    BY <1>1, <1>2, <2>1, <2>2
  <2>4. QED
    BY <1>3, <2>1, <2>3, Zenon
<1>5. CASE a \in StaticAnswers
  <2>1. /\ a.header = TRUE /\ a.route = "static" /\ a.status = 200
        /\ a.text \in BOOLEAN /\ a.link = FALSE /\ a.body \in Bodies
        /\ a.panics = FALSE
    BY <1>5 DEF StaticAnswers, Answer
  <2>2. Bodies \subseteq Seq(Chunk)
    BY <1>1, <1>2 DEF Bodies
  <2>3. a.status \in Status /\ a.body \in Seq(Chunk) /\ a.route # "metrics"
    BY <1>1, <2>1, <2>2
  <2>4. QED
    BY <1>3, <2>1, <2>3, Zenon
<1>6. CASE a \in HealthAnswers
  <2>1. /\ a.header = TRUE /\ a.route = "health" /\ a.status \in {200, 503}
        /\ a.text = TRUE /\ a.link = FALSE /\ a.body = <<Small>>
        /\ a.panics = FALSE
    BY <1>6 DEF HealthAnswers, Answer
  <2>2. a.status \in Status /\ a.body \in Seq(Chunk) /\ a.route # "metrics"
    BY <1>1, <1>2, <2>1
  <2>3. QED
    BY <1>3, <2>1, <2>2, Zenon
<1>7. CASE a \in MetricsAnswers
  <2>1. /\ a.header = FALSE /\ a.route = "metrics" /\ a.status = 200
        /\ a.text = TRUE /\ a.link = FALSE /\ a.body = <<MinSize>>
        /\ a.panics = FALSE
    BY <1>7 DEF MetricsAnswers, Answer
  <2>2. a.status \in Status /\ a.body \in Seq(Chunk) /\ a.body # <<>>
    BY <1>1, <1>2, <2>1
  <2>3. QED
    BY <2>1, <2>2, Zenon DEF AnswerShape
<1>8. ASSUME a.header = TRUE, a.route \in {"php", "static"},
             a.status \in {404, 500, 502}, a.text = TRUE, a.link = FALSE,
             a.body = <<Small>>, a.panics \in BOOLEAN
      PROVE  AnswerShape(a)
  <2>1. /\ a.status \in Status /\ a.body \in Seq(Chunk) /\ a.body # <<>>
        /\ a.route # "metrics"
    BY <1>1, <1>2, <1>8
  <2>2. QED
    BY ZenonT(40), <1>3, <1>8, <2>1, Zenon
<1>9. CASE a = ExecError
  BY <1>8, <1>9 DEF ExecError, Answer
<1>10. CASE a = ExecPanic
  BY <1>8, <1>10 DEF ExecPanic, Answer
<1>11. CASE a = StaticMissing
  BY <1>8, <1>11 DEF StaticMissing, Answer
<1>12. QED
  BY <1>4, <1>5, <1>6, <1>7, <1>9, <1>10, <1>11, Zenon DEF Answers

\* Sending chunks in one form adds them, and nothing else, to what the client
\* has: their sizes in order, each in that form.
LEMMA SentChunks ==
    ASSUME NEW b \in Seq([size : Chunk, form : Encoding]),
           NEW ch \in Seq(Chunk), NEW form \in Encoding
    PROVE  /\ b \o As(form, ch) \in Seq([size : Chunk, form : Encoding])
           /\ Sizes(b \o As(form, ch)) = Sizes(b) \o ch
           /\ Sizes(b) \in Seq(Chunk)
           /\ Formed(b, form) => Formed(b \o As(form, ch), form)
<1> DEFINE S == [size : Chunk, form : Encoding]
<1> DEFINE t == As(form, ch)
<1> DEFINE u == b \o t
<1> DEFINE z == Sizes(b)
<1> DEFINE v == z \o ch
<1>1. /\ Len(ch) \in Nat /\ DOMAIN ch = 1 .. Len(ch)
      /\ \A i \in 1 .. Len(ch) : ch[i] \in Chunk
      /\ Len(b) \in Nat /\ DOMAIN b = 1 .. Len(b)
      /\ \A i \in 1 .. Len(b) : b[i] \in S
  BY LenProperties, ElementOfSeq
<1>2. t \in Seq(S) /\ Len(t) = Len(ch)
  BY <1>1 DEF As
<1>3. \A i \in 1 .. Len(ch) : t[i].size = ch[i] /\ t[i].form = form
  BY <1>1 DEF As
<1> HIDE DEF t
<1>4. /\ u \in Seq(S) /\ Len(u) = Len(b) + Len(ch)
      /\ \A i \in 1 .. Len(u) :
            u[i] = IF i <= Len(b) THEN b[i] ELSE t[i - Len(b)]
  BY <1>1, <1>2
<1> HIDE DEF u
<1>5. DOMAIN u = 1 .. Len(b) + Len(ch)
  BY <1>1, <1>4, LenProperties
<1>6. z \in Seq(Chunk) /\ Len(z) = Len(b) /\ \A i \in 1 .. Len(b) : z[i] = b[i].size
  BY <1>1 DEF Sizes
<1> HIDE DEF z
<1>7. /\ v \in Seq(Chunk) /\ Len(v) = Len(b) + Len(ch)
      /\ \A i \in 1 .. Len(v) : v[i] = IF i <= Len(b) THEN z[i] ELSE ch[i - Len(b)]
  BY <1>1, <1>6
<1> HIDE DEF v
<1>8. ASSUME NEW i \in 1 .. Len(b) + Len(ch)
      PROVE  u[i].size \in Chunk /\ u[i].size = v[i]
  <2>1. CASE i <= Len(b)
    <3>1. i \in 1 .. Len(b) /\ u[i] = b[i] /\ v[i] = z[i]
      BY <1>1, <1>4, <1>7, <2>1
    <3>2. QED
      BY <1>1, <1>6, <3>1
  <2>2. CASE ~(i <= Len(b))
    <3>1. i - Len(b) \in 1 .. Len(ch) /\ u[i] = t[i - Len(b)] /\ v[i] = ch[i - Len(b)]
      BY <1>1, <1>4, <1>7, <2>2
    <3>2. QED
      BY <1>1, <1>3, <3>1
  <2>3. QED
    BY <2>1, <2>2
<1>9. Sizes(u) \in Seq(Chunk) /\ Len(Sizes(u)) = Len(b) + Len(ch)
  BY <1>1, <1>5, <1>8 DEF Sizes
<1>10. \A i \in 1 .. Len(b) + Len(ch) : Sizes(u)[i] = v[i]
  BY <1>5, <1>8 DEF Sizes
<1>11. Sizes(u) = v
  BY <1>1, <1>7, <1>9, <1>10, SeqEqual
<1>12. Formed(b, form) => Formed(u, form)
  BY SMTT(40), <1>1, <1>3, <1>4, <1>5 DEF Formed
<1>13. QED
  BY <1>4, <1>6, <1>11, <1>12 DEF u, t, v, z

\* net/http commits the first status that is not informational, and the
\* Content-Encoding with it; later ones change nothing.
LEMMA NetHeader ==
    ASSUME NEW net \in Net, NEW encoding \in Encoding,
           NEW code \in Status \cup {EarlyHints}
    PROVE  LET n == NetWriteHeader(net, encoding, code)
               first == net.status = NotSent /\ code # EarlyHints
           IN  /\ n \in Net
               /\ n.body = net.body
               /\ n.status = IF first THEN code ELSE net.status
               /\ n.encoding = IF first THEN encoding ELSE net.encoding
BY Numbers DEF NetWriteHeader, Net

\* A write commits a 200 if nothing is committed, and adds its chunks.
LEMMA NetBody ==
    ASSUME NEW net \in Net, NEW encoding \in Encoding, NEW form \in Encoding,
           NEW ch \in Seq(Chunk)
    PROVE  LET n == NetWrite(net, encoding, As(form, ch))
               first == net.status = NotSent
           IN  /\ n \in Net
               /\ n.status = IF first THEN 200 ELSE net.status
               /\ n.encoding = IF first THEN encoding ELSE net.encoding
               /\ Sizes(n.body) = Sizes(net.body) \o ch
               /\ Formed(net.body, form) => Formed(n.body, form)
<1> DEFINE h == NetWriteHeader(net, encoding, 200)
<1> DEFINE b == net.body \o As(form, ch)
<1>1. /\ h \in Net /\ h.body = net.body
      /\ h.status = IF net.status = NotSent THEN 200 ELSE net.status
      /\ h.encoding = IF net.status = NotSent THEN encoding ELSE net.encoding
  BY Numbers, NetHeader, EarlyHints # 200 DEF EarlyHints
<1>2. NetWrite(net, encoding, As(form, ch)) = [h EXCEPT !.body = h.body \o As(form, ch)]
  BY DEF NetWrite
<1>3. net.body \in Seq([size : Chunk, form : Encoding])
  BY DEF Net
<1>4. /\ b \in Seq([size : Chunk, form : Encoding])
      /\ Sizes(b) = Sizes(net.body) \o ch
      /\ Formed(net.body, form) => Formed(b, form)
  BY <1>3, SentChunks
<1> HIDE DEF h, b
<1> DEFINE n == [h EXCEPT !.body = b]
<1>5. n \in Net /\ n.body = b /\ n.status = h.status /\ n.encoding = h.encoding
  BY <1>1, <1>4 DEF Net
<1>6. NetWrite(net, encoding, As(form, ch)) = n
  BY <1>1, <1>2 DEF b
<1> HIDE DEF n
<1>7. QED
  BY <1>1, <1>4, <1>5, <1>6

\* The fields of a response.
LEMMA RespFields ==
    ASSUME NEW s \in Resp
    PROVE  /\ s.cw \in Compress /\ s.out \in Net /\ s.enc \in Encoding
           /\ s.cw.wroteHeader \in BOOLEAN /\ s.cw.compressed \in BOOLEAN
           /\ s.cw.buf \in Seq(Chunk) /\ s.cw.size \in Nat
           /\ s.out.status \in Status \cup {NotSent}
           /\ s.out.encoding \in Encoding
           /\ s.out.body \in Seq([size : Chunk, form : Encoding])
           /\ Sizes(s.out.body) \in Seq(Chunk)
<1>1. /\ s.cw \in Compress /\ s.out \in Net /\ s.enc \in Encoding
  BY DEF Resp
<1>2. /\ s.cw.wroteHeader \in BOOLEAN /\ s.cw.compressed \in BOOLEAN
      /\ s.cw.buf \in Seq(Chunk) /\ s.cw.size \in Nat
  BY <1>1 DEF Compress
<1>3. /\ s.out.status \in Status \cup {NotSent}
      /\ s.out.encoding \in Encoding
      /\ s.out.body \in Seq([size : Chunk, form : Encoding])
  BY <1>1 DEF Net
<1>4. Sizes(s.out.body) \in Seq(Chunk)
  <2>1. <<>> \in Seq(Chunk) /\ "gzip" \in Encoding
    BY DEF Encoding
  <2>2. QED
    BY <1>3, <2>1, SentChunks
<1>5. QED
  BY <1>1, <1>2, <1>3, <1>4, Zenon

\* What WriteHeader of the writers below CoreMiddleware does before the first
\* chunk: it never starts to compress, as nothing is buffered, and commits its
\* status if no status, 103 included, went through it before.
LEMMA HeaderStep ==
    ASSUME NEW c, accepts[c] \in BOOLEAN, NEW s \in Resp, NEW text \in BOOLEAN,
           NEW code \in Status \cup {EarlyHints},
           Consistent(accepts[c], s), Blank(accepts[c], s)
    PROVE  LET t == SendHeader(c, s, text, code)
           IN  /\ t \in Resp
               /\ Consistent(accepts[c], t) /\ Blank(accepts[c], t)
               /\ /\ code # EarlyHints /\ s.out.status = NotSent
                  /\ accepts[c] => ~s.cw.wroteHeader
                  => t.out.status = code
<1> DEFINE n == NetWriteHeader(s.out, s.enc, code)
<1> DEFINE t == SendHeader(c, s, text, code)
<1>1. /\ s.cw \in Compress /\ s.out \in Net /\ s.enc \in Encoding
      /\ s.cw.wroteHeader \in BOOLEAN /\ s.cw.compressed \in BOOLEAN
      /\ s.cw.size \in Nat
  BY RespFields
<1>2. /\ n \in Net /\ n.body = s.out.body
      /\ n.status = IF s.out.status = NotSent /\ code # EarlyHints
                    THEN code ELSE s.out.status
      /\ n.encoding = IF s.out.status = NotSent /\ code # EarlyHints
                      THEN s.enc ELSE s.out.encoding
  BY <1>1, NetHeader
<1>3. Formed(s.out.body, n.encoding)
  BY DEF Blank, Formed
<1> HIDE DEF n
<1>4. CASE ~accepts[c]
  <2>1. t = [s EXCEPT !.out = n]
    BY <1>4 DEF SendHeader, n
  <2>2. t \in Resp /\ t.cw = s.cw /\ t.enc = s.enc /\ t.out = n
    BY <1>1, <1>2, <2>1 DEF Resp
  <2> HIDE DEF t
  <2>3. QED
    BY <1>2, <1>3, <1>4, <2>2, Numbers DEF Consistent, Blank, t
<1>5. CASE accepts[c] /\ s.cw.wroteHeader
  <2>1. t = s
    BY <1>5 DEF SendHeader, CompressWriteHeader
  <2>2. QED
    BY <1>5, <2>1
<1>6. CASE accepts[c] /\ ~s.cw.wroteHeader
  <2> DEFINE w == [s.cw EXCEPT !.wroteHeader = TRUE]
  <2>1. ~(s.cw.size >= MinSize)
    BY <1>6, Numbers DEF Blank
  <2>2. t = [[s EXCEPT !.cw.wroteHeader = TRUE] EXCEPT
                !.out = NetWriteHeader(s.out, s.enc, code)]
    BY <1>1, <1>6, <2>1 DEF SendHeader, CompressWriteHeader, Resp
  <2>3. t \in Resp /\ t.cw = w /\ t.enc = s.enc /\ t.out = n
    BY ZenonT(40), <1>1, <1>2, <2>2 DEF Resp, Compress, n
  <2>4. /\ w.wroteHeader = TRUE /\ w.compressed = s.cw.compressed
        /\ w.buf = s.cw.buf /\ w.size = s.cw.size
    BY <1>1 DEF Compress
  <2> HIDE DEF t, w
  <2>5. QED
    BY <1>2, <1>3, <1>6, <2>3, <2>4, Numbers DEF Consistent, Blank, t
<1>7. QED
  BY <1>4, <1>5, <1>6

\* A compressWriter that has started to compress.
LEMMA Started ==
    ASSUME NEW cw \in Compress
    PROVE  LET w == [cw EXCEPT !.compressed = TRUE, !.wroteHeader = TRUE]
           IN  /\ w \in Compress /\ w.buf = cw.buf /\ w.size = cw.size
               /\ w.compressed = TRUE /\ w.wroteHeader = TRUE
BY DEF Compress

\* What a Write does: the chunk is added to what was passed on, whether it is
\* sent, compressed or buffered, and whether or not it starts the compression;
\* a status that is committed stays.
LEMMA ChunkStep ==
    ASSUME NEW c, accepts[c] \in BOOLEAN, NEW s \in Resp, NEW text \in BOOLEAN,
           NEW chunk \in Chunk, Consistent(accepts[c], s)
    PROVE  LET t == SendChunk(c, s, text, chunk)
           IN  /\ t \in Resp
               /\ Consistent(accepts[c], t)
               /\ Passed(accepts[c], t) = Passed(accepts[c], s) \o <<chunk>>
               /\ s.out.status # NotSent => t.out.status = s.out.status
               /\ s.out.status = NotSent => t.out.status \in {NotSent, 200}
<1> DEFINE t == SendChunk(c, s, text, chunk)
<1>1. /\ s.cw \in Compress /\ s.out \in Net /\ s.enc \in Encoding
      /\ s.cw.wroteHeader \in BOOLEAN /\ s.cw.compressed \in BOOLEAN
      /\ s.cw.buf \in Seq(Chunk) /\ s.cw.size \in Nat
      /\ s.out.encoding \in Encoding
      /\ s.out.body \in Seq([size : Chunk, form : Encoding])
  BY RespFields
<1>2. <<chunk>> \in Seq(Chunk)
  OBVIOUS
<1>3. "gzip" \in Encoding /\ "identity" \in Encoding
  BY DEF Encoding
<1>4. ASSUME NEW form \in Encoding, s.enc = form,
             accepts[c] => s.cw.compressed /\ form = "gzip",
             ~accepts[c] => form = "identity",
             t = [s EXCEPT !.out = NetWrite(@, s.enc, As(form, <<chunk>>))]
      PROVE  /\ t \in Resp
             /\ Consistent(accepts[c], t)
             /\ Passed(accepts[c], t) = Passed(accepts[c], s) \o <<chunk>>
             /\ s.out.status # NotSent => t.out.status = s.out.status
             /\ s.out.status = NotSent => t.out.status \in {NotSent, 200}
  <2> DEFINE n == NetWrite(s.out, form, As(form, <<chunk>>))
  <2>1. /\ n \in Net
        /\ n.status = IF s.out.status = NotSent THEN 200 ELSE s.out.status
        /\ n.encoding = IF s.out.status = NotSent THEN form ELSE s.out.encoding
        /\ Sizes(n.body) = Sizes(s.out.body) \o <<chunk>>
        /\ Formed(s.out.body, form) => Formed(n.body, form)
    BY <1>1, <1>2, NetBody
  <2>2. t \in Resp /\ t.cw = s.cw /\ t.enc = s.enc /\ t.out = n
    <3>1. t = [s EXCEPT !.out = n]
      BY <1>4
    <3> HIDE DEF n, t
    <3>2. QED
      BY <1>1, <2>1, <3>1 DEF Resp
  <2> HIDE DEF n, t
  <2>3. s.out.encoding = form /\ Formed(s.out.body, form)
    BY <1>4 DEF Consistent
  <2>4. Consistent(accepts[c], t)
    BY <1>4, <2>1, <2>2, <2>3, Numbers DEF Consistent
  <2>5. Passed(accepts[c], t) = Passed(accepts[c], s) \o <<chunk>>
    BY <1>4, <2>1, <2>2 DEF Passed
  <2>6. QED
    BY <2>1, <2>2, <2>4, <2>5
<1>5. CASE ~accepts[c]
  <2>1. s.enc = "identity"
    BY <1>5 DEF Consistent
  <2>2. t = [s EXCEPT !.out = NetWrite(@, s.enc, As("identity", <<chunk>>))]
    BY <1>5 DEF SendChunk
  <2> HIDE DEF t
  <2>3. QED
    BY <1>3, <1>4, <1>5, <2>1, <2>2 DEF t
<1>6. CASE accepts[c] /\ s.cw.compressed
  <2>1. s.enc = "gzip"
    BY <1>6 DEF Consistent
  <2>2. t = [s EXCEPT !.out = NetWrite(@, s.enc, As("gzip", <<chunk>>))]
    BY <1>6 DEF SendChunk, CompressWrite
  <2> HIDE DEF t
  <2>3. QED
    BY <1>3, <1>4, <1>6, <2>1, <2>2 DEF t
<1>7. CASE accepts[c] /\ ~s.cw.compressed
  <2> DEFINE b == Append(s.cw.buf, chunk)
  <2> DEFINE z == s.cw.size + chunk
  <2> DEFINE w == [s.cw EXCEPT !.buf = b, !.size = z]
  <2> DEFINE x == [w EXCEPT !.compressed = TRUE, !.wroteHeader = TRUE]
  <2> DEFINE p == [cw |-> w, out |-> s.out, enc |-> s.enc]
  <2> DEFINE h == NetWriteHeader(s.out, "gzip", 200)
  <2> DEFINE n == NetWrite(h, "gzip", As("gzip", b))
  <2>1. b \in Seq(Chunk) /\ chunk \in Nat \ {0}
    <3> DEFINE q == s.cw.buf
    <3>1. q \in Seq(Chunk)
      BY <1>1
    <3> HIDE DEF q
    <3>2. Append(q, chunk) \in Seq(Chunk)
      BY <3>1, AppendProperties
    <3>3. chunk \in Nat \ {0}
      BY Numbers
    <3>4. QED
      BY <3>2, <3>3 DEF q
  <2>2. b = s.cw.buf \o <<chunk>>
    BY <1>1, AppendIsConcat
  <2>3. s.enc = "identity" /\ s.out.encoding = "identity" /\ s.out.body = <<>>
    BY <1>7 DEF Consistent
  <2> HIDE DEF b
  <2>4. z \in Nat /\ z # 0
    BY <1>1, <2>1
  <2> HIDE DEF z
  <2>5. /\ w \in Compress /\ w.buf = b /\ w.size = z
        /\ w.compressed = s.cw.compressed /\ w.wroteHeader = s.cw.wroteHeader
    <3> DEFINE cw == s.cw
    <3>1. w = [cw EXCEPT !.buf = b, !.size = z] /\ cw \in Compress
      BY <1>1
    <3> HIDE DEF w, cw
    <3>2. /\ w \in Compress /\ w.buf = b /\ w.size = z
          /\ w.compressed = cw.compressed /\ w.wroteHeader = cw.wroteHeader
      BY <2>1, <2>4, <3>1 DEF Compress
    <3>3. QED
      BY <3>2 DEF cw
  <2>6. \/ t = p
        \/ /\ ~s.cw.wroteHeader
           /\ t = [cw |-> x, out |-> n, enc |-> "gzip"]
    <3> DEFINE y == [StartCompress(p) EXCEPT !.cw.wroteHeader = TRUE]
    <3> DEFINE m == NetWrite(NetWriteHeader(y.out, y.enc, 200), y.enc,
                             As("gzip", p.cw.buf))
    <3>1. [s EXCEPT !.cw.buf = b, !.cw.size = z] = [s EXCEPT !.cw = w]
      BY DEF Resp
    <3> HIDE DEF w
    <3>2. [s EXCEPT !.cw = w] = p
      BY DEF Resp
    <3>3. p \in Resp /\ p.cw = w /\ p.out = s.out /\ p.enc = s.enc
      BY <1>1, <2>5 DEF Resp
    <3> HIDE DEF p
    <3>4. y = [[p EXCEPT !.enc = "gzip"] EXCEPT !.cw =
                 [[w EXCEPT !.compressed = TRUE] EXCEPT !.wroteHeader = TRUE]]
      BY <3>3 DEF Resp, StartCompress
    <3>5. [s EXCEPT !.cw.buf = Append(@, chunk), !.cw.size = @ + chunk] = p
      BY <3>1, <3>2 DEF b, z
    <3>6. t = IF p.cw.size >= MinSize /\ ~p.cw.wroteHeader /\ ShouldCompress(p, text)
              THEN [y EXCEPT !.out = m] ELSE p
      <4> DEFINE q == [s EXCEPT !.cw.buf = Append(@, chunk), !.cw.size = @ + chunk]
      <4> DEFINE v == [StartCompress(q) EXCEPT !.cw.wroteHeader = TRUE]
      <4> DEFINE k == NetWrite(NetWriteHeader(v.out, v.enc, 200), v.enc,
                               As("gzip", q.cw.buf))
      <4>1. t = IF q.cw.size >= MinSize /\ ~q.cw.wroteHeader /\ ShouldCompress(q, text)
                THEN [v EXCEPT !.out = k] ELSE q
        BY <1>7, Zenon DEF SendChunk, CompressWrite
      <4>2. q = p
        BY <3>5
      <4> HIDE DEF t, q
      <4>3. v = y
        BY <4>2
      <4> HIDE DEF v, y
      <4>4. k = m
        BY <4>2, <4>3
      <4> HIDE DEF k, m
      <4>5. QED
        BY <4>1, <4>2, <4>3, <4>4
    <3>7. /\ y = [[p EXCEPT !.enc = "gzip"] EXCEPT !.cw = x]
          /\ y.cw = x /\ y.out = s.out /\ y.enc = "gzip"
      BY <3>3, <3>4 DEF Resp
    <3>8. m = n
      BY <2>5, <3>3, <3>7
    <3>9. y \in [cw : {x}, out : {s.out}, enc : {"gzip"}]
      BY <3>3, <3>7 DEF Resp
    <3> HIDE DEF y, m, n, x
    <3>10. [y EXCEPT !.out = n] = [cw |-> x, out |-> n, enc |-> "gzip"]
      BY <3>9
    <3>11. QED
      BY <2>5, <3>3, <3>6, <3>8, <3>10
  <2> HIDE DEF w
  <2>7. /\ x \in Compress /\ x.buf = b /\ x.size = z
        /\ x.compressed = TRUE /\ x.wroteHeader = TRUE
    BY <2>5, Started
  <2> HIDE DEF x
  <2>8. CASE t = p
    <3>1. t \in Resp /\ t.cw = w /\ t.out = s.out /\ t.enc = s.enc
      BY <1>1, <2>4, <2>5, <2>7, <2>8 DEF Resp
    <3> HIDE DEF t, p
    <3>2. Consistent(accepts[c], t)
      BY <1>1, <1>7, <2>1, <2>3, <2>4, <2>5, <2>7, <3>1 DEF Consistent
    <3>3. Passed(accepts[c], t) = Passed(accepts[c], s) \o <<chunk>>
      BY <1>7, <2>2, <2>4, <2>5, <2>7, <3>1 DEF Passed
    <3>4. QED
      BY <3>1, <3>2, <3>3, RespFields DEF t
  <2>9. CASE /\ ~s.cw.wroteHeader
             /\ t = [cw |-> x, out |-> n, enc |-> "gzip"]
    <3>1. s.out.status = NotSent
      BY <1>7, <2>9 DEF Consistent
    <3>2. h \in Net /\ h.body = <<>> /\ h.status = 200 /\ h.encoding = "gzip"
      BY <1>1, <1>3, <2>3, <3>1, NetHeader, Numbers, EarlyHints # 200 DEF EarlyHints
    <3> HIDE DEF h
    <3>3. /\ n \in Net /\ n.status = 200 /\ n.encoding = "gzip"
          /\ Sizes(n.body) = Sizes(h.body) \o b
          /\ Formed(h.body, "gzip") => Formed(n.body, "gzip")
      <4>1. /\ n \in Net
            /\ n.status = IF h.status = NotSent THEN 200 ELSE h.status
            /\ n.encoding = IF h.status = NotSent THEN "gzip" ELSE h.encoding
            /\ Sizes(n.body) = Sizes(h.body) \o b
            /\ Formed(h.body, "gzip") => Formed(n.body, "gzip")
        BY <1>3, <2>1, <3>2, NetBody
      <4> HIDE DEF n
      <4>2. QED
        BY <3>2, <4>1
    <3>4. Formed(n.body, "gzip") /\ Sizes(n.body) = b
      <4>1. Formed(<<>>, "gzip") /\ Sizes(<<>>) = <<>>
        BY DEF Formed, Sizes
      <4> HIDE DEF n
      <4>2. QED
        BY <2>1, <3>2, <3>3, <4>1, ConcatEmptySeq
    <3> HIDE DEF n
    <3>5. t \in Resp /\ t.cw = x /\ t.out = n /\ t.enc = "gzip"
      BY <1>3, <2>9, <2>4, <2>5, <2>7, <3>3 DEF Resp
    <3> HIDE DEF t
    <3>6. Consistent(accepts[c], t)
      BY <1>7, <2>4, <2>5, <2>7, <3>3, <3>4, <3>5 DEF Consistent, NotSent
    <3>7. Passed(accepts[c], t) = Passed(accepts[c], s) \o <<chunk>>
      BY <1>7, <2>2, <2>4, <2>5, <2>7, <3>4, <3>5 DEF Passed
    <3>8. QED
      BY <3>1, <3>3, <3>5, <3>6, <3>7 DEF t
  <2>10. QED
    BY <2>6, <2>8, <2>9
<1>8. QED
  BY <1>5, <1>6, <1>7

\* What Close does: what is still buffered is sent as it is, so the client has
\* all that was passed on, in the form that was committed.
LEMMA CloseStep ==
    ASSUME NEW s \in Resp, Consistent(TRUE, s)
    PROVE  LET t == CompressClose(s)
           IN  /\ t \in Resp
               /\ Sizes(t.out.body) = Passed(TRUE, s)
               /\ Formed(t.out.body, t.out.encoding)
               /\ t.out.status = NotSent => t.out.body = <<>>
               /\ s.out.status # NotSent => t.out.status = s.out.status
               /\ s.out.status = NotSent => t.out.status \in {NotSent, 200}
<1> DEFINE t == CompressClose(s)
<1>1. /\ s.cw \in Compress /\ s.out \in Net /\ s.enc \in Encoding
      /\ s.cw.buf \in Seq(Chunk) /\ s.cw.size \in Nat
      /\ s.out.body \in Seq([size : Chunk, form : Encoding])
  BY RespFields
<1>2. Sizes(<<>>) = <<>> /\ Formed(<<>>, "identity")
  BY DEF Sizes, Formed
<1>3. CASE ~s.cw.compressed /\ s.cw.size > 0
  <2> DEFINE n == NetWrite(s.out, s.enc, As("identity", s.cw.buf))
  <2>1. /\ s.enc = "identity" /\ s.out.encoding = "identity"
        /\ s.out.body = <<>>
    BY <1>3 DEF Consistent
  <2>2. "identity" \in Encoding
    BY DEF Encoding
  <2>3. /\ n \in Net
        /\ n.status = IF s.out.status = NotSent THEN 200 ELSE s.out.status
        /\ n.encoding = IF s.out.status = NotSent THEN s.enc ELSE s.out.encoding
        /\ Sizes(n.body) = Sizes(s.out.body) \o s.cw.buf
        /\ Formed(s.out.body, "identity") => Formed(n.body, "identity")
    BY <1>1, <2>2, NetBody
  <2>4. t = [s EXCEPT !.out = n]
    BY <1>3 DEF CompressClose
  <2> HIDE DEF n, t
  <2>5. t \in Resp /\ t.out = n
    BY <1>1, <2>3, <2>4 DEF Resp
  <2>6. Sizes(n.body) = s.cw.buf
    BY <1>1, <1>2, <2>1, <2>3, ConcatEmptySeq
  <2>7. Sizes(t.out.body) = Passed(TRUE, s)
    BY <1>3, <2>5, <2>6 DEF Passed
  <2>8. n.status # NotSent
    BY <2>3 DEF NotSent
  <2>9. QED
    BY <1>2, <2>1, <2>3, <2>5, <2>7, <2>8 DEF t
<1>4. CASE ~(~s.cw.compressed /\ s.cw.size > 0)
  <2>1. t = s
    BY <1>4 DEF CompressClose
  <2> HIDE DEF t
  <2>2. Sizes(s.out.body) = Passed(TRUE, s)
    <3>1. CASE s.cw.compressed
      BY <3>1 DEF Passed
    <3>2. CASE ~s.cw.compressed
      <4>1. s.cw.buf = <<>> /\ s.out.body = <<>>
        BY <1>1, <1>4, <3>2 DEF Consistent
      <4>2. QED
        BY <1>2, <3>2, <4>1 DEF Passed
    <3>3. QED
      BY <3>1, <3>2
  <2>3. QED
    BY <2>1, <2>2 DEF Consistent, t
<1>5. QED
  BY <1>3, <1>4

-----------------------------------------------------------------------------
\* A step of one request leaves another one alone: all that belongs to it, and
\* the pooled writers it holds.
Aside(d) ==
    /\ pc'[d] = pc[d] /\ asked'[d] = asked[d] /\ rest'[d] = rest[d]
    /\ accepts'[d] = accepts[d]
    /\ cwOf'[d] = cwOf[d] /\ rwOf'[d] = rwOf[d]
    /\ enc'[d] = enc[d] /\ counted'[d] = counted[d] /\ out'[d] = out[d]
    /\ UsesCompress(d) => cws'[cwOf[d]] = cws[cwOf[d]]
    /\ UsesCore(d) => rws'[rwOf[d]] = rws[rwOf[d]]

\* Then it is handled after the step as it was before.
LEMMA AsideKeeps ==
    ASSUME NEW d \in Requests, TypeOK, Handled(d), Aside(d)
    PROVE  Handled(d)'
<1>1. asked[d] \in Answers /\ accepts[d] \in BOOLEAN
  BY DEF TypeOK
<1>2. asked[d].header => asked[d].route # "metrics"
  BY <1>1, AnswerFacts DEF AnswerShape
<1>3. ASSUME pc[d] \in {"header", "body", "close"}
      PROVE  /\ Consistent(accepts[d], Response(d)) =>
                   Consistent(accepts[d], Response(d)')
             /\ Passed(accepts[d], Response(d)') = Passed(accepts[d], Response(d))
  <2>1. /\ Response(d).out = Response(d)'.out /\ Response(d).enc = Response(d)'.enc
        /\ accepts[d] => Response(d).cw = Response(d)'.cw
    BY <1>3 DEF Response, Aside, UsesCompress
  <2> DEFINE r == Response(d)
  <2> DEFINE q == Response(d)'
  <2> HIDE DEF r, q
  <2>2. r.out = q.out /\ r.enc = q.enc /\ (accepts[d] => r.cw = q.cw)
    BY <2>1 DEF r, q
  <2>3. /\ Consistent(accepts[d], r) => Consistent(accepts[d], q)
        /\ Passed(accepts[d], q) = Passed(accepts[d], r)
    BY <1>1, <2>2 DEF Consistent, Passed
  <2>4. QED
    BY <2>3 DEF r, q
<1>4. Flow(d)'
  BY <1>3 DEF Flow, Handled, Aside
<1>5. Untouched(d)'
  BY <1>2 DEF Untouched, Handled, Aside, UsesCompress, UsesCore
<1>6. Committed(d) => Committed(d)'
  BY DEF Committed, Aside
<1>7. QED
  BY <1>4, <1>5, <1>6 DEF Handled

\* A response under way has its type.
LEMMA ResponseType ==
    ASSUME TypeOK, NEW c \in Requests
    PROVE  /\ Response(c) \in Resp
           /\ Response(c).cw = cws[cwOf[c]] /\ Response(c).out = out[c]
           /\ Response(c).enc = enc[c]
           /\ accepts[c] \in BOOLEAN /\ asked[c] \in Answers
           /\ rest[c] \in Seq(Chunk)
           /\ cwOf[c] \in Writer /\ rwOf[c] \in Writer
BY DEF TypeOK, Response, Resp

\* What Store writes: the response of c and, if it has one, its compressWriter.
LEMMA StoreFacts ==
    ASSUME TypeOK, NEW c \in Requests, NEW s \in Resp, Store(c, s)
    PROVE  /\ cws' \in [Writer -> Compress] /\ out' \in [Requests -> Net]
           /\ enc' \in [Requests -> Encoding]
           /\ out'[c] = s.out /\ enc'[c] = s.enc
           /\ accepts[c] => cws'[cwOf[c]] = s.cw
           /\ \A d \in Requests : d # c => out'[d] = out[d] /\ enc'[d] = enc[d]
           /\ \A w \in Writer : (accepts[c] /\ w = cwOf[c]) \/ cws'[w] = cws[w]
<1>1. s.cw \in Compress /\ s.out \in Net /\ s.enc \in Encoding
  BY DEF Resp
<1>2. /\ cws \in [Writer -> Compress] /\ out \in [Requests -> Net]
      /\ enc \in [Requests -> Encoding] /\ cwOf[c] \in Writer
      /\ accepts[c] \in BOOLEAN
  BY DEF TypeOK
<1>3. QED
  BY <1>1, <1>2 DEF Store

\* After Store and with its writer kept, the response of c is the stored one,
\* up to the compressWriter of a request that has none.
LEMMA Stored ==
    ASSUME TypeOK, NEW c \in Requests, NEW s \in Resp, Store(c, s),
           cwOf' = cwOf, accepts' = accepts
    PROVE  /\ Consistent(accepts[c], s) => Consistent(accepts[c], Response(c))'
           /\ Passed(accepts[c], Response(c))' = Passed(accepts[c], s)
           /\ out'[c] = s.out
<1> DEFINE q == Response(c)'
<1>1. q.out = s.out /\ q.enc = s.enc /\ (accepts[c] => q.cw = s.cw)
  BY StoreFacts DEF Response
<1>2. accepts[c] \in BOOLEAN
  BY DEF TypeOK
<1> HIDE DEF q
<1>3. /\ Consistent(accepts[c], s) => Consistent(accepts[c], q)
      /\ Passed(accepts[c], q) = Passed(accepts[c], s)
  BY <1>1, <1>2 DEF Consistent, Passed
<1>4. QED
  BY <1>3, StoreFacts DEF q

\* A new request starts on reset writers that nobody else holds.
LEMMA ServeKeeps ==
    ASSUME PathInv, NEW c \in Requests, Serve(c)
    PROVE  /\ TypeOK' /\ WritersUnshared' /\ Handled(c)'
           /\ \A d \in Requests : d # c => Aside(d)
<1>1. PICK a \in Answers, gzip \in BOOLEAN :
          /\ asked' = [asked EXCEPT ![c] = a]
          /\ rest' = [rest EXCEPT ![c] = a.body]
          /\ accepts' = [accepts EXCEPT ![c] = gzip]
          /\ TakeCompress(c, gzip)
          /\ TakeCore(c, a.route)
          /\ pc' = [pc EXCEPT ![c] = IF a.header THEN "header" ELSE "body"]
  BY DEF Serve
<1>2. /\ enc' = [enc EXCEPT ![c] = "identity"]
      /\ counted' = [counted EXCEPT ![c] = 200]
      /\ out' = [out EXCEPT ![c] = NoNet]
      /\ served' = served + 1 /\ served < MaxServed
      /\ pc[c] \in {"idle", "done"}
  BY DEF Serve, DefaultStatus
<1>3. TypeOK /\ WritersUnshared
  BY DEF PathInv
<1>4. AnswerShape(a)
  BY AnswerFacts
<1>5. /\ cws \in [Writer -> Compress] /\ cwPool \subseteq Writer
      /\ cwOf \in [Requests -> Writer] /\ rws \in [Writer -> Core]
      /\ rwPool \subseteq Writer /\ rwOf \in [Requests -> Writer]
      /\ pc \in [Requests -> {"idle", "header", "body", "close", "done"}]
      /\ asked \in [Requests -> Answers] /\ accepts \in [Requests -> BOOLEAN]
      /\ rest \in [Requests -> Seq(Chunk)]
      /\ enc \in [Requests -> Encoding] /\ counted \in [Requests -> Status]
      /\ out \in [Requests -> Net] /\ served \in 0 .. MaxServed
  BY <1>3 DEF TypeOK
<1>6. NewCompress \in Compress /\ NewCore \in Core /\ NoNet \in Net
  <2>1. <<>> \in Seq(Chunk) /\ <<>> \in Seq([size : Chunk, form : Encoding])
    OBVIOUS
  <2>2. QED
    BY <2>1 DEF NewCompress, Compress, NewCore, Core, NoNet, Net, Encoding
\* The writers of both pools after the step.
<1>7. /\ cws' \in [Writer -> Compress] /\ cwPool' \subseteq cwPool
      /\ cwOf' \in [Requests -> Writer]
      /\ gzip => /\ cwOf'[c] \in cwPool /\ cwOf'[c] \notin cwPool'
                 /\ cws'[cwOf'[c]] = NewCompress
      /\ \A d \in Requests : d # c => cwOf'[d] = cwOf[d]
      /\ \A w \in Writer : w \in cwPool \/ cws'[w] = cws[w]
  <2>1. CASE gzip
    <3>1. PICK w \in cwPool : /\ cwOf' = [cwOf EXCEPT ![c] = w]
                              /\ cwPool' = cwPool \ {w}
                              /\ cws' = [cws EXCEPT ![w] = NewCompress]
      BY <1>1, <2>1 DEF TakeCompress, ResetCompress
    <3>2. QED
      BY <1>5, <1>6, <3>1
  <2>2. CASE ~gzip
    BY <1>1, <1>5, <2>2 DEF TakeCompress, compressVars
  <2>3. QED
    BY <2>1, <2>2
<1>8. /\ rws' \in [Writer -> Core] /\ rwPool' \subseteq rwPool
      /\ rwOf' \in [Requests -> Writer]
      /\ a.route # "metrics" => /\ rwOf'[c] \in rwPool /\ rwOf'[c] \notin rwPool'
                                /\ rws'[rwOf'[c]] = NewCore
      /\ \A d \in Requests : d # c => rwOf'[d] = rwOf[d]
      /\ \A w \in Writer : w \in rwPool \/ rws'[w] = rws[w]
  <2>1. CASE a.route # "metrics"
    <3>1. PICK w \in rwPool : /\ rwOf' = [rwOf EXCEPT ![c] = w]
                              /\ rwPool' = rwPool \ {w}
                              /\ rws' = [rws EXCEPT ![w] = NewCore]
      BY <1>1, <2>1 DEF TakeCore, ResetCore
    <3>2. QED
      BY <1>5, <1>6, <3>1
  <2>2. CASE a.route = "metrics"
    BY <1>1, <1>5, <2>2 DEF TakeCore, coreVars
  <2>3. QED
    BY <2>1, <2>2
<1>9. TypeOK'
  <2>1. pc' \in [Requests -> {"idle", "header", "body", "close", "done"}]
    BY <1>1, <1>5
  <2>2. asked' \in [Requests -> Answers] /\ accepts' \in [Requests -> BOOLEAN]
    BY <1>1, <1>5
  <2>3. rest' \in [Requests -> Seq(Chunk)]
    BY <1>1, <1>4, <1>5 DEF AnswerShape
  <2>4. /\ enc' \in [Requests -> Encoding] /\ counted' \in [Requests -> Status]
        /\ out' \in [Requests -> Net] /\ served' \in 0 .. MaxServed
    BY <1>2, <1>5, <1>6, ResponseConfig DEF Encoding, Status
  <2>5. QED
    BY <1>5, <1>7, <1>8, <2>1, <2>2, <2>3, <2>4 DEF TypeOK
<1>10. /\ pc'[c] = IF a.header THEN "header" ELSE "body"
       /\ asked'[c] = a /\ rest'[c] = a.body /\ accepts'[c] = gzip
       /\ enc'[c] = "identity" /\ counted'[c] = 200 /\ out'[c] = NoNet
       /\ \A d \in Requests : d # c =>
             /\ pc'[d] = pc[d] /\ asked'[d] = asked[d] /\ rest'[d] = rest[d]
             /\ accepts'[d] = accepts[d] /\ enc'[d] = enc[d]
             /\ counted'[d] = counted[d] /\ out'[d] = out[d]
  BY <1>1, <1>2, <1>5
<1>11. \A d \in Requests : d # c =>
          /\ Aside(d)
          /\ UsesCompress(d)' = UsesCompress(d) /\ UsesCore(d)' = UsesCore(d)
  BY <1>3, <1>5, <1>7, <1>8, <1>10
     DEF Aside, WritersUnshared, UsesCompress, UsesCore
<1>12. WritersUnshared'
  BY SMTT(40), <1>3, <1>4, <1>7, <1>8, <1>10, <1>11
     DEF WritersUnshared, UsesCompress, UsesCore, AnswerShape
<1>13. Handled(c)'
  <2> DEFINE q == Response(c)'
  <2>1. /\ q.cw = cws'[cwOf'[c]] /\ q.out = NoNet /\ q.enc = "identity"
        /\ gzip => q.cw = NewCompress
    BY <1>7, <1>10 DEF Response
  <2> HIDE DEF q
  <2>2. /\ NewCompress.buf = <<>> /\ NewCompress.size = 0
        /\ ~NewCompress.compressed /\ NoNet.body = <<>>
        /\ NoNet.status = NotSent /\ NoNet.encoding = "identity"
    BY DEF NewCompress, NoNet
  <2>3. Formed(<<>>, "identity") /\ Sizes(<<>>) = <<>>
    BY DEF Formed, Sizes
  <2>4. Consistent(gzip, q)
    BY <2>1, <2>2, <2>3 DEF Consistent
  <2>5. Passed(gzip, q) = <<>>
    BY <2>1, <2>2, <2>3 DEF Passed
  <2>6. a.body \in Seq(Chunk) /\ <<>> \o a.body = a.body
    BY <1>4, ConcatEmptySeq DEF AnswerShape
  <2>7. Flow(c)'
    BY <1>10, <2>4, <2>5, <2>6 DEF Flow, q
  <2>8. Untouched(c)'
    BY <1>4, <1>7, <1>8, <1>10 DEF Untouched, AnswerShape
  <2>9. Committed(c)'
    BY <1>4, <1>10, <2>2 DEF Committed, AnswerShape
  <2>10. QED
    BY <2>7, <2>8, <2>9 DEF Handled
<1>14. QED
  BY <1>9, <1>11, <1>12, <1>13

\* A request that writes through its own writers and keeps them does not
\* disturb the others.
LEMMA OwnWriters ==
    ASSUME PathInv, NEW c \in Requests, NEW s \in Resp, Store(c, s),
           pc[c] \in {"header", "body"},
           pc' = [pc EXCEPT ![c] = "body"],
           UNCHANGED <<asked, accepts, cwPool, cwOf, rwPool, rwOf, served>>,
           rest' \in [Requests -> Seq(Chunk)],
           counted' \in [Requests -> Status],
           rws' \in [Writer -> Core],
           \A d \in Requests : d # c => rest'[d] = rest[d] /\ counted'[d] = counted[d],
           \A w \in Writer :
              (asked[c].route # "metrics" /\ w = rwOf[c]) \/ rws'[w] = rws[w]
    PROVE  /\ TypeOK' /\ WritersUnshared'
           /\ \A d \in Requests : d # c => Aside(d)
<1>1. TypeOK /\ WritersUnshared
  BY DEF PathInv
<1>2. /\ cws' \in [Writer -> Compress] /\ out' \in [Requests -> Net]
      /\ enc' \in [Requests -> Encoding]
      /\ \A d \in Requests : d # c => out'[d] = out[d] /\ enc'[d] = enc[d]
      /\ \A w \in Writer : (accepts[c] /\ w = cwOf[c]) \/ cws'[w] = cws[w]
  BY <1>1, StoreFacts
<1>3. /\ pc \in [Requests -> {"idle", "header", "body", "close", "done"}]
      /\ cwOf \in [Requests -> Writer] /\ rwOf \in [Requests -> Writer]
  BY <1>1 DEF TypeOK
<1>4. pc' \in [Requests -> {"idle", "header", "body", "close", "done"}]
  BY <1>3
<1>5. TypeOK'
  BY <1>1, <1>2, <1>4 DEF TypeOK
<1>6. \A d \in Requests : UsesCompress(d)' = UsesCompress(d) /\ UsesCore(d)' = UsesCore(d)
  BY <1>3 DEF UsesCompress, UsesCore
<1>7. WritersUnshared'
  BY <1>1, <1>6 DEF WritersUnshared
<1>8. ASSUME NEW d \in Requests, d # c PROVE Aside(d)
  <2>1. UsesCompress(d) => cws'[cwOf[d]] = cws[cwOf[d]]
    BY <1>1, <1>2, <1>3, <1>8 DEF WritersUnshared, UsesCompress
  <2>2. UsesCore(d) => rws'[rwOf[d]] = rws[rwOf[d]]
    BY <1>1, <1>3, <1>8 DEF WritersUnshared, UsesCore
  <2>3. QED
    BY <1>2, <1>3, <1>8, <2>1, <2>2 DEF Aside
<1>9. QED
  BY <1>5, <1>7, <1>8

\* A request at its WriteHeader has written nothing.
LEMMA HeaderBlank ==
    ASSUME PathInv, NEW c \in Requests, pc[c] = "header"
    PROVE  /\ Blank(accepts[c], Response(c))
           /\ Consistent(accepts[c], Response(c))
           /\ Response(c).out.status = NotSent
           /\ accepts[c] => ~Response(c).cw.wroteHeader
           /\ rest[c] = asked[c].body /\ asked[c].header
<1>1. TypeOK /\ Flow(c) /\ Untouched(c)
  BY DEF PathInv, Handled
<1>2. /\ Response(c).out = NoNet /\ (accepts[c] => Response(c).cw = NewCompress)
      /\ Consistent(accepts[c], Response(c))
      /\ rest[c] = asked[c].body /\ asked[c].header
  BY <1>1, ResponseType DEF Flow, Untouched
<1>3. /\ NewCompress.buf = <<>> /\ NewCompress.size = 0
      /\ ~NewCompress.compressed /\ ~NewCompress.wroteHeader
      /\ NoNet.body = <<>> /\ NoNet.status = NotSent
  BY DEF NewCompress, NoNet
<1>4. QED
  BY <1>2, <1>3 DEF Blank

\* A response on which nothing was written has passed on nothing.
LEMMA BlankPassed ==
    ASSUME NEW acc \in BOOLEAN, NEW s, Blank(acc, s) PROVE Passed(acc, s) = <<>>
<1>1. Sizes(<<>>) = <<>>
  BY DEF Sizes
<1>2. QED
  BY <1>1 DEF Blank, Passed

\* WriteHeader commits the status the handler set, unless 103 went first.
LEMMA WriteHeaderKeeps ==
    ASSUME PathInv, NEW c \in Requests, WriteHeader(c)
    PROVE  /\ TypeOK' /\ WritersUnshared' /\ Handled(c)'
           /\ \A d \in Requests : d # c => Aside(d)
<1> DEFINE a == asked[c]
<1> DEFINE r == Response(c)
<1> DEFINE s == IF a.link /\ ~rws[rwOf[c]].hintsSent
                THEN SendHeader(c, r, a.text, EarlyHints) ELSE r
<1> DEFINE t == SendHeader(c, s, a.text, a.status)
<1>1. TypeOK /\ Untouched(c)
  BY DEF PathInv, Handled
<1>2. /\ r \in Resp /\ accepts[c] \in BOOLEAN /\ a \in Answers
      /\ rest[c] \in Seq(Chunk) /\ rwOf[c] \in Writer
  BY <1>1, ResponseType
<1>3. AnswerShape(a)
  BY <1>2, AnswerFacts
<1>4. pc[c] = "header" /\ rws[rwOf[c]] = NewCore
  BY <1>1 DEF WriteHeader, Untouched
<1>5. /\ Blank(accepts[c], r) /\ Consistent(accepts[c], r)
      /\ r.out.status = NotSent /\ (accepts[c] => ~r.cw.wroteHeader)
      /\ rest[c] = a.body /\ a.header
  BY <1>4, HeaderBlank
<1>6. /\ Store(c, t)
      /\ counted' = [counted EXCEPT ![c] = a.status]
      /\ rws' = [rws EXCEPT ![rwOf[c]] = [wroteHeader |-> TRUE, hintsSent |-> TRUE]]
      /\ pc' = [pc EXCEPT ![c] = "body"]
      /\ UNCHANGED <<asked, rest, accepts, cwPool, cwOf, rwPool, rwOf, served>>
  BY <1>4 DEF WriteHeader, NewCore
<1> HIDE DEF r
<1>7. /\ s \in Resp /\ Consistent(accepts[c], s) /\ Blank(accepts[c], s)
      /\ ~Hints => s = r
  <2>1. CASE a.link /\ ~rws[rwOf[c]].hintsSent
    <3>1. EarlyHints \in Status \cup {EarlyHints} /\ a.text \in BOOLEAN
      BY <1>3 DEF AnswerShape
    <3>2. QED
      BY <1>2, <1>3, <1>5, <2>1, <3>1, HeaderStep DEF AnswerShape
  <2>2. CASE ~(a.link /\ ~rws[rwOf[c]].hintsSent)
    BY <1>2, <1>5, <2>2
  <2>3. QED
    BY <2>1, <2>2
<1> HIDE DEF s
<1>8. /\ t \in Resp /\ Consistent(accepts[c], t) /\ Blank(accepts[c], t)
      /\ ~Hints => t.out.status = a.status
  <2>1. a.text \in BOOLEAN /\ a.status \in Status \cup {EarlyHints}
        /\ a.status # EarlyHints
    BY <1>3, Numbers DEF AnswerShape
  <2>2. QED
    BY <1>2, <1>5, <1>7, <2>1, HeaderStep
<1> HIDE DEF t
<1>9. /\ TypeOK' /\ WritersUnshared'
      /\ \A d \in Requests : d # c => Aside(d)
  <2>1. /\ counted \in [Requests -> Status] /\ rest \in [Requests -> Seq(Chunk)]
        /\ rws \in [Writer -> Core]
    BY <1>1 DEF TypeOK
  <2>2. counted' \in [Requests -> Status] /\ rest' \in [Requests -> Seq(Chunk)]
    BY <1>3, <1>6, <2>1 DEF AnswerShape
  <2>3. rws' \in [Writer -> Core] /\ \A w \in Writer : w = rwOf[c] \/ rws'[w] = rws[w]
    BY <1>2, <1>6, <2>1 DEF Core
  <2>4. a.route # "metrics"
    BY <1>3, <1>5 DEF AnswerShape
  <2>5. \A d \in Requests : d # c => rest'[d] = rest[d] /\ counted'[d] = counted[d]
    BY <1>6, <2>1
  <2>6. QED
    BY <1>4, <1>6, <1>8, <2>2, <2>3, <2>4, <2>5, OwnWriters
<1>10. Handled(c)'
  <2>1. /\ pc \in [Requests -> {"idle", "header", "body", "close", "done"}]
        /\ counted \in [Requests -> Status]
    BY <1>1 DEF TypeOK
  <2>2. pc'[c] = "body" /\ counted'[c] = a.status
    BY <1>6, <2>1
  <2>3. Consistent(accepts[c], Response(c))' /\ Passed(accepts[c], Response(c))' = <<>>
        /\ out'[c] = t.out
    BY <1>1, <1>2, <1>6, <1>8, Stored, BlankPassed
  <2>4. <<>> \o rest[c] = a.body
    BY <1>2, <1>5, ConcatEmptySeq
  <2>5. Flow(c)'
    BY <1>6, <2>2, <2>3, <2>4 DEF Flow
  <2>6. Untouched(c)'
    BY <2>2 DEF Untouched
  <2>7. ~Hints => Committed(c)'
    BY <1>5, <1>6, <1>8, <2>2, <2>3 DEF Committed
  <2>8. QED
    BY <2>5, <2>6, <2>7 DEF Handled
<1>11. QED
  BY <1>9, <1>10

\* Passing on the next chunk moves it from what is left to what is passed on.
LEMMA MoveChunk ==
    ASSUME NEW p \in Seq(Chunk), NEW r \in Seq(Chunk), r # <<>>
    PROVE  /\ Head(r) \in Chunk /\ Tail(r) \in Seq(Chunk)
           /\ (p \o <<Head(r)>>) \o Tail(r) = p \o r
<1> DEFINE h == Head(r)
<1> DEFINE t == Tail(r)
<1>1. /\ h \in Chunk /\ t \in Seq(Chunk) /\ Len(t) = Len(r) - 1 /\ h = r[1]
      /\ Len(r) \in Nat /\ Len(r) >= 1
      /\ \A i \in 1 .. Len(t) : t[i] = r[i + 1]
  BY HeadTailProperties
<1> HIDE DEF h, t
<1>2. /\ <<h>> \in Seq(Chunk) /\ Len(<<h>>) = 1 /\ <<h>>[1] = h
  BY <1>1
<1> DEFINE g == <<h>>
<1> HIDE DEF g
<1>3. g \in Seq(Chunk) /\ Len(g) = 1 /\ g[1] = h
  BY <1>2 DEF g
<1> DEFINE u == g \o t
<1>4. g \in Seq(Chunk) /\ t \in Seq(Chunk)
  BY <1>1, <1>3
<1>5. /\ u \in Seq(Chunk) /\ Len(u) = Len(g) + Len(t)
      /\ \A i \in 1 .. Len(u) :
            u[i] = IF i <= Len(g) THEN g[i] ELSE t[i - Len(g)]
  BY <1>4
<1>6. (p \o g) \o t = p \o u
  BY SMTT(40), <1>4, ConcatAssociative
<1> HIDE DEF u
<1>7. Len(u) = Len(r) /\ \A i \in 1 .. Len(u) : u[i] = r[i]
  <2>1. Len(u) = Len(r)
    BY <1>1, <1>3, <1>5
  <2>2. ASSUME NEW i \in 1 .. Len(u) PROVE u[i] = r[i]
    <3>1. u[i] = IF i <= 1 THEN g[i] ELSE t[i - 1]
      BY <1>3, <1>5
    <3>2. CASE i = 1
      BY <1>1, <1>3, <3>1, <3>2
    <3>3. CASE i # 1
      <4>1. i - 1 \in 1 .. Len(t) /\ (i - 1) + 1 = i /\ ~(i <= 1)
        BY <1>1, <2>1, <3>3
      <4>2. t[i - 1] = r[(i - 1) + 1]
        BY <1>1, <4>1
      <4>3. QED
        BY <3>1, <4>1, <4>2
    <3>4. QED
      BY <3>2, <3>3
  <2>3. QED
    BY <2>1, <2>2
<1>8. u = r
  BY <1>5, <1>7, SeqEqual
<1>9. QED
  BY <1>1, <1>6, <1>8 DEF g, h, t

\* Write passes one chunk on, and keeps the status.
LEMMA WriteKeeps ==
    ASSUME PathInv, NEW c \in Requests, Write(c)
    PROVE  /\ TypeOK' /\ WritersUnshared' /\ Handled(c)'
           /\ \A d \in Requests : d # c => Aside(d)
<1> DEFINE a == asked[c]
<1> DEFINE r == Response(c)
<1> DEFINE h == Head(rest[c])
<1> DEFINE t == SendChunk(c, r, a.text, h)
<1>1. TypeOK /\ Flow(c) /\ (~Hints => Committed(c))
  BY DEF PathInv, Handled
<1>2. /\ r \in Resp /\ accepts[c] \in BOOLEAN /\ a \in Answers
      /\ rest[c] \in Seq(Chunk) /\ rwOf[c] \in Writer /\ r.out = out[c]
  BY <1>1, ResponseType
<1>3. AnswerShape(a)
  BY <1>2, AnswerFacts
<1>4. /\ pc[c] = "body" /\ rest[c] # <<>>
      /\ Store(c, t)
      /\ rest' = [rest EXCEPT ![c] = Tail(rest[c])]
      /\ rws' = IF a.route = "metrics" THEN rws
                ELSE [rws EXCEPT ![rwOf[c]].wroteHeader = TRUE]
      /\ UNCHANGED <<pc, asked, accepts, cwPool, cwOf, rwPool, rwOf, counted, served>>
  BY DEF Write
<1>5. Consistent(accepts[c], r) /\ Passed(accepts[c], r) \o rest[c] = a.body
  BY <1>1, <1>4 DEF Flow
<1>6. h \in Chunk /\ Tail(rest[c]) \in Seq(Chunk)
  BY <1>2, <1>4, HeadTailProperties
<1> HIDE DEF r, h
<1>7. /\ t \in Resp /\ Consistent(accepts[c], t)
      /\ Passed(accepts[c], t) = Passed(accepts[c], r) \o <<h>>
      /\ r.out.status # NotSent => t.out.status = r.out.status
      /\ r.out.status = NotSent => t.out.status \in {NotSent, 200}
  <2>1. a.text \in BOOLEAN
    BY <1>3 DEF AnswerShape
  <2>2. QED
    BY <1>2, <1>5, <1>6, <2>1, ChunkStep
<1> HIDE DEF t
<1>8. /\ TypeOK' /\ WritersUnshared'
      /\ \A d \in Requests : d # c => Aside(d)
  <2>1. /\ counted \in [Requests -> Status] /\ rest \in [Requests -> Seq(Chunk)]
        /\ rws \in [Writer -> Core]
        /\ pc \in [Requests -> {"idle", "header", "body", "close", "done"}]
    BY <1>1 DEF TypeOK
  <2>2. rest' \in [Requests -> Seq(Chunk)]
    BY <1>4, <1>6, <2>1
  <2>3. /\ rws' \in [Writer -> Core]
        /\ \A w \in Writer : (a.route # "metrics" /\ w = rwOf[c]) \/ rws'[w] = rws[w]
    BY <1>2, <1>4, <2>1 DEF Core
  <2>4. pc' = [pc EXCEPT ![c] = "body"] /\ counted' \in [Requests -> Status]
    BY <1>4, <2>1
  <2>5. \A d \in Requests : d # c => rest'[d] = rest[d] /\ counted'[d] = counted[d]
    BY <1>4, <2>1
  <2>6. QED
    BY ZenonT(40), <1>4, <1>7, <2>2, <2>3, <2>4, <2>5, OwnWriters
<1>9. Handled(c)'
  <2>1. rest'[c] = Tail(rest[c])
    BY <1>1, <1>4 DEF TypeOK
  <2>2. /\ Consistent(accepts[c], Response(c))'
        /\ Passed(accepts[c], Response(c))' = Passed(accepts[c], r) \o <<h>>
        /\ out'[c] = t.out
    BY <1>1, <1>4, <1>7, Stored
  <2>3. Passed(accepts[c], r) \in Seq(Chunk)
    BY <1>2, RespFields DEF Passed
  <2>4. (Passed(accepts[c], r) \o <<h>>) \o Tail(rest[c]) = a.body
    BY <1>2, <1>4, <1>5, <2>3, MoveChunk DEF h
  <2>5. Flow(c)'
    BY <1>4, <2>1, <2>2, <2>4 DEF Flow
  <2>6. Untouched(c)'
    BY <1>4 DEF Untouched
  <2>7. ~Hints => Committed(c)'
    <3>1. a.status # NotSent
      BY <1>3, Numbers DEF AnswerShape
    <3>2. QED
      BY <1>1, <1>2, <1>4, <1>7, <2>2, <3>1 DEF Committed
  <2>8. QED
    BY <2>5, <2>6, <2>7 DEF Handled
<1>10. QED
  BY <1>8, <1>9

\* A recovered panic is answered with its status and its text.
LEMMA RecoverKeeps ==
    ASSUME PathInv, NEW c \in Requests, Recover(c)
    PROVE  /\ TypeOK' /\ WritersUnshared' /\ Handled(c)'
           /\ \A d \in Requests : d # c => Aside(d)
<1> DEFINE a == asked[c]
<1> DEFINE r == Response(c)
<1> DEFINE h == Head(rest[c])
<1> DEFINE text == TRUE
<1> DEFINE s == SendHeader(c, r, text, a.status)
<1> DEFINE t == SendChunk(c, s, text, h)
<1>1. TypeOK /\ WritersUnshared
  BY DEF PathInv
<1>2. /\ r \in Resp /\ accepts[c] \in BOOLEAN /\ a \in Answers
      /\ rest[c] \in Seq(Chunk) /\ rwOf[c] \in Writer
  BY <1>1, ResponseType
<1>3. AnswerShape(a)
  BY <1>2, AnswerFacts
<1>4. /\ pc[c] = "header" /\ a.panics
      /\ Store(c, t)
      /\ rest' = [rest EXCEPT ![c] = Tail(rest[c])]
      /\ counted' = [counted EXCEPT ![c] = a.status]
      /\ pc' = [pc EXCEPT ![c] = "body"]
      /\ UNCHANGED <<asked, accepts, cwPool, cwOf, rws, rwPool, rwOf, served>>
  BY DEF Recover, coreVars
<1>5. /\ Blank(accepts[c], r) /\ Consistent(accepts[c], r)
      /\ r.out.status = NotSent /\ (accepts[c] => ~r.cw.wroteHeader)
      /\ rest[c] = a.body /\ a.header
  BY <1>4, HeaderBlank
<1>6. rest[c] # <<>> /\ h \in Chunk /\ Tail(rest[c]) \in Seq(Chunk)
  <2>1. rest[c] # <<>>
    BY <1>3, <1>4, <1>5 DEF AnswerShape
  <2>2. QED
    BY <1>2, <2>1, HeadTailProperties
<1>7. a.status \in Status /\ a.status # EarlyHints /\ a.status # NotSent
  BY <1>3, Numbers DEF AnswerShape
<1>8. text \in BOOLEAN
  OBVIOUS
<1> HIDE DEF r, h, text
<1>9. /\ s \in Resp /\ Consistent(accepts[c], s) /\ Blank(accepts[c], s)
      /\ s.out.status = a.status
  BY <1>2, <1>5, <1>7, <1>8, HeaderStep
<1> HIDE DEF s
<1>10. /\ t \in Resp /\ Consistent(accepts[c], t)
      /\ Passed(accepts[c], t) = <<>> \o <<h>>
      /\ t.out.status = a.status
  <2>1. /\ t \in Resp /\ Consistent(accepts[c], t)
        /\ Passed(accepts[c], t) = Passed(accepts[c], s) \o <<h>>
        /\ s.out.status # NotSent => t.out.status = s.out.status
    BY <1>2, <1>6, <1>9, <1>8, ChunkStep
  <2>2. QED
    BY <1>2, <1>7, <1>9, <2>1, BlankPassed
<1> HIDE DEF t
<1>11. /\ TypeOK' /\ WritersUnshared'
       /\ \A d \in Requests : d # c => Aside(d)
  <2>1. /\ counted \in [Requests -> Status] /\ rest \in [Requests -> Seq(Chunk)]
        /\ rws \in [Writer -> Core]
    BY <1>1 DEF TypeOK
  <2>2. rest' \in [Requests -> Seq(Chunk)] /\ counted' \in [Requests -> Status]
    BY <1>4, <1>6, <1>7, <2>1
  <2>3. \A d \in Requests : d # c => rest'[d] = rest[d] /\ counted'[d] = counted[d]
    BY <1>4, <2>1
  <2>4. QED
    BY <1>4, <1>10, <2>1, <2>2, <2>3, OwnWriters
<1>12. Handled(c)'
  <2>1. rest'[c] = Tail(rest[c]) /\ pc'[c] = "body" /\ counted'[c] = a.status
    BY <1>1, <1>4 DEF TypeOK
  <2>2. /\ Consistent(accepts[c], Response(c))'
        /\ Passed(accepts[c], Response(c))' = <<>> \o <<h>>
        /\ out'[c] = t.out
    BY <1>1, <1>4, <1>10, Stored
  <2>3. (<<>> \o <<h>>) \o Tail(rest[c]) = a.body
    <3>1. <<>> \in Seq(Chunk) /\ <<>> \o rest[c] = rest[c]
      BY <1>2, ConcatEmptySeq
    <3>2. QED
      BY <1>2, <1>5, <1>6, <3>1, MoveChunk DEF h
  <2>4. Flow(c)'
    BY <1>4, <2>1, <2>2, <2>3 DEF Flow
  <2>5. Untouched(c)'
    BY <2>1 DEF Untouched
  <2>6. Committed(c)'
    BY <1>4, <1>5, <1>10, <2>1, <2>2 DEF Committed
  <2>7. QED
    BY <2>4, <2>5, <2>6 DEF Handled
<1>13. QED
  BY <1>11, <1>12

\* Return gives the mabooResponseWriter back, which no other request holds.
LEMMA ReturnKeeps ==
    ASSUME PathInv, NEW c \in Requests, Return(c)
    PROVE  /\ TypeOK' /\ WritersUnshared' /\ Handled(c)'
           /\ \A d \in Requests : d # c => Aside(d)
<1>1. TypeOK /\ WritersUnshared /\ Handled(c)
  BY DEF PathInv
<1>2. /\ pc[c] = "body" /\ rest[c] = <<>>
      /\ rwPool' = IF asked[c].route = "metrics" THEN rwPool
                   ELSE rwPool \cup {rwOf[c]}
      /\ pc' = [pc EXCEPT ![c] = "close"]
      /\ UNCHANGED <<asked, rest, accepts, cws, cwPool, cwOf, rws, rwOf, enc,
                     counted, out, served>>
  BY DEF Return, compressVars
<1>3. /\ pc \in [Requests -> {"idle", "header", "body", "close", "done"}]
      /\ rwOf \in [Requests -> Writer] /\ rwPool \subseteq Writer
  BY <1>1 DEF TypeOK
<1>4. /\ pc' \in [Requests -> {"idle", "header", "body", "close", "done"}]
      /\ rwPool' \subseteq Writer
  BY <1>2, <1>3
<1>5. TypeOK'
  BY <1>1, <1>2, <1>4 DEF TypeOK
<1>6. \A d \in Requests : d # c => Aside(d)
  BY <1>2, <1>3 DEF Aside
<1>7. /\ ~UsesCore(c)' /\ UsesCompress(c)' = UsesCompress(c)
      /\ asked[c].route # "metrics" => UsesCore(c)
      /\ \A d \in Requests : d # c =>
            UsesCompress(d)' = UsesCompress(d) /\ UsesCore(d)' = UsesCore(d)
  BY <1>2, <1>3 DEF UsesCompress, UsesCore
<1>8. WritersUnshared'
  BY <1>1, <1>2, <1>7 DEF WritersUnshared
<1>9. pc'[c] = "close"
  BY <1>2, <1>3
<1>10. Response(c)' = Response(c)
  BY <1>2 DEF Response
<1>11. Handled(c)'
  <2>1. Flow(c)'
    BY <1>1, <1>2, <1>9, <1>10 DEF Handled, Flow
  <2>2. Untouched(c)'
    BY <1>9 DEF Untouched
  <2>3. Committed(c) => Committed(c)'
    BY <1>2, <1>9 DEF Committed
  <2>4. QED
    BY <1>1, <2>1, <2>2, <2>3 DEF Handled
<1>12. QED
  BY <1>5, <1>6, <1>8, <1>11

\* Close sends what is left and gives the compressWriter back.
LEMMA CloseKeeps ==
    ASSUME PathInv, NEW c \in Requests, Close(c)
    PROVE  /\ TypeOK' /\ WritersUnshared' /\ Handled(c)'
           /\ \A d \in Requests : d # c => Aside(d)
<1> DEFINE r == Response(c)
<1> DEFINE t == IF accepts[c] THEN CompressClose(r) ELSE r
<1>1. TypeOK /\ WritersUnshared /\ Flow(c) /\ (~Hints => Committed(c))
  BY DEF PathInv, Handled
<1>2. /\ r \in Resp /\ accepts[c] \in BOOLEAN /\ asked[c] \in Answers
      /\ cwOf[c] \in Writer /\ r.out = out[c] /\ r.enc = enc[c]
  BY <1>1, ResponseType
<1>3. /\ pc[c] = "close"
      /\ cwPool' = IF accepts[c] THEN cwPool \cup {cwOf[c]} ELSE cwPool
      /\ accepts[c] => Store(c, CompressClose(r))
      /\ ~accepts[c] => UNCHANGED <<cws, out, enc>>
      /\ pc' = [pc EXCEPT ![c] = "done"]
      /\ UNCHANGED <<asked, rest, accepts, cwOf, rws, rwPool, rwOf, counted, served>>
  BY <1>2 DEF Close, coreVars
<1>4. rest[c] = <<>> /\ Consistent(accepts[c], r)
      /\ Passed(accepts[c], r) = asked[c].body
  <2>1. /\ rest[c] = <<>> /\ Consistent(accepts[c], r)
        /\ Passed(accepts[c], r) \o rest[c] = asked[c].body
    BY <1>1, <1>3 DEF Flow
  <2>2. Passed(accepts[c], r) \in Seq(Chunk)
    BY <1>2, RespFields DEF Passed
  <2>3. QED
    BY <2>1, <2>2, ConcatEmptySeq
<1> HIDE DEF r
<1>5. /\ t \in Resp
      /\ Sizes(t.out.body) = asked[c].body
      /\ Formed(t.out.body, t.out.encoding)
      /\ t.out.status = NotSent => t.out.body = <<>>
      /\ r.out.status # NotSent => t.out.status = r.out.status
      /\ r.out.status = NotSent => t.out.status \in {NotSent, 200}
  <2>1. CASE accepts[c]
    <3>1. Consistent(TRUE, r) /\ Passed(TRUE, r) = asked[c].body /\ t = CompressClose(r)
      BY <1>4, <2>1 DEF Consistent, Passed
    <3> HIDE DEF t
    <3>2. QED
      BY ZenonT(40), <1>2, <3>1, CloseStep
  <2>2. CASE ~accepts[c]
    BY <1>2, <1>4, <2>2 DEF Consistent, Passed
  <2>3. QED
    BY <1>2, <2>1, <2>2
<1>6. /\ cws' \in [Writer -> Compress] /\ out' \in [Requests -> Net]
      /\ enc' \in [Requests -> Encoding]
      /\ out'[c] = t.out
      /\ \A d \in Requests : d # c => out'[d] = out[d] /\ enc'[d] = enc[d]
      /\ \A w \in Writer : (accepts[c] /\ w = cwOf[c]) \/ cws'[w] = cws[w]
  <2>1. CASE accepts[c]
    BY <1>1, <1>3, <1>5, <2>1, StoreFacts
  <2>2. CASE ~accepts[c]
    BY <1>1, <1>2, <1>3, <2>2 DEF TypeOK
  <2>3. QED
    BY <1>2, <2>1, <2>2
<1> HIDE DEF t
<1>7. /\ pc \in [Requests -> {"idle", "header", "body", "close", "done"}]
      /\ cwOf \in [Requests -> Writer] /\ cwPool \subseteq Writer
  BY <1>1 DEF TypeOK
<1>8. /\ pc' \in [Requests -> {"idle", "header", "body", "close", "done"}]
      /\ cwPool' \subseteq Writer /\ pc'[c] = "done"
  BY <1>3, <1>7
<1>9. TypeOK'
  BY <1>1, <1>3, <1>6, <1>8 DEF TypeOK
<1>10. /\ ~UsesCompress(c)' /\ UsesCore(c)' = UsesCore(c)
       /\ accepts[c] => UsesCompress(c)
       /\ \A d \in Requests : d # c =>
             UsesCompress(d)' = UsesCompress(d) /\ UsesCore(d)' = UsesCore(d)
  BY <1>3, <1>7 DEF UsesCompress, UsesCore
<1>11. WritersUnshared'
  BY <1>1, <1>3, <1>10 DEF WritersUnshared
<1>12. ASSUME NEW d \in Requests, d # c PROVE Aside(d)
  <2>1. UsesCompress(d) => cws'[cwOf[d]] = cws[cwOf[d]]
    BY <1>1, <1>6, <1>7, <1>10, <1>12 DEF WritersUnshared
  <2>2. QED
    BY <1>3, <1>6, <1>7, <1>12, <2>1 DEF Aside
<1>13. Handled(c)'
  <2>1. Flow(c)'
    BY <1>3, <1>5, <1>6, <1>8 DEF Flow
  <2>2. Untouched(c)'
    BY <1>8 DEF Untouched
  <2>3. ~Hints => Committed(c)'
    <3>1. asked[c].status # NotSent
      BY <1>2, AnswerFacts, Numbers DEF AnswerShape
    <3>2. QED
      BY <1>1, <1>2, <1>3, <1>5, <1>6, <1>8, <3>1 DEF Committed
  <2>4. QED
    BY <2>1, <2>2, <2>3 DEF Handled
<1>14. QED
  BY <1>9, <1>11, <1>12, <1>13

-----------------------------------------------------------------------------
\* Nothing is under way at the start.
LEMMA PathInit == Init => PathInv
<1> SUFFICES ASSUME Init PROVE PathInv
  OBVIOUS
<1>1. NewCompress \in Compress /\ NewCore \in Core /\ NoNet \in Net
  <2>1. <<>> \in Seq(Chunk) /\ <<>> \in Seq([size : Chunk, form : Encoding])
    OBVIOUS
  <2>2. QED
    BY <2>1 DEF NewCompress, Compress, NewCore, Core, NoNet, Net, Encoding
<1>2. (CHOOSE a \in MetricsAnswers : TRUE) \in Answers
  <2>1. \E a \in MetricsAnswers : TRUE
    BY Zenon DEF MetricsAnswers
  <2>2. (CHOOSE a \in MetricsAnswers : TRUE) \in MetricsAnswers
    BY <2>1, Zenon
  <2>3. QED
    BY <2>2, Zenon DEF Answers
<1>3. <<>> \in Seq(Chunk)
  OBVIOUS
<1>4. TypeOK
  <2> DEFINE m == CHOOSE a \in MetricsAnswers : TRUE
  <2>1. asked = [c \in Requests |-> m] /\ m \in Answers
    BY <1>2, Zenon DEF Init
  <2> HIDE DEF m
  <2>2. asked \in [Requests -> Answers]
    BY <2>1
  <2>3. /\ pc \in [Requests -> {"idle", "header", "body", "close", "done"}]
        /\ rest \in [Requests -> Seq(Chunk)]
        /\ accepts \in [Requests -> BOOLEAN]
    BY <1>3 DEF Init
  <2>4. /\ cws \in [Writer -> Compress] /\ rws \in [Writer -> Core]
        /\ cwPool \subseteq Writer /\ rwPool \subseteq Writer
        /\ cwOf \in [Requests -> Writer] /\ rwOf \in [Requests -> Writer]
    BY <1>1 DEF Init, Writer
  <2>5. /\ enc \in [Requests -> Encoding] /\ counted \in [Requests -> Status]
        /\ out \in [Requests -> Net] /\ served \in 0 .. MaxServed
    BY <1>1, ResponseConfig DEF Init, Encoding, Status
  <2>6. QED
    BY <2>2, <2>3, <2>4, <2>5 DEF TypeOK
<1>5. \A c \in Requests : pc[c] = "idle"
  BY DEF Init
<1>6. WritersUnshared
  BY <1>5 DEF WritersUnshared, UsesCompress, UsesCore
<1>7. \A c \in Requests : Handled(c)
  BY ZenonT(40), <1>5 DEF Handled, Flow, Untouched, Committed
<1>8. QED
  BY <1>4, <1>6, <1>7 DEF PathInv

\* Every step of every request keeps the invariant.
LEMMA PathNext == PathInv /\ [Next]_vars => PathInv'
<1>1. ASSUME PathInv, NEW c \in Requests,
             \/ Serve(c) \/ WriteHeader(c) \/ Write(c) \/ Recover(c)
             \/ Return(c) \/ Close(c)
      PROVE  PathInv'
  <2>1. /\ TypeOK' /\ WritersUnshared' /\ Handled(c)'
        /\ \A d \in Requests : d # c => Aside(d)
    BY <1>1, ServeKeeps, WriteHeaderKeeps, WriteKeeps, RecoverKeeps, ReturnKeeps,
       CloseKeeps
  <2>2. \A d \in Requests : d # c => Handled(d)'
    BY <1>1, <2>1, AsideKeeps DEF PathInv
  <2>3. QED
    BY <2>1, <2>2 DEF PathInv
<1>2. ASSUME PathInv, UNCHANGED vars PROVE PathInv'
  <2>1. TypeOK' /\ WritersUnshared'
    BY <1>2 DEF PathInv, vars, compressVars, coreVars, TypeOK, WritersUnshared,
                UsesCompress, UsesCore
  <2>2. \A d \in Requests : Aside(d)
    BY <1>2 DEF Aside, vars, compressVars, coreVars
  <2>3. QED
    BY <1>2, <2>1, <2>2, AsideKeeps DEF PathInv
<1>3. QED
  BY <1>1, <1>2 DEF Next

\* The invariant holds in every state of every behaviour.
LEMMA PathAlways == Spec => []PathInv
  BY PathInit, PathNext, PTL DEF Spec

\* The state of the response path always has its type.
THEOREM PathTypeOK == Spec => []TypeOK
  BY PathAlways, PTL DEF PathInv

\* A compressWriter or a mabooResponseWriter is never in two hands: compress.go
\* and middleware.go return it to its sync.Pool only when its request is done
\* with it.
THEOREM PooledWritersUnshared == Spec => []WritersUnshared
  BY PathAlways, PTL DEF PathInv

\* The client receives the chunks the handler wrote, in order, each in the form
\* the committed Content-Encoding announces, for every threshold, every answer
\* and every reuse of the writers.
THEOREM ResponsesIntact == Spec => []ResponseIntact
<1>1. PathInv => ResponseIntact
  BY DEF PathInv, Handled, Flow, ResponseIntact, Sizes, Formed
<1>2. QED
  BY <1>1, PathAlways, PTL

\* Without early hints, the client receives the status the handler set and the
\* metrics count it.  With them it may not: WriteHeader(103) uses up the one
\* header of compressWriter.
THEOREM StatusReaches == Spec => [](~Hints => StatusDelivered)
<1>1. PathInv => (~Hints => StatusDelivered)
  <2> SUFFICES ASSUME PathInv, ~Hints, NEW c \in Requests, pc[c] = "done"
               PROVE  out[c].status = asked[c].status /\ counted[c] = asked[c].status
    BY DEF StatusDelivered
  <2>1. Committed(c) /\ Flow(c) /\ asked[c] \in Answers
    BY DEF PathInv, Handled, TypeOK
  <2>2. AnswerShape(asked[c])
    BY <2>1, AnswerFacts
  <2>3. CASE asked[c].header
    BY <2>1, <2>3 DEF Committed
  <2>4. CASE ~asked[c].header
    <3>1. /\ asked[c].status = 200 /\ asked[c].body # <<>>
          /\ out[c].status \in {NotSent, 200} /\ counted[c] = asked[c].status
          /\ Sizes(out[c].body) = asked[c].body
          /\ out[c].status = NotSent => out[c].body = <<>>
      BY <2>1, <2>2, <2>4 DEF Committed, Flow, AnswerShape
    <3>2. Sizes(<<>>) = <<>>
      BY DEF Sizes
    <3>3. QED
      BY <3>1, <3>2
  <2>5. QED
    BY <2>2, <2>3, <2>4 DEF AnswerShape
<1>2. QED
  BY <1>1, PathAlways, PTL

=============================================================================
