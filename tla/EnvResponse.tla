---------------------------- MODULE EnvResponse ----------------------------
(***************************************************************************)
(* http\Env\Response: the options a script sets, and send(), which answers *)
(* the range and conditional headers of the request, writes the head when  *)
(* the first data goes out, and passes the body on through an encoder and  *)
(* the send buffer to the SAPI or to a stream.  One step per function that *)
(* can fail or lose data; the peer of the stream may go away at any time.  *)
(* Bytes and the headers between ranges are tuples: <<"b", n>> is a byte   *)
(* of the body, <<"z", n>> one that went through the encoder.              *)
(***************************************************************************)
EXTENDS Buffer, TLC, SequencesExt

CONSTANTS
  Requests,      \* requests, see RequestType
  Settings,      \* initial options of the response object
  FirstBody,     \* number of bytes in its body
  SendBuf,       \* PHP_HTTP_SENDBUF_SIZE
  ReadSize,      \* bytes of the body read at a time
  PtrSize,       \* sizeof(buf) in php_http_message_body_to_callback()
  MaxCalls       \* bound: calls on the object

ASSUME ResponseAssumption ==
  /\ {SendBuf, ReadSize, PtrSize} \subseteq Nat \ {0}
  /\ PtrSize <= ReadSize
  /\ FirstBody \in Nat
  /\ \A s \in Settings : {"chunk", "request"} \subseteq DOMAIN s /\ s.chunk \in Nat
  /\ \A q \in Requests \cup {s.request : s \in Settings} : q.range \in Seq(0 .. 12)

VARIABLES
  opts,     \* the options of the object
  body,     \* its body: [bytes, mtime]
  ctx,      \* the response operations' context, of the SAPI or of the stream
  sapi,     \* that of the SAPI, while a stream's is in use
  r,        \* php_http_env_response_t of the send() in progress
  pc,       \* where send() is
  out,      \* what send() got to the peer: heads, data, end of chunks
  broken,   \* the peer has gone
  result,   \* what send() returned: "none", "true" or "false"
  calls

vars == <<opts, body, ctx, sapi, r, pc, out, broken, result, calls>>

NoHeader == <<>>         \* a request header that is absent
NoTag == <<>>

Emit(name, value) == name :> <<value>>

-----------------------------------------------------------------------------
(* The Range header, what follows "bytes=" in it.  Digits are numbers; -1  *)
(* is a field that was empty and -10 one that was 0.  A gap is skipped: a  *)
(* header that ends with "bytes=" is read as one with nothing but gaps.    *)
Dash == 10
Comma == 11
Gap == 12
End == 13

Validate(b, e, length) ==
  CASE b = -10 ->
         IF e = -1 THEN <<"no">>
         ELSE <<0, IF e = -10 THEN 0 ELSE IF length <= e THEN length - 1 ELSE e>>
    [] b = -1 ->
         IF e \in {-1, -10} THEN <<"err">> ELSE <<length - e, length - 1>>
    [] OTHER ->
         IF length <= b \/ e = -10 \/ (e # -1 /\ length > e /\ e < b) THEN <<"err">>
         ELSE <<b, IF e = -1 \/ length <= e THEN length - 1 ELSE e>>

WithDigit(n, c) ==
  IF c = 0 THEN (IF n = -10 THEN n ELSE n * 10)
  ELSE IF n > 0 THEN n * 10 + c ELSE c

\* An empty body leaves ranges as they are.
RangeOf(s, length) == IF length = 0 THEN <<s.begin, s.end>> ELSE Validate(s.begin, s.end, length)

RangeChar(s, c, length) ==
  LET v == RangeOf(s, length)
  IN  IF s.status # "ok" THEN s ELSE
      CASE c \in 0 .. 9 /\ s.ptr = "begin" -> [s EXCEPT !.begin = WithDigit(@, c)]
        [] c \in 0 .. 9 /\ s.ptr = "end"   -> [s EXCEPT !.end = WithDigit(@, c)]
        [] c = Dash -> [s EXCEPT !.ptr = "end"]
        [] c = Gap -> s
        [] c \in {Comma, End} /\ v \in {<<"no">>, <<"err">>} -> [s EXCEPT !.status = v[1]]
        [] c \in {Comma, End} /\ v \notin {<<"no">>, <<"err">>} ->
             [s EXCEPT !.ranges = Append(@, v), !.begin = -1, !.end = -1, !.ptr = "begin"]
        [] OTHER -> [s EXCEPT !.status = "no"]

NoRanges == [begin |-> -1, end |-> -1, ptr |-> "begin", ranges |-> <<>>, status |-> "ok"]

get_request_ranges(q, length) ==
  IF q.range = NoHeader THEN [NoRanges EXCEPT !.status = "no"]
  ELSE LET text == q.range \o <<End>>
           read[i \in 0 .. Len(text)] ==
             IF i = 0 THEN NoRanges ELSE RangeChar(read[i - 1], text[i], length)
       IN  read[Len(text)]

-----------------------------------------------------------------------------
(* Conditional requests.  The answer is computed from options, which are   *)
(* filled in from the body the first time they are needed.                 *)

TagOf(b) == <<"of", b.bytes>>
WithEtag(o) == IF o.etag = NoTag THEN [o EXCEPT !.etag = TagOf(body)] ELSE o
WithLm(o) == IF o.lm <= 0 THEN [o EXCEPT !.lm = body.mtime] ELSE o

is_response_cached_by_etag(o, header) ==
  CASE header = NoHeader -> "no"
    [] header = <<"tag", WithEtag(o).etag>> -> "hit"
    [] OTHER -> "miss"

\* A header that is no date is older than everything.
is_response_cached_by_last_modified(o, header) ==
  CASE header = NoHeader -> "no"
    [] header # NoHeader /\ header[1] = "date" ->
         IF header[2] > 0 /\ header[2] >= WithLm(o).lm THEN "hit" ELSE "miss"
    [] OTHER -> "miss"

response_is_cacheable(c, q) ==
  c.status \div 100 = 2 /\ ~q.auth /\ q.method \in {"GET", "HEAD"}

-----------------------------------------------------------------------------
(* The operations of the SAPI and of a stream.                             *)

ContextOf(kind, q) ==
  [kind |-> kind, header |-> <<>>, minor |-> IF kind = "stream" THEN q.minor ELSE 1,
   status |-> 200, started |-> FALSE, finished |-> FALSE, chunked |-> kind = "stream"]

Refused(c) == c.started \/ c.finished
set_status(c, code) == [c EXCEPT !.status = code]
set_protocol_version(c, minor) == [c EXCEPT !.minor = minor]
set_header(c, h) == [c EXCEPT !.header = h @@ @]
Added(header, name, value) ==
  (name :> Append(IF name \in DOMAIN header THEN header[name] ELSE <<>>, value)) @@ header
add_header(c, name, value) == [c EXCEPT !.header = Added(@, name, value)]
del_header(c, name) ==
  [c EXCEPT !.header = [n \in DOMAIN @ \ {name} |-> @[n]]]

\* RFC 7230 3.3.1: what must not be chunked, and what says its length itself.
Chunkable(c, q) ==
  /\ c.minor # 0
  /\ c.status # 204 /\ c.status \div 100 # 1
  /\ ~(q.method = "CONNECT" /\ c.status \div 100 = 2)
  /\ "Content-Length" \notin DOMAIN c.header

\* What the context is after the head was tried to be written, and the head.
Started(c, q) ==
  [c EXCEPT !.chunked = @ /\ Chunkable(c, q), !.started = @ \/ ~broken]

HeadOf(c) == [k |-> "head", status |-> c.status, header |-> c.header, chunked |-> c.chunked]

stream_start(c, q) ==
  IF c.started THEN [c |-> c, out |-> <<>>]
  ELSE [c |-> Started(c, q), out |-> IF broken THEN <<>> ELSE <<HeadOf(Started(c, q))>>]

\* Each write is one chunk.
stream_write(c, q, pieces) ==
  LET s == stream_start(c, q)
  IN  [c |-> s.c,
       out |-> IF broken THEN <<>>
               ELSE s.out \o [i \in DOMAIN pieces |->
                                [k |-> "data", bytes |-> pieces[i], framed |-> s.c.chunked]]]

stream_finish_ends(c, q) ==
  LET s == stream_start(c, q)
  IN  [c |-> [s.c EXCEPT !.finished = s.c.started],
       out |-> s.out \o (IF ~broken THEN <<[k |-> "end"]>> ELSE <<>>)]
stream_finish(c, q) ==
  LET s == stream_start(c, q)
  IN  [c |-> [s.c EXCEPT !.finished = s.c.started],
       out |-> s.out \o (IF s.c.chunked /\ ~broken THEN <<[k |-> "end"]>> ELSE <<>>)]

-----------------------------------------------------------------------------
(* The object.                                                             *)

Init ==
  /\ opts \in Settings
  /\ body = [bytes |-> [i \in 1 .. FirstBody |-> <<"b", i>>], mtime |-> 1]
  /\ ctx = ContextOf("sapi", opts.request)
  /\ sapi = ctx
  /\ r = <<>>
  /\ pc = "idle"
  /\ out = <<>>
  /\ broken = FALSE
  /\ result = "none"
  /\ calls = 0

Call ==
  /\ pc = "idle" /\ calls < MaxCalls
  /\ calls' = calls + 1
  /\ UNCHANGED <<ctx, r, pc, out, broken, result, sapi>>

set_option(name, value) == Call /\ opts' = [opts EXCEPT ![name] = value] /\ UNCHANGED body

setEnvRequest(q) == set_option("request", q)
setContentType(t) == set_option("type", t)
setContentDisposition(d) == set_option("disposition", d)
setContentEncoding(ce) == set_option("gzip", ce)
setCacheControl(cc) == set_option("cache", cc)
setLastModified(t) == set_option("lm", t)
setEtag(t) == set_option("etag", t)
setThrottleRate(n) == set_option("chunk", n)

\* A cookie list is known by the names of its cookies and replaces the lists
\* that were set with one of them.
setCookie(names) == set_option("cookies", [n \in names |-> names] @@ opts.cookies)

isCachedByEtag == Call /\ opts' = WithEtag(opts) /\ UNCHANGED body
isCachedByLastModified == Call /\ opts' = WithLm(opts) /\ UNCHANGED body

\* ob_start($response): output is appended to the body, or clears it.
invoke(clean) ==
  /\ Call
  /\ body' = [bytes |-> IF clean THEN <<>> ELSE Append(body.bytes, <<"b", Len(body.bytes) + 1>>),
              mtime |-> body.mtime + 1]
  /\ UNCHANGED opts

-----------------------------------------------------------------------------
(* send().                                                                 *)

Sending(c) ==
  [range |-> "no", ranges |-> <<>>, done |-> FALSE, buffer |-> BufferInit(0, FALSE),
   enc |-> "none", pend |-> <<>>, length |-> Len(body.bytes), parts |-> <<>>,
   pos |-> 0, forlen |-> 0, ret |-> "ok", asked |-> opts.request, sent |-> body,
   former |-> c.status]

send(kind) ==
  /\ pc = "idle" /\ calls < MaxCalls
  /\ calls' = calls + 1
  /\ sapi' = IF ctx.kind = "sapi" THEN ctx ELSE sapi
  /\ ctx' = IF kind = "stream" THEN ContextOf("stream", opts.request) ELSE sapi'
  /\ r' = Sending(ctx')
  /\ out' = <<>>
  /\ broken' = FALSE
  /\ result' = "none"
  /\ pc' = "ranges"
  /\ UNCHANGED <<opts, body>>

PeerGone ==
  /\ pc # "idle" /\ ~broken /\ ctx.kind = "stream"
  /\ broken' = TRUE
  /\ UNCHANGED <<opts, body, ctx, r, pc, out, result, calls, sapi>>

Return(ok) == pc' = "idle" /\ result' = IF ok THEN "true" ELSE "false"

Failed(x, y) == x = "miss" \/ y = "miss"

\* The part of php_http_env_response_send() before the head.
CheckRanges ==
  LET q == opts.request
      v == get_request_ranges(q, r.length)
      tagged == WithEtag(opts)
      both == WithLm(tagged)
      ifRange == Failed(is_response_cached_by_etag(opts, q.ifRange),
                        is_response_cached_by_last_modified(opts, q.ifRange))
      ifMatch == Failed(is_response_cached_by_etag(opts, q.ifMatch),
                        is_response_cached_by_last_modified(opts, q.ifUnmodified))
      base == set_header(ctx, Emit("Accept-Ranges", "bytes"))
  IN  /\ pc = "ranges"
      /\ IF Refused(ctx) THEN Return(FALSE) /\ UNCHANGED <<opts, ctx, r>>
         ELSE /\ pc' = "head"
              /\ result' = result
              /\ CASE v.status = "no" -> ctx' = base /\ UNCHANGED <<opts, r>>
                   [] v.status = "err" /\ q.ifRange # NoHeader ->
                        ctx' = base /\ UNCHANGED <<opts, r>>
                   [] v.status = "err" /\ q.ifRange = NoHeader ->
                        /\ r' = [r EXCEPT !.range = "err", !.done = TRUE]
                        /\ ctx' = set_header(set_status(base, 416),
                                             Emit("Content-Range", <<"*", r.length>>))
                        /\ UNCHANGED opts
                   [] v.status = "ok" /\ ifRange ->
                        /\ ctx' = base
                        /\ opts' = IF is_response_cached_by_etag(opts, q.ifRange) = "miss"
                                   THEN tagged ELSE both
                        /\ UNCHANGED r
                   [] v.status = "ok" /\ ~ifRange /\ ifMatch ->
                        /\ r' = [r EXCEPT !.range = "ok", !.done = TRUE]
                        /\ ctx' = set_status(base, 412)
                        /\ opts' = both
                   [] OTHER ->
                        /\ r' = [r EXCEPT !.range = "ok", !.ranges = v.ranges]
                        /\ ctx' = base
                        /\ opts' = both
      /\ UNCHANGED <<body, out, broken, calls, sapi>>

\* php_http_env_response_send_head(): what is set whatever the range is,
CommonHead(c) ==
  LET o == set_header(c, opts.headers)
      s == IF opts.code > 0 THEN set_status(o, opts.code) ELSE o
      v == IF opts.minor # -1 THEN set_protocol_version(s, opts.minor) ELSE s
      k == [v EXCEPT !.header = FoldLeft(LAMBDA h, n : Added(h, "Set-Cookie", opts.cookies[n]),
                                         @, SetToSeq(DOMAIN opts.cookies))]
  IN  IF opts.type # "" THEN set_header(k, Emit("Content-Type", opts.type)) ELSE k

\* for a partial response,
RangeHead(c) ==
  set_header(set_status(c, 206),
             IF Len(r.ranges) = 1
             THEN Emit("Content-Range", <<r.ranges[1][1], r.ranges[1][2], r.length>>)
             ELSE Emit("Content-Type", "multipart/byteranges"))

\* and for a whole one.
Encodes(q) == opts.gzip /\ q.gzip
PlainHead(c, q) ==
  LET cc == IF opts.cache # "" THEN set_header(c, Emit("Cache-Control", opts.cache)) ELSE c
      cd == IF opts.disposition # ""
            THEN set_header(cc, Emit("Content-Disposition", opts.disposition)) ELSE cc
  IN  CASE Encodes(q) -> add_header(set_header(cd, Emit("Content-Encoding", "gzip")),
                                    "Vary", "Accept-Encoding")
        [] opts.gzip /\ ~q.gzip -> add_header(del_header(cd, "Content-Encoding"),
                                              "Vary", "Accept-Encoding")
        [] OTHER -> del_header(cd, "Content-Encoding")

NotModified(q) ==
  LET byTag == is_response_cached_by_etag(opts, q.ifNoneMatch)
  IN  byTag = "hit" \/ (byTag = "no" /\ is_response_cached_by_last_modified(opts, q.ifModified) = "hit")

CacheHead(c, q) ==
  LET o == IF is_response_cached_by_etag(opts, q.ifNoneMatch) = "no" THEN WithLm(WithEtag(opts))
           ELSE WithEtag(opts)
      s == IF NotModified(q) THEN set_status(c, 304) ELSE c
  IN  set_header(s, Emit("ETag", o.etag)
                      @@ (IF o.lm # 0 THEN Emit("Last-Modified", o.lm) ELSE <<>>))

SendHead ==
  LET q == opts.request
      c == CommonHead(ctx)
      p == PlainHead(c, q)
      cacheable == response_is_cacheable(p, q)
  IN  /\ pc = "head"
      /\ pc' = "body"
      /\ CASE r.done -> UNCHANGED <<ctx, opts, r>>
           [] ~r.done /\ r.range = "ok" -> ctx' = RangeHead(c) /\ UNCHANGED <<opts, r>>
           [] ~r.done /\ r.range # "ok" ->
                /\ ctx' = IF cacheable THEN CacheHead(p, q) ELSE p
                /\ opts' = CASE ~cacheable -> opts
                             [] cacheable /\ is_response_cached_by_etag(opts, q.ifNoneMatch) = "no" ->
                                  WithLm(WithEtag(opts))
                             [] OTHER -> WithEtag(opts)
                /\ r' = [r EXCEPT !.done = cacheable /\ NotModified(q),
                                  !.enc = IF Encodes(q) THEN "gzip" ELSE "none"]
      /\ UNCHANGED <<body, out, broken, result, calls, sapi>>

\* The callback gets data that was read, or NULL at the end.
NoData == <<>>

\* The size of the chunks the buffer lets out: all that is there at the end.
OutputChunk(data) ==
  IF data = NoData THEN 0 ELSE IF opts.chunk # 0 THEN opts.chunk ELSE SendBuf

\* php_http_env_response_send_data(): through the encoder, which holds back what
\* it likes, and the buffer, which lets whole chunks out.  The set of outcomes.
Encoded(s) == [i \in DOMAIN s |-> IF s[i][1] = "b" THEN <<"z", s[i][2]>> ELSE s[i]]

send_data(x, data) ==
  LET q == opts.request
      all == x.pend \o Encoded(data)
      cuts == CASE x.enc = "none" -> {0}
                [] x.enc # "none" /\ data = NoData -> {Len(all)}
                [] OTHER -> 0 .. Len(all)
      given(n) == CASE x.enc = "none" -> data
                    [] x.enc # "none" /\ data = NoData -> all \o <<<<"z-end">>>>
                    [] OTHER -> SubSeq(all, 1, n)
  IN  {LET o == ChunkedOutput(x.buffer, given(n), OutputChunk(data), IF broken THEN 1 ELSE 0)
           w == IF o.chunks = <<>> THEN [c |-> ctx, out |-> <<>>]
                ELSE stream_write(ctx, q, o.chunks)
       IN  [r |-> [x EXCEPT !.buffer = o.buffer,
                            !.pend = IF x.enc = "none" THEN <<>> ELSE SubSeq(all, n + 1, Len(all))],
            c |-> w.c, out |-> w.out, ok |-> ~o.failed] : n \in cuts}

\* php_http_env_response_send_body(): the pieces of the body to send, each with
\* the header that precedes it.
PieceShort(range) ==
  [begin |-> range[1], forlen |-> range[2] - range[1],
   header |-> IF Len(r.ranges) > 1 THEN <<<<"part", range[1], range[2]>>>> ELSE <<>>]
Piece(range) == [begin |-> range[1], forlen |-> range[2] - range[1] + 1,
                 header |-> IF Len(r.ranges) > 1 THEN <<<<"part", range[1], range[2]>>>> ELSE <<>>]
Pieces ==
  IF r.range = "ok" THEN [i \in DOMAIN r.ranges |-> Piece(r.ranges[i])]
  ELSE <<[begin |-> 0, forlen |-> 0, header |-> <<>>]>>

SendBody ==
  /\ pc = "body"
  /\ IF r.done THEN pc' = "finish" /\ UNCHANGED r
     ELSE /\ pc' = "part"
          /\ r' = [r EXCEPT !.parts = Pieces]
  /\ UNCHANGED <<opts, body, ctx, out, broken, result, calls, sapi>>

\* The next range: its header goes to the buffer, and the stream is positioned,
\* if it can be: a negative offset leaves it where it is.  A forlen of 0 is
\* unlimited, here -1, and so is one that was negative before it became a size_t.
NextPart ==
  LET p == Head(r.parts) IN
  /\ pc = "part" /\ r.parts # <<>>
  /\ pc' = "read"
  /\ r' = [r EXCEPT !.parts = Tail(@), !.ret = "ok",
                    !.pos = IF p.begin >= 0 THEN p.begin ELSE @,
                    !.forlen = IF p.forlen <= 0 THEN -1 ELSE p.forlen,
                    !.buffer = BufferAppend(@, p.header)]
  /\ UNCHANGED <<opts, body, ctx, out, broken, result, calls, sapi>>

AtMost(n, limit) == IF limit # -1 /\ limit < n THEN limit ELSE n

\* One round of php_http_message_body_to_callback().  The zend_result of
\* send_data() is compared with -1 as a size_t: a failure may go unnoticed.
ReadBody ==
  LET left == SubSeq(body.bytes, r.pos + 1, Len(body.bytes))
      n == AtMost(AtMost(ReadSize, r.forlen), Len(left))
  IN  /\ pc = "read"
      /\ \E s \in IF n = 0 THEN {[r |-> r, c |-> ctx, out |-> <<>>, ok |-> TRUE]}
                  ELSE send_data(r, SubSeq(left, 1, n)),
            seen \in BOOLEAN :
           /\ seen => ~s.ok
           /\ ctx' = s.c
           /\ out' = out \o s.out
           /\ r' = [s.r EXCEPT !.pos = @ + n,
                               !.forlen = IF @ = -1 THEN @ ELSE @ - n,
                               !.ret = IF seen THEN "failed" ELSE @]
           /\ pc' = IF \/ seen
                       \/ n < AtMost(PtrSize, r.forlen)
                       \/ n = r.forlen
                       \/ n = Len(left)
                    THEN "part" ELSE "read"
      /\ UNCHANGED <<opts, body, broken, result, calls, sapi>>

\* The closing boundary, and the rest of encoder and buffer.
SendDone ==
  /\ pc = "part" /\ r.parts = <<>>
  /\ IF r.ret = "failed"
     THEN Return(FALSE) /\ UNCHANGED <<ctx, r, out>>
     ELSE \E s \in send_data(IF Len(r.ranges) > 1
                             THEN [r EXCEPT !.buffer = BufferAppend(@, <<<<"close">>>>)] ELSE r,
                             NoData) :
            /\ ctx' = s.c
            /\ out' = out \o s.out
            /\ r' = s.r
            /\ IF s.ok THEN pc' = "finish" /\ UNCHANGED result ELSE Return(FALSE)
  /\ UNCHANGED <<opts, body, broken, calls, sapi>>

Finish ==
  LET f == stream_finish(ctx, opts.request) IN
  /\ pc = "finish"
  /\ IF ctx.kind = "sapi" THEN Return(TRUE) /\ UNCHANGED <<ctx, out>>
     ELSE /\ ctx' = f.c
          /\ out' = out \o f.out
          /\ Return(f.c.started)
  /\ UNCHANGED <<opts, body, r, broken, calls, sapi>>

-----------------------------------------------------------------------------
Set ==
  \/ \E q \in Requests : setEnvRequest(q)
  \/ \E t \in {"", "text/plain"} : setContentType(t)
  \/ setContentDisposition("attachment")
  \/ setContentEncoding(TRUE)
  \/ setCacheControl("private")
  \/ \E t \in 0 .. 2 : setLastModified(t)
  \/ setEtag(<<"own">>)
  \/ setThrottleRate(1)
  \/ \E n \in SUBSET {"c1", "c2"} : n # {} /\ setCookie(n)

Next ==
  \/ Set
  \/ isCachedByEtag
  \/ isCachedByLastModified
  \/ \E clean \in BOOLEAN : invoke(clean)
  \/ \E kind \in {"sapi", "stream"} : send(kind)
  \/ PeerGone
  \/ CheckRanges \/ SendHead \/ SendBody \/ NextPart \/ ReadBody \/ SendDone \/ Finish

Spec == Init /\ [][Next]_vars
-----------------------------------------------------------------------------
(* What a client may rely on.                                              *)

DataOf(i) == IF i.k = "data" THEN i.bytes ELSE <<>>
BytesOf(o) == FlattenSeq([i \in DOMAIN o |-> DataOf(o[i])])
Bytes == BytesOf(out)

\* The Range header that asks for `specs', pairs of a first and a last position with
\* -1 for one that is left out.
Digits(n) ==
  LET digits[k \in 0 .. n] == IF k < 10 THEN <<k>> ELSE Append(digits[k \div 10], k % 10)
  IN  digits[n]
Position(n) == IF n = -1 THEN <<>> ELSE Digits(n)
Spelled(spec) == Position(spec[1]) \o <<Dash>> \o Position(spec[2])
RangeHeader(specs) ==
  FlattenSeq([i \in DOMAIN specs |-> (IF i = 1 THEN <<>> ELSE <<Comma>>) \o Spelled(specs[i])])

SpecSet == (Nat \cup {-1}) \X (Nat \cup {-1})
Asks(q) == q.specs \in Seq(SpecSet) /\ q.range = RangeHeader(q.specs)

\* Every request is made of the ranges it asks for, and no script sets one of the
\* statuses that send() gives a meaning to.
RangesSpelled == \A q \in Requests \cup {s.request : s \in Settings} : Asks(q)
OwnCodes == Int \ {206, 304, 412, 416}
OwnStatus == \A s \in Settings : "code" \in DOMAIN s /\ s.code \in OwnCodes

\* What the request asked for, from the ranges it was made of.
FirstAsked(spec, length) ==
  IF spec[1] # -1 THEN spec[1] ELSE IF spec[2] >= length THEN 0 ELSE length - spec[2]
LastAsked(spec, length) ==
  IF spec[1] = -1 \/ spec[2] = -1 \/ spec[2] >= length THEN length - 1 ELSE spec[2]
Slice(b, e) == SubSeq(r.sent.bytes, b + 1, e + 1)
Asked == [i \in DOMAIN r.asked.specs |->
            <<FirstAsked(r.asked.specs[i], r.length), LastAsked(r.asked.specs[i], r.length)>>]

Whole == IF r.enc = "none" THEN r.sent.bytes ELSE Encoded(r.sent.bytes) \o <<<<"z-end">>>>
Partial ==
  IF Len(Asked) = 1 THEN Slice(Asked[1][1], Asked[1][2])
  ELSE FlattenSeq([i \in DOMAIN Asked |-> <<<<"part", Asked[i][1], Asked[i][2]>>>>
                                           \o Slice(Asked[i][1], Asked[i][2])])
         \o <<<<"close">>>>

\* php_http_env_get_request_ranges(), "validate ranges": every range that is
\* served lies within the body.
RangesInBody ==
  r # <<>> =>
    \A i \in DOMAIN r.ranges :
      0 <= r.ranges[i][1] /\ r.ranges[i][1] <= r.ranges[i][2] /\ r.ranges[i][2] < r.length

\* php_http_env_response_send(): a response that went out completely carries the
\* bytes its status announces: all of them, the ranges that were asked for, in
\* their order and each under its own header, or none at all.  Not claimed of
\* ranges outside the body, and of a SAPI whose status a former send() that put
\* out no data has left behind.
BodyAsAnnounced ==
  /\ result = "true" /\ ~broken /\ RangesInBody
  /\ r.former = 200
  =>
    Bytes = CASE ctx.status = 206 -> Partial
              [] ctx.status \in {304, 412, 416} -> <<>>
              [] OTHER -> Whole

\* The head goes out once, before any data, with the status and the headers that
\* were set; what follows is framed as the head says, and ended once.
HeadFramesBody ==
  ctx.kind = "stream" /\ out # <<>> =>
    /\ out[1].k = "head" /\ out[1].status = ctx.status /\ out[1].header = ctx.header
    /\ \A i \in 2 .. Len(out) :
         /\ out[i].k = "data" => out[i].framed = out[1].chunked
         /\ out[i].k = "end" => out[1].chunked /\ i = Len(out)
         /\ out[i].k # "head"
    /\ result = "true" /\ ~broken /\ out[1].chunked => out[Len(out)].k = "end"

=============================================================================
