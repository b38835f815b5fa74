--------------------------- MODULE EncodingStream ---------------------------
(***************************************************************************)
(* php_http_encoding_stream_t with its zlib and brotli operations, as      *)
(* operators on a stream record.  zlib and libbrotli are external: a       *)
(* compressed byte is a token, which says what a decoder does with it, and *)
(* a call into the library is the set of results it may have.  A result    *)
(* carries the stream afterwards, the output and whether it is SUCCESS.    *)
(***************************************************************************)
EXTENDS Buffer, FiniteSets

CONSTANTS
  Byte,           \* the uncompressed bytes
  MaxRun,         \* equal bytes one token can stand for
  ZWindow,        \* bytes deflate() may hold back without a flush
  DeflateBuffer,  \* PHP_HTTP_DEFLATE_BUFFER_SIZE
  GuessSlack,     \* what PHP_HTTP_DEFLATE_BUFFER_SIZE_GUESS() adds to a length
  InflateRounds,  \* PHP_HTTP_INFLATE_ROUNDS
  EnbrotliRounds, \* PHP_HTTP_ENBROTLI_ROUNDS
  Ring            \* output libbrotli hands out at a time

ASSUME EncodingAssumption ==
  /\ {MaxRun, ZWindow, DeflateBuffer, GuessSlack, InflateRounds, EnbrotliRounds,
    Ring} \subseteq Nat \ {0}

Lesser(a, b) == IF a <= b THEN a ELSE b
Prefix(seq, n) == SubSeq(seq, 1, Lesser(n, Len(seq)))
Drop(seq, n) == SubSeq(seq, n + 1, Len(seq))

\* h1 and h2 are the zlib or gzip header, sum its trailer, mark the end of a
\* flushed block; the last run of a stream says so itself.
Tok(t, seq, last) == [t |-> t, run |-> seq, last |-> last]
Head1 == Tok("h1", <<>>, FALSE)
Head2 == Tok("h2", <<>>, FALSE)
Mark  == Tok("mark", <<>>, FALSE)
Trailer == Tok("sum", <<>>, FALSE)

RunOf(p) ==
  LET n == CHOOSE n \in 1 .. Lesser(Len(p), MaxRun) :
             /\ \A i \in 1 .. n : p[i] = p[1]
             /\ n < Lesser(Len(p), MaxRun) => p[n + 1] # p[1]
  IN  SubSeq(p, 1, n)

RECURSIVE Tokens(_, _)
Tokens(p, last) ==
  IF p = <<>> THEN IF last THEN <<Tok("run", <<>>, TRUE)>> ELSE <<>>
  ELSE LET r == RunOf(p)
           end == last /\ Len(r) = Len(p)
       IN  <<Tok("run", r, end)>> \o (IF end THEN <<>> ELSE Tokens(Drop(p, Len(r)), last))

-----------------------------------------------------------------------------
(* The libraries.                                                          *)

Compressor(raw) ==
  [raw |-> raw, started |-> FALSE, pend |-> <<>>, outq |-> <<>>,
   flushed |-> FALSE, fin |-> FALSE]

\* deflate() takes n bytes of its input, writes what fits and keeps the rest:
\* z.pend is input it has not encoded, z.outq output there was no room for.
Encoded(z, in, flush, emit) ==
  IF z.fin THEN z.outq
  ELSE z.outq \o (IF z.started \/ z.raw THEN <<>> ELSE <<Head1, Head2>>)
              \o (IF emit THEN Tokens(z.pend \o in, flush = "finish") ELSE <<>>)
              \o (CASE flush = "finish" /\ ~z.raw -> <<Trailer>>
                    [] flush = "full" -> <<Mark>>
                    [] OTHER -> <<>>)

DeflateResult(z, in, n, flush, emit, q, avail_out) ==
  [z |-> [z EXCEPT !.started = TRUE, !.pend = IF emit THEN <<>> ELSE z.pend \o Prefix(in, n),
                   !.outq = Drop(q, avail_out), !.fin = (flush = "finish"),
                   !.flushed = (flush = "full")],
   taken |-> n, out |-> Prefix(q, avail_out),
   status |-> CASE flush # "finish" -> "OK"
                [] flush = "finish" /\ Len(q) <= avail_out -> "STREAM_END"
                [] OTHER -> "BUF_ERROR"]

\* It leaves input alone only once the output is full, holds input back only
\* when it need not flush, and fails when there is nothing it could do.
Stuck(z, in, flush) ==
  /\ in = <<>> /\ z.outq = <<>> /\ z.started
  /\ flush = "no" \/ (flush = "full" /\ z.flushed)

deflate(z, in, flush, avail_out) ==
  IF Stuck(z, in, flush)
  THEN {[z |-> z, taken |-> 0, out |-> <<>>, status |-> "BUF_ERROR"]}
  ELSE {r \in {DeflateResult(z, in, n, flush, emit, Encoded(z, Prefix(in, n), flush, emit), avail_out) :
                 n \in 0 .. Len(in), emit \in {e \in BOOLEAN : e \/ flush = "no"}} :
          /\ r.z.pend = <<>> \/ (Len(r.z.pend) <= ZWindow)
          /\ r.taken < Len(in) => flush # "finish" /\ Len(r.out) = avail_out}

Expander(raw) ==
  [raw |-> raw, mode |-> IF raw THEN "data" ELSE "head", held |-> <<>>,
   pend |-> <<>>, total |-> 0, fin |-> FALSE]

\* One token of input: the header is checked when both bytes of it are there,
\* so a first byte that is no header is taken all the same.
Expand(z, tok) ==
  CASE z.mode = "head" /\ z.held = <<>> -> [z EXCEPT !.held = <<tok>>]
    [] z.mode = "head" /\ z.held # <<>> ->
         [z EXCEPT !.mode = IF z.held = <<Head1>> /\ tok = Head2 THEN "data" ELSE "bad"]
    [] z.mode = "data" /\ tok.t = "run" ->
         [z EXCEPT !.pend = tok.run,
                   !.mode = IF ~tok.last THEN "data" ELSE IF z.raw THEN "end" ELSE "sum"]
    [] z.mode = "data" /\ tok.t = "mark" -> z
    [] z.mode = "sum" /\ tok.t = "sum" -> [z EXCEPT !.mode = "end"]
    [] OTHER -> [z EXCEPT !.mode = "bad"]

\* inflate(), and BrotliDecoderDecompressStream(): output before input, until
\* the room or the input is used up.
RECURSIVE Inflate(_, _, _, _)
Inflate(z, in, room, r) ==
  CASE z.pend # <<>> /\ room > 0 ->
         LET n == Lesser(room, Len(z.pend)) IN
         Inflate([z EXCEPT !.pend = Drop(@, n), !.total = @ + n], in, room - n,
                 [out |-> r.out \o Prefix(z.pend, n), moved |-> TRUE])
    [] z.pend = <<>> /\ z.mode \notin {"end", "bad"} /\ in # <<>> ->
         Inflate(Expand(z, Head(in)), Tail(in), room, [r EXCEPT !.moved = TRUE])
    [] OTHER ->
         [z |-> z, rest |-> in, out |-> r.out,
          status |-> CASE z.mode = "bad" -> "DATA_ERROR"
                       [] z.mode = "end" /\ z.pend = <<>> -> "STREAM_END"
                       [] OTHER -> IF r.moved THEN "OK" ELSE "BUF_ERROR"]

inflate(z, in, avail_out) == Inflate(z, in, avail_out, [out |-> <<>>, moved |-> FALSE])

-----------------------------------------------------------------------------
(* Streams.  `buf' is the input zlib has not taken yet, in ctx->opaque;    *)
(* the flags that matter are raw, full (flush with every update) and dirty.*)

Stream(ops, flags, z) ==
  [ops |-> ops, flags |-> flags, z |-> z, buf |-> BufferInit(DeflateBuffer, FALSE)]

deflate_init(flags)  == Stream("deflate", flags, Compressor("raw" \in flags))
inflate_init(flags)  == Stream("inflate", flags, Expander("raw" \in flags))
enbrotli_init(flags) == Stream("enbrotli", flags, Compressor(TRUE))
debrotli_init(flags) == Stream("debrotli", flags, Expander(TRUE))

Result(s, out, ok) == [s |-> s, out |-> out, ok |-> ok]

\* The input that was taken is cut off the buffer.
Consume(buf, left) ==
  IF left # 0 THEN BufferCut(buf, 0, buf.used - left) ELSE BufferReset(buf)

FlushFlag(s) == IF "full" \in s.flags THEN "full" ELSE "no"

\* The room is guessed from the new data alone, whatever zlib has held back.
deflate_update(s, data) ==
  UNION {{IF r.status = "OK"
          THEN Result([s EXCEPT !.z = r.z, !.buf = Consume(buf, buf.used - r.taken)], r.out, TRUE)
          ELSE Result([s EXCEPT !.z = r.z, !.buf = buf], <<>>, FALSE) :
          r \in deflate(s.z, BufferData(buf), FlushFlag(s), Len(data) + GuessSlack)} :
         buf \in {BufferAppend(s.buf, data)}}

\* Mutant: zlib is asked for nothing more than a block.
deflate_flush_partial(s) ==
  {Result([s EXCEPT !.z = r.z], r.out, TRUE) : r \in deflate(s.z, <<>>, "no", DeflateBuffer)}

deflate_flush(s) ==
  {Result([s EXCEPT !.z = r.z], IF r.status = "OK" THEN r.out ELSE <<>>, r.status = "OK") :
     r \in deflate(s.z, <<>>, "full", DeflateBuffer)}

\* Mutant: the input update() left in the buffer is forgotten.
deflate_finish_rest(s) ==
  {Result([s EXCEPT !.z = r.z], r.out, r.status = "STREAM_END") :
     r \in deflate(s.z, <<>>, "finish", DeflateBuffer)}

deflate_finish(s) ==
  {IF r.status = "STREAM_END"
   THEN Result([s EXCEPT !.z = r.z, !.buf = BufferCut(@, 0, r.taken)], r.out, TRUE)
   ELSE Result([s EXCEPT !.z = r.z], <<>>, FALSE) :
     r \in deflate(s.z, BufferData(s.buf), "finish", DeflateBuffer)}

\* php_http_inflate_rounds(): a growing output buffer, as long as there is
\* input left and for at most InflateRounds calls.
MoreRounds(r, round) ==
  /\ r.status = "BUF_ERROR" \/ (r.status = "OK" /\ r.rest # <<>>)
  /\ round + 1 < InflateRounds

Roomy(b) == BufferResize(b, b.size, 0)
Larger(b) == [b EXCEPT !.size = @ + @ \div 8]

RECURSIVE InflateRound(_, _, _, _), InflateRounded(_, _, _)
InflateRound(z, in, b, round) == InflateRounded(inflate(z, in, b.free), b, round)
InflateRounded(r, b, round) ==
  IF MoreRounds(r, round)
  THEN InflateRound(r.z, r.rest, Roomy(Larger(Filled(b, r.out))), round + 1)
  ELSE [z |-> r.z, rest |-> r.rest, status |-> r.status,
        buffer |-> IF r.status \in {"OK", "STREAM_END"}
                   THEN BufferFix(BufferShrink(Filled(b, r.out)))
                   ELSE BufferDtor(b)]

inflate_rounds(z, in) == InflateRound(z, in, Roomy(BufferInit(Len(in), TRUE)), 0)

\* A stream that turns out to have no header is tried again as raw data, if
\* nothing was decoded yet.
RetryRaw(s, r) == r.status = "DATA_ERROR" /\ "raw" \notin s.flags /\ r.z.total = 0

inflate_first(s, buf) ==
  {IF RetryRaw(s, r)
   THEN [s |-> [s EXCEPT !.flags = @ \cup {"raw"}], buf |-> buf,
         r |-> inflate_rounds(Expander(TRUE), BufferData(buf))]
   ELSE [s |-> s, buf |-> buf, r |-> r] : r \in {inflate_rounds(s.z, BufferData(buf))}}

inflate_update(s, data) ==
  {IF i.r.status \in {"OK", "STREAM_END"}
   THEN Result([i.s EXCEPT !.z = i.r.z, !.buf = Consume(i.buf, Len(i.r.rest))],
               BufferData(i.r.buffer), TRUE)
   ELSE Result([i.s EXCEPT !.z = i.r.z, !.buf = i.buf], <<>>, FALSE) :
     i \in inflate_first(s, BufferAppend(s.buf, data))}

inflate_finish(s) ==
  IF s.buf.used = 0 THEN {Result(s, <<>>, TRUE)}
  ELSE {IF r.status = "STREAM_END"
        THEN Result([s EXCEPT !.z = r.z, !.buf = BufferCut(@, 0, @.used - Len(r.rest))],
                    r.out, TRUE)
        ELSE Result([s EXCEPT !.z = r.z], <<>>, FALSE) :
          r \in {inflate(s.z, BufferData(s.buf), (s.buf.used + 1) * InflateRounds)}}

\* The brotli encoder takes all of its input, and with an empty one its status
\* is read uninitialised.
enbrotli_update(s, data) ==
  IF data = <<>> THEN {Result(s, <<>>, ok) : ok \in BOOLEAN}
  ELSE {Result([s EXCEPT !.z = r.z], r.out, TRUE) :
          r \in {d \in deflate(s.z, data, FlushFlag(s),
                               Len(s.z.pend) + Len(s.z.outq) + Len(data) + 2) :
                   d.taken = Len(data)}}

\* Output is taken Ring tokens at a time, at most EnbrotliRounds times.
enbrotli_flush_ex(s, op) ==
  {IF (Len(r.out) + Ring - 1) \div Ring < EnbrotliRounds
   THEN Result([s EXCEPT !.z = r.z], r.out, TRUE)
   ELSE Result([s EXCEPT !.z = r.z], <<>>, FALSE) :
     r \in deflate(s.z, <<>>, op, Len(s.z.pend) + Len(s.z.outq) + 2)}

\* while (in_len): each round decodes Ring bytes.  The set is empty when the loop
\* does not end: a decoder that is done takes no more input.
RECURSIVE Decompress(_, _, _, _)
Decompress(s, r, in, out) ==
  CASE in = <<>> -> {Result(s, out, TRUE)}
    [] in # <<>> /\ r.status = "DATA_ERROR" -> {Result([s EXCEPT !.z = r.z], <<>>, FALSE)}
    [] in # <<>> /\ r.status = "STREAM_END" /\ r.rest # <<>> -> {}
    [] OTHER -> Decompress([s EXCEPT !.z = r.z], inflate(r.z, r.rest, Ring), r.rest, out \o r.out)

debrotli_update(s, data) ==
  IF data = <<>> THEN {Result(s, <<>>, ok) : ok \in BOOLEAN} 
  ELSE Decompress(s, inflate(s.z, data, Ring), data, <<>>)

-----------------------------------------------------------------------------
(* php_http_encoding_stream_*(): the operations a kind of stream lacks     *)
(* succeed with no output.                                                 *)

StreamUpdate(s, data) ==
  {[r EXCEPT !.s.flags = @ \cup {"dirty"}] :
     r \in CASE s.ops = "deflate"  -> deflate_update(s, data)
             [] s.ops = "inflate"  -> inflate_update(s, data)
             [] s.ops = "enbrotli" -> enbrotli_update(s, data)
             [] s.ops = "debrotli" -> debrotli_update(s, data)}

StreamFlush(s) ==
  CASE s.ops = "deflate"  -> deflate_flush(s)
    [] s.ops = "enbrotli" -> enbrotli_flush_ex(s, "full")
    [] OTHER -> {Result(s, <<>>, TRUE)}

\* Until the encoder is finished; only the last round's output is returned.
Finished(z) == z.fin /\ z.outq = <<>>
RECURSIVE enbrotli_finish(_)
enbrotli_finish(s) ==
  UNION {IF r.ok /\ ~Finished(r.s.z) THEN enbrotli_finish(r.s) ELSE {r} : r \in enbrotli_flush_ex(s, "finish")}

StreamFinish(s) ==
  CASE s.ops = "deflate"  -> deflate_finish(s)
    [] s.ops = "inflate"  -> inflate_finish(s)
    [] s.ops = "enbrotli" -> enbrotli_finish(s)
    [] s.ops = "debrotli" -> {Result([s EXCEPT !.flags = @ \ {"dirty"}], <<>>, TRUE)}

zlib_done(s) == s.buf.used = 0
enbrotli_done(s) == "dirty" \notin s.flags \/ Finished(s.z)
debrotli_done(s) == s.z = Expander(TRUE) \/ (s.z.mode = "end" /\ s.z.pend = <<>>)

StreamDone(s) ==
  CASE s.ops \in {"deflate", "inflate"} -> zlib_done(s)
    [] s.ops = "enbrotli" -> enbrotli_done(s)
    [] s.ops = "debrotli" -> debrotli_done(s)

StreamInit(ops, flags) ==
  CASE ops = "deflate"  -> deflate_init(flags)
    [] ops = "inflate"  -> inflate_init(flags)
    [] ops = "enbrotli" -> enbrotli_init(flags)
    [] ops = "debrotli" -> debrotli_init(flags)

\* dtor and init again; whatever flags the stream has by now stay set.
StreamReset(s) == StreamInit(s.ops, s.flags \ {"dirty"})

\* Only zlib streams can be copied: the copy gets the state of the library and
\* a buffer of its own with what is left of the input.
Copyable(s) == s.ops \in {"deflate", "inflate"}
Recopied(buf) == BufferAppend(BufferInit(DeflateBuffer, FALSE), BufferData(buf))
deflate_copy(s) == [s EXCEPT !.buf = Recopied(@)]
inflate_copy(s) == [s EXCEPT !.buf = Recopied(@)]
StreamCopy(s) == IF s.ops = "deflate" THEN deflate_copy(s) ELSE inflate_copy(s)
-----------------------------------------------------------------------------
(* The static methods, which convert a whole string.                       *)

\* php_http_encoding_deflate() and _enbrotli(), given enough room or failing.
DeflateAll(raw, data) ==
  {Result({}, r.out, r.status = "STREAM_END") :
     r \in deflate(Compressor(raw), data, "finish", Len(data) + GuessSlack)}
EnbrotliAll(data) == DeflateAll(TRUE, data)
EncodeAll(kind, data) ==
  IF kind = "brotli" THEN EnbrotliAll(data) ELSE DeflateAll(kind = "raw", data)

\* php_http_encoding_inflate(): the terminating NUL is passed along, so that zlib
\* has input left for a last call; anything but the end of the stream is an error.
NulTok == Tok("nul", <<>>, FALSE)

InflateAll(data) ==
  {IF r.status = "DATA_ERROR" THEN inflate_rounds(Expander(TRUE), data \o <<NulTok>>) ELSE r :
     r \in {inflate_rounds(Expander(FALSE), data \o <<NulTok>>)}}

DebrotliAll(data) == debrotli_update(debrotli_init({}), data)

DecodeAll(kind, data) ==
  IF kind = "brotli" THEN DebrotliAll(data)
  ELSE {IF r.status = "STREAM_END" THEN Result({}, BufferData(r.buffer), TRUE)
        ELSE Result({}, <<>>, FALSE) : r \in InflateAll(data)}
=============================================================================
