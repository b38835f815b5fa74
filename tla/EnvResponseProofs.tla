------------------------- MODULE EnvResponseProofs -------------------------
(***************************************************************************)
(* Proofs about EnvResponse: what goes out to the peer of a stream is      *)
(* framed as the head says, and what a complete response carries is what   *)
(* its status announces.                                                   *)
(***************************************************************************)
EXTENDS EnvResponse, SeqLemmas, SequenceTheorems, TLAPS

-----------------------------------------------------------------------------
(* The Range header is read character by character.                        *)

RangeState == [begin : Int, end : Int, ptr : {"begin", "end"}, ranges : Seq(Int \X Int),
               status : {"ok", "no", "err"}]

LEMMA ValidateTypes ==
  ASSUME NEW b \in Int, NEW e \in Int, NEW length \in Nat
  PROVE  Validate(b, e, length) \in (Int \X Int) \cup {<<"no">>, <<"err">>}
BY DEF Validate

LEMMA DigitTypes ==
  ASSUME NEW n \in Int, NEW c \in 0 .. 9
  PROVE  WithDigit(n, c) \in Int
BY DEF WithDigit

LEMMA RangeCharTypes ==
  ASSUME NEW s \in RangeState, NEW c \in 0 .. 13, NEW length \in Nat
  PROVE  RangeChar(s, c, length) \in RangeState
<1> DEFINE v == RangeOf(s, length)
<1>1. s.begin \in Int /\ s.end \in Int /\ s.ranges \in Seq(Int \X Int) /\ s.ptr \in {"begin", "end"}
  BY DEF RangeState
<1>2. v \in (Int \X Int) \cup {<<"no">>, <<"err">>}
  BY <1>1, ValidateTypes DEF RangeOf
<1> HIDE DEF v
<1>3. /\ c \in 0 .. 9 => WithDigit(s.begin, c) \in Int
      /\ c \in 0 .. 9 => WithDigit(s.end, c) \in Int
  BY <1>1, DigitTypes
<1>4. v \in Int \X Int => Append(s.ranges, v) \in Seq(Int \X Int)
  BY <1>1
<1>5. CASE s.status # "ok"
  BY <1>5 DEF RangeChar
<1>6. CASE s.status = "ok" /\ c \in 0 .. 9
  <2>1. \/ RangeChar(s, c, length) = [s EXCEPT !.begin = WithDigit(@, c)]
        \/ RangeChar(s, c, length) = [s EXCEPT !.end = WithDigit(@, c)]
    BY <1>1, <1>6 DEF RangeChar, Dash, Comma, Gap, End
  <2> QED BY <1>3, <1>6, <2>1 DEF RangeState
<1>7. CASE s.status = "ok" /\ c = Dash
  <2>1. RangeChar(s, c, length) = [s EXCEPT !.ptr = "end"]
    BY <1>7 DEF RangeChar, Dash, Comma, Gap, End
  <2> QED BY <2>1 DEF RangeState
<1>8. CASE s.status = "ok" /\ c \in {Comma, End}
  <2>1. \/ v \in {<<"no">>, <<"err">>} /\ RangeChar(s, c, length) = [s EXCEPT !.status = v[1]]
        \/ /\ v \notin {<<"no">>, <<"err">>}
           /\ RangeChar(s, c, length) =
                [s EXCEPT !.ranges = Append(@, v), !.begin = -1, !.end = -1, !.ptr = "begin"]
    BY <1>8 DEF RangeChar, Dash, Comma, Gap, End, v
  <2>2. CASE v \in {<<"no">>, <<"err">>}
    <3>1. v[1] \in {"ok", "no", "err"}
      BY <2>2
    <3> QED BY <2>1, <2>2, <3>1 DEF RangeState
  <2>3. CASE v \notin {<<"no">>, <<"err">>}
    <3>1. Append(s.ranges, v) \in Seq(Int \X Int) /\ -1 \in Int
      BY <1>2, <1>4, <2>3
    <3> QED BY <2>1, <2>3, <3>1 DEF RangeState
  <2> QED BY <2>2, <2>3
<1>9. CASE s.status = "ok" /\ c = Gap
  <2>1. RangeChar(s, c, length) = s
    BY <1>9 DEF RangeChar, Dash, Comma, Gap, End
  <2> QED BY <2>1
<1> QED BY <1>5, <1>6, <1>7, <1>8, <1>9 DEF Dash, Comma, Gap, End

\* f is what has been read after each of the first n characters.
Reads(f, n, text, length) ==
  f = [i \in 0 .. n |-> IF i = 0 THEN NoRanges ELSE RangeChar(f[i - 1], text[i], length)]

\* There is such a function: the least n without one would be an n after one with.
LEMMA ReadsExists ==
  ASSUME NEW text, NEW length, NEW n \in Nat
  PROVE  \E f : Reads(f, n, text, length)
<1> DEFINE S == {k \in Nat : ~\E f : Reads(f, k, text, length)}
<1> SUFFICES ASSUME n \in S PROVE FALSE
  OBVIOUS
<1>1. PICK m \in S : \A k \in S : m <= k
  BY Least
<1>2. CASE m = 0
  <2> DEFINE f == [i \in 0 .. 0 |-> NoRanges]
  <2>1. f = [i \in 0 .. 0 |-> IF i = 0 THEN NoRanges ELSE RangeChar(f[i - 1], text[i], length)]
    OBVIOUS
  <2>2. Reads(f, 0, text, length)
    BY <2>1 DEF Reads
  <2> QED BY <1>1, <1>2, <2>2
<1>3. CASE m # 0
  <2>1. m - 1 \in Nat /\ m - 1 \notin S
    BY <1>1, <1>3
  <2>2. PICK g : Reads(g, m - 1, text, length)
    BY <2>1
  <2> DEFINE f == [i \in 0 .. m |-> IF i = m THEN RangeChar(g[m - 1], text[m], length) ELSE g[i]]
  <2>3. \A i \in 0 .. m - 1 :
          g[i] = IF i = 0 THEN NoRanges ELSE RangeChar(g[i - 1], text[i], length)
    BY <2>2 DEF Reads
  <2>4. ASSUME NEW i \in 0 .. m
        PROVE  f[i] = IF i = 0 THEN NoRanges ELSE RangeChar(f[i - 1], text[i], length)
    <3>1. CASE i = m
      <4>1. m - 1 \in 0 .. m /\ m - 1 # m
        BY <1>1, <1>3
      <4>2. f[i - 1] = g[m - 1]
        BY <3>1, <4>1
      <4> QED BY <1>3, <3>1, <4>2
    <3>2. CASE i # m
      <4>1. i \in 0 .. m - 1 /\ (i # 0 => i - 1 \in 0 .. m /\ i - 1 # m)
        BY <1>1, <3>2
      <4>2. f[i] = g[i] /\ (i # 0 => f[i - 1] = g[i - 1])
        BY <3>2, <4>1
      <4> HIDE DEF f
      <4> QED BY <2>3, <4>1, <4>2
    <3> QED BY <3>1, <3>2
  <2>5. f = [i \in 0 .. m |-> f[i]]
    OBVIOUS
  <2> HIDE DEF f
  <2>6. Reads(f, m, text, length)
    BY <2>4, <2>5 DEF Reads
  <2> QED BY <1>1, <2>6
<1> QED BY <1>2, <1>3

\* What has been read is a range state all the way: again there is no least exception.
LEMMA ReadsTypes ==
  ASSUME NEW text \in Seq(0 .. 13), NEW length \in Nat, NEW f, Reads(f, Len(text), text, length)
  PROVE  f[Len(text)] \in RangeState
<1> DEFINE n == Len(text)
           S == {k \in 0 .. n : f[k] \notin RangeState}
<1> SUFFICES ASSUME n \in S PROVE FALSE
  OBVIOUS
<1>0. n \in Nat
  OBVIOUS
<1>1. PICK m \in S : \A k \in S : m <= k
  <2>1. S \subseteq Nat /\ S # {}
    BY <1>0
  <2> HIDE DEF S
  <2> QED BY <2>1, Least
<1>2. \A i \in 0 .. n : f[i] = IF i = 0 THEN NoRanges ELSE RangeChar(f[i - 1], text[i], length)
  BY DEF Reads
<1>3. NoRanges \in RangeState
  BY DEF NoRanges, RangeState
<1>4. m \in 0 .. n /\ m # 0
  BY <1>1, <1>2, <1>3
<1>5. m - 1 \in 0 .. n /\ m - 1 \notin S /\ text[m] \in 0 .. 13
  BY <1>0, <1>1, <1>4
<1>6. f[m - 1] \in RangeState
  BY <1>5
<1>7. f[m] = RangeChar(f[m - 1], text[m], length)
  BY <1>2, <1>4
<1> QED BY <1>1, <1>5, <1>6, <1>7, RangeCharTypes

\* The ranges of a request are pairs of numbers.
LEMMA RangesTypes ==
  ASSUME NEW q, q.range \in Seq(0 .. 12), NEW length \in Nat
  PROVE  get_request_ranges(q, length) \in RangeState
<1>1. CASE q.range = NoHeader
  <2>1. NoRanges \in RangeState
    BY DEF NoRanges, RangeState
  <2>2. [NoRanges EXCEPT !.status = "no"] \in RangeState
    BY <2>1 DEF RangeState
  <2> QED BY <1>1, <2>2 DEF get_request_ranges
<1>2. CASE q.range # NoHeader
  <2> DEFINE text == q.range \o <<End>>
             read[i \in 0 .. Len(text)] ==
               IF i = 0 THEN NoRanges ELSE RangeChar(read[i - 1], text[i], length)
  <2>1. get_request_ranges(q, length) = read[Len(text)]
    BY <1>2 DEF get_request_ranges
  <2>2. text \in Seq(0 .. 13) /\ Len(text) \in Nat
    BY DEF End
  <2>3. read = CHOOSE f : Reads(f, Len(text), text, length)
    BY DEF Reads
  <2> HIDE DEF text, read
  <2>4. \E f : Reads(f, Len(text), text, length)
    BY <2>2, ReadsExists
  <2>5. Reads(read, Len(text), text, length)
    BY <2>3, <2>4, Zenon
  <2> QED BY <2>1, <2>2, <2>5, ReadsTypes
<1> QED BY <1>1, <1>2

-----------------------------------------------------------------------------
(* Buffers.                                                                *)

IsBuffer(b) ==
  /\ b = [size |-> b.size, used |-> b.used, free |-> b.free, mem |-> b.mem, over |-> b.over]
  /\ b.used \in Int

LEMMA AppendTypes ==
  ASSUME NEW b, IsBuffer(b), NEW str, Len(str) \in Nat
  PROVE  IsBuffer(BufferAppend(b, str))
<1> DEFINE g == BufferResize(b, Len(str), 0)
           c == Copy(g, g.used, str)
<1>1. IsBuffer(g)
  BY DEF BufferResize, Grown, IsBuffer
<1> HIDE DEF g
<1>2. IsBuffer(c)
  <2>1. \E m, v : c = [g EXCEPT !.mem = m, !.over = v]
    BY DEF Copy
  <2> QED BY <1>1, <2>1 DEF IsBuffer
<1> HIDE DEF c
<1>3. IsBuffer(BufferAccount(c, Len(str)))
  <2>1. c.used + Len(str) \in Int
    BY <1>2 DEF IsBuffer
  <2>2. \E f : BufferAccount(c, Len(str)) = [c EXCEPT !.used = c.used + Len(str), !.free = f]
    BY DEF BufferAccount
  <2> QED BY <1>2, <2>1, <2>2 DEF IsBuffer
<1>4. BufferAppend(b, str) = BufferAccount(c, Len(str))
  BY DEF BufferAppend, Filled, g, c
<1> QED BY <1>3, <1>4

LEMMA InitTypes ==
  ASSUME NEW n, NEW pre
  PROVE  IsBuffer(BufferInit(n, pre))
BY DEF BufferInit, IsBuffer

LEMMA CutTypes ==
  ASSUME NEW b, IsBuffer(b), NEW n \in Int
  PROVE  IsBuffer(BufferCut(b, 0, n))
<1>1. ASSUME NEW k \in Int PROVE IsBuffer(Moved(b, 0, k))
  <2>1. b.used - k \in Int
    BY DEF IsBuffer
  <2>2. \E m, f, v : Moved(b, 0, k) = [b EXCEPT !.mem = m, !.used = b.used - k, !.free = f, !.over = v]
    BY DEF Moved
  <2> QED BY <2>1, <2>2 DEF IsBuffer
<1>2. b.used \in Int /\ b.used - 0 \in Int
  BY DEF IsBuffer
<1> QED BY <1>1, <1>2 DEF BufferCut

\* Passing data on: what goes out is a sequence of chunks, of which each is there.
LEMMA OutputTypes ==
  ASSUME NEW s, IsBuffer(s), NEW data, Len(data) \in Nat, NEW chunk_len \in Nat,
         NEW refuse \in {0, 1}
  PROVE  LET o == ChunkedOutput(s, data, chunk_len, refuse)
         IN  IsBuffer(o.buffer) /\ IsSeq(o.chunks)
<1> DEFINE storage == BufferAppend(StorageFor(s, chunk_len), data)
           full == IF chunk_len = 0 THEN (IF storage.used = 0 THEN 0 ELSE 1)
                   ELSE storage.used \div chunk_len
           tries == IF refuse \in 1 .. full THEN refuse ELSE full
           len == IF chunk_len = 0 THEN storage.used ELSE chunk_len
           m == IF tries = refuse THEN tries - 1 ELSE tries
           chunk(i) == SubSeq(BufferData(storage), (i - 1) * len + 1, i * len)
           o == ChunkedOutput(s, data, chunk_len, refuse)
<1>1. IsBuffer(storage)
  BY InitTypes, AppendTypes DEF StorageFor
<1> HIDE DEF storage
<1>2. full \in Int
  BY <1>1 DEF IsBuffer
<1> HIDE DEF full
<1>3. tries \in Int
  BY <1>2
<1> HIDE DEF tries
<1>4. m \in Int /\ tries * chunk_len \in Int
  BY <1>3
<1> HIDE DEF m
<1>5. o.chunks = [i \in 1 .. m |-> chunk(i)]
  BY DEF ChunkedOutput, m, tries, full, storage
<1>6. o.buffer = IF chunk_len = 0 THEN NoBuffer ELSE BufferCut(storage, 0, tries * chunk_len)
  BY DEF ChunkedOutput, tries, full, storage
<1> HIDE DEF chunk, o
<1>7. o.chunks = [i \in 1 .. m |-> o.chunks[i]]
  BY <1>5
<1>8. IsSeq(o.chunks)
  BY <1>4, <1>7, SeqFun
<1>9. IsBuffer(NoBuffer)
  BY DEF NoBuffer, IsBuffer
<1> QED BY <1>1, <1>4, <1>6, <1>8, <1>9, CutTypes DEF o

-----------------------------------------------------------------------------
(* The context, and what is written to a stream.                           *)

IsCtx(c) ==
  /\ c = [kind |-> c.kind, header |-> c.header, minor |-> c.minor, status |-> c.status,
          started |-> c.started, finished |-> c.finished, chunked |-> c.chunked]
  /\ c.started \in BOOLEAN

\* Header, status and version may be set, all else is as it was.
Like(c, d) ==
  /\ IsCtx(d)
  /\ d.kind = c.kind /\ d.started = c.started /\ d.finished = c.finished /\ d.chunked = c.chunked

LEMMA ContextTypes ==
  ASSUME NEW kind, NEW q
  PROVE  /\ IsCtx(ContextOf(kind, q)) /\ ContextOf(kind, q).kind = kind
         /\ ~ContextOf(kind, q).started
BY DEF ContextOf, IsCtx

LEMMA LikeItself == ASSUME NEW c, IsCtx(c) PROVE Like(c, c)
BY DEF Like

LEMMA SetLike ==
  ASSUME NEW c, NEW d, Like(c, d), NEW x, NEW y
  PROVE  /\ Like(c, set_status(d, x)) /\ Like(c, set_protocol_version(d, x))
         /\ Like(c, set_header(d, x)) /\ Like(c, add_header(d, x, y)) /\ Like(c, del_header(d, x))
<1>1. \A v : Like(c, [d EXCEPT !.header = v])
  BY DEF Like, IsCtx
<1>2. \A v : Like(c, [d EXCEPT !.status = v]) /\ Like(c, [d EXCEPT !.minor = v])
  BY DEF Like, IsCtx
<1>3. /\ \E v : set_header(d, x) = [d EXCEPT !.header = v]
      /\ \E v : add_header(d, x, y) = [d EXCEPT !.header = v]
      /\ \E v : del_header(d, x) = [d EXCEPT !.header = v]
  BY DEF set_header, add_header, del_header
<1> QED BY <1>1, <1>2, <1>3 DEF set_status, set_protocol_version

LEMMA CommonLike == ASSUME NEW c, IsCtx(c) PROVE Like(c, CommonHead(c))
<1> DEFINE o == set_header(c, opts.headers)
           s == IF opts.code > 0 THEN set_status(o, opts.code) ELSE o
           v == IF opts.minor # -1 THEN set_protocol_version(s, opts.minor) ELSE s
           hdr == FoldLeft(LAMBDA h, n : Added(h, "Set-Cookie", opts.cookies[n]),
                           v.header, SetToSeq(DOMAIN opts.cookies))
           k == [v EXCEPT !.header = hdr]
<1>1. Like(c, o)
  BY LikeItself, SetLike
<1> HIDE DEF o
<1>2. Like(c, s)
  BY <1>1, SetLike
<1> HIDE DEF s
<1>3. Like(c, v)
  BY <1>2, SetLike
<1>4. CommonHead(c) = IF opts.type # "" THEN set_header(k, Emit("Content-Type", opts.type)) ELSE k
  BY DEF CommonHead, s, o
<1> HIDE DEF v, hdr
<1>5. Like(c, k)
  BY <1>3 DEF Like, IsCtx
<1> HIDE DEF k
<1> QED BY <1>4, <1>5, SetLike

LEMMA RangeLike == ASSUME NEW c, NEW d, Like(c, d) PROVE Like(c, RangeHead(d))
BY SetLike DEF RangeHead

LEMMA PlainLike == ASSUME NEW c, NEW d, Like(c, d), NEW q PROVE Like(c, PlainHead(d, q))
<1> DEFINE cc == IF opts.cache # "" THEN set_header(d, Emit("Cache-Control", opts.cache)) ELSE d
           cd == IF opts.disposition # ""
                 THEN set_header(cc, Emit("Content-Disposition", opts.disposition)) ELSE cc
<1>1. Like(c, cc)
  BY SetLike
<1> HIDE DEF cc
<1>2. Like(c, cd)
  BY <1>1, SetLike
<1> DEFINE h == set_header(cd, Emit("Content-Encoding", "gzip"))
           n == del_header(cd, "Content-Encoding")
<1>3. \/ PlainHead(d, q) = add_header(h, "Vary", "Accept-Encoding")
      \/ PlainHead(d, q) = add_header(n, "Vary", "Accept-Encoding")
      \/ PlainHead(d, q) = n
  BY DEF PlainHead, Encodes, cc
<1> HIDE DEF cd
<1>4. Like(c, h) /\ Like(c, n)
  BY <1>2, SetLike
<1> HIDE DEF h, n
<1> QED BY <1>3, <1>4, SetLike

LEMMA CacheLike == ASSUME NEW c, NEW d, Like(c, d), NEW q PROVE Like(c, CacheHead(d, q))
<1> DEFINE s == IF NotModified(q) THEN set_status(d, 304) ELSE d
<1>1. Like(c, s)
  BY SetLike
<1>2. \E h : CacheHead(d, q) = set_header(s, h)
  BY DEF CacheHead
<1> HIDE DEF s
<1> QED BY <1>1, <1>2, SetLike

\* What writing does: nothing; nothing but a try when the peer has gone; or data, after
\* the head if there was none, all of it framed as the context says from then on.
Written(c, d, o) ==
  /\ IsCtx(d) /\ IsSeq(o)
  /\ d.kind = c.kind /\ d.status = c.status /\ d.header = c.header
  /\ c.started => d.started /\ d.chunked = c.chunked
  /\ o = <<>> => (d.started <=> c.started)
  /\ o # <<>> =>
       /\ d.started
       /\ ~c.started => o[1] = HeadOf(d)
       /\ \A i \in (IF c.started THEN 1 ELSE 2) .. Len(o) : o[i].k = "data" /\ o[i].framed = d.chunked

LEMMA StartedIs ==
  ASSUME NEW c, IsCtx(c), NEW q, broken \in BOOLEAN
  PROVE  LET d == Started(c, q)
         IN  /\ IsCtx(d) /\ d.kind = c.kind /\ d.status = c.status /\ d.header = c.header
             /\ (c.started => d.started) /\ (~c.started => (d.started <=> ~broken))
<1>1. PICK w, v : w \in BOOLEAN /\ w = (c.started \/ ~broken) /\ Started(c, q) = [c EXCEPT !.chunked = v, !.started = w]
  <2>1. (c.started \/ ~broken) \in BOOLEAN
    BY Zenon
  <2>2. Started(c, q) = [c EXCEPT !.chunked = c.chunked /\ Chunkable(c, q), !.started = c.started \/ ~broken]
    BY DEF Started, IsCtx
  <2> DEFINE w == c.started \/ ~broken
             v == c.chunked /\ Chunkable(c, q)
  <2>3. w \in BOOLEAN /\ w = w /\ Started(c, q) = [c EXCEPT !.chunked = v, !.started = w]
    BY <2>1, <2>2
  <2> HIDE DEF v
  <2> QED BY <2>3, Zenon
<1>2. /\ IsCtx(Started(c, q)) /\ Started(c, q).kind = c.kind
      /\ Started(c, q).status = c.status /\ Started(c, q).header = c.header
      /\ Started(c, q).started = w
  BY <1>1 DEF IsCtx
<1>3. (c.started => w) /\ (~c.started => (w <=> ~broken))
  BY <1>1, Zenon
<1> QED BY <1>2, <1>3

LEMMA StartIs ==
  ASSUME NEW c, IsCtx(c), NEW q, broken \in BOOLEAN
  PROVE  LET s == stream_start(c, q)
         IN  /\ IsCtx(s.c) /\ s.c.kind = c.kind /\ s.c.status = c.status /\ s.c.header = c.header
             /\ c.started => s.c = c /\ s.out = <<>>
             /\ ~c.started /\ broken => s.out = <<>> /\ ~s.c.started
             /\ ~c.started /\ ~broken => s.out = <<HeadOf(s.c)>> /\ s.c.started
<1> DEFINE d == Started(c, q)
<1>1. /\ IsCtx(d) /\ d.kind = c.kind /\ d.status = c.status /\ d.header = c.header
      /\ (c.started => d.started) /\ (~c.started => (d.started <=> ~broken))
  BY StartedIs
<1>2. stream_start(c, q) =
        IF c.started THEN [c |-> c, out |-> <<>>]
        ELSE [c |-> d, out |-> IF broken THEN <<>> ELSE <<HeadOf(d)>>]
  BY DEF stream_start
<1> HIDE DEF d
<1>3. CASE c.started
  BY <1>2, <1>3
<1>4. CASE ~c.started
  BY <1>1, <1>2, <1>4
<1> QED BY <1>3, <1>4

LEMMA WriteIs ==
  ASSUME NEW c, IsCtx(c), NEW q, broken \in BOOLEAN, NEW pieces, IsSeq(pieces), pieces # <<>>
  PROVE  LET w == stream_write(c, q, pieces) IN Written(c, w.c, w.out)
<1> DEFINE s == stream_start(c, q)
           ps == [i \in DOMAIN pieces |->
                    [k |-> "data", bytes |-> pieces[i], framed |-> s.c.chunked]]
           w == stream_write(c, q, pieces)
<1> SUFFICES Written(c, w.c, w.out)
  OBVIOUS
<1>1. /\ IsCtx(s.c) /\ s.c.kind = c.kind /\ s.c.status = c.status /\ s.c.header = c.header
      /\ c.started => s.c = c /\ s.out = <<>>
      /\ ~c.started /\ broken => s.out = <<>> /\ ~s.c.started
      /\ ~c.started /\ ~broken => s.out = <<HeadOf(s.c)>> /\ s.c.started
  BY StartIs
<1>2. w.c = s.c /\ w.out = IF broken THEN <<>> ELSE s.out \o ps
  BY DEF stream_write
<1>3. Len(pieces) \in Nat /\ DOMAIN pieces = 1 .. Len(pieces) /\ Len(pieces) # 0
  BY SeqLen
<1> HIDE DEF s
<1>4. /\ ps = [i \in 1 .. Len(pieces) |-> ps[i]]
      /\ \A i \in 1 .. Len(pieces) : ps[i].k = "data" /\ ps[i].framed = s.c.chunked
  BY <1>3
<1> HIDE DEF ps, w
<1>5. IsSeq(ps) /\ Len(ps) = Len(pieces)
  <2>1. IsSeq(ps)
    BY <1>3, <1>4, SeqFun
  <2>2. DOMAIN ps = 1 .. Len(pieces) /\ DOMAIN ps = 1 .. Len(ps) /\ Len(ps) \in Nat
    BY <1>4, <2>1, SeqLen
  <2> QED BY <1>3, <2>1, <2>2
<1>6. CASE broken
  <2>1. w.out = <<>> /\ IsSeq(<<>>)
    BY <1>2, <1>6, SeqOne
  <2>2. (c.started => s.c.started /\ s.c.chunked = c.chunked) /\ (s.c.started <=> c.started)
    BY <1>1, <1>6
  <2> QED BY <1>1, <1>2, <2>1, <2>2 DEF Written
<1>7. CASE ~broken
  <2> DEFINE h == IF c.started THEN 0 ELSE 1
  <2>1. /\ IsSeq(s.out) /\ Len(s.out) = h
        /\ ~c.started => s.out[1] = HeadOf(s.c)
    BY <1>1, <1>7, SeqOne DEF IsCtx
  <2>2. /\ IsSeq(w.out) /\ Len(w.out) = h + Len(pieces)
        /\ \A i \in 1 .. h : w.out[i] = s.out[i]
        /\ \A i \in 1 .. Len(pieces) : w.out[h + i] = ps[i]
    <3> HIDE DEF h
    <3>1. w.out = s.out \o ps
      BY <1>2, <1>7
    <3>2. /\ IsSeq(s.out \o ps) /\ Len(s.out \o ps) = Len(s.out) + Len(ps)
          /\ \A i \in 1 .. Len(s.out) : (s.out \o ps)[i] = s.out[i]
          /\ \A i \in 1 .. Len(ps) : (s.out \o ps)[Len(s.out) + i] = ps[i]
      <4>1. \A a, b : IsSeq(a) /\ IsSeq(b) =>
               /\ IsSeq(a \o b) /\ Len(a \o b) = Len(a) + Len(b)
               /\ \A i \in 1 .. Len(a) : (a \o b)[i] = a[i]
               /\ \A i \in 1 .. Len(b) : (a \o b)[Len(a) + i] = b[i]
        BY SeqJoin
      <4>2. IsSeq(s.out) /\ IsSeq(ps)
        BY <1>5, <2>1
      <4> QED BY <4>1, <4>2
    <3> QED BY <1>5, <2>1, <3>1, <3>2
  <2>3. ASSUME NEW i \in h + 1 .. Len(w.out)
        PROVE  w.out[i].k = "data" /\ w.out[i].framed = s.c.chunked
    <3>1. i - h \in 1 .. Len(pieces) /\ h + (i - h) = i
      BY <1>3, <2>2
    <3>2. w.out[i] = ps[i - h]
      BY <2>2, <3>1
    <3> QED BY <1>4, <3>1, <3>2
  <2>4. w.out # <<>> /\ (~c.started => w.out[1] = HeadOf(s.c))
    BY <1>3, <2>1, <2>2, SeqLen
  <2>5. (IF c.started THEN 1 ELSE 2) = h + 1
    OBVIOUS
  <2>6. s.c.started /\ (c.started => s.c.chunked = c.chunked)
    BY <1>1, <1>7
  <2> HIDE DEF h
  <2> QED BY <1>1, <1>2, <2>2, <2>3, <2>4, <2>5, <2>6 DEF Written
<1> QED BY <1>6, <1>7

-----------------------------------------------------------------------------
(* What has reached the peer of a stream.                                  *)

\* The head, as the context has it, if and only if the context is started.
Begun(c, o) ==
  /\ IsSeq(o)
  /\ c.started <=> o # <<>>
  /\ o # <<>> => o[1] = HeadOf(c)

IsData(c, i) == i.k = "data" /\ i.framed = c.chunked

\* Nothing but data follows it,
Open(c, o) == Begun(c, o) /\ \A i \in 2 .. Len(o) : IsData(c, o[i])

\* and at last, if the data are chunks, the last of them.
Closed(c, o) ==
  Begun(c, o) /\ \A i \in 2 .. Len(o) :
    IsData(c, o[i]) \/ (o[i].k = "end" /\ c.chunked /\ i = Len(o))

LEMMA SameHead ==
  ASSUME NEW c, NEW d, d.status = c.status, d.header = c.header, d.chunked = c.chunked
  PROVE  HeadOf(d) = HeadOf(c)
BY DEF HeadOf

LEMMA WriteOpen ==
  ASSUME NEW c, NEW d, NEW o, NEW p, Open(c, o), Written(c, d, p)
  PROVE  Open(d, o \o p)
<1>1. IsSeq(o) /\ IsSeq(p)
  BY DEF Open, Begun, Written
<1>2. Len(o) \in Nat /\ Len(p) \in Nat /\ (o = <<>> <=> Len(o) = 0) /\ (p = <<>> <=> Len(p) = 0)
  BY <1>1, SeqLen
<1>3. c.started => HeadOf(d) = HeadOf(c) /\ d.chunked = c.chunked
  BY SameHead DEF Written
<1>4. CASE p = <<>>
  <2>1. o \o p = o
    BY <1>1, <1>4, SeqEmpty
  <2>2. CASE c.started
    BY <1>3, <1>4, <2>1, <2>2 DEF Open, Begun, Written, IsData
  <2>3. CASE ~c.started
    BY <1>2, <1>4, <2>1, <2>3 DEF Open, Begun, Written
  <2> QED BY <2>2, <2>3
<1>5. CASE p # <<>> /\ ~c.started
  <2>1. o = <<>> /\ o \o p = p
    BY <1>1, <1>5, SeqEmpty DEF Open, Begun
  <2> QED BY <1>5, <2>1 DEF Open, Begun, Written, IsData
<1>6. CASE p # <<>> /\ c.started
  <2>1. /\ IsSeq(o \o p) /\ Len(o \o p) = Len(o) + Len(p)
        /\ \A i \in 1 .. Len(o) : (o \o p)[i] = o[i]
        /\ \A i \in 1 .. Len(p) : (o \o p)[Len(o) + i] = p[i]
    BY <1>1, SeqJoins
  <2>2. o # <<>> /\ Len(o) >= 1
    BY <1>2, <1>6 DEF Open, Begun
  <2>3. o \o p # <<>> /\ (o \o p)[1] = HeadOf(d)
    <3>1. Len(o \o p) # 0 /\ 1 \in 1 .. Len(o)
      BY <1>2, <2>1, <2>2
    <3> QED BY <1>3, <1>6, <2>1, <2>2, <3>1, SeqLen DEF Open, Begun
  <2>4. ASSUME NEW i \in 2 .. Len(o \o p) PROVE IsData(d, (o \o p)[i])
    <3>1. CASE i <= Len(o)
      <4>1. i \in 2 .. Len(o) /\ i \in 1 .. Len(o)
        BY <1>2, <2>1, <3>1
      <4> QED BY <1>3, <1>6, <2>1, <4>1 DEF Open, IsData
    <3>2. CASE i > Len(o)
      <4>1. i - Len(o) \in 1 .. Len(p) /\ Len(o) + (i - Len(o)) = i
        BY <1>2, <2>1, <3>2
      <4>2. (o \o p)[i] = p[i - Len(o)]
        BY <2>1, <4>1
      <4> QED BY <1>6, <4>1, <4>2 DEF Written, IsData
    <3> QED BY <1>2, <2>1, <3>1, <3>2
  <2>5. d.started
    BY <1>6 DEF Written
  <2> HIDE DEF Open
  <2> QED BY <2>1, <2>3, <2>4, <2>5 DEF Open, Begun
<1> QED BY <1>4, <1>5, <1>6

LEMMA OpenClosed == ASSUME NEW c, NEW o, Open(c, o) PROVE Closed(c, o)
BY DEF Open, Closed

\* Headers and status may change before anything went out.
LEMMA NothingOpen ==
  ASSUME NEW c, NEW d, NEW o, Like(c, d), Open(c, o), o = <<>>
  PROVE  Open(d, o)
BY SeqLen DEF Open, Begun, Like

LEMMA FinishClosed ==
  ASSUME NEW c, IsCtx(c), NEW q, NEW o, Open(c, o), broken \in BOOLEAN
  PROVE  LET f == stream_finish(c, q)
         IN  /\ IsCtx(f.c) /\ f.c.kind = c.kind
             /\ Closed(f.c, o \o f.out)
             /\ f.c.started /\ ~broken /\ f.c.chunked =>
                  o \o f.out # <<>> /\ (o \o f.out)[Len(o \o f.out)].k = "end"
<1> DEFINE s == stream_start(c, q)
           e == IF s.c.chunked /\ ~broken THEN <<[k |-> "end"]>> ELSE <<>>
           d == [s.c EXCEPT !.finished = s.c.started]
           f == stream_finish(c, q)
<1> SUFFICES /\ IsCtx(f.c) /\ f.c.kind = c.kind
             /\ Closed(f.c, o \o f.out)
             /\ f.c.started /\ ~broken /\ f.c.chunked =>
                  o \o f.out # <<>> /\ (o \o f.out)[Len(o \o f.out)].k = "end"
  OBVIOUS
<1>1. /\ IsCtx(s.c) /\ s.c.kind = c.kind /\ s.c.status = c.status /\ s.c.header = c.header
      /\ c.started => s.c = c /\ s.out = <<>>
      /\ ~c.started /\ broken => s.out = <<>> /\ ~s.c.started
      /\ ~c.started /\ ~broken => s.out = <<HeadOf(s.c)>> /\ s.c.started
  BY StartIs
<1>2. f.c = d /\ f.out = s.out \o e
  BY DEF stream_finish
<1> HIDE DEF s, f
<1>3. /\ IsCtx(d) /\ d.kind = s.c.kind /\ d.status = s.c.status /\ d.header = s.c.header
      /\ d.started = s.c.started /\ d.chunked = s.c.chunked
  BY <1>1 DEF IsCtx
<1> HIDE DEF d
<1>4. /\ IsSeq(s.out) /\ IsSeq(e)
      /\ s.c.chunked /\ ~broken => Len(e) = 1 /\ e[1].k = "end"
      /\ ~(s.c.chunked /\ ~broken) => e = <<>>
  <2>1. IsSeq(s.out)
    BY <1>1, SeqOne
  <2>2. IsSeq(e)
    BY SeqOne
  <2>3. [k |-> "end"].k = "end"
    OBVIOUS
  <2> QED BY <2>1, <2>2, <2>3, SeqOne
<1>5. Written(c, s.c, s.out)
  <2>1. CASE s.out = <<>>
    BY <1>1, <1>4, <2>1 DEF Written
  <2>2. CASE s.out # <<>>
    <3>1. ~c.started /\ ~broken /\ s.c.started /\ s.out = <<HeadOf(s.c)>>
      BY <1>1, <2>2
    <3>2. Len(s.out) = 1 /\ s.out[1] = HeadOf(s.c)
      BY <3>1, SeqOne
    <3>3. \A i \in (IF c.started THEN 1 ELSE 2) .. Len(s.out) : FALSE
      BY <3>1, <3>2
    <3> QED BY <1>1, <1>4, <2>2, <3>1, <3>2, <3>3 DEF Written
  <2> QED BY <2>1, <2>2
<1> DEFINE p == o \o s.out
<1>6. Open(s.c, p)
  BY <1>5, WriteOpen
<1> HIDE DEF e
<1>7. o \o f.out = p \o e
  <2>1. PICK t, x : t = s.out /\ x = e
    OBVIOUS
  <2>2. IsSeq(o) /\ IsSeq(t) /\ IsSeq(x)
    BY <1>4, <2>1 DEF Open, Begun
  <2>3. o \o (t \o x) = (o \o t) \o x
    BY <2>2, SeqAssoc
  <2> QED BY <1>2, <2>1, <2>3
<1> HIDE DEF p
<1>8. HeadOf(d) = HeadOf(s.c)
  BY <1>3, SameHead
<1>9. Open(d, p)
  BY <1>3, <1>6, <1>8 DEF Open, Begun, IsData
<1>10. IsSeq(p) /\ Len(p) \in Nat /\ (p = <<>> <=> Len(p) = 0)
  BY <1>9, SeqLen DEF Open, Begun
<1>11. CASE e = <<>>
  <2>1. o \o f.out = p
    BY <1>7, <1>10, <1>11, SeqEmpty
  <2>2. ~(s.c.chunked /\ ~broken)
    BY <1>4, <1>11, SeqLen
  <2> QED BY <1>1, <1>2, <1>3, <1>9, <2>1, <2>2, OpenClosed
<1>12. CASE e # <<>>
  <2>1. s.c.chunked /\ ~broken /\ Len(e) = 1 /\ e[1].k = "end"
    BY <1>4, <1>12
  <2>2. d.started /\ p # <<>> /\ Len(p) >= 1
    <3>1. s.c.started
      BY <1>1, <2>1
    <3> QED BY <1>3, <1>9, <1>10, <3>1 DEF Open, Begun
  <2>3. /\ IsSeq(p \o e) /\ Len(p \o e) = Len(p) + 1
        /\ \A i \in 1 .. Len(p) : (p \o e)[i] = p[i]
        /\ (p \o e)[Len(p) + 1] = e[1]
    <3>1. /\ IsSeq(p \o e) /\ Len(p \o e) = Len(p) + Len(e)
          /\ \A i \in 1 .. Len(p) : (p \o e)[i] = p[i]
          /\ \A i \in 1 .. Len(e) : (p \o e)[Len(p) + i] = e[i]
      BY <1>4, <1>10, SeqJoins
    <3>2. 1 \in 1 .. Len(e)
      BY <2>1
    <3> QED BY <2>1, <3>1, <3>2
  <2>4. Begun(d, p \o e)
    <3>1. 1 \in 1 .. Len(p) /\ p \o e # <<>>
      BY <1>10, <2>2, <2>3, SeqLen
    <3> QED BY <1>9, <2>2, <2>3, <3>1 DEF Open, Begun
  <2>5. ASSUME NEW i \in 2 .. Len(p \o e)
        PROVE  IsData(d, (p \o e)[i]) \/ ((p \o e)[i].k = "end" /\ d.chunked /\ i = Len(p \o e))
    <3>1. CASE i <= Len(p)
      <4>1. i \in 2 .. Len(p) /\ i \in 1 .. Len(p)
        BY <1>10, <2>3, <3>1
      <4> QED BY <1>9, <2>3, <4>1 DEF Open
    <3>2. CASE i > Len(p)
      <4>1. i = Len(p) + 1
        BY <1>10, <2>3, <3>2
      <4> QED BY <1>3, <2>1, <2>3, <4>1
    <3> QED BY <1>10, <2>3, <3>1, <3>2
  <2>6. Closed(d, p \o e)
    BY <2>4, <2>5 DEF Closed
  <2>7. p \o e # <<>>
    BY <2>2, <2>4 DEF Begun
  <2> QED BY <1>1, <1>2, <1>3, <1>7, <2>1, <2>3, <2>6, <2>7
<1> QED BY <1>11, <1>12
-----------------------------------------------------------------------------
(* The invariant.                                                          *)

IsPart(p) == p.begin \in Int /\ p.forlen \in Int /\ IsSeq(p.header)

\* What send() keeps, of the types that reading and writing rely on.
IsSend(x) ==
  /\ x = [range |-> x.range, ranges |-> x.ranges, done |-> x.done, buffer |-> x.buffer,
          enc |-> x.enc, pend |-> x.pend, length |-> x.length, parts |-> x.parts,
          pos |-> x.pos, forlen |-> x.forlen, ret |-> x.ret, asked |-> x.asked,
          sent |-> x.sent, former |-> x.former]
  /\ x.ranges \in Seq(Int \X Int)
  /\ IsBuffer(x.buffer)
  /\ IsSeq(x.pend)
  /\ x.length \in Nat
  /\ IsSeq(x.parts) /\ \A i \in 1 .. Len(x.parts) : IsPart(x.parts[i])
  /\ x.pos \in Nat
  /\ x.forlen \in Nat \cup {-1}

IsOpts(o) ==
  {"chunk", "request"} \subseteq DOMAIN o /\ o.chunk \in Nat /\ o.request.range \in Seq(0 .. 12)

ResponseTypes ==
  /\ IsOpts(opts)
  /\ IsSeq(body.bytes)
  /\ IsCtx(ctx) /\ ctx.kind \in {"sapi", "stream"}
  /\ IsCtx(sapi) /\ sapi.kind = "sapi"
  /\ pc # "idle" => IsSend(r)
  /\ broken \in BOOLEAN
  /\ pc \in {"idle", "ranges", "head", "body", "part", "read", "finish"}

\* The peer has the head that was set, then data, and the end when all went out.
StreamInv ==
  ctx.kind = "stream" =>
    /\ Closed(ctx, out)
    /\ pc # "idle" => Open(ctx, out) /\ result = "none"
    /\ pc \in {"ranges", "head"} => out = <<>>
    /\ result = "true" /\ ~broken /\ ctx.chunked => out # <<>> /\ out[Len(out)].k = "end"

ResponseInv == ResponseTypes /\ StreamInv
-----------------------------------------------------------------------------
(* The steps.                                                              *)

LEMMA EncodedSeq == ASSUME NEW s, IsSeq(s) PROVE IsSeq(Encoded(s))
<1> DEFINE f == Encoded(s)
<1>1. Len(s) \in Int /\ DOMAIN s = 1 .. Len(s)
  BY SeqLen
<1>2. f = [i \in 1 .. Len(s) |-> f[i]]
  BY <1>1 DEF Encoded
<1> HIDE DEF f
<1>3. IsSeq(f)
  BY <1>1, <1>2, SeqFun
<1> QED BY <1>3 DEF f

LEMMA NothingWritten == ASSUME NEW c, IsCtx(c) PROVE Written(c, c, <<>>)
BY SeqOne DEF Written

LEMMA SendData ==
  ASSUME ResponseTypes, NEW x, IsSend(x), NEW data, IsSeq(data),
         NEW s \in send_data(x, data)
  PROVE  IsSend(s.r) /\ s.r.pos = x.pos /\ s.r.forlen = x.forlen /\ Written(ctx, s.c, s.out)
<1> DEFINE coming == Encoded(data)
           all == x.pend \o coming
           cuts == CASE x.enc = "none" -> {0}
                     [] x.enc # "none" /\ data = NoData -> {Len(all)}
                     [] OTHER -> 0 .. Len(all)
           given(n) == CASE x.enc = "none" -> data
                         [] x.enc # "none" /\ data = NoData -> all \o <<<<"z-end">>>>
                         [] OTHER -> SubSeq(all, 1, n)
           output(n) == ChunkedOutput(x.buffer, given(n), OutputChunk(data), IF broken THEN 1 ELSE 0)
           kept(n) == IF x.enc = "none" THEN <<>> ELSE SubSeq(all, n + 1, Len(all))
           w(n) == IF output(n).chunks = <<>> THEN [c |-> ctx, out |-> <<>>]
                   ELSE stream_write(ctx, opts.request, output(n).chunks)
<1>1. PICK n \in cuts :
        s = [r |-> [x EXCEPT !.buffer = output(n).buffer, !.pend = kept(n)],
             c |-> w(n).c, out |-> w(n).out, ok |-> ~output(n).failed]
  BY DEF send_data
<1>2. IsSeq(coming)
  BY EncodedSeq
<1> HIDE DEF coming
<1>3. IsSeq(all) /\ Len(all) \in Nat
  BY <1>2, SeqJoins, SeqLen DEF IsSend
<1> HIDE DEF all
<1>4. n \in Int /\ 0 <= n /\ n <= Len(all)
  BY <1>3
<1> HIDE DEF cuts
<1>0. IsSeq(SubSeq(all, 1, n)) /\ IsSeq(SubSeq(all, n + 1, Len(all)))
  <2>1. \A m, k \in Int : m >= 1 /\ k <= Len(all) => IsSeq(SubSeq(all, m, k))
    BY <1>3, SeqCut
  <2>2. n + 1 \in Int /\ n + 1 >= 1 /\ Len(all) \in Int
    BY <1>3, <1>4
  <2>3. IsSeq(SubSeq(all, 1, n))
    BY <1>4, <2>1
  <2>4. IsSeq(SubSeq(all, n + 1, Len(all)))
    BY <2>1, <2>2
  <2> QED BY <2>3, <2>4
<1>5. IsSeq(kept(n))
  <2>1. CASE x.enc = "none"
    BY <2>1, SeqOne
  <2>2. CASE x.enc # "none"
    BY <1>0, <2>2
  <2> QED BY <2>1, <2>2
<1>6. IsSeq(given(n))
  <2>1. CASE x.enc = "none"
    BY <2>1, SeqOne
  <2>2. CASE x.enc # "none" /\ data = NoData
    <3>1. IsSeq(<<<<"z-end">>>>)
      BY SeqOne
    <3> QED BY <1>3, <2>2, <3>1, SeqJoins
  <2>3. CASE x.enc # "none" /\ data # NoData
    BY <1>0, <2>3
  <2> QED BY <2>1, <2>2, <2>3
<1>7. Len(given(n)) \in Nat
  BY <1>6, SeqLen
<1> HIDE DEF given, kept
<1>8. OutputChunk(data) \in Nat /\ (IF broken THEN 1 ELSE 0) \in {0, 1}
  BY ResponseAssumption DEF OutputChunk, ResponseTypes, IsOpts
<1>9. IsBuffer(output(n).buffer) /\ IsSeq(output(n).chunks)
  BY <1>7, <1>8, OutputTypes DEF IsSend
<1> HIDE DEF output
<1>10. IsCtx(ctx) /\ broken \in BOOLEAN
  BY DEF ResponseTypes
<1>11. Written(ctx, w(n).c, w(n).out)
  <2>1. CASE output(n).chunks = <<>>
    <3>1. w(n) = [c |-> ctx, out |-> <<>>]
      BY <2>1
    <3>2. w(n).c = ctx /\ w(n).out = <<>>
      BY <3>1
    <3> QED BY <1>10, <3>2, NothingWritten
  <2>2. CASE output(n).chunks # <<>>
    BY <1>9, <1>10, <2>2, WriteIs
  <2> QED BY <2>1, <2>2
<1> HIDE DEF w
<1>12. /\ s.r = [x EXCEPT !.buffer = output(n).buffer, !.pend = kept(n)]
       /\ s.c = w(n).c /\ s.out = w(n).out
  BY <1>1
<1>13. IsSend(s.r) /\ s.r.pos = x.pos /\ s.r.forlen = x.forlen
  BY <1>5, <1>9, <1>12 DEF IsSend
<1> QED BY <1>11, <1>12, <1>13
LEMMA OptionKept ==
  ASSUME NEW o, IsOpts(o), NEW name, name \notin {"chunk", "request"}, NEW v
  PROVE  IsOpts([o EXCEPT ![name] = v])
BY DEF IsOpts

LEMMA TagKept ==
  ASSUME NEW o, IsOpts(o)
  PROVE  IsOpts(WithEtag(o)) /\ IsOpts(WithLm(o)) /\ IsOpts(WithLm(WithEtag(o)))
<1>1. \A p : IsOpts(p) => IsOpts(WithEtag(p)) /\ IsOpts(WithLm(p))
  BY OptionKept DEF WithEtag, WithLm
<1> QED BY <1>1

LEMMA InitInv == Init => ResponseInv
<1> SUFFICES ASSUME Init PROVE ResponseInv
  OBVIOUS
<1>1. IsOpts(opts)
  BY ResponseAssumption DEF Init, IsOpts
<1>2. IsSeq(body.bytes)
  <2>1. FirstBody \in Int
    BY ResponseAssumption
  <2>2. body.bytes = [i \in 1 .. FirstBody |-> body.bytes[i]]
    BY DEF Init
  <2> QED BY <2>1, <2>2, SeqFun
<1>3. IsCtx(ctx) /\ ctx.kind = "sapi" /\ sapi = ctx
  BY ContextTypes DEF Init
<1> QED BY <1>1, <1>2, <1>3 DEF Init, ResponseInv, ResponseTypes, StreamInv

LEMMA CallInv ==
  ASSUME ResponseInv, UNCHANGED <<ctx, r, pc, out, broken, result, sapi>>,
         IsOpts(opts'), IsSeq(body'.bytes)
  PROVE  ResponseInv'
BY DEF ResponseInv, ResponseTypes, StreamInv

LEMMA SetInv == ResponseInv /\ Set => ResponseInv'
<1> SUFFICES ASSUME ResponseInv, Set PROVE ResponseInv'
  OBVIOUS
<1>1. IsOpts(opts) /\ IsSeq(body.bytes)
  BY DEF ResponseInv, ResponseTypes
<1>2. PICK name, value : set_option(name, value) /\ IsOpts([opts EXCEPT ![name] = value])
  <2>1. CASE \E q \in Requests : setEnvRequest(q)
    <3>1. PICK q \in Requests : set_option("request", q)
      BY <2>1 DEF setEnvRequest
    <3>2. IsOpts([opts EXCEPT !["request"] = q])
      BY <1>1, ResponseAssumption DEF IsOpts
    <3> QED BY <3>1, <3>2
  <2>2. CASE setThrottleRate(1)
    <3>1. IsOpts([opts EXCEPT !["chunk"] = 1])
      BY <1>1 DEF IsOpts
    <3> QED BY <2>2, <3>1 DEF setThrottleRate
  <2>3. CASE \E n \in SUBSET {"c1", "c2"} : n # {} /\ setCookie(n)
    BY <1>1, <2>3, OptionKept DEF setCookie
  <2>4. CASE \/ \E t \in {"", "text/plain"} : setContentType(t)
             \/ setContentDisposition("attachment")
             \/ setContentEncoding(TRUE)
             \/ setCacheControl("private")
             \/ \E t \in 0 .. 2 : setLastModified(t)
             \/ setEtag(<<"own">>)
    BY <1>1, <2>4, OptionKept
       DEF setContentType, setContentDisposition, setContentEncoding, setCacheControl,
           setLastModified, setEtag
  <2> QED BY <2>1, <2>2, <2>3, <2>4 DEF Set
<1> QED BY <1>1, <1>2, CallInv DEF set_option, Call

LEMMA CachedInv == ResponseInv /\ (isCachedByEtag \/ isCachedByLastModified) => ResponseInv'
<1> SUFFICES ASSUME ResponseInv, isCachedByEtag \/ isCachedByLastModified PROVE ResponseInv'
  OBVIOUS
<1>1. IsOpts(opts) /\ IsSeq(body.bytes)
  BY DEF ResponseInv, ResponseTypes
<1> QED BY <1>1, TagKept, CallInv DEF isCachedByEtag, isCachedByLastModified, Call

LEMMA InvokeInv == ASSUME ResponseInv, NEW clean \in BOOLEAN, invoke(clean) PROVE ResponseInv'
<1>1. IsOpts(opts) /\ IsSeq(body.bytes)
  BY DEF ResponseInv, ResponseTypes
<1>2. IsSeq(body'.bytes)
  <2>1. CASE clean
    BY <2>1, SeqOne DEF invoke
  <2>2. CASE ~clean
    <3> DEFINE x == <<"b", Len(body.bytes) + 1>>
    <3>1. body'.bytes = Append(body.bytes, x)
      BY <2>2 DEF invoke
    <3> HIDE DEF x
    <3>2. Append(body.bytes, x) \in Seq(Range(body.bytes) \cup {x})
      BY <1>1 DEF IsSeq
    <3> QED BY <3>1, <3>2, AnySeq
  <2> QED BY <2>1, <2>2
<1> QED BY <1>1, <1>2, CallInv DEF invoke, Call

LEMMA SendingTypes ==
  ASSUME IsSeq(body.bytes), NEW c
  PROVE  IsSend(Sending(c))
<1>1. Len(body.bytes) \in Nat
  BY SeqLen
<1>2. IsBuffer(BufferInit(0, FALSE)) /\ IsSeq(<<>>)
  BY InitTypes, SeqOne
<1> DEFINE x == Sending(c)
<1>3. /\ x.ranges = <<>> /\ x.buffer = BufferInit(0, FALSE) /\ x.pend = <<>> /\ x.parts = <<>>
      /\ x.length = Len(body.bytes) /\ x.pos = 0 /\ x.forlen = 0
  BY DEF Sending
<1>4. x = [range |-> x.range, ranges |-> x.ranges, done |-> x.done, buffer |-> x.buffer,
           enc |-> x.enc, pend |-> x.pend, length |-> x.length, parts |-> x.parts,
           pos |-> x.pos, forlen |-> x.forlen, ret |-> x.ret, asked |-> x.asked,
           sent |-> x.sent, former |-> x.former]
  BY DEF Sending
<1>5. <<>> \in Seq(Int \X Int) /\ \A i \in 1 .. Len(<<>>) : FALSE
  OBVIOUS
<1> HIDE DEF x
<1>6. IsSend(x)
  <2>1. x.ranges \in Seq(Int \X Int)
    BY <1>3, <1>5
  <2>2. IsSeq(x.parts) /\ \A i \in 1 .. Len(x.parts) : IsPart(x.parts[i])
    <3>1. Len(x.parts) = 0
      BY <1>3
    <3> QED BY <1>2, <1>3, <3>1
  <2>3. IsBuffer(x.buffer) /\ IsSeq(x.pend)
    BY <1>2, <1>3
  <2>4. x.length \in Nat /\ x.pos \in Nat /\ x.forlen \in Nat \cup {-1}
    BY <1>1, <1>3
  <2> QED BY <1>4, <2>1, <2>2, <2>3, <2>4 DEF IsSend
<1> QED BY <1>6 DEF x

LEMMA SendInv == ASSUME ResponseInv, NEW kind \in {"sapi", "stream"}, send(kind) PROVE ResponseInv'
<1>1. IsOpts(opts') /\ IsSeq(body'.bytes)
  BY DEF ResponseInv, ResponseTypes, send
<1>2. IsCtx(sapi') /\ sapi'.kind = "sapi"
  <2>1. CASE ctx.kind = "sapi"
    BY <2>1 DEF ResponseInv, ResponseTypes, send
  <2>2. CASE ctx.kind # "sapi"
    BY <2>2 DEF ResponseInv, ResponseTypes, send
  <2> QED BY <2>1, <2>2
<1>3. /\ IsCtx(ctx') /\ ctx'.kind \in {"sapi", "stream"}
      /\ ctx'.kind = "stream" => ~ctx'.started
  <2>1. CASE kind = "stream"
    BY <2>1, ContextTypes DEF send
  <2>2. CASE kind = "sapi"
    BY <1>2, <2>2 DEF send
  <2> QED BY <2>1, <2>2
<1>4. IsSend(r')
  <2>1. r' = Sending(ctx') /\ IsSeq(body.bytes)
    BY DEF send, ResponseInv, ResponseTypes
  <2> QED BY <2>1, SendingTypes
<1>5. out' = <<>> /\ Len(<<>>) = 0 /\ IsSeq(<<>>)
  BY SeqOne DEF send
<1>6. ctx'.kind = "stream" => Open(ctx', out')
  BY <1>3, <1>5 DEF Open, Begun
<1>7. ctx'.kind = "stream" => Closed(ctx', out')
  BY <1>6, OpenClosed
<1> QED BY <1>1, <1>2, <1>3, <1>4, <1>5, <1>6, <1>7 DEF send, ResponseInv, ResponseTypes, StreamInv

LEMMA GoneInv == ResponseInv /\ PeerGone => ResponseInv'
BY DEF ResponseInv, ResponseTypes, StreamInv, PeerGone
\* A step of send() either goes on, or fails and returns.
LEMMA StepInv ==
  ASSUME ResponseInv, pc # "idle", UNCHANGED <<body, broken, sapi>>,
         IsOpts(opts'), IsCtx(ctx'), ctx'.kind = ctx.kind,
         ctx.kind = "stream" => Open(ctx', out'),
         \/ /\ pc' \in {"head", "body", "part", "read", "finish"}
            /\ IsSend(r') /\ result' = result
            /\ pc' = "head" => pc = "ranges" /\ out' = out
         \/ pc' = "idle" /\ result' = "false"
  PROVE  ResponseInv'
<1>1. ResponseTypes'
  BY DEF ResponseInv, ResponseTypes
<1>2. StreamInv'
  <2> SUFFICES ASSUME ctx.kind = "stream"
               PROVE  /\ Closed(ctx', out')
                      /\ pc' # "idle" => Open(ctx', out') /\ result' = "none"
                      /\ pc' \in {"ranges", "head"} => out' = <<>>
                      /\ result' # "true"
    BY DEF StreamInv
  <2>1. result = "none" /\ (pc = "ranges" => out = <<>>)
    BY DEF ResponseInv, StreamInv
  <2> QED BY <2>1, OpenClosed
<1> QED BY <1>1, <1>2 DEF ResponseInv

LEMMA FlagsKept ==
  ASSUME NEW s, IsSend(s), NEW x, NEW y, NEW t,
         t = [s EXCEPT !.range = x, !.done = y] \/ t = [s EXCEPT !.done = x, !.enc = y]
  PROVE  IsSend(t)
<1>1. CASE t = [s EXCEPT !.range = x, !.done = y]
  BY <1>1 DEF IsSend
<1>2. CASE t = [s EXCEPT !.done = x, !.enc = y]
  BY <1>2 DEF IsSend
<1> QED BY <1>1, <1>2

LEMMA RangesSet ==
  ASSUME NEW s, IsSend(s), NEW x, NEW z \in Seq(Int \X Int), NEW t,
         t = [s EXCEPT !.range = x, !.ranges = z]
  PROVE  IsSend(t)
BY DEF IsSend

LEMMA CheckRangesInv == ResponseInv /\ CheckRanges => ResponseInv'
<1> SUFFICES ASSUME ResponseInv, CheckRanges PROVE ResponseInv'
  OBVIOUS
<1> DEFINE q == opts.request
           v == get_request_ranges(q, r.length)
           tagged == WithEtag(opts)
           both == WithLm(tagged)
           miss == is_response_cached_by_etag(opts, q.ifRange) = "miss"
           ifRange == Failed(is_response_cached_by_etag(opts, q.ifRange),
                             is_response_cached_by_last_modified(opts, q.ifRange))
           ifMatch == Failed(is_response_cached_by_etag(opts, q.ifMatch),
                             is_response_cached_by_last_modified(opts, q.ifUnmodified))
           base == set_header(ctx, Emit("Accept-Ranges", "bytes"))
           refused == set_header(set_status(base, 416), Emit("Content-Range", <<"*", r.length>>))
<1>1. IsOpts(opts) /\ IsCtx(ctx) /\ IsSend(r) /\ pc = "ranges"
  BY DEF ResponseInv, ResponseTypes, CheckRanges
<1>2. v \in RangeState
  BY <1>1, RangesTypes DEF IsOpts, IsSend
<1>3. IsOpts(tagged) /\ IsOpts(both)
  BY <1>1, TagKept
<1>4. Like(ctx, base) /\ Like(ctx, set_status(base, 412)) /\ Like(ctx, refused)
  <2>1. Like(ctx, base)
    BY <1>1, LikeItself, SetLike
  <2> HIDE DEF base
  <2> QED BY <2>1, SetLike
<1>6. UNCHANGED <<body, broken, sapi, out>>
  BY DEF CheckRanges
<1>7. \/ Refused(ctx) /\ Return(FALSE) /\ UNCHANGED <<opts, ctx, r>>
      \/ /\ pc' = "head" /\ result' = result
         /\ CASE v.status = "no" -> ctx' = base /\ UNCHANGED <<opts, r>>
              [] v.status = "err" /\ q.ifRange # NoHeader ->
                   ctx' = base /\ UNCHANGED <<opts, r>>
              [] v.status = "err" /\ q.ifRange = NoHeader ->
                   /\ r' = [r EXCEPT !.range = "err", !.done = TRUE]
                   /\ ctx' = refused
                   /\ UNCHANGED opts
              [] v.status = "ok" /\ ifRange ->
                   /\ ctx' = base
                   /\ opts' = IF miss THEN tagged ELSE both
                   /\ UNCHANGED r
              [] v.status = "ok" /\ ~ifRange /\ ifMatch ->
                   /\ r' = [r EXCEPT !.range = "ok", !.done = TRUE]
                   /\ ctx' = set_status(base, 412)
                   /\ opts' = both
              [] OTHER ->
                   /\ r' = [r EXCEPT !.range = "ok", !.ranges = v.ranges]
                   /\ ctx' = base
                   /\ opts' = both
  BY DEF CheckRanges
<1>8. v.ranges \in Seq(Int \X Int)
  BY <1>2 DEF RangeState
<1> HIDE DEF v, tagged, both, base, refused, miss, ifRange, ifMatch, q
<1>9. CASE Refused(ctx) /\ Return(FALSE) /\ UNCHANGED <<opts, ctx, r>>
  <2>1. ctx.kind = "stream" => Open(ctx', out')
    BY <1>1, <1>6, <1>9 DEF ResponseInv, StreamInv
  <2> QED BY <1>1, <1>6, <1>9, <2>1, StepInv DEF Return
<1>10. CASE pc' = "head" /\ result' = result
  <2>1. \/ ctx' = base /\ UNCHANGED <<opts, r>>
        \/ ctx' = refused /\ r' = [r EXCEPT !.range = "err", !.done = TRUE] /\ UNCHANGED opts
        \/ ctx' = base /\ UNCHANGED r /\ opts' \in {tagged, both}
        \/ ctx' = set_status(base, 412) /\ r' = [r EXCEPT !.range = "ok", !.done = TRUE] /\ opts' = both
        \/ ctx' = base /\ r' = [r EXCEPT !.range = "ok", !.ranges = v.ranges] /\ opts' = both
    BY <1>1, <1>7, <1>10 DEF Return
  <2>2. IsOpts(opts') /\ Like(ctx, ctx') /\ IsSend(r')
    <3>1. IsOpts(opts')
      BY <1>1, <1>3, <2>1
    <3>2. Like(ctx, ctx')
      BY <1>4, <2>1
    <3>3. IsSend(r')
      <4>1. \/ r' = r
            \/ r' = [r EXCEPT !.range = "err", !.done = TRUE]
            \/ r' = [r EXCEPT !.range = "ok", !.done = TRUE]
            \/ r' = [r EXCEPT !.range = "ok", !.ranges = v.ranges]
        BY <2>1
      <4> QED BY <1>1, <1>8, <4>1, FlagsKept, RangesSet
    <3> QED BY <3>1, <3>2, <3>3
  <2>3. ctx.kind = "stream" => Open(ctx', out')
    <3>1. ctx.kind = "stream" => Open(ctx, out) /\ out = <<>>
      BY <1>1 DEF ResponseInv, StreamInv
    <3> QED BY <1>6, <2>2, <3>1, NothingOpen
  <2>4. IsCtx(ctx') /\ ctx'.kind = ctx.kind
    BY <2>2 DEF Like
  <2> QED BY <1>1, <1>6, <1>10, <2>2, <2>3, <2>4, StepInv
<1> QED BY <1>7, <1>9, <1>10

LEMMA SendHeadInv == ResponseInv /\ SendHead => ResponseInv'
<1> SUFFICES ASSUME ResponseInv, SendHead PROVE ResponseInv'
  OBVIOUS
<1> DEFINE q == opts.request
           c == CommonHead(ctx)
           p == PlainHead(c, q)
           cacheable == response_is_cacheable(p, q)
           none == is_response_cached_by_etag(opts, q.ifNoneMatch) = "no"
           fresh == cacheable /\ NotModified(q)
           enc == IF Encodes(q) THEN "gzip" ELSE "none"
           cached == CacheHead(p, q)
           partial == RangeHead(c)
           tagged == WithEtag(opts)
           both == WithLm(WithEtag(opts))
<1>1. IsOpts(opts) /\ IsCtx(ctx) /\ IsSend(r) /\ pc = "head"
  BY DEF ResponseInv, ResponseTypes, SendHead
<1>2. IsOpts(tagged) /\ IsOpts(both)
  BY <1>1, TagKept
<1>3. Like(ctx, ctx) /\ Like(ctx, partial) /\ Like(ctx, p) /\ Like(ctx, cached)
  <2>1. Like(ctx, ctx) /\ Like(ctx, c)
    BY <1>1, LikeItself, CommonLike
  <2> HIDE DEF c
  <2>2. Like(ctx, partial) /\ Like(ctx, p)
    BY <2>1, RangeLike, PlainLike
  <2> HIDE DEF p
  <2>3. Like(ctx, cached)
    BY <2>2, CacheLike
  <2> QED BY <2>1, <2>2, <2>3
<1>5. UNCHANGED <<body, broken, sapi, out, result>> /\ pc' = "body"
  BY DEF SendHead
<1>6. pc' = "body" /\
      CASE r.done -> UNCHANGED <<ctx, opts, r>>
        [] ~r.done /\ r.range = "ok" -> ctx' = partial /\ UNCHANGED <<opts, r>>
        [] ~r.done /\ r.range # "ok" ->
             /\ ctx' = IF cacheable THEN cached ELSE p
             /\ opts' = CASE ~cacheable -> opts
                          [] cacheable /\ none -> both
                          [] OTHER -> tagged
             /\ r' = [r EXCEPT !.done = fresh, !.enc = enc]
  BY DEF SendHead
<1> HIDE DEF cached, p, c, partial, tagged, both, fresh, enc, none, cacheable, q
<1>7. /\ ctx' \in {ctx, partial, cached, p}
      /\ opts' \in {opts, tagged, both}
      /\ UNCHANGED r \/ r' = [r EXCEPT !.done = fresh, !.enc = enc]
  <2>1. CASE r.done
    BY <1>6, <2>1
  <2>2. CASE ~r.done /\ r.range = "ok"
    BY <1>6, <2>2
  <2>3. CASE ~r.done /\ r.range # "ok"
    BY <1>6, <2>3
  <2> QED BY <2>1, <2>2, <2>3
<1>8. IsOpts(opts') /\ Like(ctx, ctx') /\ IsSend(r')
  <2>1. IsOpts(opts') /\ Like(ctx, ctx')
    BY <1>1, <1>2, <1>3, <1>7
  <2>2. IsSend(r')
    BY <1>1, <1>7, FlagsKept
  <2> QED BY <2>1, <2>2
<1>9. ctx.kind = "stream" => Open(ctx', out')
  <2>1. ctx.kind = "stream" => Open(ctx, out) /\ out = <<>>
    BY <1>1 DEF ResponseInv, StreamInv
  <2> QED BY <1>5, <1>8, <2>1, NothingOpen
<1>10. IsCtx(ctx') /\ ctx'.kind = ctx.kind
  BY <1>8 DEF Like
<1> QED BY <1>1, <1>5, <1>8, <1>9, <1>10, StepInv
LEMMA PiecesTypes ==
  ASSUME IsSend(r)
  PROVE  IsSeq(Pieces) /\ \A i \in 1 .. Len(Pieces) : IsPart(Pieces[i])
<1>1. CASE r.range = "ok"
  <2> DEFINE f == [i \in DOMAIN r.ranges |-> Piece(r.ranges[i])]
  <2>1. Pieces = f
    BY <1>1 DEF Pieces
  <2>2. Len(r.ranges) \in Nat /\ DOMAIN r.ranges = 1 .. Len(r.ranges)
    BY DEF IsSend
  <2>3. f = [i \in 1 .. Len(r.ranges) |-> f[i]]
    BY <2>2
  <2>4. ASSUME NEW i \in 1 .. Len(r.ranges) PROVE IsPart(f[i])
    <3>1. f[i] = Piece(r.ranges[i])
      BY <2>2
    <3>2. r.ranges[i] \in Int \X Int
      BY DEF IsSend
    <3>3. r.ranges[i][1] \in Int /\ r.ranges[i][2] \in Int
      BY <3>2
    <3> DEFINE x == r.ranges[i]
    <3> HIDE DEF x
    <3>4. IsSeq(<<<<"part", x[1], x[2]>>>>) /\ IsSeq(<<>>)
      BY SeqOne
    <3>5. Piece(x).begin \in Int /\ Piece(x).forlen \in Int /\ IsSeq(Piece(x).header)
      BY <3>3, <3>4 DEF Piece, x
    <3> QED BY <3>1, <3>5 DEF IsPart, x
  <2> HIDE DEF f
  <2>5. IsSeq(f)
    BY <2>2, <2>3, SeqFun
  <2>6. DOMAIN f = 1 .. Len(f) /\ DOMAIN f = 1 .. Len(r.ranges)
    BY <2>3, <2>5, SeqLen
  <2> QED BY <2>1, <2>4, <2>5, <2>6
<1>2. CASE r.range # "ok"
  <2> DEFINE p == [begin |-> 0, forlen |-> 0, header |-> <<>>]
  <2>1. Pieces = <<p>>
    BY <1>2 DEF Pieces
  <2>2. IsPart(p)
    <3>1. p.begin = 0 /\ p.forlen = 0 /\ p.header = <<>>
      OBVIOUS
    <3> HIDE DEF p
    <3>2. IsSeq(<<>>)
      BY SeqOne
    <3>3. IsSeq(p.header)
      BY <3>1, <3>2
    <3>4. p.begin \in Int /\ p.forlen \in Int
      BY <3>1
    <3> QED BY <3>3, <3>4 DEF IsPart
  <2> HIDE DEF p
  <2>3. IsSeq(<<p>>) /\ Len(<<p>>) = 1 /\ <<p>>[1] = p
    BY SeqOne
  <2> QED BY <2>1, <2>2, <2>3
<1> QED BY <1>1, <1>2

LEMMA PartsSet ==
  ASSUME NEW s, IsSend(s), NEW ps, IsSeq(ps), \A i \in 1 .. Len(ps) : IsPart(ps[i]), NEW t,
         t = [s EXCEPT !.parts = ps]
  PROVE  IsSend(t)
BY DEF IsSend

\* Steps between which nothing is written.
LEMMA StillOpen ==
  ASSUME ResponseInv, pc # "idle", UNCHANGED <<ctx, out>>, ctx.kind = "stream"
  PROVE  Open(ctx', out')
BY DEF ResponseInv, StreamInv

LEMMA SendBodyInv == ResponseInv /\ SendBody => ResponseInv'
<1> SUFFICES ASSUME ResponseInv, SendBody PROVE ResponseInv'
  OBVIOUS
<1>1. /\ UNCHANGED <<opts, body, ctx, out, broken, result, sapi>> /\ pc = "body"
      /\ pc' \in {"finish", "part"}
      /\ UNCHANGED r \/ r' = [r EXCEPT !.parts = Pieces]
  BY DEF SendBody
<1>2. IsOpts(opts) /\ IsCtx(ctx) /\ IsSend(r)
  BY <1>1 DEF ResponseInv, ResponseTypes
<1>3. IsSend(r')
  BY <1>1, <1>2, PiecesTypes, PartsSet
<1>4. ctx.kind = "stream" => Open(ctx', out')
  BY <1>1, StillOpen
<1> QED BY <1>1, <1>2, <1>3, <1>4, StepInv

LEMMA NextPartInv == ResponseInv /\ NextPart => ResponseInv'
<1> SUFFICES ASSUME ResponseInv, NextPart PROVE ResponseInv'
  OBVIOUS
<1>1. /\ UNCHANGED <<opts, body, ctx, out, broken, result, sapi>> /\ pc = "part"
      /\ pc' = "read" /\ r.parts # <<>>
  BY DEF NextPart
<1>2. IsOpts(opts) /\ IsCtx(ctx) /\ IsSend(r)
  BY <1>1 DEF ResponseInv, ResponseTypes
<1> DEFINE p == Head(r.parts)
           ps == Tail(r.parts)
           pos == IF p.begin >= 0 THEN p.begin ELSE r.pos
           forlen == IF p.forlen <= 0 THEN -1 ELSE p.forlen
           buffer == BufferAppend(r.buffer, p.header)
<1>3. r' = [r EXCEPT !.parts = ps, !.ret = "ok", !.pos = pos, !.forlen = forlen, !.buffer = buffer]
  BY DEF NextPart
<1>4. /\ IsSeq(r.parts) /\ Len(r.parts) \in Nat /\ Len(r.parts) >= 1
      /\ \A i \in 1 .. Len(r.parts) : IsPart(r.parts[i])
  BY <1>1, <1>2, SeqLen DEF IsSend
<1>5. IsPart(p)
  <2>1. p = r.parts[1] /\ 1 \in 1 .. Len(r.parts)
    BY <1>4 DEF IsSeq
  <2> QED BY <1>4, <2>1
<1>6. IsSeq(ps) /\ \A i \in 1 .. Len(ps) : IsPart(ps[i])
  <2>3. r.parts \in Seq(Range(r.parts))
    BY <1>4 DEF IsSeq
  <2>1. ps \in Seq(Range(r.parts)) /\ Len(ps) = Len(r.parts) - 1
    BY <1>1, <2>3, HeadTailProperties
  <2>2. ASSUME NEW i \in 1 .. Len(ps) PROVE IsPart(ps[i])
    <3>1. i + 1 \in 1 .. Len(r.parts)
      BY <1>4, <2>1
    <3>2. ps[i] = r.parts[i + 1]
      BY <1>1, <1>4, <2>1 DEF IsSeq
    <3> QED BY <1>4, <3>1, <3>2
  <2> HIDE DEF ps
  <2> QED BY <2>1, <2>2, AnySeq
<1> HIDE DEF ps, p
<1>7. pos \in Nat /\ forlen \in Nat \cup {-1}
  BY <1>2, <1>5 DEF IsPart, IsSend
<1>8. IsBuffer(buffer)
  BY <1>2, <1>5, AppendTypes, SeqLen DEF IsPart, IsSend
<1> HIDE DEF pos, forlen, buffer
<1>9. IsSend(r')
  BY <1>2, <1>3, <1>6, <1>7, <1>8 DEF IsSend
<1>10. ctx.kind = "stream" => Open(ctx', out')
  BY <1>1, StillOpen
<1> QED BY <1>1, <1>2, <1>9, <1>10, StepInv

\* Writing to the context of the send() in progress.
LEMMA WriteOn ==
  ASSUME ResponseInv, pc # "idle", NEW d, NEW o, Written(ctx, d, o), ctx' = d, out' = out \o o
  PROVE  IsCtx(ctx') /\ ctx'.kind = ctx.kind /\ (ctx.kind = "stream" => Open(ctx', out'))
<1>1. ctx.kind = "stream" => Open(ctx, out)
  BY DEF ResponseInv, StreamInv
<1>2. IsCtx(d) /\ d.kind = ctx.kind
  BY DEF Written
<1> QED BY <1>1, <1>2, WriteOpen

LEMMA MovedOn ==
  ASSUME NEW s, IsSend(s), NEW n \in Nat, s.forlen = -1 \/ n <= s.forlen, NEW ret, NEW t,
         t = [s EXCEPT !.pos = s.pos + n, !.forlen = IF s.forlen = -1 THEN -1 ELSE s.forlen - n,
                       !.ret = ret]
  PROVE  IsSend(t)
<1>1. s.pos + n \in Nat /\ (IF s.forlen = -1 THEN -1 ELSE s.forlen - n) \in Nat \cup {-1}
  BY DEF IsSend
<1> QED BY <1>1 DEF IsSend

LEMMA ReadBodyInv == ResponseInv /\ ReadBody => ResponseInv'
<1> SUFFICES ASSUME ResponseInv, ReadBody PROVE ResponseInv'
  OBVIOUS
<1>1. /\ UNCHANGED <<opts, body, broken, result, sapi>> /\ pc = "read" /\ pc' \in {"part", "read"}
  BY DEF ReadBody
<1>2. IsOpts(opts) /\ IsCtx(ctx) /\ IsSend(r) /\ ResponseTypes /\ IsSeq(body.bytes)
  BY <1>1 DEF ResponseInv, ResponseTypes
<1> DEFINE left == SubSeq(body.bytes, r.pos + 1, Len(body.bytes))
           n == AtMost(AtMost(ReadSize, r.forlen), Len(left))
           data == SubSeq(left, 1, n)
<1>3. PICK s, seen :
        /\ seen \in BOOLEAN
        /\ s \in IF n = 0 THEN {[r |-> r, c |-> ctx, out |-> <<>>, ok |-> TRUE]}
                 ELSE send_data(r, data)
        /\ ctx' = s.c
        /\ out' = out \o s.out
        /\ r' = [s.r EXCEPT !.pos = s.r.pos + n,
                            !.forlen = IF s.r.forlen = -1 THEN s.r.forlen ELSE s.r.forlen - n,
                            !.ret = IF seen THEN "failed" ELSE s.r.ret]
  BY DEF ReadBody
<1>4. IsSeq(left) /\ Len(left) \in Nat
  <2>1. r.pos + 1 \in Int /\ r.pos + 1 >= 1 /\ Len(body.bytes) \in Int /\ Len(body.bytes) <= Len(body.bytes)
    BY <1>2, SeqLen DEF IsSend
  <2> QED BY <1>2, <2>1, SeqCut, SeqLen
<1> HIDE DEF left
<1>5. n \in Nat /\ n <= Len(left) /\ (r.forlen = -1 \/ n <= r.forlen)
  BY <1>2, <1>4, ResponseAssumption DEF AtMost, IsSend
<1> HIDE DEF n
<1>6. IsSeq(data)
  <2>1. n \in Int /\ 1 \in Int /\ 1 >= 1
    BY <1>5
  <2> QED BY <1>4, <1>5, <2>1, SeqCut
<1> HIDE DEF data
<1>7. IsSend(s.r) /\ s.r.pos = r.pos /\ s.r.forlen = r.forlen /\ Written(ctx, s.c, s.out)
  <2>1. CASE n = 0
    <3>1. s = [r |-> r, c |-> ctx, out |-> <<>>, ok |-> TRUE]
      BY <1>3, <2>1
    <3>2. s.r = r /\ s.c = ctx /\ s.out = <<>>
      BY <3>1
    <3> QED BY <1>2, <3>2, NothingWritten
  <2>2. CASE n # 0
    BY <1>2, <1>3, <1>6, <2>2, SendData
  <2> QED BY <2>1, <2>2
<1>8. IsSend(r')
  <2>1. r' = [s.r EXCEPT !.pos = s.r.pos + n,
                         !.forlen = IF s.r.forlen = -1 THEN -1 ELSE s.r.forlen - n,
                         !.ret = IF seen THEN "failed" ELSE s.r.ret]
    BY <1>3
  <2> QED BY <1>5, <1>7, <2>1, MovedOn
<1>9. IsCtx(ctx') /\ ctx'.kind = ctx.kind /\ (ctx.kind = "stream" => Open(ctx', out'))
  BY <1>1, <1>3, <1>7, WriteOn
<1> QED BY <1>1, <1>2, <1>8, <1>9, StepInv

LEMMA SendDoneInv == ResponseInv /\ SendDone => ResponseInv'
<1> SUFFICES ASSUME ResponseInv, SendDone PROVE ResponseInv'
  OBVIOUS
<1>1. UNCHANGED <<opts, body, broken, sapi>> /\ pc = "part"
  BY DEF SendDone
<1>2. IsOpts(opts) /\ IsCtx(ctx) /\ IsSend(r) /\ ResponseTypes
  BY <1>1 DEF ResponseInv, ResponseTypes
<1>3. CASE r.ret = "failed"
  <2>1. pc' = "idle" /\ result' = "false" /\ UNCHANGED <<ctx, out>>
    BY <1>3 DEF SendDone, Return
  <2>2. ctx.kind = "stream" => Open(ctx', out')
    BY <1>1, <2>1, StillOpen
  <2> QED BY <1>1, <1>2, <2>1, <2>2, StepInv
<1>4. CASE r.ret # "failed"
  <2> DEFINE closing == <<<<"close">>>>
             buffer == BufferAppend(r.buffer, closing)
             x == IF Len(r.ranges) > 1 THEN [r EXCEPT !.buffer = buffer] ELSE r
  <2>1. PICK s \in send_data(x, NoData) :
          /\ ctx' = s.c /\ out' = out \o s.out /\ r' = s.r
          /\ \/ pc' = "finish" /\ result' = result
             \/ pc' = "idle" /\ result' = "false"
    BY <1>4 DEF SendDone, Return
  <2>2. IsBuffer(buffer)
    <3>1. Len(closing) \in Nat
      BY SeqOne
    <3> QED BY <1>2, <3>1, AppendTypes DEF IsSend
  <2> HIDE DEF buffer, closing
  <2>3. IsSend(x)
    <3>1. ASSUME NEW t, t = [r EXCEPT !.buffer = buffer] PROVE IsSend(t)
      BY <1>2, <2>2, <3>1 DEF IsSend
    <3> QED BY <1>2, <3>1
  <2> HIDE DEF x
  <2>4. IsSend(s.r) /\ Written(ctx, s.c, s.out)
    <3>1. IsSeq(NoData)
      BY SeqOne DEF NoData
    <3> QED BY <1>2, <2>3, <3>1, SendData
  <2>5. IsCtx(ctx') /\ ctx'.kind = ctx.kind /\ (ctx.kind = "stream" => Open(ctx', out'))
    BY <1>1, <2>1, <2>4, WriteOn
  <2> QED BY <1>1, <1>2, <2>1, <2>4, <2>5, StepInv
<1> QED BY <1>3, <1>4

LEMMA FinishInv == ResponseInv /\ Finish => ResponseInv'
<1> SUFFICES ASSUME ResponseInv, Finish PROVE ResponseInv'
  OBVIOUS
<1>1. UNCHANGED <<opts, body, broken, sapi>> /\ pc = "finish" /\ pc' = "idle"
  BY DEF Finish, Return
<1>2. IsCtx(ctx) /\ broken \in BOOLEAN /\ ctx.kind \in {"sapi", "stream"}
  BY DEF ResponseInv, ResponseTypes
<1>3. CASE ctx.kind = "sapi"
  <2>1. UNCHANGED ctx
    BY <1>3 DEF Finish
  <2> QED BY <1>1, <1>3, <2>1 DEF ResponseInv, ResponseTypes, StreamInv
<1>4. CASE ctx.kind = "stream"
  <2> DEFINE f == stream_finish(ctx, opts.request)
  <2>1. ctx' = f.c /\ out' = out \o f.out /\ result' = IF f.c.started THEN "true" ELSE "false"
    BY <1>4 DEF Finish, Return
  <2>2. Open(ctx, out)
    BY <1>1, <1>4 DEF ResponseInv, StreamInv
  <2>3. /\ IsCtx(f.c) /\ f.c.kind = ctx.kind
        /\ Closed(f.c, out \o f.out)
        /\ f.c.started /\ ~broken /\ f.c.chunked =>
             out \o f.out # <<>> /\ (out \o f.out)[Len(out \o f.out)].k = "end"
    BY <1>2, <2>2, FinishClosed
  <2> HIDE DEF f
  <2>4. result' = "true" => f.c.started
    BY <2>1
  <2>5. ResponseTypes'
    BY <1>1, <2>1, <2>3 DEF ResponseInv, ResponseTypes
  <2>6. StreamInv'
    BY <1>1, <2>1, <2>3, <2>4 DEF StreamInv
  <2> QED BY <2>5, <2>6 DEF ResponseInv
<1> QED BY <1>2, <1>3, <1>4
LEMMA StepKeeps == ResponseInv /\ [Next]_vars => ResponseInv'
<1> SUFFICES ASSUME ResponseInv, [Next]_vars PROVE ResponseInv'
  OBVIOUS
<1>1. CASE Set
  BY <1>1, SetInv
<1>2. CASE isCachedByEtag \/ isCachedByLastModified
  BY <1>2, CachedInv
<1>3. CASE \E clean \in BOOLEAN : invoke(clean)
  BY <1>3, InvokeInv
<1>4. CASE \E kind \in {"sapi", "stream"} : send(kind)
  BY <1>4, SendInv
<1>5. CASE PeerGone
  BY <1>5, GoneInv
<1>6. CASE CheckRanges
  BY <1>6, CheckRangesInv
<1>7. CASE SendHead
  BY <1>7, SendHeadInv
<1>8. CASE SendBody
  BY <1>8, SendBodyInv
<1>9. CASE NextPart
  BY <1>9, NextPartInv
<1>10. CASE ReadBody
  BY <1>10, ReadBodyInv
<1>11. CASE SendDone
  BY <1>11, SendDoneInv
<1>12. CASE Finish
  BY <1>12, FinishInv
<1>13. CASE UNCHANGED vars
  BY <1>13, CallInv DEF vars, ResponseInv, ResponseTypes
<1> QED BY <1>1, <1>2, <1>3, <1>4, <1>5, <1>6, <1>7, <1>8, <1>9, <1>10, <1>11, <1>12, <1>13 DEF Next

\* Everything php_http_env_response_send() has got to the peer of a stream is the
\* head as it was set, then data, and the end after all of it.
THEOREM ResponseInvariance == Spec => []ResponseInv
<1>1. Init => ResponseInv
  BY InitInv
<1>2. ResponseInv /\ [Next]_vars => ResponseInv'
  BY StepKeeps
<1> QED BY <1>1, <1>2, PTL DEF Spec

LEMMA InvFrames == ResponseInv => HeadFramesBody
<1> SUFFICES ASSUME ResponseInv, ctx.kind = "stream", out # <<>>
             PROVE  /\ out[1].k = "head" /\ out[1].status = ctx.status /\ out[1].header = ctx.header
                    /\ \A i \in 2 .. Len(out) :
                         /\ out[i].k = "data" => out[i].framed = out[1].chunked
                         /\ out[i].k = "end" => out[1].chunked /\ i = Len(out)
                         /\ out[i].k # "head"
                    /\ result = "true" /\ ~broken /\ out[1].chunked => out[Len(out)].k = "end"
  BY DEF HeadFramesBody
<1>1. /\ out[1] = HeadOf(ctx)
      /\ \A i \in 2 .. Len(out) :
           IsData(ctx, out[i]) \/ (out[i].k = "end" /\ ctx.chunked /\ i = Len(out))
      /\ result = "true" /\ ~broken /\ ctx.chunked => out[Len(out)].k = "end"
  BY DEF ResponseInv, StreamInv, Closed, Begun
<1>2. /\ out[1].k = "head" /\ out[1].status = ctx.status /\ out[1].header = ctx.header
      /\ out[1].chunked = ctx.chunked
  BY <1>1 DEF HeadOf
<1>3. ASSUME NEW i \in 2 .. Len(out)
      PROVE  /\ out[i].k = "data" => out[i].framed = out[1].chunked
             /\ out[i].k = "end" => out[1].chunked /\ i = Len(out)
             /\ out[i].k # "head"
  <2>1. CASE IsData(ctx, out[i])
    BY <1>2, <2>1 DEF IsData
  <2>2. CASE out[i].k = "end" /\ ctx.chunked /\ i = Len(out)
    BY <1>2, <2>2
  <2> QED BY <1>1, <2>1, <2>2
<1> QED BY <1>1, <1>2, <1>3

\* For every body, buffer size, range header and order of calls, and wherever the
\* peer goes away: php_http_env_response_send() writes the head once and first,
\* what follows is framed as it says, and a chunked body that was sent is ended.
THEOREM HeadAlwaysFrames == Spec => []HeadFramesBody
BY ResponseInvariance, InvFrames, PTL

-----------------------------------------------------------------------------
(* What is asked for in a Range header is what is read.                    *)

\* f is the state after each of the characters of the text, s that before them;
States(f, s, text, length) ==
  f = [i \in 0 .. Len(text) |-> IF i = 0 THEN s ELSE RangeChar(f[i - 1], text[i], length)]

\* t is the one after all of them.
ReadTo(s, text, length, t) == \E f : States(f, s, text, length) /\ t = f[Len(text)]

LEMMA ReadNothing ==
  ASSUME NEW s, NEW length
  PROVE  ReadTo(s, <<>>, length, s)
<1> DEFINE f == [i \in 0 .. 0 |-> s]
<1>1. f = [i \in 0 .. 0 |-> IF i = 0 THEN s ELSE RangeChar(f[i - 1], <<>>[i], length)]
  OBVIOUS
<1>2. f[0] = s /\ Len(<<>>) = 0
  OBVIOUS
<1> HIDE DEF f
<1> QED BY <1>1, <1>2 DEF ReadTo, States

LEMMA ReadOne ==
  ASSUME NEW s, NEW c, NEW length
  PROVE  ReadTo(s, <<c>>, length, RangeChar(s, c, length))
<1> DEFINE f == [i \in 0 .. 1 |-> IF i = 0 THEN s ELSE RangeChar(s, c, length)]
<1>1. Len(<<c>>) = 1 /\ <<c>>[1] = c
  OBVIOUS
<1>2. ASSUME NEW i \in 0 .. 1
      PROVE  f[i] = IF i = 0 THEN s ELSE RangeChar(f[i - 1], <<c>>[i], length)
  <2>1. CASE i = 0
    BY <2>1
  <2>2. CASE i = 1
    <3>1. f[i - 1] = s /\ <<c>>[i] = c
      BY <2>2
    <3> QED BY <2>2, <3>1
  <2> QED BY <2>1, <2>2
<1>3. f = [i \in 0 .. 1 |-> f[i]] /\ f[1] = RangeChar(s, c, length)
  OBVIOUS
<1> HIDE DEF f
<1>4. f = [i \in 0 .. Len(<<c>>) |-> IF i = 0 THEN s ELSE RangeChar(f[i - 1], <<c>>[i], length)]
  BY <1>1, <1>2, <1>3
<1> QED BY <1>1, <1>3, <1>4 DEF ReadTo, States

LEMMA ReadOn ==
  ASSUME NEW S, NEW a \in Seq(S), NEW b \in Seq(S), NEW s, NEW t, NEW u, NEW length,
         ReadTo(s, a, length, t), ReadTo(t, b, length, u)
  PROVE  ReadTo(s, a \o b, length, u)
<1> DEFINE m == Len(a)
           n == Len(b)
           x == a \o b
<1>1. /\ m \in Nat /\ n \in Nat /\ Len(x) = m + n
      /\ \A i \in 1 .. m : x[i] = a[i]
      /\ \A i \in m + 1 .. m + n : x[i] = b[i - m]
  <2>1. x \in Seq(S) /\ Len(x) = Len(a) + Len(b)
        /\ \A i \in 1 .. Len(a) + Len(b) : x[i] = IF i <= Len(a) THEN a[i] ELSE b[i - Len(a)]
    BY ConcatProperties
  <2>2. m \in Nat /\ n \in Nat
    OBVIOUS
  <2> HIDE DEF x
  <2> QED BY <2>1, <2>2
<1>2. PICK f : /\ f = [i \in 0 .. m |-> IF i = 0 THEN s ELSE RangeChar(f[i - 1], a[i], length)]
               /\ t = f[m]
  BY DEF ReadTo, States
<1>3. PICK g : /\ g = [i \in 0 .. n |-> IF i = 0 THEN t ELSE RangeChar(g[i - 1], b[i], length)]
               /\ u = g[n]
  BY DEF ReadTo, States
<1> HIDE DEF m, n, x
<1> DEFINE h == [i \in 0 .. m + n |-> IF i <= m THEN f[i] ELSE g[i - m]]
<1>4. /\ f[0] = s /\ \A i \in 1 .. m : f[i] = RangeChar(f[i - 1], a[i], length)
      /\ g[0] = t /\ \A i \in 1 .. n : g[i] = RangeChar(g[i - 1], b[i], length)
  <2>1. \A i \in 0 .. m : f[i] = IF i = 0 THEN s ELSE RangeChar(f[i - 1], a[i], length)
    BY <1>1, <1>2
  <2>2. \A i \in 0 .. n : g[i] = IF i = 0 THEN t ELSE RangeChar(g[i - 1], b[i], length)
    BY <1>1, <1>3
  <2> QED BY <1>1, <2>1, <2>2
<1>5. ASSUME NEW i \in 0 .. m + n
      PROVE  h[i] = IF i = 0 THEN s ELSE RangeChar(h[i - 1], x[i], length)
  <2>1. CASE i = 0
    BY <1>1, <1>4, <2>1
  <2>2. CASE i \in 1 .. m
    <3>1. h[i] = f[i] /\ h[i - 1] = f[i - 1] /\ x[i] = a[i]
      BY <1>1, <2>2
    <3> QED BY <1>1, <1>4, <2>2, <3>1
  <2>3. CASE i \in m + 1 .. m + n
    <3>1. i - m \in 1 .. n /\ (i - m) - 1 = (i - 1) - m
      BY <1>1, <2>3
    <3>2. h[i] = g[i - m] /\ x[i] = b[i - m]
      BY <1>1, <2>3
    <3>3. h[i - 1] = g[(i - m) - 1]
      <4>1. CASE i - 1 <= m
        <5>1. i - 1 = m /\ (i - m) - 1 = 0
          BY <1>1, <2>3, <4>1
        <5>2. h[i - 1] = f[m]
          BY <1>1, <5>1
        <5> QED BY <1>2, <1>4, <5>1, <5>2
      <4>2. CASE ~(i - 1 <= m)
        BY <1>1, <2>3, <3>1, <4>2
      <4> QED BY <4>1, <4>2
    <3>4. g[i - m] = RangeChar(g[(i - m) - 1], b[i - m], length)
      BY <1>4, <3>1
    <3>5. i # 0
      BY <1>1, <2>3
    <3> QED BY <3>2, <3>3, <3>4, <3>5
  <2> QED BY <1>1, <2>1, <2>2, <2>3
<1>6. h = [i \in 0 .. m + n |-> h[i]]
  OBVIOUS
<1>7. h[m + n] = u
  <2>1. CASE n = 0
    <3>1. m + n <= m /\ m + n = m
      BY <1>1, <2>1
    <3>2. h[m + n] = f[m]
      BY <1>1, <3>1
    <3> QED BY <1>2, <1>3, <1>4, <2>1, <3>2
  <2>2. CASE n # 0
    <3>1. m + n \in 0 .. m + n /\ ~(m + n <= m) /\ (m + n) - m = n
      BY <1>1, <2>2
    <3> QED BY <1>3, <3>1
  <2> QED BY <2>1, <2>2
<1> HIDE DEF h
<1>8. h = [i \in 0 .. Len(x) |-> IF i = 0 THEN s ELSE RangeChar(h[i - 1], x[i], length)]
  BY <1>1, <1>5, <1>6
<1>9. ReadTo(s, x, length, u)
  BY <1>1, <1>7, <1>8 DEF ReadTo, States
<1> QED BY <1>9 DEF x

\* There is but one such state.
LEMMA ReadsOne ==
  ASSUME NEW S, NEW text \in Seq(S), NEW s, NEW t, NEW length, ReadTo(s, text, length, t),
         NEW g, States(g, s, text, length)
  PROVE  t = g[Len(text)]
<1> DEFINE n == Len(text)
<1>0. n \in Nat
  OBVIOUS
<1>1. PICK f : /\ f = [i \in 0 .. n |-> IF i = 0 THEN s ELSE RangeChar(f[i - 1], text[i], length)]
               /\ t = f[n]
  BY DEF ReadTo, States
<1> HIDE DEF n
<1>2. \A i \in 0 .. n : f[i] = IF i = 0 THEN s ELSE RangeChar(f[i - 1], text[i], length)
  BY <1>1
<1>3. \A i \in 0 .. n : g[i] = IF i = 0 THEN s ELSE RangeChar(g[i - 1], text[i], length)
  BY DEF n, States
<1> DEFINE D == {k \in Nat : k \in 0 .. n => f[k] = g[k]}
<1>4. ASSUME NEW k \in Nat, \A j \in 0 .. k - 1 : j \in D PROVE k \in D
  <2> SUFFICES ASSUME k \in 0 .. n PROVE f[k] = g[k]
    OBVIOUS
  <2>1. CASE k = 0
    BY <1>2, <1>3, <2>1
  <2>2. CASE k # 0
    <3>1. k - 1 \in 0 .. k - 1 /\ k - 1 \in 0 .. n
      BY <1>0, <2>2
    <3>2. f[k - 1] = g[k - 1]
      BY <1>4, <3>1
    <3> QED BY <1>2, <1>3, <2>2, <3>2
  <2> QED BY <2>1, <2>2
<1> HIDE DEF D
<1>5. n \in D
  BY <1>0, <1>4, Induction
<1> QED BY <1>0, <1>1, <1>5 DEF D, n

\* Once it is decided that there are no ranges, nothing is read any more.
LEMMA ReadStuck ==
  ASSUME NEW S, NEW text \in Seq(S), NEW s, s.status # "ok", NEW length
  PROVE  ReadTo(s, text, length, s)
<1> DEFINE n == Len(text)
           f == [i \in 0 .. n |-> s]
<1>1. ASSUME NEW i \in 0 .. n PROVE f[i] = IF i = 0 THEN s ELSE RangeChar(f[i - 1], text[i], length)
  <2>1. \A c : RangeChar(s, c, length) = s
    BY DEF RangeChar
  <2>2. i # 0 => i - 1 \in 0 .. n
    OBVIOUS
  <2>3. f[i] = s /\ (i # 0 => f[i - 1] = s)
    BY <2>2
  <2> HIDE DEF f
  <2> QED BY <2>1, <2>3
<1>2. f = [i \in 0 .. n |-> f[i]] /\ n \in 0 .. n
  OBVIOUS
<1>3. f[n] = s
  BY <1>2
<1> HIDE DEF f
<1>4. f = [i \in 0 .. n |-> IF i = 0 THEN s ELSE RangeChar(f[i - 1], text[i], length)]
  BY <1>1, <1>2
<1> QED BY <1>3, <1>4 DEF ReadTo, States

\* f is the digits of every number up to n.
DigitsOf(f, n) == f = [k \in 0 .. n |-> IF k < 10 THEN <<k>> ELSE Append(f[k \div 10], k % 10)]

\* A number and its last digit.
LEMMA Tenths ==
  ASSUME NEW k \in Nat
  PROVE  /\ k % 10 \in 0 .. 9
         /\ ~(k < 10) => k \div 10 \in 1 .. k - 1
         /\ k = 10 * (k \div 10) + (k % 10)
<1>1. k % 10 \in 0 .. 9 /\ k \div 10 \in Nat
  OBVIOUS
<1>2. k = 10 * (k \div 10) + (k % 10)
  OBVIOUS
<1>3. PICK j \in Nat, d \in 0 .. 9 : j = k \div 10 /\ d = k % 10
  BY <1>1
<1>4. k = 10 * j + d
  BY <1>2, <1>3
<1>5. ~(k < 10) => j \in 1 .. k - 1
  BY <1>4
<1> QED BY <1>1, <1>2, <1>3, <1>5

LEMMA DigitsExist ==
  ASSUME NEW n \in Nat
  PROVE  \E f : DigitsOf(f, n)
<1> DEFINE S == {k \in Nat : \E f : DigitsOf(f, k)}
<1>1. ASSUME NEW m \in Nat, \A k \in 0 .. m - 1 : k \in S PROVE m \in S
  <2>1. CASE m = 0
    <3> DEFINE f == [k \in 0 .. 0 |-> <<k>>]
    <3>1. \A k \in 0 .. 0 : k < 10
      OBVIOUS
    <3>2. f = [k \in 0 .. 0 |-> IF k < 10 THEN <<k>> ELSE Append(f[k \div 10], k % 10)]
      BY <3>1
    <3>3. DigitsOf(f, 0)
      BY <3>2 DEF DigitsOf
    <3> QED BY <2>1, <3>3
  <2>2. CASE m # 0
    <3>1. m - 1 \in 0 .. m - 1
      BY <2>2
    <3>2. PICK g : DigitsOf(g, m - 1)
      BY <1>1, <3>1
    <3> DEFINE f == [k \in 0 .. m |->
                       IF k = m THEN (IF m < 10 THEN <<m>> ELSE Append(g[m \div 10], m % 10)) ELSE g[k]]
    <3>3. \A k \in 0 .. m - 1 : g[k] = IF k < 10 THEN <<k>> ELSE Append(g[k \div 10], k % 10)
      BY <3>2 DEF DigitsOf
    <3>4. ASSUME NEW k \in 0 .. m
          PROVE  f[k] = IF k < 10 THEN <<k>> ELSE Append(f[k \div 10], k % 10)
      <4>0. ~(k < 10) => k \div 10 \in 0 .. m /\ k \div 10 # m
        BY Tenths
      <4>1. ~(k < 10) => f[k \div 10] = g[k \div 10]
        BY <4>0
      <4>2. f[k] = IF k = m THEN (IF m < 10 THEN <<m>> ELSE Append(g[m \div 10], m % 10)) ELSE g[k]
        OBVIOUS
      <4> HIDE DEF f
      <4>3. k # m => k \in 0 .. m - 1
        OBVIOUS
      <4> QED BY <3>3, <4>1, <4>2, <4>3
    <3>5. f = [k \in 0 .. m |-> f[k]]
      OBVIOUS
    <3> HIDE DEF f
    <3>6. DigitsOf(f, m)
      BY <3>4, <3>5 DEF DigitsOf
    <3> QED BY <3>6
  <2> QED BY <2>1, <2>2
<1> HIDE DEF S
<1>2. n \in S
  BY <1>1, Induction
<1> QED BY <1>2 DEF S

LEMMA DigitsAre ==
  ASSUME NEW n \in Nat
  PROVE  \E f : DigitsOf(f, n) /\ Digits(n) = f[n]
<1> DEFINE digits[k \in 0 .. n] == IF k < 10 THEN <<k>> ELSE Append(digits[k \div 10], k % 10)
<1>1. Digits(n) = digits[n]
  BY DEF Digits
<1>2. digits = CHOOSE f : DigitsOf(f, n)
  BY DEF DigitsOf
<1>3. \E f : DigitsOf(f, n)
  BY DigitsExist
<1> HIDE DEF digits
<1>4. DigitsOf(digits, n)
  BY <1>2, <1>3, Zenon
<1> QED BY <1>1, <1>4

\* A number as the code keeps it,
Kept(n) == IF n = 0 THEN -10 ELSE n

\* where the digits go.
With(s, n) == IF s.ptr = "begin" THEN [s EXCEPT !.begin = n] ELSE [s EXCEPT !.end = n]

LEMMA WithTypes ==
  ASSUME NEW s \in RangeState, NEW n \in Int
  PROVE  With(s, n) \in RangeState /\ With(s, n).ptr = s.ptr /\ With(s, n).status = s.status
BY DEF With, RangeState

LEMMA WithTwice ==
  ASSUME NEW s \in RangeState, NEW n \in Int, NEW m \in Int
  PROVE  With(With(s, n), m) = With(s, m)
BY DEF With, RangeState

LEMMA CharWith ==
  ASSUME NEW s \in RangeState, s.status = "ok", NEW n \in Int, NEW c \in 0 .. 9, NEW length
  PROVE  RangeChar(With(s, n), c, length) = With(s, WithDigit(n, c))
<1> DEFINE t == With(s, n)
<1>1. t \in RangeState /\ t.ptr = s.ptr /\ t.status = "ok"
  BY WithTypes
<1>2. (s.ptr = "begin" => t.begin = n) /\ (s.ptr # "begin" => t.end = n) /\ s.ptr \in {"begin", "end"}
  BY DEF With, RangeState
<1> HIDE DEF t
<1>3. CASE s.ptr = "begin"
  <2>1. RangeChar(t, c, length) = [t EXCEPT !.begin = WithDigit(t.begin, c)]
    BY <1>1, <1>3 DEF RangeChar, Dash, Comma, Gap, End
  <2>2. RangeChar(t, c, length) = With(t, WithDigit(n, c))
    BY <1>1, <1>2, <1>3, <2>1 DEF With
  <2> QED BY <2>2, DigitTypes, WithTwice DEF t
<1>4. CASE s.ptr = "end"
  <2>1. RangeChar(t, c, length) = [t EXCEPT !.end = WithDigit(t.end, c)]
    BY <1>1, <1>4 DEF RangeChar, Dash, Comma, Gap, End
  <2>2. RangeChar(t, c, length) = With(t, WithDigit(n, c))
    BY <1>1, <1>2, <1>4, <2>1 DEF With
  <2> QED BY <2>2, DigitTypes, WithTwice DEF t
<1> QED BY <1>2, <1>3, <1>4

\* The digits of a number are read as that number, 0 as -10.
LEMMA DigitsRead ==
  ASSUME NEW s \in RangeState, s.status = "ok", s = With(s, -1), NEW n \in Nat, NEW length
  PROVE  /\ Digits(n) \in Seq(0 .. 9)
         /\ ReadTo(s, Digits(n), length, With(s, Kept(n)))
<1>1. PICK f : DigitsOf(f, n) /\ Digits(n) = f[n]
  BY DigitsAre
<1>2. \A k \in 0 .. n : f[k] = IF k < 10 THEN <<k>> ELSE Append(f[k \div 10], k % 10)
  BY <1>1 DEF DigitsOf
<1> DEFINE Fine(k) == f[k] \in Seq(0 .. 9) /\ ReadTo(s, f[k], length, With(s, Kept(k)))
           D == {k \in Nat : k \in 0 .. n => Fine(k)}
<1>3. ASSUME NEW k \in Nat, \A j \in 0 .. k - 1 : j \in D PROVE k \in D
  <2> SUFFICES ASSUME k \in 0 .. n PROVE Fine(k)
    OBVIOUS
  <2>1. CASE k < 10
    <3>0. f[k] = <<k>>
      BY <1>2, <2>1
    <3>1. k \in 0 .. 9 /\ -1 \in Int
      BY <2>1
    <3>2. ReadTo(s, <<k>>, length, RangeChar(s, k, length))
      BY ReadOne
    <3>3. RangeChar(s, k, length) = With(s, WithDigit(-1, k))
      BY <3>1, CharWith
    <3>4. WithDigit(-1, k) = Kept(k)
      BY <3>1 DEF WithDigit, Kept
    <3>5. <<k>> \in Seq(0 .. 9)
      BY <3>1
    <3> QED BY <3>0, <3>2, <3>3, <3>4, <3>5
  <2>2. CASE ~(k < 10)
    <3> DEFINE j == k \div 10
               c == k % 10
    <3>1. j \in 1 .. k - 1 /\ c \in 0 .. 9 /\ k = 10 * j + c
      BY <2>2, Tenths
    <3>2. f[k] = Append(f[j], c)
      BY <1>2, <2>2
    <3> HIDE DEF j, c
    <3>3. j \in D /\ j \in 0 .. n
      BY <1>3, <3>1
    <3>4. Fine(j)
      BY <3>3
    <3>5. f[k] = f[j] \o <<c>> /\ f[k] \in Seq(0 .. 9) /\ <<c>> \in Seq(0 .. 9)
      BY <3>1, <3>2, <3>4, AppendIsConcat, AppendProperties
    <3> DEFINE t == With(s, Kept(j))
    <3>6. ReadTo(t, <<c>>, length, RangeChar(t, c, length))
      BY ReadOne
    <3>7. RangeChar(t, c, length) = With(s, WithDigit(Kept(j), c))
      <4>1. Kept(j) \in Int
        BY <3>1 DEF Kept
      <4> QED BY <3>1, <4>1, CharWith
    <3>8. WithDigit(Kept(j), c) = Kept(k)
      BY <3>1 DEF WithDigit, Kept
    <3>9. ReadTo(s, f[j], length, t)
      BY <3>4
    <3> HIDE DEF t
    <3>10. ReadTo(s, f[j] \o <<c>>, length, RangeChar(t, c, length))
      <4>1. f[j] \in Seq(0 .. 9)
        BY <3>4
      <4> QED BY <3>5, <3>6, <3>9, <4>1, ReadOn
    <3> QED BY <3>5, <3>7, <3>8, <3>10
  <2> QED BY <2>1, <2>2
<1> HIDE DEF D
<1>4. n \in D
  BY <1>3, Induction
<1>5. Fine(n)
  BY <1>4 DEF D
<1> QED BY <1>1, <1>5

LEMMA PositionRead ==
  ASSUME NEW s \in RangeState, s.status = "ok", s = With(s, -1), NEW n \in Nat \cup {-1}, NEW length
  PROVE  /\ Position(n) \in Seq(0 .. 9)
         /\ ReadTo(s, Position(n), length, With(s, Kept(n)))
<1>1. CASE n = -1
  <2>1. Position(n) = <<>> /\ Kept(n) = -1 /\ <<>> \in Seq(0 .. 9)
    BY <1>1 DEF Position, Kept
  <2> QED BY <2>1, ReadNothing
<1>2. CASE n # -1
  BY <1>2, DigitsRead DEF Position
<1> QED BY <1>1, <1>2

\* One range, before it is known whether it will do.
Blank(s) == s \in RangeState /\ s.status = "ok" /\ s.begin = -1 /\ s.end = -1 /\ s.ptr = "begin"
Seen(s, spec) ==
  [begin |-> Kept(spec[1]), end |-> Kept(spec[2]), ptr |-> "end", ranges |-> s.ranges, status |-> "ok"]

LEMMA SpelledRead ==
  ASSUME NEW s, Blank(s), NEW spec \in SpecSet, NEW length
  PROVE  /\ Spelled(spec) \in Seq(0 .. 12)
         /\ ReadTo(s, Spelled(spec), length, Seen(s, spec))
         /\ Seen(s, spec) \in RangeState
<1> DEFINE b == spec[1]
           e == spec[2]
<1>1. b \in Nat \cup {-1} /\ e \in Nat \cup {-1} /\ Kept(b) \in Int /\ Kept(e) \in Int
  BY DEF SpecSet, Kept
<1> HIDE DEF b, e
<1> DEFINE t == With(s, Kept(b))
           u == RangeChar(t, Dash, length)
           v == With(u, Kept(e))
<1>2. s \in RangeState /\ s.status = "ok" /\ s = With(s, -1)
  BY DEF Blank, With, RangeState
<1>3. Position(b) \in Seq(0 .. 9) /\ ReadTo(s, Position(b), length, t)
  BY <1>1, <1>2, PositionRead
<1>4. t = [begin |-> Kept(b), end |-> -1, ptr |-> "begin", ranges |-> s.ranges, status |-> "ok"]
  BY DEF Blank, With, RangeState
<1> HIDE DEF t
<1>5. u = [begin |-> Kept(b), end |-> -1, ptr |-> "end", ranges |-> s.ranges, status |-> "ok"]
  <2>1. u = [t EXCEPT !.ptr = "end"]
    BY <1>4 DEF RangeChar, Dash, Comma, Gap, End
  <2> QED BY <1>4, <2>1
<1>6. ReadTo(t, <<Dash>>, length, u)
  BY ReadOne
<1> HIDE DEF u
<1>7. u \in RangeState /\ u.status = "ok" /\ u = With(u, -1)
  <2>1. s.ranges \in Seq(Int \X Int)
    BY <1>2 DEF RangeState
  <2> QED BY <1>1, <1>5, <2>1 DEF RangeState, With
<1>8. Position(e) \in Seq(0 .. 9) /\ ReadTo(u, Position(e), length, v)
  BY <1>1, <1>7, PositionRead
<1>9. v = Seen(s, spec) /\ v \in RangeState
  <2>1. v = [begin |-> Kept(b), end |-> Kept(e), ptr |-> "end", ranges |-> s.ranges, status |-> "ok"]
    BY <1>5 DEF With
  <2>2. v \in RangeState
    BY <1>1, <1>7, WithTypes
  <2> QED BY <2>1, <2>2 DEF Seen, b, e
<1> HIDE DEF v
<1>10. Position(b) \in Seq(0 .. 12) /\ Position(e) \in Seq(0 .. 12) /\ <<Dash>> \in Seq(0 .. 12)
  BY <1>3, <1>8 DEF Dash
<1>11. /\ Position(b) \o <<Dash>> \in Seq(0 .. 12)
       /\ ReadTo(s, Position(b) \o <<Dash>>, length, u)
  BY <1>3, <1>6, <1>10, ReadOn, ConcatProperties
<1> DEFINE x == Position(b) \o <<Dash>>
<1>12. x \in Seq(0 .. 12) /\ ReadTo(s, x, length, u)
  BY <1>11
<1> HIDE DEF x
<1>13. /\ x \o Position(e) \in Seq(0 .. 12)
       /\ ReadTo(s, x \o Position(e), length, v)
  BY <1>8, <1>10, <1>12, ReadOn, ConcatProperties
<1>14. Spelled(spec) = x \o Position(e)
  BY DEF Spelled, x, b, e
<1> QED BY <1>9, <1>13, <1>14

\* What becomes of a range, and of all of them.
Served(spec, length) ==
  IF length = 0 THEN <<Kept(spec[1]), Kept(spec[2])>>
  ELSE Validate(Kept(spec[1]), Kept(spec[2]), length)
AllServed(specs, n, length) == [i \in 1 .. n |-> Served(specs[i], length)]

LEMMA ServedTypes ==
  ASSUME NEW spec \in SpecSet, NEW length \in Nat
  PROVE  Served(spec, length) \in (Int \X Int) \cup {<<"no">>, <<"err">>}
<1>1. Kept(spec[1]) \in Int /\ Kept(spec[2]) \in Int
  BY DEF SpecSet, Kept
<1> QED BY <1>1, ValidateTypes DEF Served

LEMMA RangeDone ==
  ASSUME NEW s, Blank(s), NEW spec \in SpecSet, NEW length \in Nat, NEW c \in {Comma, End}
  PROVE  LET u == RangeChar(Seen(s, spec), c, length)
         IN  /\ u \in RangeState
             /\ u.status = "ok" => Blank(u) /\ u.ranges = Append(s.ranges, Served(spec, length))
<1> DEFINE t == Seen(s, spec)
           v == Served(spec, length)
           u == RangeChar(t, c, length)
<1>1. t \in RangeState /\ t.status = "ok" /\ t.ranges = s.ranges
  <2>1. t \in RangeState
    BY SpelledRead
  <2> QED BY <2>1 DEF Seen
<1>2. RangeOf(t, length) = v
  BY DEF RangeOf, Served, Seen
<1>3. v \in (Int \X Int) \cup {<<"no">>, <<"err">>}
  BY ServedTypes
<1>4. u \in RangeState
  <2>1. c \in 0 .. 13
    BY DEF Comma, End
  <2> QED BY <1>1, <2>1, RangeCharTypes
<1>5. \/ v \in {<<"no">>, <<"err">>} /\ u = [t EXCEPT !.status = v[1]]
      \/ /\ v \notin {<<"no">>, <<"err">>}
         /\ u = [t EXCEPT !.ranges = Append(s.ranges, v), !.begin = -1, !.end = -1, !.ptr = "begin"]
  <2> HIDE DEF t, v
  <2>1. \/ v \in {<<"no">>, <<"err">>} /\ u = [t EXCEPT !.status = v[1]]
        \/ /\ v \notin {<<"no">>, <<"err">>}
           /\ u = [t EXCEPT !.ranges = Append(t.ranges, v), !.begin = -1, !.end = -1, !.ptr = "begin"]
    BY <1>1, <1>2 DEF RangeChar, Dash, Comma, Gap, End
  <2> QED BY <1>1, <2>1
<1> HIDE DEF t, v, u
<1>6. CASE v \in {<<"no">>, <<"err">>}
  <2>1. v[1] # "ok"
    BY <1>6
  <2>2. u.status = v[1]
    BY <1>1, <1>5, <1>6 DEF RangeState
  <2> QED BY <1>4, <2>1, <2>2 DEF t, u, v
<1>7. CASE v \notin {<<"no">>, <<"err">>}
  <2>1. u = [t EXCEPT !.ranges = Append(s.ranges, v), !.begin = -1, !.end = -1, !.ptr = "begin"]
    BY <1>5, <1>7
  <2>2. /\ u.ranges = Append(s.ranges, v) /\ u.begin = -1 /\ u.end = -1 /\ u.ptr = "begin"
        /\ u.status = "ok"
    BY <1>1, <2>1 DEF RangeState
  <2>3. Blank(u)
    BY <1>4, <2>2 DEF Blank
  <2> QED BY <1>4, <2>2, <2>3 DEF t, u, v
<1> QED BY <1>6, <1>7

\* The header up to some range.
LEMMA HeaderGrows ==
  ASSUME NEW specs \in Seq(SpecSet), NEW spec \in SpecSet
  PROVE  /\ RangeHeader(Append(specs, spec)) =
              RangeHeader(specs) \o ((IF specs = <<>> THEN <<>> ELSE <<Comma>>) \o Spelled(spec))
         /\ RangeHeader(specs) \in Seq(0 .. 12) /\ RangeHeader(<<>>) = <<>>
<1> DEFINE item(i, x) == (IF i = 1 THEN <<>> ELSE <<Comma>>) \o Spelled(x)
           more == Append(specs, spec)
           n == Len(specs)
           items == [i \in DOMAIN specs |-> item(i, specs[i])]
           last == item(n + 1, spec)
<1>1. ASSUME NEW x \in SpecSet PROVE Spelled(x) \in Seq(0 .. 12)
  <2>1. Blank(NoRanges)
    BY DEF Blank, NoRanges, RangeState
  <2>2. \A length : Spelled(x) \in Seq(0 .. 12)
    BY <2>1, SpelledRead
  <2> QED BY <2>2
<1>2. ASSUME NEW i, NEW x \in SpecSet PROVE item(i, x) \in Seq(0 .. 12)
  <2>1. <<>> \in Seq(0 .. 12) /\ <<Comma>> \in Seq(0 .. 12)
    BY DEF Comma
  <2>2. (IF i = 1 THEN <<>> ELSE <<Comma>>) \in Seq(0 .. 12)
    BY <2>1
  <2> QED BY <1>1, <2>2, ConcatProperties
<1>3. n \in Nat /\ DOMAIN specs = 1 .. n /\ \A i \in 1 .. n : specs[i] \in SpecSet
  OBVIOUS
<1>4. /\ more \in Seq(SpecSet) /\ Len(more) = n + 1 /\ DOMAIN more = 1 .. n + 1
      /\ more[n + 1] = spec /\ \A i \in 1 .. n : more[i] = specs[i]
  <2>1. more \in Seq(SpecSet) /\ Len(more) = n + 1
    BY AppendProperties
  <2>2. more[n + 1] = spec /\ \A i \in 1 .. n : more[i] = specs[i]
    BY AppendProperties
  <2> HIDE DEF more
  <2>3. DOMAIN more = 1 .. n + 1
    BY <2>1
  <2> QED BY <2>1, <2>2, <2>3
<1> HIDE DEF item, more
<1>5. items \in Seq(Seq(0 .. 12)) /\ last \in Seq(0 .. 12)
  <2>1. \A i \in 1 .. n : item(i, specs[i]) \in Seq(0 .. 12)
    BY <1>2, <1>3
  <2>2. last \in Seq(0 .. 12)
    BY <1>2
  <2> HIDE DEF n
  <2>3. items \in [1 .. n -> Seq(0 .. 12)]
    BY <1>3, <2>1
  <2> QED BY <1>3, <2>2, <2>3
<1>6. [i \in DOMAIN more |-> item(i, more[i])] = Append(items, last)
  <2> DEFINE f == [i \in 1 .. n + 1 |-> item(i, more[i])]
             g == Append(items, last)
  <2>0. Len(items) = n /\ DOMAIN items = 1 .. n
    BY <1>3
  <2>1. /\ g \in Seq(Seq(0 .. 12)) /\ Len(g) = n + 1
        /\ \A i \in 1 .. n : g[i] = items[i]
        /\ g[n + 1] = last
    <3> HIDE DEF items, last
    <3> QED BY <1>5, <2>0, AppendProperties
  <2>2. \A i \in 1 .. n : items[i] = item(i, specs[i])
    BY <1>3
  <2> HIDE DEF g, items, n
  <2>3. DOMAIN g = 1 .. n + 1 /\ g = [i \in 1 .. n + 1 |-> g[i]]
    <3> DEFINE S == Seq(0 .. 12)
    <3>1. g \in Seq(S)
      BY <2>1
    <3> HIDE DEF S
    <3> QED BY <2>1, <3>1
  <2>4. ASSUME NEW i \in 1 .. n + 1 PROVE g[i] = item(i, more[i])
    <3>1. CASE i \in 1 .. n
      BY <1>4, <2>1, <2>2, <3>1
    <3>2. CASE i = n + 1
      BY <1>4, <2>1, <3>2
    <3> QED BY <1>3, <3>1, <3>2
  <2>5. f = g
    BY <2>3, <2>4
  <2> QED BY <1>4, <2>5 DEF g
<1>7. RangeHeader(specs) = FlattenSeq(items) /\ RangeHeader(more) = FlattenSeq(Append(items, last))
  BY <1>6 DEF RangeHeader, item
<1>8. last = (IF specs = <<>> THEN <<>> ELSE <<Comma>>) \o Spelled(spec)
  <2>1. n + 1 = 1 <=> specs = <<>>
    BY <1>3, EmptySeq
  <2> QED BY <2>1 DEF item
<1>9. RangeHeader(<<>>) = <<>>
  <2>1. RangeHeader(<<>>) = FlattenSeq(<<>>)
    BY DEF RangeHeader
  <2> QED BY <2>1, FlattenEmpty
<1> HIDE DEF items, last
<1>10. FlattenSeq(Append(items, last)) = FlattenSeq(items) \o last /\ FlattenSeq(items) \in Seq(0 .. 12)
  BY <1>5, FlattenAppend, FlattenType
<1> QED BY <1>7, <1>8, <1>9, <1>10 DEF more

\* The ranges read so far and the next one.
LEMMA ServedAppend ==
  ASSUME NEW specs, NEW length, NEW n \in Nat
  PROVE  /\ AllServed(specs, n + 1, length) = Append(AllServed(specs, n, length), Served(specs[n + 1], length))
         /\ AllServed(specs, 0, length) = <<>>
<1> DEFINE f == AllServed(specs, n, length)
           x == Served(specs[n + 1], length)
           g == AllServed(specs, n + 1, length)
           S == {Served(specs[i], length) : i \in 1 .. n + 1}
<1>1. f \in Seq(S) /\ x \in S /\ Len(f) = n
  <2>1. f \in [1 .. n -> S] /\ f = [i \in 1 .. n |-> f[i]]
    BY DEF AllServed
  <2> HIDE DEF f, S
  <2>2. f \in Seq(S) /\ Len(f) = n
    BY <2>1
  <2> QED BY <2>2 DEF S
<1>2. \A i \in 1 .. n : g[i] = f[i]
  BY DEF AllServed
<1>3. g[n + 1] = x
  BY DEF AllServed
<1>4. g = [i \in 1 .. n + 1 |-> g[i]]
  BY DEF AllServed
<1>5. AllServed(specs, 0, length) = <<>>
  BY DEF AllServed
<1> HIDE DEF f, x, g, S
<1>6. /\ Append(f, x) \in Seq(S) /\ Len(Append(f, x)) = n + 1
      /\ \A i \in 1 .. n : Append(f, x)[i] = f[i]
      /\ Append(f, x)[n + 1] = x
  BY <1>1, AppendProperties
<1> DEFINE h == Append(f, x)
<1>7. h \in Seq(S) /\ Len(h) = n + 1 /\ (\A i \in 1 .. n : h[i] = f[i]) /\ h[n + 1] = x
  BY <1>6
<1> HIDE DEF h
<1>8. h = [i \in 1 .. n + 1 |-> h[i]]
  BY <1>7
<1>10. ASSUME NEW i \in 1 .. n + 1 PROVE g[i] = h[i]
  <2>1. i \in 1 .. n \/ i = n + 1
    OBVIOUS
  <2> QED BY <1>2, <1>3, <1>7, <2>1
<1>9. g = Append(f, x)
  BY <1>4, <1>8, <1>10 DEF h
<1> QED BY <1>5, <1>9 DEF f, g, x

\* What has been read of the ranges: all but the last are decided.
Pending(specs, length, t) ==
  /\ t \in RangeState
  /\ t.status = "ok" =>
       \E s : Blank(s) /\ t = Seen(s, specs[Len(specs)]) /\ s.ranges = AllServed(specs, Len(specs) - 1, length)

LEMMA HeaderRead ==
  ASSUME NEW length \in Nat, NEW specs \in Seq(SpecSet), specs # <<>>
  PROVE  \E t : ReadTo(NoRanges, RangeHeader(specs), length, t) /\ Pending(specs, length, t)
<1> DEFINE Fine(u) == \E t : ReadTo(NoRanges, RangeHeader(u), length, t) /\ Pending(u, length, t)
           D == {n \in Nat : \A u \in Seq(SpecSet) : Len(u) = n /\ u # <<>> => Fine(u)}
<1>1. ASSUME NEW n \in Nat, \A k \in 0 .. n - 1 : k \in D PROVE n \in D
  <2> SUFFICES ASSUME NEW w \in Seq(SpecSet), Len(w) = n, w # <<>> PROVE Fine(w)
    OBVIOUS
  <2>1. PICK u \in Seq(SpecSet), x \in SpecSet : w = Append(u, x)
    BY SequenceEmptyOrAppend
  <2>2. Len(u) \in Nat /\ n = Len(u) + 1 /\ w[n] = x /\ \A i \in 1 .. Len(u) : w[i] = u[i]
    BY <2>1, AppendProperties, LenProperties
  <2>3. /\ RangeHeader(w) = RangeHeader(u) \o ((IF u = <<>> THEN <<>> ELSE <<Comma>>) \o Spelled(x))
        /\ RangeHeader(u) \in Seq(0 .. 12) /\ RangeHeader(<<>>) = <<>>
    BY <2>1, HeaderGrows
  <2>4. Blank(NoRanges)
    BY DEF Blank, NoRanges, RangeState
  <2>5. Spelled(x) \in Seq(0 .. 12)
    BY <2>4, SpelledRead
  <2>6. CASE u = <<>>
    <3>1. RangeHeader(w) = Spelled(x)
      <4>1. <<>> \o (<<>> \o Spelled(x)) = Spelled(x)
        BY <2>5, ConcatEmptySeq
      <4> QED BY <2>3, <2>6, <4>1
    <3>2. ReadTo(NoRanges, Spelled(x), length, Seen(NoRanges, x)) /\ Seen(NoRanges, x) \in RangeState
      BY <2>4, SpelledRead
    <3>3. n = 1 /\ n - 1 = 0
      <4>1. Len(u) = 0
        BY <2>6
      <4> QED BY <2>2, <4>1
    <3>4. NoRanges.ranges = AllServed(w, n - 1, length)
      <4>1. AllServed(w, 0, length) = <<>>
        BY ServedAppend
      <4> QED BY <3>3, <4>1 DEF NoRanges
    <3>5. Pending(w, length, Seen(NoRanges, x))
      BY <2>2, <2>4, <3>2, <3>4 DEF Pending
    <3> QED BY <3>1, <3>2, <3>5
  <2>7. CASE u # <<>>
    <3>1. Fine(u)
      <4>1. Len(u) \in 0 .. n - 1
        BY <2>2
      <4> HIDE DEF D, Fine
      <4>2. Len(u) \in D
        BY <1>1, <4>1
      <4> QED BY <2>7, <4>2 DEF D
    <3>2. PICK t : ReadTo(NoRanges, RangeHeader(u), length, t) /\ Pending(u, length, t)
      BY <3>1
    <3> DEFINE comma == <<Comma>>
               rest == comma \o Spelled(x)
    <3>3. RangeHeader(w) = RangeHeader(u) \o rest
      BY <2>3, <2>7
    <3>4. comma \in Seq(0 .. 12) /\ rest \in Seq(0 .. 12)
      <4>1. comma \in Seq(0 .. 12)
        BY DEF Comma
      <4> QED BY <2>5, <4>1, ConcatProperties
    <3> DEFINE c == RangeChar(t, Comma, length)
    <3>5. ReadTo(t, comma, length, c)
      BY ReadOne
    <3> HIDE DEF comma, rest
    <3>6. SUFFICES \E v : ReadTo(t, rest, length, v) /\ Pending(w, length, v)
      BY <2>3, <3>2, <3>3, <3>4, ReadOn
    <3>7. CASE t.status # "ok"
      <4>1. ReadTo(t, rest, length, t)
        BY <3>4, <3>7, ReadStuck
      <4>2. Pending(w, length, t)
        BY <3>2, <3>7 DEF Pending
      <4> QED BY <4>1, <4>2
    <3>8. CASE t.status = "ok"
      <4>1. PICK s : Blank(s) /\ t = Seen(s, u[Len(u)]) /\ s.ranges = AllServed(u, Len(u) - 1, length)
        BY <3>2, <3>8 DEF Pending
      <4>2. u[Len(u)] \in SpecSet /\ Len(u) - 1 \in Nat /\ Len(u) \in 1 .. Len(u)
        <5>1. Len(u) # 0
          BY <2>7, EmptySeq
        <5>2. Len(u) \in 1 .. Len(u)
          BY <2>2, <5>1
        <5> QED BY <2>2, <5>1, <5>2
      <4>3. /\ c \in RangeState
            /\ c.status = "ok" => Blank(c) /\ c.ranges = Append(s.ranges, Served(u[Len(u)], length))
        BY <4>1, <4>2, RangeDone
      <4> HIDE DEF c
      <4>4. CASE c.status # "ok"
        <5>1. ReadTo(c, Spelled(x), length, c)
          BY <2>5, <4>4, ReadStuck
        <5>2. ReadTo(t, rest, length, c)
          BY <2>5, <3>4, <3>5, <5>1, ReadOn DEF rest
        <5>3. Pending(w, length, c)
          BY <4>3, <4>4 DEF Pending
        <5> QED BY <5>2, <5>3
      <4>5. CASE c.status = "ok"
        <5>1. Blank(c) /\ c.ranges = AllServed(u, Len(u), length)
          <6>1. PICK m : m = Len(u) - 1
            OBVIOUS
          <6>2. m \in Nat /\ m + 1 = Len(u)
            BY <2>2, <4>2, <6>1
          <6>3. AllServed(u, m + 1, length) = Append(AllServed(u, m, length), Served(u[m + 1], length))
            BY <6>2, ServedAppend
          <6> QED BY <4>1, <4>3, <4>5, <6>1, <6>2, <6>3
        <5>2. AllServed(u, Len(u), length) = AllServed(w, n - 1, length)
          <6>1. n - 1 = Len(u)
            BY <2>2
          <6>2. \A i \in 1 .. Len(u) : u[i] = w[i]
            BY <2>2
          <6> QED BY <6>1, <6>2 DEF AllServed
        <5>3. ReadTo(c, Spelled(x), length, Seen(c, x)) /\ Seen(c, x) \in RangeState
          BY <5>1, SpelledRead
        <5>4. ReadTo(t, rest, length, Seen(c, x))
          BY <2>5, <3>4, <3>5, <5>3, ReadOn DEF rest
        <5>5. Pending(w, length, Seen(c, x))
          BY <2>2, <5>1, <5>2, <5>3 DEF Pending
        <5> QED BY <5>4, <5>5
      <4> QED BY <4>4, <4>5
    <3> QED BY <3>7, <3>8
  <2> QED BY <2>6, <2>7
<1> HIDE DEF D, Fine
<1>2. Len(specs) \in D
  BY <1>1, Induction, LenProperties
<1> QED BY <1>2 DEF D, Fine

\* If there are ranges to serve, then those that were asked for, in their order.
LEMMA RangesRead ==
  ASSUME NEW q, Asks(q), NEW length \in Nat,
         get_request_ranges(q, length).status = "ok"
  PROVE  /\ q.specs # <<>>
         /\ get_request_ranges(q, length).ranges = AllServed(q.specs, Len(q.specs), length)
<1>1. q.range # NoHeader
  <2>1. [NoRanges EXCEPT !.status = "no"].status = "no"
    BY DEF NoRanges
  <2> QED BY <2>1 DEF get_request_ranges
<1>2. /\ q.specs \in Seq(SpecSet) /\ RangeHeader(q.specs) \in Seq(0 .. 12)
      /\ RangeHeader(<<>>) = <<>>
  <2>1. PICK spec : spec \in SpecSet
    <3>1. <<-1, -1>> \in SpecSet
      BY DEF SpecSet
    <3> QED BY <3>1
  <2>2. q.specs \in Seq(SpecSet)
    BY DEF Asks
  <2> QED BY <2>1, <2>2, HeaderGrows
<1>3. q.specs # <<>>
  BY <1>1, <1>2 DEF Asks, NoHeader
<1> DEFINE end == <<End>>
           text == q.range \o end
           read[i \in 0 .. Len(text)] == IF i = 0 THEN NoRanges ELSE RangeChar(read[i - 1], text[i], length)
<1>4. get_request_ranges(q, length) = read[Len(text)]
  BY <1>1 DEF get_request_ranges
<1>5. q.range \in Seq(0 .. 13) /\ end \in Seq(0 .. 13) /\ text \in Seq(0 .. 13)
  <2>1. q.range \in Seq(0 .. 13)
    <3>1. q.range \in Seq(0 .. 12)
      BY <1>2 DEF Asks
    <3>2. 0 .. 12 \subseteq 0 .. 13
      OBVIOUS
    <3> QED BY <3>1, <3>2
  <2>2. end \in Seq(0 .. 13)
    BY DEF End
  <2> QED BY <2>1, <2>2, ConcatProperties
<1>6. read = CHOOSE f : Reads(f, Len(text), text, length)
  BY DEF Reads
<1>7. Len(text) \in Nat
  BY <1>5
<1> HIDE DEF read
<1>8. Reads(read, Len(text), text, length)
  <2> HIDE DEF text
  <2>1. \E f : Reads(f, Len(text), text, length)
    BY <1>7, ReadsExists
  <2> QED BY <1>6, <2>1, Zenon
<1>9. PICK t : ReadTo(NoRanges, RangeHeader(q.specs), length, t) /\ Pending(q.specs, length, t)
  BY <1>2, <1>3, HeaderRead
<1> DEFINE u == RangeChar(t, End, length)
<1>10. ReadTo(t, end, length, u)
  BY ReadOne
<1>11. ReadTo(NoRanges, q.range, length, t)
  BY <1>9 DEF Asks
<1> HIDE DEF u, end
<1>12. ReadTo(NoRanges, text, length, u)
  BY <1>5, <1>10, <1>11, ReadOn
<1> HIDE DEF text
<1>13. read[Len(text)] = u
  <2>1. States(read, NoRanges, text, length)
    BY <1>8 DEF Reads, States
  <2> QED BY <1>5, <1>12, <2>1, ReadsOne
<1>14. u.status = "ok"
  BY <1>4, <1>13
<1>15. t.status = "ok"
  BY <1>14 DEF u, RangeChar
<1> DEFINE specs == q.specs
           n == Len(specs)
<1>16. PICK s : Blank(s) /\ t = Seen(s, specs[n]) /\ s.ranges = AllServed(specs, n - 1, length)
  BY <1>9, <1>15 DEF Pending
<1>17. n \in Nat /\ n # 0 /\ specs[n] \in SpecSet
  <2>1. n \in Nat /\ n # 0
    BY <1>2, <1>3, EmptySeq, LenProperties
  <2>2. n \in 1 .. n
    BY <2>1
  <2> QED BY <1>2, <2>1, <2>2
<1>18. u.ranges = Append(s.ranges, Served(specs[n], length))
  BY <1>14, <1>16, <1>17, RangeDone DEF u
<1> HIDE DEF specs, n
<1>19. u.ranges = AllServed(specs, n, length)
  <2>1. PICK m : m = n - 1
    OBVIOUS
  <2>2. m \in Nat /\ m + 1 = n
    BY <1>17, <2>1
  <2>3. AllServed(specs, m + 1, length) = Append(AllServed(specs, m, length), Served(specs[m + 1], length))
    BY <2>2, ServedAppend
  <2> QED BY <1>16, <1>18, <2>1, <2>2, <2>3
<1> QED BY <1>3, <1>4, <1>13, <1>19 DEF specs, n

\* A range that lies within the body is the one that was asked for.
LEMMA ServedAsAsked ==
  ASSUME NEW spec \in SpecSet, NEW length \in Nat, NEW b \in Int, NEW e \in Int,
         Served(spec, length) = <<b, e>>, 0 <= b, b <= e, e < length
  PROVE  b = FirstAsked(spec, length) /\ e = LastAsked(spec, length)
<1>1. PICK x, y : x = spec[1] /\ y = spec[2] /\ x \in Nat \cup {-1} /\ y \in Nat \cup {-1}
  BY DEF SpecSet
<1>2. Validate(Kept(x), Kept(y), length) = <<b, e>>
  BY <1>1 DEF Served
<1>3. <<b, e>> # <<"no">> /\ <<b, e>> # <<"err">>
  OBVIOUS
<1>4. \A i, j : <<b, e>> = <<i, j>> => b = i /\ e = j
  OBVIOUS
<1>5. CASE x = 0
  <2>1. y # -1 /\ <<b, e>> = <<0, IF Kept(y) = -10 THEN 0 ELSE IF length <= Kept(y) THEN length - 1 ELSE Kept(y)>>
    BY <1>1, <1>2, <1>3, <1>5 DEF Validate, Kept
  <2>2. b = 0 /\ e = IF y = 0 THEN 0 ELSE IF length <= y THEN length - 1 ELSE y
    BY <1>1, <2>1 DEF Kept
  <2> QED BY <1>1, <1>5, <2>1, <2>2 DEF FirstAsked, LastAsked
<1>6. CASE x = -1
  <2>1. y # 0 /\ y # -1 /\ <<b, e>> = <<length - y, length - 1>>
    BY <1>1, <1>2, <1>3, <1>6 DEF Validate, Kept
  <2>2. b = length - y /\ e = length - 1
    BY <2>1
  <2> QED BY <1>1, <1>6, <2>1, <2>2 DEF FirstAsked, LastAsked
<1>7. CASE x > 0
  <2>1. Kept(x) = x
    BY <1>1, <1>7 DEF Kept
  <2>2. /\ Kept(y) # -10
        /\ <<b, e>> = <<x, IF Kept(y) = -1 \/ length <= Kept(y) THEN length - 1 ELSE Kept(y)>>
    BY <1>1, <1>2, <1>3, <1>7, <2>1 DEF Validate
  <2>3. b = x /\ e = IF y = -1 \/ length <= y THEN length - 1 ELSE y
    BY <1>1, <2>2 DEF Kept
  <2> QED BY <1>1, <1>7, <2>3 DEF FirstAsked, LastAsked
<1> QED BY <1>1, <1>5, <1>6, <1>7

-----------------------------------------------------------------------------
(* Buffers: what a reader of them sees.                                    *)

\* f is the size after each doubling.
Doubles(f, n, size, free, len) ==
  f = [k \in 0 .. n |-> IF k = 0 THEN size
                        ELSE IF f[k - 1] + free < len THEN 2 * f[k - 1] ELSE f[k - 1]]

LEMMA DoublesExist ==
  ASSUME NEW size, NEW free, NEW len, NEW n \in Nat
  PROVE  \E f : Doubles(f, n, size, free, len)
<1> DEFINE S == {k \in Nat : \E f : Doubles(f, k, size, free, len)}
           next(x) == IF x + free < len THEN 2 * x ELSE x
<1>1. ASSUME NEW m \in Nat, \A k \in 0 .. m - 1 : k \in S PROVE m \in S
  <2>1. CASE m = 0
    <3> DEFINE f == [k \in 0 .. 0 |-> size]
    <3>1. f = [k \in 0 .. 0 |-> IF k = 0 THEN size
                                ELSE IF f[k - 1] + free < len THEN 2 * f[k - 1] ELSE f[k - 1]]
      OBVIOUS
    <3>2. Doubles(f, 0, size, free, len)
      BY <3>1 DEF Doubles
    <3> QED BY <2>1, <3>2
  <2>2. CASE m # 0
    <3>1. m - 1 \in 0 .. m - 1
      BY <2>2
    <3>2. PICK g : Doubles(g, m - 1, size, free, len)
      BY <1>1, <3>1
    <3>3. \A k \in 0 .. m - 1 : g[k] = IF k = 0 THEN size ELSE next(g[k - 1])
      BY <3>2 DEF Doubles
    <3> HIDE DEF next
    <3> DEFINE f == [k \in 0 .. m |-> IF k = m THEN next(g[m - 1]) ELSE g[k]]
    <3>4. ASSUME NEW k \in 0 .. m PROVE f[k] = IF k = 0 THEN size ELSE next(f[k - 1])
      <4>1. CASE k = m
        <5>1. m - 1 \in 0 .. m /\ m - 1 # m
          BY <2>2
        <5>2. f[k - 1] = g[m - 1] /\ f[k] = next(g[m - 1])
          BY <4>1, <5>1
        <5> QED BY <2>2, <4>1, <5>2
      <4>2. CASE k # m
        <5>1. k \in 0 .. m - 1 /\ (k # 0 => k - 1 \in 0 .. m /\ k - 1 # m)
          BY <4>2
        <5>2. f[k] = g[k] /\ (k # 0 => f[k - 1] = g[k - 1])
          BY <4>2, <5>1
        <5> HIDE DEF f
        <5> QED BY <3>3, <5>1, <5>2
      <4> QED BY <4>1, <4>2
    <3>5. f = [k \in 0 .. m |-> f[k]]
      OBVIOUS
    <3> HIDE DEF f
    <3>6. Doubles(f, m, size, free, len)
      BY <3>4, <3>5 DEF Doubles, next
    <3> QED BY <3>6
  <2> QED BY <2>1, <2>2
<1> HIDE DEF S
<1>2. n \in S
  BY <1>1, Induction
<1> QED BY <1>2 DEF S

\* As many doublings as bytes are wanted are always enough.
LEMMA DoubledIsEnough ==
  ASSUME NEW size \in Nat \ {0}, NEW free \in Nat, NEW len \in Nat
  PROVE  Doubled(size, free, len) \in Nat /\ Doubled(size, free, len) + free >= len
<1> DEFINE doubled[k \in 0 .. len] ==
             IF k = 0 THEN size
             ELSE IF doubled[k - 1] + free < len THEN 2 * doubled[k - 1] ELSE doubled[k - 1]
<1>1. Doubled(size, free, len) = doubled[len]
  BY DEF Doubled
<1>2. doubled = CHOOSE f : Doubles(f, len, size, free, len)
  BY DEF Doubles
<1>3. \E f : Doubles(f, len, size, free, len)
  BY DoublesExist
<1> HIDE DEF doubled
<1>4. Doubles(doubled, len, size, free, len)
  BY <1>2, <1>3, Zenon
<1>5. \A k \in 0 .. len :
        doubled[k] = IF k = 0 THEN size
                     ELSE IF doubled[k - 1] + free < len THEN 2 * doubled[k - 1] ELSE doubled[k - 1]
  BY <1>4 DEF Doubles
<1> DEFINE D == {k \in Nat : k \in 0 .. len =>
                   doubled[k] \in Nat /\ (doubled[k] + free >= len \/ doubled[k] >= k + 1)}
<1>6. ASSUME NEW k \in Nat, \A j \in 0 .. k - 1 : j \in D PROVE k \in D
  <2> SUFFICES ASSUME k \in 0 .. len
               PROVE  doubled[k] \in Nat /\ (doubled[k] + free >= len \/ doubled[k] >= k + 1)
    OBVIOUS
  <2>1. CASE k = 0
    BY <1>5, <2>1
  <2>2. CASE k # 0
    <3>1. k - 1 \in 0 .. k - 1 /\ k - 1 \in 0 .. len
      BY <2>2
    <3>2. PICK x : x = doubled[k - 1]
      OBVIOUS
    <3>3. x \in Nat /\ (x + free >= len \/ x >= k)
      BY <1>6, <3>1, <3>2
    <3>4. doubled[k] = IF x + free < len THEN 2 * x ELSE x
      BY <1>5, <2>2, <3>2
    <3> QED BY <2>2, <3>3, <3>4
  <2> QED BY <2>1, <2>2
<1> HIDE DEF D
<1>7. len \in D
  BY <1>6, Induction
<1>8. doubled[len] \in Nat /\ (doubled[len] + free >= len \/ doubled[len] >= len + 1)
  BY <1>7 DEF D
<1> QED BY <1>1, <1>8

GoodBuffer(b) ==
  /\ b = [size |-> b.size, used |-> b.used, free |-> b.free, mem |-> b.mem, over |-> b.over]
  /\ b.size \in Nat \ {0} /\ b.used \in Nat /\ b.free \in Nat
  /\ IsSeq(b.mem) /\ Len(b.mem) = b.used + b.free

LEMMA DataIs ==
  ASSUME NEW b, GoodBuffer(b)
  PROVE  /\ IsSeq(BufferData(b)) /\ Len(BufferData(b)) = b.used
         /\ \A i \in 1 .. b.used : BufferData(b)[i] = b.mem[i]
<1>1. b.used \in Int /\ 1 \in Int /\ 1 >= 1 /\ b.used <= Len(b.mem) /\ IsSeq(b.mem) /\ b.used >= 0
  BY DEF GoodBuffer
<1>2. /\ IsSeq(SubSeq(b.mem, 1, b.used))
      /\ Len(SubSeq(b.mem, 1, b.used)) = IF 1 <= b.used THEN b.used - 1 + 1 ELSE 0
      /\ \A i \in 1 .. b.used - 1 + 1 : SubSeq(b.mem, 1, b.used)[i] = b.mem[1 + i - 1]
  BY <1>1, SeqPart
<1>3. b.used - 1 + 1 = b.used /\ \A i \in 1 .. b.used : 1 + i - 1 = i
  BY <1>1
<1> QED BY <1>1, <1>2, <1>3 DEF BufferData

\* Growing keeps what there was.
LEMMA ResizeKeeps ==
  ASSUME NEW b, GoodBuffer(b), NEW len \in Nat
  PROVE  LET g == BufferResize(b, len, 0)
         IN  /\ GoodBuffer(g) /\ g.used = b.used /\ g.free >= len
             /\ \A i \in 1 .. b.used : g.mem[i] = b.mem[i]
<1> DEFINE n == Doubled(b.size, b.free, len)
           g == Grown(b, n)
<1>1. /\ b.size \in Nat \ {0} /\ b.used \in Nat /\ b.free \in Nat
      /\ IsSeq(b.mem) /\ Len(b.mem) = b.used + b.free
  BY DEF GoodBuffer
<1>2. n \in Nat /\ n + b.free >= len
  BY <1>1, DoubledIsEnough
<1> HIDE DEF n
<1> DEFINE m == b.used + b.free + n
           mem == Realloc(b.mem, m)
<1>3. mem = [i \in 1 .. m |-> mem[i]] /\ m \in Nat
  BY <1>1, <1>2 DEF Realloc
<1>4. \A i \in 1 .. b.used : mem[i] = b.mem[i]
  BY <1>1, <1>2 DEF Realloc
<1>5. g = [b EXCEPT !.mem = mem, !.free = b.free + n]
  BY DEF Grown
<1> HIDE DEF mem
<1>6. IsSeq(mem) /\ Len(mem) = m
  BY <1>3, SeqMade
<1> HIDE DEF g
<1>7. g.mem = mem /\ g.free = b.free + n /\ g.used = b.used /\ g.size = b.size
  BY <1>5 DEF GoodBuffer
<1>8. g = [size |-> g.size, used |-> g.used, free |-> g.free, mem |-> g.mem, over |-> g.over]
  BY <1>5 DEF GoodBuffer
<1>9. GoodBuffer(g)
  <2>1. m = b.used + (b.free + n) /\ b.free + n \in Nat
    BY <1>1, <1>2, SMTT(30)
  <2> QED BY <1>1, <1>6, <1>7, <1>8, <2>1 DEF GoodBuffer
<1>10. BufferResize(b, len, 0) = IF b.free >= len THEN b ELSE g
  BY DEF BufferResize, n, g
<1> HIDE DEF m
<1>11. CASE b.free >= len
  BY <1>10, <1>11
<1>12. CASE ~(b.free >= len)
  <2>1. g.free >= len
    BY <1>1, <1>2, <1>7
  <2> QED BY <1>4, <1>7, <1>9, <1>10, <1>12, <2>1
<1> QED BY <1>11, <1>12

LEMMA AppendData ==
  ASSUME NEW b, GoodBuffer(b), NEW str, IsSeq(str)
  PROVE  /\ GoodBuffer(BufferAppend(b, str))
         /\ BufferData(BufferAppend(b, str)) = BufferData(b) \o str
         /\ BufferAppend(b, str).used = b.used + Len(str)
<1> DEFINE len == Len(str)
           g == BufferResize(b, len, 0)
           c == Copy(g, g.used, str)
           a == BufferAccount(c, len)
<1>0. len \in Nat
  BY SeqLen
<1>1. /\ GoodBuffer(g) /\ g.used = b.used /\ g.free >= len
      /\ \A i \in 1 .. b.used : g.mem[i] = b.mem[i]
  BY <1>0, ResizeKeeps
<1>2. BufferAppend(b, str) = a
  BY DEF BufferAppend, Filled
<1> HIDE DEF len, g
<1>3. /\ g.size \in Nat \ {0} /\ g.used \in Nat /\ g.free \in Nat
      /\ IsSeq(g.mem) /\ Len(g.mem) = g.used + g.free
      /\ g = [size |-> g.size, used |-> g.used, free |-> g.free, mem |-> g.mem, over |-> g.over]
  BY <1>1 DEF GoodBuffer
<1> DEFINE m == g.used + g.free
           mem == [i \in DOMAIN g.mem |->
                     IF i > g.used /\ i <= g.used + len THEN str[i - g.used] ELSE g.mem[i]]
<1>4. DOMAIN g.mem = 1 .. m /\ m \in Nat
  BY <1>3, SeqLen
<1>5. /\ mem = [i \in 1 .. m |-> mem[i]]
      /\ \A i \in 1 .. g.used : mem[i] = g.mem[i]
      /\ \A i \in 1 .. len : mem[g.used + i] = str[i]
  <2>1. mem = [i \in 1 .. m |-> mem[i]]
    BY <1>4
  <2>2. \A i \in 1 .. g.used : i \in 1 .. m /\ ~(i > g.used)
    BY <1>3
  <2>3. \A i \in 1 .. g.used : mem[i] = g.mem[i]
    BY <1>4, <2>2
  <2>4. ASSUME NEW i \in 1 .. len PROVE mem[g.used + i] = str[i]
    <3>1. g.used + i \in 1 .. m /\ g.used + i > g.used /\ g.used + i <= g.used + len /\ (g.used + i) - g.used = i
      BY <1>0, <1>1, <1>3
    <3> QED BY <1>4, <3>1
  <2> QED BY <2>1, <2>3, <2>4
<1>6. c = [g EXCEPT !.mem = mem, !.over = g.over \/ g.used + len > Len(g.mem)]
  BY DEF Copy, len
<1> HIDE DEF mem, c
<1>7. IsSeq(mem) /\ Len(mem) = m
  BY <1>4, <1>5, SeqMade
<1>8. /\ c.mem = mem /\ c.used = g.used /\ c.free = g.free /\ c.size = g.size
      /\ c = [size |-> c.size, used |-> c.used, free |-> c.free, mem |-> c.mem, over |-> c.over]
  BY <1>3, <1>6
<1>9. a = [c EXCEPT !.used = c.used + len, !.free = c.free - len]
  BY DEF BufferAccount
<1> HIDE DEF a
<1>10. /\ a.mem = mem /\ a.used = g.used + len /\ a.free = g.free - len /\ a.size = g.size
       /\ a = [size |-> a.size, used |-> a.used, free |-> a.free, mem |-> a.mem, over |-> a.over]
  BY <1>8, <1>9
<1>11. GoodBuffer(a)
  <2>1. g.used + len \in Nat /\ g.free - len \in Nat /\ m = (g.used + len) + (g.free - len)
    BY <1>0, <1>1, <1>3
  <2> QED BY <1>3, <1>7, <1>10, <2>1 DEF GoodBuffer
<1>12. BufferData(a) = BufferData(b) \o str
  <2>1. /\ IsSeq(BufferData(a)) /\ Len(BufferData(a)) = g.used + len
        /\ \A i \in 1 .. g.used + len : BufferData(a)[i] = mem[i]
    BY <1>10, <1>11, DataIs
  <2>2. /\ IsSeq(BufferData(b)) /\ Len(BufferData(b)) = g.used
        /\ \A i \in 1 .. g.used : BufferData(b)[i] = b.mem[i]
    BY <1>1, DataIs
  <2> DEFINE x == BufferData(a)
             y == BufferData(b)
             z == y \o str
  <2> HIDE DEF x, y
  <2>3. /\ IsSeq(z) /\ Len(z) = g.used + len
        /\ \A i \in 1 .. g.used : z[i] = y[i]
        /\ \A i \in 1 .. len : z[g.used + i] = str[i]
    <3>1. IsSeq(y) /\ Len(y) = g.used
      BY <2>2 DEF y
    <3> QED BY <3>1, SeqJoins DEF len
  <2> HIDE DEF z
  <2>4. ASSUME NEW i \in 1 .. g.used + len PROVE x[i] = z[i]
    <3>1. x[i] = mem[i]
      BY <2>1 DEF x
    <3>2. CASE i <= g.used
      <4>1. i \in 1 .. g.used
        BY <1>3, <3>2
      <4>2. mem[i] = g.mem[i] /\ g.mem[i] = b.mem[i]
        BY <1>1, <1>5, <4>1
      <4>3. z[i] = y[i] /\ y[i] = b.mem[i]
        BY <2>2, <2>3, <4>1 DEF y
      <4> QED BY <3>1, <4>2, <4>3
    <3>3. CASE ~(i <= g.used)
      <4>1. i - g.used \in 1 .. len /\ g.used + (i - g.used) = i
        BY <1>0, <1>3, <3>3
      <4>2. mem[i] = str[i - g.used] /\ z[i] = str[i - g.used]
        <5>1. mem[g.used + (i - g.used)] = str[i - g.used] /\ z[g.used + (i - g.used)] = str[i - g.used]
          BY <1>5, <2>3, <4>1
        <5> QED BY <4>1, <5>1
      <4> QED BY <3>1, <4>2
    <3> QED BY <3>2, <3>3
  <2>5. IsSeq(x) /\ Len(x) = g.used + len
    BY <2>1 DEF x
  <2>6. x = z
    BY <2>3, <2>4, <2>5, SeqSame
  <2> QED BY <2>6 DEF x, y, z
<1> QED BY <1>1, <1>2, <1>10, <1>11, <1>12 DEF len

\* php_http_buffer_cut(): the rest moves to the front.
LEMMA CutData ==
  ASSUME NEW b, GoodBuffer(b), NEW n \in Nat, n <= b.used
  PROVE  /\ GoodBuffer(BufferCut(b, 0, n))
         /\ BufferData(BufferCut(b, 0, n)) = SubSeq(BufferData(b), n + 1, b.used)
<1> DEFINE c == Moved(b, 0, n)
           m == b.used + b.free
           mem == [i \in DOMAIN b.mem |->
                     IF i <= 0 THEN b.mem[i] ELSE IF i <= b.used - n THEN b.mem[i + n] ELSE Junk]
<1>1. /\ b.size \in Nat \ {0} /\ b.used \in Nat /\ b.free \in Nat
      /\ IsSeq(b.mem) /\ Len(b.mem) = m
      /\ b = [size |-> b.size, used |-> b.used, free |-> b.free, mem |-> b.mem, over |-> b.over]
  BY DEF GoodBuffer
<1>2. BufferCut(b, 0, n) = c
  <2>1. SizeMod \in Nat \ {0}
    BY BufferAssumption
  <2>2. (0 + n) % SizeMod <= n
    BY <2>1
  <2>3. ~((0 + n) % SizeMod > b.used) /\ ~(0 > b.used)
    <3>1. (0 + n) % SizeMod \in Nat
      BY <2>1
    <3> QED BY <1>1, <2>2, <3>1
  <2> QED BY <2>3 DEF BufferCut
<1>3. DOMAIN b.mem = 1 .. m /\ m \in Nat
  BY <1>1, SeqLen
<1>4. mem = [i \in 1 .. m |-> mem[i]] /\ \A i \in 1 .. b.used - n : mem[i] = b.mem[i + n]
  <2>1. \A i \in 1 .. b.used - n : i \in 1 .. m /\ ~(i <= 0) /\ i <= b.used - n
    BY <1>1
  <2> QED BY <1>3, <2>1
<1>5. c = [b EXCEPT !.mem = mem, !.used = b.used - n, !.free = b.free + n, !.over = b.over \/ n > b.used]
  BY DEF Moved
<1> HIDE DEF mem, c
<1>6. IsSeq(mem) /\ Len(mem) = m
  BY <1>3, <1>4, SeqMade
<1>7. /\ c.mem = mem /\ c.used = b.used - n /\ c.free = b.free + n /\ c.size = b.size
      /\ c = [size |-> c.size, used |-> c.used, free |-> c.free, mem |-> c.mem, over |-> c.over]
  BY <1>1, <1>5
<1>8. GoodBuffer(c)
  <2>1. b.used - n \in Nat /\ b.free + n \in Nat /\ m = (b.used - n) + (b.free + n)
    BY <1>1
  <2> QED BY <1>1, <1>6, <1>7, <2>1 DEF GoodBuffer
<1> DEFINE x == BufferData(c)
           y == BufferData(b)
           z == SubSeq(y, n + 1, b.used)
<1>9. IsSeq(x) /\ Len(x) = b.used - n /\ \A i \in 1 .. b.used - n : x[i] = mem[i]
  BY <1>7, <1>8, DataIs
<1>10. IsSeq(y) /\ Len(y) = b.used /\ \A i \in 1 .. b.used : y[i] = b.mem[i]
  BY DataIs
<1> HIDE DEF x, y
<1>11. IsSeq(z) /\ Len(z) = b.used - n /\ \A i \in 1 .. b.used - n : z[i] = y[n + i]
  <2>1. n + 1 \in Int /\ b.used \in Int /\ n + 1 >= 1 /\ b.used <= Len(y)
    BY <1>1, <1>10
  <2>2. /\ IsSeq(z) /\ Len(z) = IF n + 1 <= b.used THEN b.used - (n + 1) + 1 ELSE 0
        /\ \A i \in 1 .. b.used - (n + 1) + 1 : z[i] = y[(n + 1) + i - 1]
    BY <1>10, <2>1, SeqPart
  <2> HIDE DEF z
  <2>3. b.used - (n + 1) + 1 = b.used - n
    BY <1>1
  <2>4. \A i \in 1 .. b.used - n : (n + 1) + i - 1 = n + i
    BY <1>1
  <2>5. Len(z) = b.used - n
    BY <1>1, <2>2
  <2> QED BY <2>2, <2>3, <2>4, <2>5
<1> HIDE DEF z
<1>12. ASSUME NEW i \in 1 .. b.used - n PROVE x[i] = z[i]
  <2>1. x[i] = b.mem[i + n] /\ z[i] = y[n + i]
    BY <1>4, <1>9, <1>11
  <2>2. n + i \in 1 .. b.used /\ n + i = i + n
    BY <1>1
  <2> QED BY <1>10, <2>1, <2>2
<1>13. x = z
  BY <1>9, <1>11, <1>12, SeqSame
<1> QED BY <1>2, <1>8, <1>13 DEF x, y, z

-----------------------------------------------------------------------------
(* Passing data on: the chunks and what stays behind are all there was.    *)

LEMMA Rounds ==
  ASSUME NEW i \in Nat \ {0}, NEW m \in Nat, i <= m, NEW len \in Nat
  PROVE  /\ (i - 1) * len + len = i * len /\ (i - 1) * len \in Nat /\ i * len \in Nat
         /\ i * len <= m * len
OBVIOUS

LEMMA ChunksFlat ==
  ASSUME NEW d, IsSeq(d), NEW len \in Nat, NEW m \in Nat, m * len <= Len(d), NEW c,
         c = [i \in 1 .. m |-> SubSeq(d, (i - 1) * len + 1, i * len)]
  PROVE  AllSeqs(c) /\ FlattenSeq(c) = SubSeq(d, 1, m * len)
<1>0. Len(d) \in Nat
  BY SeqLen
<1>1. ASSUME NEW i \in 1 .. m
      PROVE  /\ (i - 1) * len + len = i * len /\ (i - 1) * len \in Nat /\ i * len \in Nat
             /\ i * len <= Len(d)
  <2>1. i \in Nat \ {0} /\ i <= m /\ m * len \in Nat
    OBVIOUS
  <2>2. /\ (i - 1) * len + len = i * len /\ (i - 1) * len \in Nat /\ i * len \in Nat
        /\ i * len <= m * len
    BY <2>1, Rounds
  <2> QED BY <1>0, <2>1, <2>2, SMTT(30)
<1>2. ASSUME NEW i \in 1 .. m PROVE IsSeq(c[i])
  <2>1. (i - 1) * len + 1 \in Int /\ (i - 1) * len + 1 >= 1 /\ i * len \in Int /\ i * len <= Len(d)
    BY <1>1
  <2>2. c[i] = SubSeq(d, (i - 1) * len + 1, i * len)
    OBVIOUS
  <2> QED BY <2>1, <2>2, SeqCut
<1>3. IsSeq(c) /\ Len(c) = m
  <2>1. c = [i \in 1 .. m |-> c[i]]
    OBVIOUS
  <2> QED BY <2>1, SeqMade
<1>4. AllSeqs(c)
  BY <1>2, <1>3 DEF AllSeqs
<1>5. CASE m = 0
  <2>1. c = <<>> /\ m * len = 0
    BY <1>5
  <2>2. d \in Seq(Range(d))
    BY DEF IsSeq
  <2>3. SubSeq(d, 1, 0) = <<>>
    BY <2>2, SubSeqEmpty
  <2> QED BY <1>4, <2>1, <2>3, FlattenEmpty
<1>6. CASE m # 0
  <2>1. PICK f : Flattens(f, c, m) /\ FlattenSeq(c) = f[m]
    BY <1>3, <1>6, FlattenIs
  <2>2. \A i \in 1 .. m : f[i] = IF i = 1 THEN c[i] ELSE f[i - 1] \o c[i]
    BY <2>1 DEF Flattens
  <2>3. \A i \in 1 .. m : c[i] = SubSeq(d, (i - 1) * len + 1, i * len)
    OBVIOUS
  <2> DEFINE D == {k \in Nat : k \in 1 .. m => f[k] = SubSeq(d, 1, k * len)}
  <2>4. ASSUME NEW k \in Nat, \A j \in 0 .. k - 1 : j \in D PROVE k \in D
    <3> SUFFICES ASSUME k \in 1 .. m PROVE f[k] = SubSeq(d, 1, k * len)
      OBVIOUS
    <3>1. CASE k = 1
      <4>1. (k - 1) * len + 1 = 1
        BY <3>1
      <4> QED BY <2>2, <2>3, <3>1, <4>1
    <3>2. CASE k # 1
      <4>1. k - 1 \in 0 .. k - 1 /\ k - 1 \in 1 .. m
        BY <3>2
      <4>2. f[k - 1] = SubSeq(d, 1, (k - 1) * len)
        BY <2>4, <4>1
      <4>3. PICK p, q : p = (k - 1) * len /\ q = k * len
        OBVIOUS
      <4>4. p \in Nat /\ q \in Nat /\ p + len = q /\ q <= Len(d)
        <5>1. /\ (k - 1) * len + len = k * len /\ (k - 1) * len \in Nat /\ k * len \in Nat
              /\ k * len <= Len(d)
          BY <1>1
        <5> QED BY <4>3, <5>1
      <4>5. SubSeq(d, 1, q) = SubSeq(d, 1, p) \o SubSeq(d, p + 1, q)
        BY <1>0, <4>4, SeqSplit, SMTT(30)
      <4>6. f[k] = f[k - 1] \o c[k] /\ c[k] = SubSeq(d, p + 1, q)
        BY <2>2, <2>3, <3>2, <4>3
      <4> QED BY <4>2, <4>3, <4>5, <4>6
    <3> QED BY <3>1, <3>2
  <2> HIDE DEF D
  <2>5. m \in D
    BY <2>4, Induction
  <2>6. m \in 1 .. m
    BY <1>6
  <2>7. f[m] = SubSeq(d, 1, m * len)
    BY <2>5, <2>6 DEF D
  <2> QED BY <1>4, <2>1, <2>7
<1> QED BY <1>5, <1>6

LEMMA OutputData ==
  ASSUME NEW s, GoodBuffer(s), NEW data, IsSeq(data), NEW chunk_len \in Nat
  PROVE  LET o == ChunkedOutput(s, data, chunk_len, 0)
         IN  /\ ~o.failed /\ AllSeqs(o.chunks)
             /\ chunk_len = 0 => FlattenSeq(o.chunks) = BufferData(s) \o data
             /\ chunk_len # 0 => /\ GoodBuffer(o.buffer)
                                 /\ FlattenSeq(o.chunks) \o BufferData(o.buffer) = BufferData(s) \o data
<1> DEFINE storage == BufferAppend(s, data)
           full == IF chunk_len = 0 THEN (IF storage.used = 0 THEN 0 ELSE 1)
                   ELSE storage.used \div chunk_len
           len == IF chunk_len = 0 THEN storage.used ELSE chunk_len
           d == BufferData(storage)
           o == ChunkedOutput(s, data, chunk_len, 0)
           chunks == [i \in 1 .. full |-> SubSeq(d, (i - 1) * len + 1, i * len)]
<1>1. StorageFor(s, chunk_len) = s
  <2>1. s.size # 0 /\ NoBuffer.size = 0
    BY DEF GoodBuffer, NoBuffer
  <2> QED BY <2>1 DEF StorageFor
<1>2. GoodBuffer(storage) /\ d = BufferData(s) \o data
  BY AppendData
<1>3. storage.used \in Nat
  BY <1>2 DEF GoodBuffer
<1>4. IsSeq(d) /\ Len(d) = storage.used
  BY <1>2, DataIs
<1>5. /\ o.buffer = IF chunk_len = 0 THEN NoBuffer ELSE BufferCut(storage, 0, full * chunk_len)
      /\ o.chunks = [i \in 1 .. (IF full = 0 THEN full - 1 ELSE full) |->
                       SubSeq(d, (i - 1) * len + 1, i * len)]
      /\ o.failed = FALSE
  <2>1. 0 \notin 1 .. full
    OBVIOUS
  <2> HIDE DEF full
  <2>2. (IF 0 \in 1 .. full THEN 0 ELSE full) = full
    BY <2>1
  <2> QED BY <1>1, <2>2 DEF ChunkedOutput, full
<1> HIDE DEF storage, d, o
<1>6. full \in Nat /\ len \in Nat /\ full * len <= Len(d)
  <2>1. CASE chunk_len = 0
    BY <1>3, <1>4, <2>1
  <2>2. CASE chunk_len # 0
    BY <1>3, <1>4, <2>2
  <2> QED BY <2>1, <2>2
<1> HIDE DEF full, len
<1>7. o.chunks = chunks
  <2>1. CASE full = 0
    <3>1. 1 .. (full - 1) = {} /\ 1 .. full = {}
      BY <2>1
    <3>2. o.chunks = [i \in {} |-> SubSeq(d, (i - 1) * len + 1, i * len)]
      BY <1>5, <2>1, <3>1
    <3> QED BY <3>1, <3>2
  <2>2. CASE full # 0
    BY <1>5, <2>2
  <2> QED BY <2>1, <2>2
<1> HIDE DEF chunks
<1>8. AllSeqs(chunks) /\ FlattenSeq(chunks) = SubSeq(d, 1, full * len)
  BY <1>4, <1>6, ChunksFlat DEF chunks
<1>9. chunk_len = 0 => FlattenSeq(chunks) = d
  <2> SUFFICES ASSUME chunk_len = 0 PROVE SubSeq(d, 1, full * len) = d
    BY <1>8
  <2>1. full * len = Len(d)
    BY <1>3, <1>4 DEF full, len
  <2> QED BY <1>4, <2>1, SeqAll
<1>10. chunk_len # 0 => GoodBuffer(o.buffer) /\ FlattenSeq(chunks) \o BufferData(o.buffer) = d
  <2> SUFFICES ASSUME chunk_len # 0
               PROVE  GoodBuffer(o.buffer) /\ FlattenSeq(chunks) \o BufferData(o.buffer) = d
    OBVIOUS
  <2>1. PICK n : n = full * chunk_len
    OBVIOUS
  <2>2. n \in Nat /\ n <= storage.used /\ n = full * len
    BY <1>4, <1>6, <2>1 DEF len
  <2>3. o.buffer = BufferCut(storage, 0, n)
    BY <1>5, <2>1
  <2>4. GoodBuffer(o.buffer) /\ BufferData(o.buffer) = SubSeq(d, n + 1, storage.used)
    BY <1>2, <2>2, <2>3, CutData DEF d
  <2>5. SubSeq(d, 1, storage.used) = SubSeq(d, 1, n) \o SubSeq(d, n + 1, storage.used)
    <3>1. PICK k : k = storage.used
      OBVIOUS
    <3>2. 1 \in Int /\ n \in Int /\ k \in Int /\ 1 <= 1 /\ 1 <= n + 1 /\ n <= k /\ k <= Len(d)
      BY <1>3, <1>4, <2>2, <3>1
    <3>3. SubSeq(d, 1, k) = SubSeq(d, 1, n) \o SubSeq(d, n + 1, k)
      BY <1>4, <3>2, SeqSplit
    <3> QED BY <3>1, <3>3
  <2>6. SubSeq(d, 1, storage.used) = d
    BY <1>4, SeqAll
  <2> QED BY <1>8, <2>2, <2>4, <2>5, <2>6
<1> QED BY <1>2, <1>5, <1>7, <1>8, <1>9, <1>10 DEF o

-----------------------------------------------------------------------------
(* The bytes of what goes out.                                             *)

LEMMA EncodedJoin ==
  ASSUME NEW a, IsSeq(a), NEW b, IsSeq(b)
  PROVE  /\ Encoded(a \o b) = Encoded(a) \o Encoded(b)
         /\ Encoded(<<>>) = <<>>
<1> DEFINE code(x) == IF x[1] = "b" THEN <<"z", x[2]>> ELSE x
           c == a \o b
           m == Len(a)
           n == Len(b)
<1>1. /\ IsSeq(c) /\ Len(c) = m + n /\ m \in Nat /\ n \in Nat
      /\ DOMAIN a = 1 .. m /\ DOMAIN b = 1 .. n /\ DOMAIN c = 1 .. m + n
      /\ \A i \in 1 .. m : c[i] = a[i]
      /\ \A i \in 1 .. n : c[m + i] = b[i]
  <2>1. /\ IsSeq(c) /\ Len(c) = m + n
        /\ \A i \in 1 .. m : c[i] = a[i]
        /\ \A i \in 1 .. n : c[m + i] = b[i]
    BY SeqJoins
  <2> HIDE DEF c
  <2>2. m \in Nat /\ n \in Nat /\ DOMAIN a = 1 .. m /\ DOMAIN b = 1 .. n /\ DOMAIN c = 1 .. Len(c)
    BY <2>1, SeqLen
  <2> QED BY <2>1, <2>2
<1>2. Encoded(<<>>) = <<>>
  BY DEF Encoded
<1> DEFINE x == Encoded(a)
           y == Encoded(b)
           z == Encoded(c)
<1> HIDE DEF c, m, n, code
<1>3. /\ x = [i \in 1 .. m |-> code(a[i])] /\ y = [i \in 1 .. n |-> code(b[i])]
      /\ z = [i \in 1 .. m + n |-> code(c[i])]
  BY <1>1 DEF Encoded, code
<1>4. IsSeq(x) /\ Len(x) = m /\ IsSeq(y) /\ Len(y) = n /\ IsSeq(z) /\ Len(z) = m + n
  <2> HIDE DEF x, y, z
  <2>1. x = [i \in 1 .. m |-> x[i]] /\ y = [i \in 1 .. n |-> y[i]] /\ z = [i \in 1 .. m + n |-> z[i]]
    BY <1>3
  <2>2. m + n \in Nat
    BY <1>1
  <2>3. IsSeq(x) /\ Len(x) = m
    BY <1>1, <2>1, SeqMade
  <2>4. IsSeq(y) /\ Len(y) = n
    BY <1>1, <2>1, SeqMade
  <2>5. IsSeq(z) /\ Len(z) = m + n
    BY <2>1, <2>2, SeqMade
  <2> QED BY <2>3, <2>4, <2>5
<1> HIDE DEF x, y, z
<1>5. /\ IsSeq(x \o y) /\ Len(x \o y) = m + n
      /\ \A i \in 1 .. m : (x \o y)[i] = x[i]
      /\ \A i \in 1 .. n : (x \o y)[m + i] = y[i]
  BY <1>4, SeqJoins, ZenonT(30)
<1>6. ASSUME NEW i \in 1 .. m + n PROVE z[i] = (x \o y)[i]
  <2>1. z[i] = code(c[i])
    BY <1>3
  <2>2. CASE i <= m
    <3>1. i \in 1 .. m
      BY <1>1, <2>2
    <3> QED BY <1>1, <1>3, <1>5, <2>1, <3>1
  <2>3. CASE ~(i <= m)
    <3>1. PICK j : j = i - m
      OBVIOUS
    <3>2. j \in 1 .. n /\ m + j = i
      BY <1>1, <2>3, <3>1
    <3>3. c[i] = b[j] /\ (x \o y)[i] = y[j] /\ y[j] = code(b[j])
      BY <1>1, <1>3, <1>5, <3>2
    <3> QED BY <2>1, <3>3
  <2> QED BY <2>2, <2>3
<1>7. z = x \o y
  BY <1>4, <1>5, <1>6, SeqSame
<1> QED BY <1>2, <1>7 DEF x, y, z, c

Datas(o) == [i \in DOMAIN o |-> DataOf(o[i])]
Items(o) == IsSeq(o) /\ \A i \in 1 .. Len(o) : IsSeq(DataOf(o[i]))

LEMMA DatasAre ==
  ASSUME NEW o, Items(o)
  PROVE  /\ AllSeqs(Datas(o)) /\ Len(Datas(o)) = Len(o) /\ BytesOf(o) = FlattenSeq(Datas(o))
         /\ \A i \in 1 .. Len(o) : Datas(o)[i] = DataOf(o[i])
<1>1. Len(o) \in Nat /\ DOMAIN o = 1 .. Len(o)
  BY SeqLen DEF Items
<1> DEFINE d == Datas(o)
<1>2. d = [i \in 1 .. Len(o) |-> d[i]] /\ \A i \in 1 .. Len(o) : d[i] = DataOf(o[i])
  BY <1>1 DEF Datas
<1>3. BytesOf(o) = FlattenSeq(d)
  BY DEF BytesOf, Datas
<1> HIDE DEF d
<1>4. IsSeq(d) /\ Len(d) = Len(o)
  BY <1>1, <1>2, SeqMade
<1>5. AllSeqs(d)
  BY <1>2, <1>4 DEF AllSeqs, Items
<1> QED BY <1>2, <1>3, <1>4, <1>5 DEF d

LEMMA BytesJoin ==
  ASSUME NEW o, Items(o), NEW p, Items(p)
  PROVE  /\ Items(o \o p) /\ BytesOf(o \o p) = BytesOf(o) \o BytesOf(p)
         /\ IsSeq(BytesOf(o))
<1>1. IsSeq(o) /\ IsSeq(p) /\ Len(o) \in Nat /\ Len(p) \in Nat
  BY SeqLen DEF Items
<1> DEFINE q == o \o p
           x == Datas(o)
           y == Datas(p)
           z == Datas(q)
<1>2. /\ IsSeq(q) /\ Len(q) = Len(o) + Len(p)
      /\ \A i \in 1 .. Len(o) : q[i] = o[i]
      /\ \A i \in 1 .. Len(p) : q[Len(o) + i] = p[i]
  BY <1>1, SeqJoins
<1> HIDE DEF q
<1>3. ASSUME NEW i \in 1 .. Len(q)
      PROVE  \/ i \in 1 .. Len(o)
             \/ \E j \in 1 .. Len(p) : i = Len(o) + j
  <2>1. CASE ~(i <= Len(o))
    <3>1. i - Len(o) \in 1 .. Len(p) /\ i = Len(o) + (i - Len(o))
      BY <1>1, <1>2, <2>1
    <3> QED BY <3>1
  <2> QED BY <1>1, <2>1
<1>4. Items(q)
  <2>1. ASSUME NEW i \in 1 .. Len(q) PROVE IsSeq(DataOf(q[i]))
    BY <1>2, <1>3 DEF Items
  <2> QED BY <1>2, <2>1 DEF Items
<1>5. /\ AllSeqs(x) /\ Len(x) = Len(o) /\ BytesOf(o) = FlattenSeq(x)
      /\ \A i \in 1 .. Len(o) : x[i] = DataOf(o[i])
  BY DatasAre
<1>6. /\ AllSeqs(y) /\ Len(y) = Len(p) /\ BytesOf(p) = FlattenSeq(y)
      /\ \A i \in 1 .. Len(p) : y[i] = DataOf(p[i])
  BY DatasAre
<1>7. /\ AllSeqs(z) /\ Len(z) = Len(q) /\ BytesOf(q) = FlattenSeq(z)
      /\ \A i \in 1 .. Len(q) : z[i] = DataOf(q[i])
  BY <1>4, DatasAre
<1> HIDE DEF x, y, z
<1>8. /\ AllSeqs(x \o y) /\ FlattenSeq(x \o y) = FlattenSeq(x) \o FlattenSeq(y) /\ IsSeq(FlattenSeq(x))
  BY <1>5, <1>6, FlattenSeqs
<1>9. /\ Len(x \o y) = Len(x) + Len(y)
      /\ \A i \in 1 .. Len(x) : (x \o y)[i] = x[i]
      /\ \A i \in 1 .. Len(y) : (x \o y)[Len(x) + i] = y[i]
  <2>1. IsSeq(x) /\ IsSeq(y)
    BY <1>5, <1>6 DEF AllSeqs
  <2> QED BY <2>1, SeqJoins
<1>10. ASSUME NEW i \in 1 .. Len(q) PROVE z[i] = (x \o y)[i]
  <2>1. CASE i \in 1 .. Len(o)
    BY <1>2, <1>5, <1>7, <1>9, <2>1
  <2>2. CASE \E j \in 1 .. Len(p) : i = Len(o) + j
    <3>1. PICK j \in 1 .. Len(p) : i = Len(o) + j
      BY <2>2
    <3>2. z[i] = DataOf(p[j]) /\ y[j] = DataOf(p[j])
      BY <1>2, <1>6, <1>7, <3>1
    <3>3. (x \o y)[i] = y[j]
      BY <1>5, <1>6, <1>9, <3>1
    <3> QED BY <3>2, <3>3
  <2> QED BY <1>3, <2>1, <2>2
<1>11. z = x \o y
  <2>1. IsSeq(z) /\ IsSeq(x \o y) /\ Len(z) = Len(x \o y) /\ Len(z) = Len(q)
    BY <1>2, <1>5, <1>6, <1>7, <1>8, <1>9 DEF AllSeqs
  <2> HIDE DEF AllSeqs
  <2> QED BY <1>10, <2>1, SeqSame
<1> QED BY <1>4, <1>5, <1>6, <1>7, <1>8, <1>11 DEF q

LEMMA NoBytes ==
  ASSUME NEW x, x.k # "data"
  PROVE  Items(<<x>>) /\ BytesOf(<<x>>) = <<>> /\ Items(<<>>) /\ BytesOf(<<>>) = <<>>
<1>1. DataOf(x) = <<>>
  BY DEF DataOf
<1>2. IsSeq(<<x>>) /\ Len(<<x>>) = 1 /\ <<x>>[1] = x /\ IsSeq(<<>>) /\ Len(<<>>) = 0
  BY SeqOne
<1>3. Items(<<x>>) /\ Items(<<>>)
  BY <1>1, <1>2 DEF Items
<1>4. Datas(<<x>>) = <<<<>>>>
  BY <1>1, <1>2 DEF Datas
<1>5. Datas(<<>>) = <<>>
  BY DEF Datas
<1>6. FlattenSeq(<<<<>>>>) = <<>>
  <2> DEFINE e == <<>>
  <2>1. IsSeq(e)
    BY <1>2
  <2> HIDE DEF e
  <2>2. FlattenSeq(<<e>>) = e
    BY <2>1, FlattenOne
  <2> QED BY <2>2 DEF e
<1>7. BytesOf(<<x>>) = FlattenSeq(Datas(<<x>>)) /\ BytesOf(<<>>) = FlattenSeq(Datas(<<>>))
  BY <1>3, DatasAre
<1> QED BY <1>3, <1>4, <1>5, <1>6, <1>7, FlattenEmpty

\* The head is no data; what is given to write() all goes out.
LEMMA HeadNoData == ASSUME NEW c PROVE HeadOf(c).k # "data"
BY DEF HeadOf

LEMMA WriteBytes ==
  ASSUME NEW c, IsCtx(c), NEW q, ~broken, broken \in BOOLEAN, NEW pieces, AllSeqs(pieces)
  PROVE  LET w == stream_write(c, q, pieces)
         IN  Items(w.out) /\ BytesOf(w.out) = FlattenSeq(pieces)
<1> DEFINE s == stream_start(c, q)
           ps == [i \in DOMAIN pieces |->
                    [k |-> "data", bytes |-> pieces[i], framed |-> s.c.chunked]]
           w == stream_write(c, q, pieces)
<1>1. /\ c.started => s.out = <<>>
      /\ ~c.started => s.out = <<HeadOf(s.c)>>
  BY StartIs
<1>2. w.out = s.out \o ps
  BY DEF stream_write
<1> HIDE DEF s, w
<1>3. Items(s.out) /\ BytesOf(s.out) = <<>>
  <2>1. HeadOf(s.c).k # "data"
    BY HeadNoData
  <2>2. Items(<<HeadOf(s.c)>>) /\ BytesOf(<<HeadOf(s.c)>>) = <<>> /\ Items(<<>>) /\ BytesOf(<<>>) = <<>>
    BY <2>1, NoBytes
  <2>3. c.started \in BOOLEAN
    BY DEF IsCtx
  <2> QED BY <1>1, <2>2, <2>3
<1>4. Len(pieces) \in Nat /\ DOMAIN pieces = 1 .. Len(pieces) /\ IsSeq(pieces)
  BY SeqLen DEF AllSeqs
<1>5. /\ ps = [i \in 1 .. Len(pieces) |-> ps[i]]
      /\ \A i \in 1 .. Len(pieces) : DataOf(ps[i]) = pieces[i]
  <2>1. \A i \in 1 .. Len(pieces) : ps[i].k = "data" /\ ps[i].bytes = pieces[i]
    BY <1>4
  <2>2. ps = [i \in 1 .. Len(pieces) |-> ps[i]]
    BY <1>4
  <2> HIDE DEF ps
  <2> QED BY <2>1, <2>2 DEF DataOf
<1> HIDE DEF ps
<1>6. IsSeq(ps) /\ Len(ps) = Len(pieces)
  BY <1>4, <1>5, SeqMade
<1>7. Items(ps)
  BY <1>5, <1>6 DEF Items, AllSeqs
<1>8. Datas(ps) = pieces
  <2>1. /\ IsSeq(Datas(ps)) /\ Len(Datas(ps)) = Len(ps)
        /\ \A i \in 1 .. Len(ps) : Datas(ps)[i] = DataOf(ps[i])
    BY <1>7, DatasAre DEF AllSeqs
  <2>2. \A i \in 1 .. Len(Datas(ps)) : Datas(ps)[i] = pieces[i]
    BY <1>5, <1>6, <2>1
  <2> QED BY <1>4, <1>6, <2>1, <2>2, SeqSame
<1>9. BytesOf(ps) = FlattenSeq(pieces) /\ IsSeq(FlattenSeq(pieces))
  <2>1. BytesOf(ps) = FlattenSeq(Datas(ps))
    BY <1>7, DatasAre
  <2>2. IsSeq(FlattenSeq(pieces))
    BY FlattenSeqs
  <2> QED BY <1>8, <2>1, <2>2
<1>10. Items(s.out \o ps) /\ BytesOf(s.out \o ps) = BytesOf(s.out) \o BytesOf(ps)
  BY <1>3, <1>7, BytesJoin
<1>11. <<>> \o FlattenSeq(pieces) = FlattenSeq(pieces)
  BY <1>9, SeqEmpty
<1> QED BY <1>2, <1>3, <1>9, <1>10, <1>11 DEF w

\* What is in the buffer and in the encoder.
Held(x) == BufferData(x.buffer) \o x.pend
Coded(enc, t) == IF enc = "none" THEN t ELSE Encoded(t)
LastOf(enc) == IF enc = "none" THEN <<>> ELSE <<<<"z-end">>>>

\* Fit to be written on.
Ready(x) == IsSend(x) /\ GoodBuffer(x.buffer) /\ (x.enc = "none" => x.pend = <<>>)

PassedOnAs(x, data, s) ==
  /\ s.ok /\ Items(s.out)
  /\ data # NoData =>
       /\ GoodBuffer(s.r.buffer)
       /\ BytesOf(s.out) \o Held(s.r) = Held(x) \o Coded(x.enc, data)
  /\ data = NoData => BytesOf(s.out) = Held(x) \o LastOf(x.enc)

\* What is given to send_data() goes out or is held, in order; the last call lets all out.
LEMMA SendDataBytes ==
  ASSUME ResponseTypes, ~broken, NEW x, Ready(x), NEW data, IsSeq(data),
         NEW s \in send_data(x, data)
  PROVE  PassedOnAs(x, data, s)
<1> DEFINE coming == Encoded(data)
           all == x.pend \o coming
           cuts == CASE x.enc = "none" -> {0}
                     [] x.enc # "none" /\ data = NoData -> {Len(all)}
                     [] OTHER -> 0 .. Len(all)
           given(n) == CASE x.enc = "none" -> data
                         [] x.enc # "none" /\ data = NoData -> all \o <<<<"z-end">>>>
                         [] OTHER -> SubSeq(all, 1, n)
           output(n) == ChunkedOutput(x.buffer, given(n), OutputChunk(data), 0)
           kept(n) == IF x.enc = "none" THEN <<>> ELSE SubSeq(all, n + 1, Len(all))
           w(n) == IF output(n).chunks = <<>> THEN [c |-> ctx, out |-> <<>>]
                   ELSE stream_write(ctx, opts.request, output(n).chunks)
<1>1. PICK n \in cuts :
        s = [r |-> [x EXCEPT !.buffer = output(n).buffer, !.pend = kept(n)],
             c |-> w(n).c, out |-> w(n).out, ok |-> ~output(n).failed]
  <2>1. (IF broken THEN 1 ELSE 0) = 0
    OBVIOUS
  <2> QED BY <2>1, ZenonT(90) DEF send_data
<1>2. IsSeq(coming)
  BY EncodedSeq
<1>21. data = NoData => coming = <<>>
  BY DEF Encoded, NoData
<1> HIDE DEF coming
<1>3. IsSeq(x.pend) /\ IsSeq(all) /\ Len(all) \in Nat /\ (data = NoData => all = x.pend)
  <2>1. IsSeq(x.pend)
    BY DEF Ready, IsSend
  <2>2. IsSeq(all) /\ Len(all) \in Nat
    BY <1>2, <2>1, SeqJoins, SeqLen
  <2>3. data = NoData => all = x.pend
    BY <1>21, <2>1, SeqEmpty
  <2> QED BY <2>1, <2>2, <2>3
<1>31. data # NoData /\ x.enc # "none" => all = x.pend \o Coded(x.enc, data)
  BY DEF Coded, coming
<1> HIDE DEF all
<1>4. n \in Nat /\ 0 <= n /\ n <= Len(all)
  BY <1>3
<1> HIDE DEF cuts
<1>5. SubSeq(all, 1, n) \o SubSeq(all, n + 1, Len(all)) = all
      /\ IsSeq(SubSeq(all, 1, n)) /\ IsSeq(SubSeq(all, n + 1, Len(all)))
  <2>1. PICK k : k = Len(all)
    OBVIOUS
  <2>2. /\ 1 \in Int /\ n \in Int /\ k \in Int /\ 1 <= 1 /\ 1 <= n + 1 /\ n <= k /\ k <= Len(all)
        /\ 1 >= 1 /\ n + 1 \in Int /\ n + 1 >= 1 /\ n <= Len(all)
    BY <1>3, <1>4, <2>1
  <2>3. SubSeq(all, 1, k) = SubSeq(all, 1, n) \o SubSeq(all, n + 1, k)
    BY <1>3, <2>2, SeqSplit
  <2>4. IsSeq(SubSeq(all, 1, n)) /\ IsSeq(SubSeq(all, n + 1, k))
    BY <1>3, <2>2, SeqCut
  <2> QED BY <1>3, <2>1, <2>3, <2>4, SeqAll
<1> DEFINE g == given(n)
           p == kept(n)
           o == output(n)
           u == w(n)
<1>6. /\ x.enc = "none" => g = data /\ p = <<>>
      /\ x.enc # "none" /\ data = NoData => g = all \o <<<<"z-end">>>>
      /\ x.enc # "none" /\ data # NoData => g = SubSeq(all, 1, n)
      /\ x.enc # "none" => p = SubSeq(all, n + 1, Len(all))
  OBVIOUS
<1>61. o = ChunkedOutput(x.buffer, g, OutputChunk(data), 0)
  OBVIOUS
<1>62. u = IF o.chunks = <<>> THEN [c |-> ctx, out |-> <<>>] ELSE stream_write(ctx, opts.request, o.chunks)
  OBVIOUS
<1>63. s = [r |-> [x EXCEPT !.buffer = o.buffer, !.pend = p], c |-> u.c, out |-> u.out, ok |-> ~o.failed]
  BY <1>1
<1> HIDE DEF given, kept, output, w, g, p, o, u
<1>64. /\ s.r = [x EXCEPT !.buffer = o.buffer, !.pend = p]
       /\ s.out = u.out /\ (s.ok <=> ~o.failed)
  BY <1>63
<1>65. s.r.buffer = o.buffer /\ s.r.pend = p
  BY <1>64 DEF Ready, IsSend
<1>7. IsSeq(g) /\ IsSeq(p) /\ IsSeq(<<<<"z-end">>>>) /\ IsSeq(<<>>)
  <2>1. IsSeq(<<<<"z-end">>>>) /\ IsSeq(<<>>)
    BY SeqOne
  <2>2. IsSeq(all \o <<<<"z-end">>>>)
    BY <1>3, <2>1, SeqJoins
  <2> QED BY <1>5, <1>6, <2>1, <2>2
<1>8. /\ OutputChunk(data) \in Nat
      /\ OutputChunk(data) = 0 <=> data = NoData
  BY ResponseAssumption DEF OutputChunk, ResponseTypes, IsOpts
<1> DEFINE b == BufferData(x.buffer)
<1>9. /\ ~o.failed /\ AllSeqs(o.chunks)
      /\ data = NoData => FlattenSeq(o.chunks) = b \o g
      /\ data # NoData => GoodBuffer(o.buffer) /\ FlattenSeq(o.chunks) \o BufferData(o.buffer) = b \o g
  <2>1. GoodBuffer(x.buffer)
    BY DEF Ready
  <2> QED BY <1>7, <1>8, <1>61, <2>1, OutputData
<1>10. Items(u.out) /\ BytesOf(u.out) = FlattenSeq(o.chunks)
  <2>1. CASE o.chunks = <<>>
    <3>1. u.out = <<>>
      BY <1>62, <2>1
    <3>2. Items(<<>>) /\ BytesOf(<<>>) = <<>>
      <4>1. [k |-> "end"].k # "data"
        OBVIOUS
      <4> QED BY <4>1, NoBytes
    <3> QED BY <2>1, <3>1, <3>2, FlattenEmpty
  <2>2. CASE o.chunks # <<>>
    <3>1. u = stream_write(ctx, opts.request, o.chunks)
      BY <1>62, <2>2
    <3>2. IsCtx(ctx) /\ broken \in BOOLEAN
      BY DEF ResponseTypes
    <3> QED BY <1>9, <3>1, <3>2, WriteBytes
  <2> QED BY <2>1, <2>2
<1>11. IsSeq(b) /\ IsSeq(Held(x)) /\ Held(x) = b \o x.pend
  <2>1. IsSeq(b)
    BY DataIs DEF Ready
  <2>2. Held(x) = b \o x.pend
    BY DEF Held
  <2> QED BY <1>3, <2>1, <2>2, SeqJoins
<1> HIDE DEF b
<1>12. ASSUME data = NoData PROVE BytesOf(u.out) = Held(x) \o LastOf(x.enc)
  <2>1. CASE x.enc = "none"
    <3>1. x.pend = <<>> /\ g = <<>> /\ LastOf(x.enc) = <<>>
      BY <1>6, <1>12, <2>1 DEF Ready, NoData, LastOf
    <3>2. Held(x) = b /\ b \o <<>> = b
      BY <1>11, <3>1, SeqEmpty
    <3> QED BY <1>9, <1>10, <1>12, <3>1, <3>2
  <2>2. CASE x.enc # "none"
    <3>1. LastOf(x.enc) = <<<<"z-end">>>> /\ g = x.pend \o <<<<"z-end">>>>
      BY <1>3, <1>6, <1>12, <2>2 DEF LastOf
    <3>2. (b \o x.pend) \o <<<<"z-end">>>> = b \o (x.pend \o <<<<"z-end">>>>)
      <4>1. PICK y, z : y = x.pend /\ z = <<<<"z-end">>>>
        OBVIOUS
      <4>2. IsSeq(y) /\ IsSeq(z)
        BY <1>3, <1>7, <4>1
      <4>3. (b \o y) \o z = b \o (y \o z)
        BY <1>11, <4>2, SeqAssocs, SMTT(30)
      <4> QED BY <4>1, <4>3
    <3> QED BY <1>9, <1>10, <1>11, <1>12, <3>1, <3>2
  <2> QED BY <2>1, <2>2
<1>13. ASSUME data # NoData PROVE BytesOf(u.out) \o Held(s.r) = Held(x) \o Coded(x.enc, data)
  <2> DEFINE f == BytesOf(u.out)
             d == BufferData(o.buffer)
  <2>1. IsSeq(f) /\ IsSeq(d) /\ f \o d = b \o g
    <3>1. IsSeq(f)
      BY <1>9, <1>10, FlattenSeqs
    <3>2. IsSeq(d)
      BY <1>9, <1>13, DataIs
    <3> QED BY <1>9, <1>10, <1>13, <3>1, <3>2
  <2>2. Held(s.r) = d \o p
    BY <1>65 DEF Held
  <2> HIDE DEF f, d
  <2>3. f \o (d \o p) = (b \o g) \o p
    <3>1. (f \o d) \o p = f \o (d \o p)
      <4>1. IsSeq(f) /\ IsSeq(d) /\ IsSeq(p)
        BY <1>7, <2>1
      <4> QED BY <4>1, SeqAssocs, SMTT(30)
    <3> QED BY <2>1, <3>1
  <2>4. (b \o g) \o p = b \o (g \o p)
    BY <1>7, <1>11, SeqAssocs, SMTT(30)
  <2>5. b \o (g \o p) = Held(x) \o Coded(x.enc, data)
    <3>1. CASE x.enc = "none"
      <4>1. x.pend = <<>> /\ g = data /\ p = <<>> /\ Coded(x.enc, data) = data
        BY <1>6, <3>1 DEF Ready, Coded
      <4>2. Held(x) = b /\ data \o <<>> = data
        BY <1>11, <4>1, SeqEmpty
      <4> QED BY <4>1, <4>2
    <3>2. CASE x.enc # "none"
      <4>1. g \o p = all
        BY <1>5, <1>6, <1>13, <3>2
      <4>2. all = x.pend \o Coded(x.enc, data)
        BY <1>13, <1>31, <3>2
      <4>3. IsSeq(Coded(x.enc, data))
        BY <1>2, <3>2 DEF Coded, coming
      <4>4. (b \o x.pend) \o Coded(x.enc, data) = b \o (x.pend \o Coded(x.enc, data))
        <5>1. PICK y, z : y = x.pend /\ z = Coded(x.enc, data)
          OBVIOUS
        <5>2. IsSeq(y) /\ IsSeq(z)
          BY <1>3, <4>3, <5>1
        <5>3. (b \o y) \o z = b \o (y \o z)
          BY <1>11, <5>2, SeqAssocs, SMTT(30)
        <5> QED BY <5>1, <5>3
      <4> QED BY <1>11, <4>1, <4>2, <4>4
    <3> QED BY <3>1, <3>2
  <2> QED BY <2>2, <2>3, <2>4, <2>5 DEF f
<1> QED BY <1>9, <1>10, <1>12, <1>13, <1>64, <1>65 DEF PassedOnAs

-----------------------------------------------------------------------------
(* The pieces of the body, and the rest of the one that is being read.     *)

GoodPart(t, p) == p.begin \in Nat /\ p.forlen \in Nat /\ p.begin + p.forlen <= Len(t)
Fit(t, ps) ==
  /\ IsSeq(ps)
  /\ \A i \in 1 .. Len(ps) : GoodPart(t, ps[i]) /\ IsSeq(ps[i].header)

Upto(t, begin, forlen) == SubSeq(t, begin + 1, IF forlen <= 0 THEN Len(t) ELSE begin + forlen)
PartText(t, p) == p.header \o Upto(t, p.begin, p.forlen)
PartTexts(t, ps) == [i \in DOMAIN ps |-> PartText(t, ps[i])]
PartsText(t, ps) == FlattenSeq(PartTexts(t, ps))
Left(t, x) == SubSeq(t, x.pos + 1, IF x.forlen = -1 THEN Len(t) ELSE x.pos + x.forlen)

LEMMA PartTextSeq ==
  ASSUME NEW t, IsSeq(t), NEW p, GoodPart(t, p), IsSeq(p.header)
  PROVE  IsSeq(PartText(t, p)) /\ IsSeq(Upto(t, p.begin, p.forlen))
<1>1. PICK b, f, n : b = p.begin /\ f = p.forlen /\ n = IF f <= 0 THEN Len(t) ELSE b + f
  OBVIOUS
<1>2. b \in Nat /\ f \in Nat /\ b + f <= Len(t) /\ Len(t) \in Nat
  BY <1>1, SeqLen DEF GoodPart
<1>3. n \in Int /\ n <= Len(t) /\ b + 1 \in Int /\ b + 1 >= 1
  BY <1>1, <1>2
<1>4. IsSeq(SubSeq(t, b + 1, n))
  BY <1>3, SeqCut
<1>5. IsSeq(Upto(t, p.begin, p.forlen))
  BY <1>1, <1>4 DEF Upto
<1>6. PICK h, u : h = p.header /\ u = Upto(t, p.begin, p.forlen)
  OBVIOUS
<1>7. IsSeq(h \o u)
  BY <1>5, <1>6, SeqJoins
<1> QED BY <1>5, <1>6, <1>7 DEF PartText

LEMMA PartTextsAre ==
  ASSUME NEW t, IsSeq(t), NEW ps, Fit(t, ps)
  PROVE  /\ AllSeqs(PartTexts(t, ps)) /\ Len(PartTexts(t, ps)) = Len(ps)
         /\ \A i \in 1 .. Len(ps) : PartTexts(t, ps)[i] = PartText(t, ps[i])
         /\ IsSeq(PartsText(t, ps))
<1> DEFINE f == PartTexts(t, ps)
<1>1. Len(ps) \in Nat /\ DOMAIN ps = 1 .. Len(ps)
  BY SeqLen DEF Fit
<1>2. /\ f = [i \in 1 .. Len(ps) |-> f[i]]
      /\ \A i \in 1 .. Len(ps) : f[i] = PartText(t, ps[i])
  BY <1>1 DEF PartTexts
<1>3. \A i \in 1 .. Len(ps) : IsSeq(PartText(t, ps[i]))
  <2>1. ASSUME NEW i \in 1 .. Len(ps) PROVE IsSeq(PartText(t, ps[i]))
    <3>1. PICK p : p = ps[i]
      OBVIOUS
    <3>2. GoodPart(t, p) /\ IsSeq(p.header)
      BY <3>1 DEF Fit
    <3> QED BY <3>1, <3>2, PartTextSeq
  <2> QED BY <2>1
<1> HIDE DEF f
<1>4. IsSeq(f) /\ Len(f) = Len(ps)
  BY <1>1, <1>2, SeqMade
<1>5. AllSeqs(f)
  BY <1>2, <1>3, <1>4 DEF AllSeqs
<1>6. IsSeq(FlattenSeq(f))
  BY <1>5, FlattenSeqs
<1> QED BY <1>2, <1>4, <1>5, <1>6 DEF f, PartsText

LEMMA NoParts == ASSUME NEW t PROVE PartsText(t, <<>>) = <<>>
<1>1. PartTexts(t, <<>>) = <<>>
  BY DEF PartTexts
<1> QED BY <1>1, FlattenEmpty DEF PartsText

LEMMA PartsFirst ==
  ASSUME NEW t, IsSeq(t), NEW ps, Fit(t, ps), ps # <<>>
  PROVE  /\ GoodPart(t, Head(ps)) /\ IsSeq(Head(ps).header) /\ Head(ps) = ps[1] /\ 1 \in 1 .. Len(ps)
         /\ Fit(t, Tail(ps))
         /\ \A i \in 1 .. Len(Tail(ps)) : Tail(ps)[i] = ps[i + 1] /\ i + 1 \in 1 .. Len(ps)
         /\ PartsText(t, ps) = PartText(t, Head(ps)) \o PartsText(t, Tail(ps))
<1> DEFINE p == Head(ps)
           q == Tail(ps)
<1>1. Len(ps) \in Nat /\ Len(ps) >= 1 /\ DOMAIN ps = 1 .. Len(ps) /\ ps \in Seq(Range(ps))
  BY SeqLen DEF Fit, IsSeq
<1>2. p = ps[1] /\ 1 \in 1 .. Len(ps)
  BY <1>1
<1>3. IsSeq(q) /\ Len(q) = Len(ps) - 1 /\ \A i \in 1 .. Len(q) : q[i] = ps[i + 1] /\ i + 1 \in 1 .. Len(ps)
  <2>1. q \in Seq(Range(ps)) /\ Len(q) = Len(ps) - 1
    BY <1>1, HeadTailProperties
  <2>2. \A i \in 1 .. Len(q) : q[i] = ps[i + 1] /\ i + 1 \in 1 .. Len(ps)
    BY <1>1, <2>1
  <2> HIDE DEF q
  <2> QED BY <2>1, <2>2, AnySeq
<1> HIDE DEF p, q
<1>4. GoodPart(t, p) /\ IsSeq(p.header)
  BY <1>2 DEF Fit
<1>5. Fit(t, q)
  <2>1. ASSUME NEW i \in 1 .. Len(q) PROVE GoodPart(t, q[i]) /\ IsSeq(q[i].header)
    BY <1>3 DEF Fit
  <2> QED BY <1>3, <2>1 DEF Fit
<1> DEFINE f == PartTexts(t, ps)
           g == PartTexts(t, q)
           x == PartText(t, p)
<1>6. /\ AllSeqs(f) /\ Len(f) = Len(ps) /\ \A i \in 1 .. Len(ps) : f[i] = PartText(t, ps[i])
      /\ AllSeqs(g) /\ Len(g) = Len(q) /\ \A i \in 1 .. Len(q) : g[i] = PartText(t, q[i])
  BY <1>5, PartTextsAre
<1>7. IsSeq(x)
  BY <1>4, PartTextSeq
<1>8. PartsText(t, ps) = FlattenSeq(f) /\ PartsText(t, q) = FlattenSeq(g)
  BY DEF PartsText
<1>9. x = f[1]
  BY <1>2, <1>6
<1>91. \A i \in 1 .. Len(g) : g[i] = f[i + 1]
  BY <1>3, <1>6
<1> HIDE DEF f, g, x
<1>10. AllSeqs(<<x>>) /\ FlattenSeq(<<x>>) = x /\ IsSeq(<<x>>) /\ Len(<<x>>) = 1 /\ <<x>>[1] = x
  BY <1>7, FlattenOne, SeqOne
<1>11. f = <<x>> \o g
  <2>1. PICK y : y = <<x>>
    OBVIOUS
  <2>2. IsSeq(y) /\ Len(y) = 1 /\ y[1] = x /\ IsSeq(g) /\ IsSeq(f)
    BY <1>6, <1>10, <2>1 DEF AllSeqs
  <2>3. IsSeq(y \o g) /\ Len(y \o g) = 1 + Len(g) /\ (y \o g)[1] = x
        /\ \A i \in 1 .. Len(g) : (y \o g)[1 + i] = g[i]
    <3>1. /\ IsSeq(y \o g) /\ Len(y \o g) = Len(y) + Len(g)
          /\ \A i \in 1 .. Len(y) : (y \o g)[i] = y[i]
          /\ \A i \in 1 .. Len(g) : (y \o g)[Len(y) + i] = g[i]
      <4>1. IsSeq(y) /\ IsSeq(g)
        BY <2>2
      <4> QED BY <4>1, SeqJoins
    <3> QED BY <2>2, <3>1
  <2>4. PICK z : z = y \o g
    OBVIOUS
  <2>5. Len(z) = Len(f) /\ IsSeq(z)
    <3>1. Len(z) = 1 + Len(g) /\ IsSeq(z)
      BY <2>3, <2>4
    <3> QED BY <1>1, <1>3, <1>6, <3>1
  <2>6. ASSUME NEW i \in 1 .. Len(f) PROVE f[i] = z[i]
    <3>1. CASE i = 1
      BY <1>9, <2>3, <2>4, <3>1
    <3>2. CASE i # 1
      <4>1. i - 1 \in 1 .. Len(g) /\ i = 1 + (i - 1) /\ i = (i - 1) + 1
        BY <1>1, <1>3, <1>6, <3>2
      <4>2. PICK j : j = i - 1
        OBVIOUS
      <4>3. z[1 + j] = g[j] /\ g[j] = f[j + 1]
        BY <1>91, <2>3, <2>4, <4>1, <4>2
      <4> QED BY <4>1, <4>2, <4>3
    <3> QED BY <3>1, <3>2
  <2>7. f = z
    BY <2>2, <2>5, <2>6, SeqSame
  <2> QED BY <2>1, <2>4, <2>7
<1>12. FlattenSeq(f) = x \o FlattenSeq(g)
  <2>1. PICK y : y = <<x>>
    OBVIOUS
  <2>2. FlattenSeq(y \o g) = FlattenSeq(y) \o FlattenSeq(g)
    BY <1>6, <1>10, <2>1, FlattenSeqs
  <2> QED BY <1>10, <1>11, <2>1, <2>2
<1> QED BY <1>2, <1>3, <1>4, <1>5, <1>8, <1>12 DEF p, q, x

\* Where the part that is being read may end.
Within(t, x) == x.pos \in Nat /\ x.forlen \in Nat \cup {-1}
                /\ x.pos + (IF x.forlen = -1 THEN 0 ELSE x.forlen) <= Len(t)

\* The first bytes of the rest of a text.
LEMMA SubSub ==
  ASSUME NEW t, IsSeq(t), NEW p \in Nat, NEW n \in Nat, p + n <= Len(t)
  PROVE  SubSeq(SubSeq(t, p + 1, Len(t)), 1, n) = SubSeq(t, p + 1, p + n)
<1> DEFINE l == SubSeq(t, p + 1, Len(t))
           a == SubSeq(l, 1, n)
           b == SubSeq(t, p + 1, p + n)
<1>1. Len(t) \in Nat /\ p + 1 \in Int /\ p + 1 >= 1 /\ p + n \in Int /\ Len(t) \in Int /\ Len(t) <= Len(t)
  BY SeqLen
<1>2. IsSeq(l) /\ Len(l) = Len(t) - p /\ \A i \in 1 .. Len(t) - p : l[i] = t[p + i]
  <2>1. PICK m, k : m = p + 1 /\ k = Len(t)
    OBVIOUS
  <2>2. /\ IsSeq(SubSeq(t, m, k))
        /\ Len(SubSeq(t, m, k)) = IF m <= k THEN k - m + 1 ELSE 0
        /\ \A i \in 1 .. k - m + 1 : SubSeq(t, m, k)[i] = t[m + i - 1]
    BY <1>1, <2>1, SeqPart
  <2>3. l = SubSeq(t, m, k)
    BY <2>1
  <2> HIDE DEF l
  <2>4. Len(l) = Len(t) - p
    BY <1>1, <2>1, <2>2, <2>3
  <2>5. ASSUME NEW i \in 1 .. Len(t) - p PROVE l[i] = t[p + i]
    <3>1. i \in 1 .. k - m + 1 /\ m + i - 1 = p + i
      BY <1>1, <2>1
    <3> QED BY <2>2, <2>3, <3>1
  <2> QED BY <2>2, <2>3, <2>4, <2>5
<1> HIDE DEF l
<1>3. IsSeq(a) /\ Len(a) = n /\ \A i \in 1 .. n : a[i] = l[i]
  <2>1. 1 \in Int /\ n \in Int /\ 1 >= 1 /\ n <= Len(l)
    BY <1>1, <1>2
  <2>2. /\ IsSeq(a)
        /\ Len(a) = IF 1 <= n THEN n - 1 + 1 ELSE 0
        /\ \A i \in 1 .. n - 1 + 1 : a[i] = l[1 + i - 1]
    BY <1>2, <2>1, SeqPart
  <2> HIDE DEF a
  <2>3. ASSUME NEW i \in 1 .. n PROVE a[i] = l[i]
    <3>1. i \in 1 .. n - 1 + 1 /\ 1 + i - 1 = i
      OBVIOUS
    <3> QED BY <2>2, <3>1
  <2> QED BY <2>2, <2>3
<1>4. IsSeq(b) /\ Len(b) = n /\ \A i \in 1 .. n : b[i] = t[p + i]
  <2>1. PICK m, k : m = p + 1 /\ k = p + n
    OBVIOUS
  <2>2. /\ IsSeq(SubSeq(t, m, k))
        /\ Len(SubSeq(t, m, k)) = IF m <= k THEN k - m + 1 ELSE 0
        /\ \A i \in 1 .. k - m + 1 : SubSeq(t, m, k)[i] = t[m + i - 1]
    <3>1. m \in Int /\ k \in Int /\ m >= 1 /\ k <= Len(t)
      BY <1>1, <2>1
    <3> QED BY <3>1, SeqPart
  <2>3. b = SubSeq(t, m, k)
    BY <2>1
  <2> HIDE DEF b
  <2>4. Len(b) = n
    BY <1>1, <2>1, <2>2, <2>3
  <2>5. ASSUME NEW i \in 1 .. n PROVE b[i] = t[p + i]
    <3>1. i \in 1 .. k - m + 1 /\ m + i - 1 = p + i
      BY <1>1, <2>1
    <3> QED BY <2>2, <2>3, <3>1
  <2> QED BY <2>2, <2>3, <2>4, <2>5
<1> HIDE DEF a, b
<1>5. \A i \in 1 .. n : a[i] = b[i]
  <2>1. ASSUME NEW i \in 1 .. n PROVE a[i] = b[i]
    <3>1. i \in 1 .. Len(t) - p
      BY <1>1
    <3> QED BY <1>2, <1>3, <1>4, <3>1
  <2> QED BY <2>1
<1>6. a = b
  BY <1>3, <1>4, <1>5, SeqSame
<1> QED BY <1>6 DEF a, b, l

LEMMA EmptyCut ==
  ASSUME NEW t, IsSeq(t), NEW m \in Int, NEW n \in Int, m >= 1, n <= Len(t), n < m
  PROVE  SubSeq(t, m, n) = <<>>
<1>1. IsSeq(SubSeq(t, m, n)) /\ Len(SubSeq(t, m, n)) = 0
  <2>1. /\ IsSeq(SubSeq(t, m, n))
        /\ Len(SubSeq(t, m, n)) = IF m <= n THEN n - m + 1 ELSE 0
    BY SeqPart
  <2> QED BY <2>1
<1>2. PICK s : s = SubSeq(t, m, n)
  OBVIOUS
<1> QED BY <1>1, <1>2, SeqLen

\* The n bytes of a round, and what is left after it.
Round(t, x, n, y) ==
  /\ n = AtMost(AtMost(ReadSize, x.forlen), Len(SubSeq(t, x.pos + 1, Len(t))))
  /\ y.pos = x.pos + n
  /\ y.forlen = IF x.forlen = -1 THEN -1 ELSE x.forlen - n

RoundLeaves(t, x, n, y) ==
  LET data == SubSeq(SubSeq(t, x.pos + 1, Len(t)), 1, n)
  IN  /\ IsSeq(data) /\ (data = <<>> <=> n = 0) /\ Within(t, y) /\ IsSeq(Left(t, y))
      /\ Left(t, x) = data \o Left(t, y)
      /\ \/ n < AtMost(PtrSize, x.forlen)
         \/ n = x.forlen
         \/ n = Len(SubSeq(t, x.pos + 1, Len(t)))
         => Left(t, y) = <<>>

\* One round reads the first bytes of what is left, and it is the last one only if
\* nothing is left then: no read asks for less than the buffer whose size is compared.
LEMMA ReadLeft ==
  ASSUME NEW t, IsSeq(t), NEW x, Within(t, x), NEW y, NEW n, Round(t, x, n, y)
  PROVE  RoundLeaves(t, x, n, y)
<1> DEFINE left == SubSeq(t, x.pos + 1, Len(t))
           data == SubSeq(left, 1, n)
<1> SUFFICES /\ IsSeq(data) /\ (data = <<>> <=> n = 0) /\ Within(t, y) /\ IsSeq(Left(t, y))
             /\ Left(t, x) = data \o Left(t, y)
             /\ \/ n < AtMost(PtrSize, x.forlen)
                \/ n = x.forlen
                \/ n = Len(left)
                => Left(t, y) = <<>>
  BY DEF RoundLeaves
<1>1. PICK p, f : p = x.pos /\ f = x.forlen
  OBVIOUS
<1>2. PICK e : e = IF f = -1 THEN Len(t) ELSE p + f
  OBVIOUS
<1>3. /\ p \in Nat /\ f \in Nat \cup {-1} /\ Len(t) \in Nat /\ e \in Nat /\ e <= Len(t)
      /\ p + (IF f = -1 THEN 0 ELSE f) <= Len(t) /\ p <= e
  BY <1>1, <1>2, SeqLen DEF Within
<1>4. IsSeq(left) /\ Len(left) = Len(t) - p
  <2>1. PICK m, k : m = p + 1 /\ k = Len(t)
    OBVIOUS
  <2>2. /\ IsSeq(SubSeq(t, m, k))
        /\ Len(SubSeq(t, m, k)) = IF m <= k THEN k - m + 1 ELSE 0
    <3>1. m \in Int /\ k \in Int /\ m >= 1 /\ k <= Len(t)
      BY <1>3, <2>1
    <3> QED BY <3>1, SeqPart
  <2>3. left = SubSeq(t, m, k)
    BY <1>1, <2>1
  <2> HIDE DEF left
  <2>4. Len(left) = Len(t) - p
    BY <1>3, <2>1, <2>2, <2>3
  <2> QED BY <2>2, <2>3, <2>4
<1> HIDE DEF left
<1>5. n = AtMost(AtMost(ReadSize, f), Len(left))
  BY <1>1 DEF left, Round
<1>51. ReadSize \in Nat /\ PtrSize \in Nat /\ PtrSize <= ReadSize
  BY ResponseAssumption
<1>52. PICK l : l = Len(left)
  OBVIOUS
<1>53. l \in Nat /\ p + l = Len(t) /\ n = AtMost(AtMost(ReadSize, f), l)
  BY <1>3, <1>4, <1>5, <1>52
<1>54. AtMost(ReadSize, f) = (IF f # -1 /\ f < ReadSize THEN f ELSE ReadSize)
       /\ AtMost(PtrSize, f) = (IF f # -1 /\ f < PtrSize THEN f ELSE PtrSize)
  BY DEF AtMost
<1>55. PICK a, b : a = AtMost(ReadSize, f) /\ b = AtMost(PtrSize, f)
  OBVIOUS
<1>56. /\ a \in Nat /\ b \in Nat
       /\ f = -1 => a = ReadSize /\ b = PtrSize
       /\ f # -1 => a = (IF f < ReadSize THEN f ELSE ReadSize) /\ b = (IF f < PtrSize THEN f ELSE PtrSize)
  BY <1>3, <1>51, <1>54, <1>55
<1>57. n = IF l < a THEN l ELSE a
  <2>1. n = AtMost(a, l) /\ l # -1
    BY <1>53, <1>55
  <2> QED BY <2>1 DEF AtMost
<1>6. n \in Nat /\ p + n <= e /\ n <= Len(left)
  BY <1>2, <1>3, <1>51, <1>52, <1>53, <1>56, <1>57
<1>61. n < AtMost(PtrSize, f) \/ n = f \/ n = Len(left) => p + n = e
  <2>1. n < b => p + n = e
    BY <1>2, <1>3, <1>51, <1>52, <1>53, <1>56, <1>57
  <2>2. n = f => p + n = e
    BY <1>2, <1>3, <1>6
  <2>3. n = l => p + n = e
    BY <1>2, <1>3, <1>51, <1>52, <1>53, <1>56, <1>57
  <2> QED BY <1>52, <1>55, <2>1, <2>2, <2>3
<1>7. data = SubSeq(t, p + 1, p + n)
  <2>1. p + n <= Len(t)
    BY <1>3, <1>6
  <2>2. SubSeq(SubSeq(t, p + 1, Len(t)), 1, n) = SubSeq(t, p + 1, p + n)
    BY <1>3, <1>6, <2>1, SubSub
  <2> QED BY <1>1, <2>2 DEF left
<1>8. Left(t, x) = SubSeq(t, p + 1, e)
  BY <1>1, <1>2 DEF Left
<1>9. Left(t, y) = SubSeq(t, p + n + 1, e) /\ Within(t, y)
  <2>1. y.pos = p + n /\ y.forlen = IF f = -1 THEN -1 ELSE f - n
    BY <1>1 DEF Round
  <2>2. y.forlen \in Nat \cup {-1} /\ (y.forlen = -1 <=> f = -1) /\ y.pos \in Nat
    BY <1>2, <1>3, <1>6, <2>1
  <2>3. e = IF y.forlen = -1 THEN Len(t) ELSE y.pos + y.forlen
    BY <1>2, <1>3, <1>6, <2>1, <2>2
  <2>4. y.pos + (IF y.forlen = -1 THEN 0 ELSE y.forlen) <= Len(t)
    BY <1>3, <1>6, <2>1, <2>2, <2>3
  <2>5. Left(t, y) = SubSeq(t, p + n + 1, e)
    BY <2>1, <2>3 DEF Left
  <2> QED BY <2>2, <2>4, <2>5 DEF Within
<1>10. SubSeq(t, p + 1, e) = SubSeq(t, p + 1, p + n) \o SubSeq(t, p + n + 1, e)
  <2>1. PICK m, k : m = p + 1 /\ k = p + n
    OBVIOUS
  <2>2. m \in Int /\ k \in Int /\ e \in Int /\ 1 <= m /\ m <= k + 1 /\ k <= e /\ e <= Len(t)
    BY <1>3, <1>6, <2>1
  <2>3. SubSeq(t, m, e) = SubSeq(t, m, k) \o SubSeq(t, k + 1, e)
    BY <2>2, SeqSplit
  <2> QED BY <2>1, <2>3
<1>11. IsSeq(data) /\ Len(data) = n
  <2>1. 1 \in Int /\ n \in Int /\ 1 >= 1
    BY <1>6
  <2>2. IsSeq(data) /\ Len(data) = IF 1 <= n THEN n - 1 + 1 ELSE 0
    BY <1>4, <1>6, <2>1, SeqPart
  <2> QED BY <1>6, <2>2
<1>12. IsSeq(SubSeq(t, p + n + 1, e)) /\ (p + n = e => SubSeq(t, p + n + 1, e) = <<>>)
  <2>1. PICK m : m = p + n + 1
    OBVIOUS
  <2>2. m \in Int /\ e \in Int /\ m >= 1 /\ e <= Len(t) /\ (p + n = e => e < m)
    BY <1>3, <1>6, <2>1
  <2>3. IsSeq(SubSeq(t, m, e))
    BY <2>2, SeqCut
  <2>4. p + n = e => SubSeq(t, m, e) = <<>>
    BY <2>2, EmptyCut
  <2> QED BY <2>1, <2>3, <2>4
<1> HIDE DEF data
<1>13. data = <<>> <=> n = 0
  BY <1>11, SeqLen
<1>14. Left(t, x) = data \o Left(t, y)
  BY <1>7, <1>8, <1>9, <1>10
<1>15. n < AtMost(PtrSize, x.forlen) \/ n = x.forlen \/ n = Len(left) => Left(t, y) = <<>>
  BY <1>1, <1>61, <1>9, <1>12
<1> QED BY <1>9, <1>11, <1>12, <1>13, <1>14, <1>15

-----------------------------------------------------------------------------
(* What is held and what is yet to come, from one step to the next.        *)

LEMMA CodedJoin ==
  ASSUME NEW enc, NEW a, IsSeq(a), NEW b, IsSeq(b)
  PROVE  /\ Coded(enc, a \o b) = Coded(enc, a) \o Coded(enc, b)
         /\ IsSeq(Coded(enc, a)) /\ Coded(enc, <<>>) = <<>>
<1>1. CASE enc = "none"
  BY <1>1 DEF Coded
<1>2. CASE enc # "none"
  BY <1>2, EncodedJoin, EncodedSeq DEF Coded
<1> QED BY <1>1, <1>2

LEMMA EmptyBuffer == GoodBuffer(BufferInit(0, FALSE)) /\ BufferData(BufferInit(0, FALSE)) = <<>>
<1> DEFINE b == BufferInit(0, FALSE)
<1>1. /\ b.size = DefaultSize /\ b.used = 0 /\ b.free = 0 /\ b.mem = <<>>
      /\ b = [size |-> b.size, used |-> b.used, free |-> b.free, mem |-> b.mem, over |-> b.over]
  BY DEF BufferInit
<1> HIDE DEF b
<1>2. GoodBuffer(b)
  <2>1. b.mem = <<>> /\ b.used + b.free = 0 /\ Len(<<>>) = 0 /\ IsSeq(<<>>) /\ b.size \in Nat \ {0}
    <3>1. IsSeq(<<>>)
      BY SeqOne
    <3>2. DefaultSize \in Nat \ {0}
      BY BufferAssumption
    <3> QED BY <1>1, <3>1, <3>2
  <2>2. b.used \in Nat /\ b.free \in Nat /\ Len(b.mem) = b.used + b.free /\ IsSeq(b.mem)
    BY <1>1, <2>1
  <2> QED BY <1>1, <2>1, <2>2 DEF GoodBuffer
<1>3. IsSeq(BufferData(b)) /\ Len(BufferData(b)) = 0
  BY <1>1, <1>2, DataIs
<1>4. PICK d : d = BufferData(b)
  OBVIOUS
<1>5. d = <<>>
  BY <1>3, <1>4, SeqLen
<1> QED BY <1>2, <1>4, <1>5 DEF b

\* The header of a part is put before what is left of it;
LEMMA HeaderHeld ==
  ASSUME NEW b, GoodBuffer(b), NEW pend, IsSeq(pend), NEW h, IsSeq(h), NEW u, IsSeq(u), NEW v, IsSeq(v),
         NEW enc, enc = "none" => pend = <<>>, enc # "none" => h = <<>>
  PROVE  (BufferData(BufferAppend(b, h)) \o pend) \o Coded(enc, u \o v)
           = (BufferData(b) \o pend) \o Coded(enc, (h \o u) \o v)
<1>1. PICK d, e : d = BufferData(b) /\ e = BufferData(BufferAppend(b, h))
  OBVIOUS
<1>2. IsSeq(d) /\ e = d \o h
  BY <1>1, AppendData, DataIs
<1>3. CASE enc = "none"
  <2>1. pend = <<>> /\ Coded(enc, u \o v) = u \o v /\ Coded(enc, (h \o u) \o v) = (h \o u) \o v
    BY <1>3 DEF Coded
  <2>2. PICK w : w = u \o v
    OBVIOUS
  <2>3. IsSeq(w) /\ IsSeq(e) /\ (h \o u) \o v = h \o w
    BY <1>2, <2>2, SeqJoins, SeqAssocs, SMTT(30)
  <2>4. e \o <<>> = e /\ d \o <<>> = d
    BY <1>2, <2>3, SeqEmpty
  <2>5. (d \o h) \o w = d \o (h \o w)
    BY <1>2, <2>3, SeqAssocs, SMTT(60)
  <2> QED BY <1>1, <1>2, <2>1, <2>2, <2>3, <2>4, <2>5
<1>4. CASE enc # "none"
  <2>1. h = <<>> /\ h \o u = u
    BY <1>4, SeqEmpty
  <2>2. e = d
    BY <1>2, <2>1, SeqEmpty
  <2> QED BY <1>1, <2>1, <2>2
<1> QED BY <1>3, <1>4

\* what is written leaves the buffer,
LEMMA PassedOn ==
  ASSUME NEW o, IsSeq(o), NEW w, IsSeq(w), NEW j, IsSeq(j), NEW enc, NEW l, IsSeq(l), NEW v, IsSeq(v)
  PROVE  (o \o w) \o (j \o Coded(enc, l \o v)) = o \o ((w \o j) \o Coded(enc, l \o v))
<1>1. PICK c : c = Coded(enc, l \o v)
  OBVIOUS
<1>2. PICK lv : lv = l \o v
  OBVIOUS
<1>3. IsSeq(lv)
  BY <1>2, SeqJoins
<1>4. IsSeq(Coded(enc, lv))
  BY <1>3, CodedJoin
<1>5. IsSeq(c)
  BY <1>1, <1>2, <1>4
<1>6. (o \o w) \o (j \o c) = o \o ((w \o j) \o c)
  <2>1. PICK x : x = j \o c
    OBVIOUS
  <2>2. IsSeq(x)
    BY <1>5, <2>1, SeqJoins
  <2>3. (o \o w) \o x = o \o (w \o x)
    BY <2>2, SeqAssocs, SMTT(30)
  <2>4. (w \o j) \o c = w \o (j \o c)
    BY <1>5, SeqAssocs, SMTT(30)
  <2> QED BY <2>1, <2>3, <2>4
<1> QED BY <1>1, <1>6

\* what is read leaves the body,
LEMMA ReadOff ==
  ASSUME NEW k, IsSeq(k), NEW data, IsSeq(data), NEW enc, NEW l, IsSeq(l), NEW v, IsSeq(v)
  PROVE  k \o Coded(enc, (data \o l) \o v) = (k \o Coded(enc, data)) \o Coded(enc, l \o v)
<1>2. PICK lv : lv = l \o v
  OBVIOUS
<1>3. IsSeq(lv) /\ (data \o l) \o v = data \o lv
  BY <1>2, SeqJoins, SeqAssocs, SMTT(30)
<1>4. Coded(enc, data \o lv) = Coded(enc, data) \o Coded(enc, lv)
      /\ IsSeq(Coded(enc, data)) /\ IsSeq(Coded(enc, lv))
  BY <1>3, CodedJoin
<1>5. PICK c1, c2 : c1 = Coded(enc, data) /\ c2 = Coded(enc, lv)
  OBVIOUS
<1>6. IsSeq(c1) /\ IsSeq(c2)
  BY <1>4, <1>5
<1>7. (k \o c1) \o c2 = k \o (c1 \o c2)
  BY <1>6, SeqAssocs, SMTT(30)
<1> QED BY <1>2, <1>3, <1>4, <1>5, <1>7

\* and what ends the parts is held.
LEMMA CloseHeld ==
  ASSUME NEW b, GoodBuffer(b), NEW c, IsSeq(c)
  PROVE  /\ BufferData(BufferAppend(b, c)) \o <<>> = (BufferData(b) \o <<>>) \o c
         /\ GoodBuffer(BufferAppend(b, c))
<1>1. PICK d, e : d = BufferData(b) /\ e = BufferData(BufferAppend(b, c))
  OBVIOUS
<1>2. IsSeq(d) /\ e = d \o c /\ GoodBuffer(BufferAppend(b, c))
  BY <1>1, AppendData, DataIs
<1>3. IsSeq(e)
  BY <1>2, SeqJoins
<1> QED BY <1>1, <1>2, <1>3, SeqEmpty

-----------------------------------------------------------------------------
(* A response that was sent carries what its status announces.             *)

OptsOk(o) == {"code", "request"} \subseteq DOMAIN o /\ Asks(o.request) /\ o.code \in OwnCodes

\* What is known of a send() from its beginning,
SentOf(x) ==
  /\ IsSend(x) /\ IsSeq(x.sent.bytes)
  /\ x.length = Len(x.sent.bytes) /\ Asks(x.asked)
  /\ x.range # "ok" \/ x.done => x.ranges = <<>>
  /\ x.enc = "none" => x.pend = <<>>

\* once it is known what is asked for,
Decided(x) ==
  x.range = "ok" /\ ~x.done =>
    /\ x.enc = "none"
    /\ get_request_ranges(x.asked, x.length).status = "ok"
    /\ x.ranges = get_request_ranges(x.asked, x.length).ranges

\* and until the body is read.
Untouched(x) == x.buffer = BufferInit(0, FALSE) /\ x.pend = <<>> /\ x.ret = "ok"

Sent == pc # "idle" \/ result = "true"

SentInv ==
  /\ Sent => SentOf(r) /\ (pc # "ranges" => Decided(r))
  /\ pc # "idle" => result = "none" /\ r.sent = body /\ r.asked = opts.request
  /\ pc \in {"ranges", "head", "body"} => out = <<>> /\ Untouched(r)
  /\ pc \in {"ranges", "head"} => r.enc = "none"
  /\ pc = "ranges" => ~r.done /\ r.range = "no"
  /\ pc \in {"part", "read"} => ~r.done

\* The status follows from what was decided.
Announced(status, x) ==
  /\ x.done => status \in {304, 412, 416}
  /\ ~x.done /\ x.range = "ok" => status = 206
  /\ ~x.done /\ x.range # "ok" => status \in OwnCodes

StatusInv ==
  /\ pc = "ranges" => ctx.status = r.former
  /\ pc = "head" /\ r.former = 200 => IF r.done THEN ctx.status \in {412, 416} ELSE ctx.status = 200
  /\ Sent /\ pc \notin {"ranges", "head"} /\ r.former = 200 => Announced(ctx.status, r)

Checked(x) ==
  \A i \in DOMAIN x.ranges :
    0 <= x.ranges[i][1] /\ x.ranges[i][1] <= x.ranges[i][2] /\ x.ranges[i][2] < x.length

\* What went out, what is held, and what is yet to come of the body, l of it in the
\* part that is being read, are all there is to send;
Going(x, o, ps, l) ==
  /\ Ready(x) /\ x.ret = "ok" /\ Items(o) /\ IsSeq(l)
  /\ Fit(x.sent.bytes, x.parts)
  /\ x.enc # "none" => \A i \in 1 .. Len(x.parts) : x.parts[i].header = <<>>
  /\ BytesOf(o) \o (Held(x) \o Coded(x.enc, l \o PartsText(x.sent.bytes, x.parts)))
       = Coded(x.enc, PartsText(x.sent.bytes, ps))

\* and at the end all of it went out.
Closing(x) == IF Len(x.ranges) > 1 THEN <<<<"close">>>> ELSE <<>>
Carried(x, o, ps) ==
  /\ Items(o)
  /\ BytesOf(o) = IF x.done THEN <<>>
                  ELSE Coded(x.enc, PartsText(x.sent.bytes, ps)) \o (Closing(x) \o LastOf(x.enc))

ContentInv ==
  ~broken /\ Sent /\ Checked(r) =>
    /\ pc = "part" => Going(r, out, Pieces, <<>>)
    /\ pc = "read" => Going(r, out, Pieces, Left(r.sent.bytes, r)) /\ Within(r.sent.bytes, r)
    /\ pc \in {"finish", "idle"} => Carried(r, out, Pieces)

AnnouncedInv == OptsOk(opts) /\ SentInv /\ StatusInv /\ ContentInv

-----------------------------------------------------------------------------
(* The steps.                                                              *)

LEMMA PiecesSame ==
  ASSUME r'.range = r.range, r'.ranges = r.ranges
  PROVE  Pieces' = Pieces
BY DEF Pieces, Piece

LEMMA OptOk ==
  ASSUME NEW o, OptsOk(o), NEW name, name \notin {"code", "request"}, NEW v
  PROVE  OptsOk([o EXCEPT ![name] = v]) /\ [o EXCEPT ![name] = v].request = o.request
BY DEF OptsOk

LEMMA OptSet ==
  ASSUME NEW name, name \notin {"code", "request"}, NEW v, OptsOk(opts), set_option(name, v)
  PROVE  Call /\ OptsOk(opts')
BY OptOk DEF set_option

LEMMA TagOk ==
  ASSUME NEW o, OptsOk(o)
  PROVE  /\ OptsOk(WithEtag(o)) /\ WithEtag(o).request = o.request
         /\ OptsOk(WithLm(o)) /\ WithLm(o).request = o.request
         /\ OptsOk(WithLm(WithEtag(o))) /\ WithLm(WithEtag(o)).request = o.request
<1>1. \A p : OptsOk(p) => /\ OptsOk(WithEtag(p)) /\ WithEtag(p).request = p.request
                          /\ OptsOk(WithLm(p)) /\ WithLm(p).request = p.request
  BY OptOk DEF WithEtag, WithLm
<1>2. OptsOk(WithEtag(o)) /\ WithEtag(o).request = o.request
  BY <1>1
<1> QED BY <1>1, <1>2

\* Calls of the script between two send()s.
LEMMA IdleKeeps ==
  ASSUME AnnouncedInv, pc = "idle", UNCHANGED <<ctx, r, pc, out, broken, result>>, OptsOk(opts')
  PROVE  AnnouncedInv'
<1>1. Pieces' = Pieces /\ (Sent' <=> Sent)
  <2>1. Pieces' = Pieces
    BY PiecesSame
  <2> QED BY <2>1 DEF Sent
<1>2. SentInv'
  BY <1>1 DEF AnnouncedInv, SentInv
<1>3. StatusInv'
  BY <1>1 DEF AnnouncedInv, StatusInv
<1>4. ContentInv'
  BY <1>1 DEF AnnouncedInv, ContentInv
<1> QED BY <1>2, <1>3, <1>4 DEF AnnouncedInv

LEMMA StutterKeeps == ASSUME AnnouncedInv, UNCHANGED vars PROVE AnnouncedInv'
<1>0. UNCHANGED <<opts, body, ctx, r, pc, out, broken, result>>
  BY DEF vars
<1>1. Pieces' = Pieces /\ (Sent' <=> Sent)
  <2>1. Pieces' = Pieces
    BY <1>0, PiecesSame
  <2> QED BY <1>0, <2>1 DEF Sent
<1>2. SentInv'
  BY <1>0, <1>1 DEF AnnouncedInv, SentInv
<1>3. StatusInv'
  BY <1>0, <1>1 DEF AnnouncedInv, StatusInv
<1>4. ContentInv'
  BY <1>0, <1>1 DEF AnnouncedInv, ContentInv
<1> QED BY <1>0, <1>2, <1>3, <1>4 DEF AnnouncedInv

LEMMA InitAnnounces == ASSUME RangesSpelled, OwnStatus, Init PROVE AnnouncedInv
<1>1. OptsOk(opts)
  BY ResponseAssumption DEF Init, RangesSpelled, OwnStatus, OptsOk
<1>2. ~Sent /\ pc = "idle"
  BY DEF Init, Sent
<1> QED BY <1>1, <1>2 DEF AnnouncedInv, SentInv, StatusInv, ContentInv

LEMMA CallsAnnounce ==
  ASSUME RangesSpelled, AnnouncedInv,
         \/ Set \/ isCachedByEtag \/ isCachedByLastModified \/ \E clean \in BOOLEAN : invoke(clean)
  PROVE  AnnouncedInv'
<1>1. OptsOk(opts)
  BY DEF AnnouncedInv
<1>2. CASE Set
  <2>1. CASE \E q \in Requests : setEnvRequest(q)
    <3>1. PICK q \in Requests : Call /\ opts' = [opts EXCEPT !["request"] = q]
      BY <2>1 DEF setEnvRequest, set_option
    <3>2. Asks(q)
      BY DEF RangesSpelled
    <3>3. OptsOk(opts')
      BY <1>1, <3>1, <3>2 DEF OptsOk
    <3> QED BY <3>1, <3>3, IdleKeeps DEF Call
  <2>2. CASE setThrottleRate(1) \/ \E n \in SUBSET {"c1", "c2"} : n # {} /\ setCookie(n)
    <3>1. Call /\ OptsOk(opts')
      BY <1>1, <2>2, OptSet DEF setThrottleRate, setCookie
    <3> QED BY <3>1, IdleKeeps DEF Call
  <2>3. CASE \/ \E t \in {"", "text/plain"} : setContentType(t)
             \/ setContentDisposition("attachment")
             \/ setContentEncoding(TRUE)
             \/ setCacheControl("private")
             \/ \E t \in 0 .. 2 : setLastModified(t)
             \/ setEtag(<<"own">>)
    <3>1. Call /\ OptsOk(opts')
      BY <1>1, <2>3, OptSet
         DEF setContentType, setContentDisposition, setContentEncoding, setCacheControl,
             setLastModified, setEtag
    <3> QED BY <3>1, IdleKeeps DEF Call
  <2> QED BY <1>2, <2>1, <2>2, <2>3 DEF Set
<1>3. CASE isCachedByEtag \/ isCachedByLastModified
  <2>1. Call /\ OptsOk(opts')
    BY <1>1, <1>3, TagOk DEF isCachedByEtag, isCachedByLastModified
  <2> QED BY <2>1, IdleKeeps DEF Call
<1>4. CASE \E clean \in BOOLEAN : invoke(clean)
  <2>1. Call /\ OptsOk(opts')
    BY <1>1, <1>4 DEF invoke
  <2> QED BY <2>1, IdleKeeps DEF Call
<1> QED BY <1>2, <1>3, <1>4

LEMMA GoneAnnounces == ASSUME AnnouncedInv, PeerGone PROVE AnnouncedInv'
<1>1. UNCHANGED <<opts, body, ctx, r, pc, out, result>> /\ broken'
  BY DEF PeerGone
<1>2. Sent' <=> Sent
  BY <1>1 DEF Sent
<1>3. SentInv'
  BY <1>1, <1>2 DEF AnnouncedInv, SentInv
<1>4. StatusInv'
  BY <1>1, <1>2 DEF AnnouncedInv, StatusInv
<1>5. ContentInv'
  BY <1>1 DEF ContentInv
<1> QED BY <1>1, <1>3, <1>4, <1>5 DEF AnnouncedInv

LEMMA SendAnnounces ==
  ASSUME ResponseInv, AnnouncedInv, NEW kind \in {"sapi", "stream"}, send(kind)
  PROVE  AnnouncedInv'
<1>1. /\ r' = Sending(ctx') /\ out' = <<>> /\ pc' = "ranges" /\ UNCHANGED <<opts, body>>
      /\ result' = "none"
  BY DEF send
<1> DEFINE x == Sending(ctx')
<1>2. /\ x.ranges = <<>> /\ x.buffer = BufferInit(0, FALSE) /\ x.pend = <<>> /\ x.ret = "ok"
      /\ x.length = Len(body.bytes) /\ x.sent = body /\ x.asked = opts.request /\ x.former = ctx'.status
      /\ ~x.done /\ x.range = "no" /\ x.enc = "none"
  BY DEF Sending
<1>3. IsSend(x) /\ IsSeq(body.bytes)
  BY SendingTypes DEF ResponseInv, ResponseTypes
<1>4. Asks(opts.request) /\ OptsOk(opts)
  BY DEF AnnouncedInv, OptsOk
<1> HIDE DEF x
<1>5. SentOf(x) /\ Untouched(x)
  BY <1>2, <1>3, <1>4 DEF SentOf, Untouched
<1>6. r' = x
  BY <1>1 DEF x
<1>7. SentInv'
  BY <1>1, <1>2, <1>5, <1>6 DEF SentInv
<1>8. StatusInv'
  BY <1>1, <1>2, <1>6 DEF StatusInv
<1>9. ContentInv'
  BY <1>1 DEF ContentInv
<1> QED BY <1>1, <1>4, <1>7, <1>8, <1>9 DEF AnnouncedInv

\* What becomes of the status while the head is put together.
LEMMA StatusKept ==
  ASSUME NEW c, IsCtx(c), NEW x, NEW y
  PROVE  /\ IsCtx(set_header(c, x)) /\ set_header(c, x).status = c.status
         /\ IsCtx(add_header(c, x, y)) /\ add_header(c, x, y).status = c.status
         /\ IsCtx(del_header(c, x)) /\ del_header(c, x).status = c.status
         /\ IsCtx(set_protocol_version(c, x)) /\ set_protocol_version(c, x).status = c.status
         /\ IsCtx(set_status(c, x)) /\ set_status(c, x).status = x
<1>1. \A v : IsCtx([c EXCEPT !.header = v]) /\ [c EXCEPT !.header = v].status = c.status
  BY DEF IsCtx
<1>2. \A v : IsCtx([c EXCEPT !.minor = v]) /\ [c EXCEPT !.minor = v].status = c.status
  BY DEF IsCtx
<1>3. \A v : IsCtx([c EXCEPT !.status = v]) /\ [c EXCEPT !.status = v].status = v
  BY DEF IsCtx
<1>4. /\ \E v : set_header(c, x) = [c EXCEPT !.header = v]
      /\ \E v : add_header(c, x, y) = [c EXCEPT !.header = v]
      /\ \E v : del_header(c, x) = [c EXCEPT !.header = v]
  BY DEF set_header, add_header, del_header
<1> QED BY <1>1, <1>2, <1>3, <1>4 DEF set_status, set_protocol_version

LEMMA CommonStatus ==
  ASSUME NEW c, IsCtx(c)
  PROVE  IsCtx(CommonHead(c)) /\ CommonHead(c).status = IF opts.code > 0 THEN opts.code ELSE c.status
<1> DEFINE o == set_header(c, opts.headers)
           s == IF opts.code > 0 THEN set_status(o, opts.code) ELSE o
           v == IF opts.minor # -1 THEN set_protocol_version(s, opts.minor) ELSE s
           hdr == FoldLeft(LAMBDA h, n : Added(h, "Set-Cookie", opts.cookies[n]),
                           v.header, SetToSeq(DOMAIN opts.cookies))
           k == [v EXCEPT !.header = hdr]
           code == IF opts.code > 0 THEN opts.code ELSE c.status
<1>1. IsCtx(o) /\ o.status = c.status
  BY StatusKept
<1> HIDE DEF o
<1>2. IsCtx(s) /\ s.status = code
  BY <1>1, StatusKept
<1> HIDE DEF s
<1>3. IsCtx(v) /\ v.status = code
  BY <1>2, StatusKept
<1>4. CommonHead(c) = IF opts.type # "" THEN set_header(k, Emit("Content-Type", opts.type)) ELSE k
  BY DEF CommonHead, s, o
<1> HIDE DEF v, hdr
<1>5. IsCtx(k) /\ k.status = code
  BY <1>3 DEF IsCtx
<1> HIDE DEF k, code
<1>6. IsCtx(CommonHead(c)) /\ CommonHead(c).status = code
  <2>1. PICK e : e = Emit("Content-Type", opts.type)
    OBVIOUS
  <2>2. IsCtx(set_header(k, e)) /\ set_header(k, e).status = k.status
    BY <1>5, StatusKept
  <2>3. CommonHead(c) = set_header(k, e) \/ CommonHead(c) = k
    BY <1>4, <2>1
  <2> QED BY <1>5, <2>2, <2>3
<1> QED BY <1>6 DEF code

LEMMA RangeStatus == ASSUME NEW c, IsCtx(c) PROVE RangeHead(c).status = 206
<1> DEFINE d == set_status(c, 206)
<1>1. IsCtx(d) /\ d.status = 206
  BY StatusKept
<1>2. \E h : RangeHead(c) = set_header(d, h)
  BY DEF RangeHead
<1> HIDE DEF d
<1> QED BY <1>1, <1>2, StatusKept

LEMMA PlainStatus ==
  ASSUME NEW d, IsCtx(d), NEW q
  PROVE  IsCtx(PlainHead(d, q)) /\ PlainHead(d, q).status = d.status
<1> DEFINE cc == IF opts.cache # "" THEN set_header(d, Emit("Cache-Control", opts.cache)) ELSE d
           cd == IF opts.disposition # ""
                 THEN set_header(cc, Emit("Content-Disposition", opts.disposition)) ELSE cc
<1>1. IsCtx(cc) /\ cc.status = d.status
  BY StatusKept
<1> HIDE DEF cc
<1>2. IsCtx(cd) /\ cd.status = d.status
  BY <1>1, StatusKept
<1> DEFINE h == set_header(cd, Emit("Content-Encoding", "gzip"))
           n == del_header(cd, "Content-Encoding")
<1>3. \/ PlainHead(d, q) = add_header(h, "Vary", "Accept-Encoding")
      \/ PlainHead(d, q) = add_header(n, "Vary", "Accept-Encoding")
      \/ PlainHead(d, q) = n
  BY DEF PlainHead, Encodes, cc
<1> HIDE DEF cd
<1>4. IsCtx(h) /\ IsCtx(n) /\ h.status = d.status /\ n.status = d.status
  BY <1>2, StatusKept
<1> HIDE DEF h, n
<1> QED BY <1>3, <1>4, StatusKept

LEMMA CacheStatus ==
  ASSUME NEW d, IsCtx(d), NEW q
  PROVE  CacheHead(d, q).status = IF NotModified(q) THEN 304 ELSE d.status
<1> DEFINE s == IF NotModified(q) THEN set_status(d, 304) ELSE d
<1>1. IsCtx(s) /\ s.status = IF NotModified(q) THEN 304 ELSE d.status
  BY StatusKept
<1>2. \E h : CacheHead(d, q) = set_header(s, h)
  BY DEF CacheHead
<1> HIDE DEF s
<1> QED BY <1>1, <1>2, StatusKept

\* A send() that has returned FALSE promises nothing.
LEMMA FailKeeps ==
  ASSUME AnnouncedInv, OptsOk(opts'), pc' = "idle", result' = "false"
  PROVE  AnnouncedInv'
<1>1. ~Sent'
  BY DEF Sent
<1> QED BY <1>1 DEF AnnouncedInv, SentInv, StatusInv, ContentInv

LEMMA CheckRangesAnnounces ==
  ASSUME ResponseInv, AnnouncedInv, CheckRanges
  PROVE  AnnouncedInv'
<1> DEFINE q == opts.request
           v == get_request_ranges(q, r.length)
           tagged == WithEtag(opts)
           both == WithLm(tagged)
           miss == is_response_cached_by_etag(opts, q.ifRange) = "miss"
           ifRange == Failed(is_response_cached_by_etag(opts, q.ifRange),
                             is_response_cached_by_last_modified(opts, q.ifRange))
           ifMatch == Failed(is_response_cached_by_etag(opts, q.ifMatch),
                             is_response_cached_by_last_modified(opts, q.ifUnmodified))
           base == set_header(ctx, Emit("Accept-Ranges", "bytes"))
           refused == set_header(set_status(base, 416), Emit("Content-Range", <<"*", r.length>>))
           unmet == set_status(base, 412)
<1>1. IsOpts(opts) /\ IsCtx(ctx) /\ IsSend(r) /\ pc = "ranges" /\ Sent
  BY DEF ResponseInv, ResponseTypes, CheckRanges, Sent
<1>2. v \in RangeState
  BY <1>1, RangesTypes DEF IsOpts, IsSend
<1>3. OptsOk(opts) /\ OptsOk(tagged) /\ OptsOk(both) /\ tagged.request = q /\ both.request = q
  BY TagOk DEF AnnouncedInv
<1>4. base.status = ctx.status /\ unmet.status = 412 /\ refused.status = 416
  <2>1. IsCtx(base) /\ base.status = ctx.status
    BY <1>1, StatusKept
  <2> HIDE DEF base
  <2>2. unmet.status = 412
    BY <2>1, StatusKept
  <2>3. IsCtx(set_status(base, 416)) /\ set_status(base, 416).status = 416
    BY <2>1, StatusKept
  <2>4. refused.status = 416
    BY <2>3, StatusKept
  <2> QED BY <2>1, <2>2, <2>4
<1>5. UNCHANGED <<body, broken, out>>
  BY DEF CheckRanges
<1>6. \/ Return(FALSE) /\ UNCHANGED opts
      \/ /\ pc' = "head" /\ result' = result
         /\ \/ ctx' = base /\ opts' \in {opts, tagged, both} /\ UNCHANGED r
            \/ ctx' = refused /\ r' = [r EXCEPT !.range = "err", !.done = TRUE] /\ UNCHANGED opts
            \/ ctx' = unmet /\ r' = [r EXCEPT !.range = "ok", !.done = TRUE] /\ opts' = both
            \/ /\ ctx' = base /\ r' = [r EXCEPT !.range = "ok", !.ranges = v.ranges] /\ opts' = both
               /\ v.status = "ok"
  <2>1. \/ Return(FALSE) /\ UNCHANGED <<opts, ctx, r>>
        \/ /\ pc' = "head" /\ result' = result
           /\ CASE v.status = "no" -> ctx' = base /\ UNCHANGED <<opts, r>>
                [] v.status = "err" /\ q.ifRange # NoHeader ->
                     ctx' = base /\ UNCHANGED <<opts, r>>
                [] v.status = "err" /\ q.ifRange = NoHeader ->
                     /\ r' = [r EXCEPT !.range = "err", !.done = TRUE]
                     /\ ctx' = refused
                     /\ UNCHANGED opts
                [] v.status = "ok" /\ ifRange ->
                     /\ ctx' = base
                     /\ opts' = IF miss THEN tagged ELSE both
                     /\ UNCHANGED r
                [] v.status = "ok" /\ ~ifRange /\ ifMatch ->
                     /\ r' = [r EXCEPT !.range = "ok", !.done = TRUE]
                     /\ ctx' = unmet
                     /\ opts' = both
                [] OTHER ->
                     /\ r' = [r EXCEPT !.range = "ok", !.ranges = v.ranges]
                     /\ ctx' = base
                     /\ opts' = both
    BY DEF CheckRanges
  <2>2. v.status \in {"ok", "no", "err"}
    BY <1>2 DEF RangeState
  <2> HIDE DEF v, tagged, both, base, refused, unmet, miss, ifRange, ifMatch, q
  <2>3. CASE v.status = "no"
    BY <2>1, <2>3
  <2>4. CASE v.status = "err"
    BY <2>1, <2>4
  <2>5. CASE v.status = "ok"
    BY <2>1, <2>5
  <2> QED BY <2>2, <2>3, <2>4, <2>5
<1>7. /\ SentOf(r) /\ result = "none" /\ r.sent = body /\ r.asked = q /\ out = <<>> /\ Untouched(r)
      /\ r.enc = "none" /\ ~r.done /\ r.range = "no" /\ r.ranges = <<>>
  BY <1>1 DEF AnnouncedInv, SentInv, SentOf
<1>8. ctx.status = r.former
  BY <1>1 DEF AnnouncedInv, StatusInv
<1>9. v = get_request_ranges(r.asked, r.length) /\ v.ranges \in Seq(Int \X Int)
  BY <1>2, <1>7 DEF RangeState
<1> HIDE DEF v, tagged, both, base, refused, unmet, q
<1>10. CASE Return(FALSE) /\ UNCHANGED opts
  BY <1>3, <1>10, FailKeeps DEF Return
<1>11. CASE pc' = "head" /\ result' = result
  <2>1. OptsOk(opts') /\ opts'.request = q
    BY <1>3, <1>6, <1>11 DEF Return, q
  <2>2. Sent' /\ pc' = "head"
    BY <1>11 DEF Sent
  <2> SUFFICES /\ SentOf(r') /\ Decided(r') /\ r'.sent = body /\ r'.asked = q /\ Untouched(r')
               /\ r'.enc = "none"
               /\ r'.former = 200 => IF r'.done THEN ctx'.status \in {412, 416} ELSE ctx'.status = 200
    <3>1. SentInv'
      BY <1>5, <1>7, <1>11, <2>1, <2>2 DEF SentInv
    <3>2. StatusInv'
      BY <2>2 DEF StatusInv
    <3>3. ContentInv'
      BY <2>2 DEF ContentInv
    <3> QED BY <2>1, <3>1, <3>2, <3>3 DEF AnnouncedInv
  <2>3. CASE ctx' = base /\ UNCHANGED r
    BY <1>4, <1>7, <1>8, <2>3 DEF Decided
  <2>4. CASE ctx' = refused /\ r' = [r EXCEPT !.range = "err", !.done = TRUE]
    <3>1. IsSend(r')
      BY <1>1, <2>4, FlagsKept
    <3>2. /\ r'.enc = r.enc /\ r'.sent = r.sent /\ r'.asked = r.asked /\ r'.former = r.former
          /\ r'.buffer = r.buffer /\ r'.pend = r.pend /\ r'.ret = r.ret /\ r'.length = r.length
          /\ r'.ranges = r.ranges /\ r'.done
      BY <1>1, <2>4 DEF IsSend
    <3>3. SentOf(r') /\ Untouched(r')
      BY <1>7, <3>1, <3>2 DEF SentOf, Untouched
    <3> QED BY <1>4, <1>7, <2>4, <3>2, <3>3 DEF Decided
  <2>5. CASE ctx' = unmet /\ r' = [r EXCEPT !.range = "ok", !.done = TRUE]
    <3>1. IsSend(r')
      BY <1>1, <2>5, FlagsKept
    <3>2. /\ r'.enc = r.enc /\ r'.sent = r.sent /\ r'.asked = r.asked /\ r'.former = r.former
          /\ r'.buffer = r.buffer /\ r'.pend = r.pend /\ r'.ret = r.ret /\ r'.length = r.length
          /\ r'.ranges = r.ranges /\ r'.done
      BY <1>1, <2>5 DEF IsSend
    <3>3. SentOf(r') /\ Untouched(r')
      BY <1>7, <3>1, <3>2 DEF SentOf, Untouched
    <3> QED BY <1>4, <1>7, <2>5, <3>2, <3>3 DEF Decided
  <2>6. CASE ctx' = base /\ r' = [r EXCEPT !.range = "ok", !.ranges = v.ranges] /\ v.status = "ok"
    <3>1. IsSend(r')
      BY <1>1, <1>9, <2>6, RangesSet
    <3>2. /\ r'.enc = r.enc /\ r'.sent = r.sent /\ r'.asked = r.asked /\ r'.former = r.former
          /\ r'.buffer = r.buffer /\ r'.pend = r.pend /\ r'.ret = r.ret /\ r'.length = r.length
          /\ r'.ranges = v.ranges /\ r'.done = r.done /\ r'.range = "ok"
      BY <1>1, <2>6 DEF IsSend
    <3>3. SentOf(r') /\ Untouched(r')
      BY <1>7, <3>1, <3>2 DEF SentOf, Untouched
    <3>4. Decided(r')
      BY <1>7, <1>9, <2>6, <3>2 DEF Decided
    <3> QED BY <1>4, <1>7, <1>8, <2>6, <3>2, <3>3, <3>4
  <2> QED BY <1>6, <1>11, <2>3, <2>4, <2>5, <2>6 DEF Return
<1> QED BY <1>6, <1>10, <1>11

\* php_http_env_response_send_head() answers as CheckRanges decided, and the caches.
LEMMA SendHeadAnnounces ==
  ASSUME ResponseInv, AnnouncedInv, SendHead
  PROVE  AnnouncedInv'
<1> DEFINE q == opts.request
           c == CommonHead(ctx)
           p == PlainHead(c, q)
           cacheable == response_is_cacheable(p, q)
           none == is_response_cached_by_etag(opts, q.ifNoneMatch) = "no"
           unmodified == NotModified(q)
           fresh == cacheable /\ unmodified
           enc == IF Encodes(q) THEN "gzip" ELSE "none"
           cached == CacheHead(p, q)
           partial == RangeHead(c)
           tagged == WithEtag(opts)
           both == WithLm(WithEtag(opts))
<1>1. IsCtx(ctx) /\ IsSend(r) /\ pc = "head" /\ Sent
  BY DEF ResponseInv, ResponseTypes, SendHead, Sent
<1>2. OptsOk(opts) /\ OptsOk(tagged) /\ OptsOk(both) /\ tagged.request = q /\ both.request = q
  BY TagOk DEF AnnouncedInv
<1>3. /\ c.status = (IF opts.code > 0 THEN opts.code ELSE ctx.status)
      /\ partial.status = 206 /\ p.status = c.status
      /\ cached.status = IF unmodified THEN 304 ELSE p.status
  <2>1. IsCtx(c) /\ c.status = IF opts.code > 0 THEN opts.code ELSE ctx.status
    BY <1>1, CommonStatus
  <2> HIDE DEF c
  <2>2. partial.status = 206 /\ IsCtx(p) /\ p.status = c.status
    BY <2>1, RangeStatus, PlainStatus
  <2> HIDE DEF p
  <2>3. cached.status = IF unmodified THEN 304 ELSE p.status
    BY <2>2, CacheStatus
  <2> QED BY <2>1, <2>2, <2>3
<1>4. UNCHANGED <<body, broken, out, result>> /\ pc' = "body" /\ Sent'
  BY DEF SendHead, Sent
<1>5. \/ r.done /\ UNCHANGED <<ctx, opts, r>>
      \/ ~r.done /\ r.range = "ok" /\ ctx' = partial /\ UNCHANGED <<opts, r>>
      \/ /\ ~r.done /\ r.range # "ok"
         /\ ctx' = IF cacheable THEN cached ELSE p
         /\ opts' \in {opts, tagged, both}
         /\ r' = [r EXCEPT !.done = fresh, !.enc = enc]
  <2>1. pc' = "body" /\
        CASE r.done -> UNCHANGED <<ctx, opts, r>>
          [] ~r.done /\ r.range = "ok" -> ctx' = partial /\ UNCHANGED <<opts, r>>
          [] ~r.done /\ r.range # "ok" ->
               /\ ctx' = IF cacheable THEN cached ELSE p
               /\ opts' = CASE ~cacheable -> opts
                            [] cacheable /\ none -> both
                            [] OTHER -> tagged
               /\ r' = [r EXCEPT !.done = fresh, !.enc = enc]
    BY DEF SendHead
  <2> HIDE DEF cached, p, c, partial, tagged, both, fresh, enc, none, cacheable, q
  <2>2. CASE r.done
    BY <2>1, <2>2
  <2>3. CASE ~r.done /\ r.range = "ok"
    BY <2>1, <2>3
  <2>4. CASE ~r.done /\ r.range # "ok"
    BY <2>1, <2>4
  <2> QED BY <2>2, <2>3, <2>4
<1>6. /\ SentOf(r) /\ Decided(r) /\ result = "none" /\ r.sent = body /\ r.asked = q /\ out = <<>> /\ Untouched(r)
      /\ r.enc = "none"
  BY <1>1 DEF AnnouncedInv, SentInv
<1>7. r.former = 200 => IF r.done THEN ctx.status \in {412, 416} ELSE ctx.status = 200
  BY <1>1 DEF AnnouncedInv, StatusInv
<1>8. opts.code \in OwnCodes /\ 200 \in OwnCodes
  BY <1>2 DEF OptsOk, OwnCodes
<1> HIDE DEF cached, p, c, partial, tagged, both, enc, none, cacheable, unmodified, q
<1>9. OptsOk(opts') /\ opts'.request = q
  BY <1>2, <1>5 DEF q
<1> SUFFICES /\ SentOf(r') /\ Decided(r') /\ r'.sent = body /\ r'.asked = q /\ Untouched(r')
             /\ r'.former = 200 => Announced(ctx'.status, r')
  <2>1. SentInv'
    BY <1>4, <1>6, <1>9 DEF SentInv
  <2>2. StatusInv'
    BY <1>4 DEF StatusInv
  <2>3. ContentInv'
    BY <1>4 DEF ContentInv
  <2> QED BY <1>9, <2>1, <2>2, <2>3 DEF AnnouncedInv
<1>10. CASE r.done /\ UNCHANGED <<ctx, opts, r>>
  BY <1>6, <1>7, <1>10 DEF Announced
<1>11. CASE ~r.done /\ r.range = "ok" /\ ctx' = partial /\ UNCHANGED <<opts, r>>
  BY <1>3, <1>6, <1>11 DEF Announced
<1>12. CASE /\ ~r.done /\ r.range # "ok"
            /\ ctx' = IF cacheable THEN cached ELSE p
            /\ r' = [r EXCEPT !.done = fresh, !.enc = enc]
  <2>1. IsSend(r')
    BY <1>1, <1>12, FlagsKept
  <2>2. /\ r'.sent = r.sent /\ r'.asked = r.asked /\ r'.former = r.former /\ r'.range = r.range
        /\ r'.buffer = r.buffer /\ r'.pend = r.pend /\ r'.ret = r.ret /\ r'.length = r.length
        /\ r'.ranges = r.ranges
    BY <1>1, <1>12 DEF IsSend
  <2>3. r'.done = fresh
    BY <1>1, <1>12 DEF IsSend
  <2>4. SentOf(r') /\ Untouched(r') /\ Decided(r')
    BY <1>6, <1>12, <2>1, <2>2 DEF SentOf, Untouched, Decided
  <2>5. ASSUME r.former = 200 PROVE Announced(ctx'.status, r')
    <3>1. p.status \in OwnCodes
      BY <1>3, <1>7, <1>8, <1>12, <2>5
    <3>2. CASE cacheable
      BY <1>3, <1>12, <2>2, <2>3, <3>1, <3>2, ZenonT(30) DEF Announced
    <3>3. CASE ~cacheable
      BY <1>12, <2>2, <2>3, <3>1, <3>3 DEF Announced
    <3> QED BY <3>2, <3>3
  <2> QED BY <1>6, <2>2, <2>4, <2>5
<1> QED BY <1>5, <1>10, <1>11, <1>12

\* The pieces of ranges within the body lie within the body.
LEMMA PiecesFit ==
  ASSUME SentOf(r), Checked(r)
  PROVE  /\ Fit(r.sent.bytes, Pieces)
         /\ r.range # "ok" => \A i \in 1 .. Len(Pieces) : Pieces[i].header = <<>>
<1>1. /\ IsSend(r) /\ r.ranges \in Seq(Int \X Int) /\ DOMAIN r.ranges = 1 .. Len(r.ranges)
      /\ Len(r.ranges) \in Nat /\ r.length = Len(r.sent.bytes) /\ r.length \in Nat
  BY DEF SentOf, IsSend
<1>2. IsSeq(Pieces) /\ \A i \in 1 .. Len(Pieces) : IsPart(Pieces[i])
  BY <1>1, PiecesTypes
<1>3. CASE r.range = "ok"
  <2>1. Pieces = [i \in DOMAIN r.ranges |-> Piece(r.ranges[i])]
    BY <1>3 DEF Pieces
  <2>2. DOMAIN Pieces = 1 .. Len(r.ranges) /\ DOMAIN Pieces = 1 .. Len(Pieces)
    BY <1>1, <1>2, <2>1, SeqLen
  <2>3. ASSUME NEW i \in 1 .. Len(Pieces) PROVE GoodPart(r.sent.bytes, Pieces[i])
    <3>1. Pieces[i] = Piece(r.ranges[i]) /\ i \in DOMAIN r.ranges
      BY <1>1, <2>1, <2>2
    <3>2. PICK x : x = r.ranges[i]
      OBVIOUS
    <3>3. x[1] \in Int /\ x[2] \in Int /\ 0 <= x[1] /\ x[1] <= x[2] /\ x[2] < r.length
      <4>1. x \in Int \X Int
        BY <1>1, <3>1, <3>2
      <4> QED BY <3>1, <3>2, <4>1 DEF Checked
    <3>4. Piece(x).begin = x[1] /\ Piece(x).forlen = x[2] - x[1] + 1
      BY DEF Piece
    <3>5. PICK p, b, e : p = Piece(x) /\ b = x[1] /\ e = x[2]
      OBVIOUS
    <3>6. p.begin = b /\ p.forlen = e - b + 1 /\ b \in Int /\ e \in Int /\ 0 <= b /\ b <= e /\ e < r.length
      BY <3>3, <3>4, <3>5
    <3>7. p.begin \in Nat /\ p.forlen \in Nat /\ p.begin + p.forlen <= r.length
      BY <1>1, <3>6
    <3>8. GoodPart(r.sent.bytes, p)
      BY <1>1, <3>7 DEF GoodPart
    <3> QED BY <3>1, <3>2, <3>5, <3>8
  <2> QED BY <1>2, <1>3, <2>3 DEF Fit, IsPart
<1>4. CASE r.range # "ok"
  <2> DEFINE p == [begin |-> 0, forlen |-> 0, header |-> <<>>]
  <2>1. Pieces = <<p>>
    BY <1>4 DEF Pieces
  <2>2. p.begin = 0 /\ p.forlen = 0 /\ p.header = <<>>
    OBVIOUS
  <2>3. GoodPart(r.sent.bytes, p)
    BY <1>1, <2>2 DEF GoodPart
  <2> HIDE DEF p
  <2>4. Len(Pieces) = 1 /\ Pieces[1] = p
    BY <2>1, SeqOne
  <2>5. \A i \in 1 .. Len(Pieces) : Pieces[i] = p
    BY <2>4
  <2> QED BY <1>2, <2>2, <2>3, <2>5 DEF Fit, IsPart
<1> QED BY <1>3, <1>4

LEMMA SendBodyAnnounces ==
  ASSUME ResponseInv, AnnouncedInv, SendBody
  PROVE  AnnouncedInv'
<1>1. /\ UNCHANGED <<opts, body, ctx, out, broken, result>> /\ pc = "body"
      /\ IF r.done THEN pc' = "finish" /\ UNCHANGED r
         ELSE pc' = "part" /\ r' = [r EXCEPT !.parts = Pieces]
  BY DEF SendBody
<1>2. Sent /\ Sent'
  BY <1>1 DEF Sent
<1>3. /\ SentOf(r) /\ Decided(r) /\ r.sent = body /\ r.asked = opts.request /\ out = <<>> /\ Untouched(r)
      /\ OptsOk(opts) /\ IsSend(r) /\ result = "none"
  BY <1>1, <1>2 DEF AnnouncedInv, SentInv, SentOf
<1>4. r.former = 200 => Announced(ctx.status, r)
  BY <1>1, <1>2 DEF AnnouncedInv, StatusInv
<1>5. Items(<<>>) /\ BytesOf(<<>>) = <<>>
  <2>1. [k |-> "end"].k # "data"
    OBVIOUS
  <2> QED BY <2>1, NoBytes
<1>6. CASE r.done
  <2>1. Pieces' = Pieces
    BY <1>1, <1>6, PiecesSame
  <2>2. SentInv'
    BY <1>1, <1>2, <1>3, <1>6 DEF SentInv
  <2>3. StatusInv'
    BY <1>1, <1>2, <1>4, <1>6 DEF StatusInv
  <2>4. Carried(r, out, Pieces)
    BY <1>3, <1>5, <1>6 DEF Carried
  <2>5. ContentInv'
    BY <1>1, <1>6, <2>1, <2>4 DEF ContentInv
  <2> QED BY <1>1, <1>3, <2>2, <2>3, <2>5 DEF AnnouncedInv
<1>7. CASE ~r.done
  <2>1. r' = [r EXCEPT !.parts = Pieces] /\ pc' = "part"
    BY <1>1, <1>7
  <2>2. IsSend(r')
    BY <1>3, <2>1, PiecesTypes, PartsSet
  <2>3. /\ r'.sent = r.sent /\ r'.asked = r.asked /\ r'.former = r.former /\ r'.range = r.range
        /\ r'.buffer = r.buffer /\ r'.pend = r.pend /\ r'.ret = r.ret /\ r'.length = r.length
        /\ r'.ranges = r.ranges /\ r'.done = r.done /\ r'.enc = r.enc /\ r'.parts = Pieces
    BY <1>3, <2>1 DEF IsSend
  <2>4. SentOf(r') /\ Decided(r')
    BY <1>3, <2>2, <2>3 DEF SentOf, Decided
  <2>5. SentInv'
    BY <1>1, <1>2, <1>3, <1>7, <2>1, <2>3, <2>4 DEF SentInv
  <2>6. StatusInv'
    BY <1>1, <1>2, <1>4, <2>1, <2>3 DEF StatusInv, Announced
  <2>7. Pieces' = Pieces
    BY <2>3, PiecesSame
  <2>8. ASSUME Checked(r') PROVE Going(r', out, Pieces, <<>>)
    <3>1. Checked(r)
      BY <2>3, <2>8 DEF Checked
    <3>2. /\ Fit(r'.sent.bytes, r'.parts)
          /\ r.range # "ok" => \A i \in 1 .. Len(r'.parts) : r'.parts[i].header = <<>>
      BY <1>3, <2>3, <3>1, PiecesFit
    <3>3. r'.enc # "none" => r.range # "ok"
      BY <1>3, <1>7, <2>3 DEF Decided
    <3>4. Ready(r') /\ Held(r') = <<>> \o <<>>
      BY <1>3, <2>2, <2>3, EmptyBuffer DEF Ready, Held, Untouched
    <3>5. PICK t : t = PartsText(r'.sent.bytes, Pieces)
      OBVIOUS
    <3>6. IsSeq(t) /\ IsSeq(<<>>)
      BY <2>3, <1>3, <3>2, <3>5, PartTextsAre, SeqOne DEF SentOf
    <3>7. IsSeq(Coded(r'.enc, t)) /\ <<>> \o t = t /\ <<>> \o <<>> = <<>>
      BY <3>6, CodedJoin, SeqEmpty
    <3>8. <<>> \o Coded(r'.enc, t) = Coded(r'.enc, t)
      BY <3>7, SeqEmpty
    <3>9. BytesOf(out) \o (Held(r') \o Coded(r'.enc, <<>> \o t)) = Coded(r'.enc, t)
      BY <1>3, <1>5, <3>4, <3>7, <3>8
    <3> QED BY <1>3, <1>5, <2>3, <3>2, <3>3, <3>4, <3>5, <3>6, <3>9 DEF Going, Untouched
  <2>9. ContentInv'
    BY <1>1, <2>1, <2>7, <2>8 DEF ContentInv
  <2> QED BY <1>1, <1>3, <2>5, <2>6, <2>9 DEF AnnouncedInv
<1> QED BY <1>6, <1>7

\* What a round of reading needs to know of the buffer.
LEMMA HeldSeq == ASSUME NEW x, Ready(x) PROVE IsSeq(Held(x)) /\ IsSeq(BufferData(x.buffer)) /\ IsSeq(x.pend)
<1>1. PICK d, p : d = BufferData(x.buffer) /\ p = x.pend
  OBVIOUS
<1>2. IsSeq(d) /\ IsSeq(p)
  BY <1>1, DataIs DEF Ready, IsSend
<1>3. IsSeq(d \o p)
  BY <1>2, SeqJoins
<1> QED BY <1>1, <1>2, <1>3 DEF Held

LEMMA GoesOn ==
  ASSUME NEW x, IsSeq(x.sent.bytes), NEW o, NEW ps, NEW data, IsSeq(data), NEW l, IsSeq(l), Going(x, o, ps, data \o l),
         NEW w, Items(w), NEW y, Ready(y), y.ret = "ok", y.enc = x.enc, y.sent = x.sent,
         y.parts = x.parts, BytesOf(w) \o Held(y) = Held(x) \o Coded(x.enc, data)
  PROVE  Going(y, o \o w, ps, l)
<1> DEFINE v == PartsText(x.sent.bytes, x.parts)
           all == Coded(x.enc, PartsText(x.sent.bytes, ps))
<1>1. /\ Items(o) /\ Fit(x.sent.bytes, x.parts) /\ Ready(x)
      /\ x.enc # "none" => \A i \in 1 .. Len(x.parts) : x.parts[i].header = <<>>
      /\ BytesOf(o) \o (Held(x) \o Coded(x.enc, (data \o l) \o v)) = all
  BY DEF Going
<1> HIDE DEF all
<1>2. IsSeq(v)
  <2>1. PICK t, q : t = x.sent.bytes /\ q = x.parts
    OBVIOUS
  <2>2. IsSeq(t) /\ Fit(t, q)
    BY <1>1, <2>1
  <2>3. IsSeq(PartsText(t, q))
    BY <2>2, PartTextsAre
  <2> QED BY <2>1, <2>3
<1>3. v = PartsText(y.sent.bytes, y.parts)
  OBVIOUS
<1>4. all = Coded(y.enc, PartsText(y.sent.bytes, ps))
  BY DEF all
<1> HIDE DEF v
<1>5. PICK e, k, j, b, c :
        e = x.enc /\ k = Held(x) /\ j = Held(y) /\ b = BytesOf(o) /\ c = BytesOf(w)
  OBVIOUS
<1>6. IsSeq(k) /\ IsSeq(j) /\ IsSeq(b) /\ IsSeq(c)
  <2>1. IsSeq(Held(x)) /\ IsSeq(Held(y))
    BY <1>1, HeldSeq
  <2>2. IsSeq(BytesOf(o)) /\ IsSeq(BytesOf(w))
    BY <1>1, BytesJoin
  <2> QED BY <1>5, <2>1, <2>2
<1>7. c \o j = k \o Coded(e, data) /\ b \o (k \o Coded(e, (data \o l) \o v)) = all
  BY <1>1, <1>5
<1>8. (b \o c) \o (j \o Coded(e, l \o v)) = b \o ((c \o j) \o Coded(e, l \o v))
  BY <1>2, <1>6, PassedOn, SMTT(30)
<1>9. k \o Coded(e, (data \o l) \o v) = (k \o Coded(e, data)) \o Coded(e, l \o v)
  <2>1. IsSeq(k) /\ IsSeq(data) /\ IsSeq(l) /\ IsSeq(v)
    BY <1>2, <1>6
  <2> QED BY <2>1, ReadOff, SMTT(60)
<1>10. (b \o c) \o (j \o Coded(e, l \o v)) = all
  BY <1>7, <1>8, <1>9
<1>11. Items(o \o w) /\ BytesOf(o \o w) = b \o c
  <2>1. Items(o \o w) /\ BytesOf(o \o w) = BytesOf(o) \o BytesOf(w)
    BY <1>1, BytesJoin
  <2> QED BY <1>5, <2>1
<1>12. BytesOf(o \o w) \o (Held(y) \o Coded(y.enc, l \o v)) = all
  BY <1>5, <1>10, <1>11
<1>13. Fit(y.sent.bytes, y.parts) /\ (y.enc # "none" => \A i \in 1 .. Len(y.parts) : y.parts[i].header = <<>>)
  BY <1>1
<1> QED BY <1>3, <1>4, <1>11, <1>12, <1>13 DEF Going

LEMMA NextPartAnnounces ==
  ASSUME ResponseInv, ResponseInv', AnnouncedInv, NextPart
  PROVE  AnnouncedInv'
<1> DEFINE p == Head(r.parts)
           t == r.sent.bytes
<1>1. /\ UNCHANGED <<opts, body, ctx, out, broken, result>> /\ pc = "part" /\ pc' = "read"
      /\ r.parts # <<>>
      /\ r' = [r EXCEPT !.parts = Tail(r.parts), !.ret = "ok",
                        !.pos = IF p.begin >= 0 THEN p.begin ELSE r.pos,
                        !.forlen = IF p.forlen <= 0 THEN -1 ELSE p.forlen,
                        !.buffer = BufferAppend(r.buffer, p.header)]
  BY DEF NextPart
<1>2. Sent /\ Sent'
  BY <1>1 DEF Sent
<1>3. /\ SentOf(r) /\ Decided(r) /\ r.sent = body /\ r.asked = opts.request /\ ~r.done
      /\ OptsOk(opts) /\ IsSend(r) /\ IsSeq(t) /\ result = "none"
  BY <1>1, <1>2 DEF AnnouncedInv, SentInv, SentOf
<1>4. IsSend(r')
  BY <1>1 DEF ResponseInv, ResponseTypes
<1>5. /\ r'.sent = r.sent /\ r'.asked = r.asked /\ r'.former = r.former /\ r'.range = r.range
      /\ r'.pend = r.pend /\ r'.ret = "ok" /\ r'.length = r.length
      /\ r'.ranges = r.ranges /\ r'.done = r.done /\ r'.enc = r.enc /\ r'.parts = Tail(r.parts)
      /\ r'.pos = (IF p.begin >= 0 THEN p.begin ELSE r.pos)
      /\ r'.forlen = (IF p.forlen <= 0 THEN -1 ELSE p.forlen)
      /\ r'.buffer = BufferAppend(r.buffer, p.header)
  BY <1>1, <1>3 DEF IsSend
<1> HIDE DEF p
<1>6. SentOf(r') /\ Decided(r')
  BY <1>3, <1>4, <1>5 DEF SentOf, Decided
<1>7. SentInv'
  BY <1>1, <1>2, <1>3, <1>5, <1>6 DEF SentInv
<1>8. StatusInv'
  BY <1>1, <1>2, <1>5 DEF AnnouncedInv, StatusInv, Announced
<1>9. Pieces' = Pieces
  BY <1>5, PiecesSame
<1>10. ASSUME ~broken, Checked(r') PROVE Going(r', out, Pieces, Left(t, r')) /\ Within(t, r')
  <2>1. Going(r, out, Pieces, <<>>)
    <3>1. Checked(r)
      BY <1>5, <1>10 DEF Checked
    <3> QED BY <1>1, <1>2, <1>10, <3>1 DEF AnnouncedInv, ContentInv
  <2>2. /\ Ready(r) /\ Items(out) /\ Fit(t, r.parts)
        /\ r.enc # "none" => \A i \in 1 .. Len(r.parts) : r.parts[i].header = <<>>
        /\ BytesOf(out) \o (Held(r) \o Coded(r.enc, <<>> \o PartsText(t, r.parts)))
             = Coded(r.enc, PartsText(t, Pieces))
    BY <2>1 DEF Going
  <2> DEFINE u == Upto(t, p.begin, p.forlen)
             v == PartsText(t, Tail(r.parts))
  <2>3. /\ GoodPart(t, p) /\ IsSeq(p.header) /\ p = r.parts[1] /\ 1 \in 1 .. Len(r.parts)
        /\ Fit(t, Tail(r.parts))
        /\ \A i \in 1 .. Len(Tail(r.parts)) : Tail(r.parts)[i] = r.parts[i + 1] /\ i + 1 \in 1 .. Len(r.parts)
        /\ PartsText(t, r.parts) = PartText(t, p) \o v
    <3>1. PICK ps : ps = r.parts
      OBVIOUS
    <3>2. Fit(t, ps) /\ ps # <<>>
      BY <1>1, <2>2, <3>1
    <3>3. /\ GoodPart(t, Head(ps)) /\ IsSeq(Head(ps).header) /\ Head(ps) = ps[1] /\ 1 \in 1 .. Len(ps)
          /\ Fit(t, Tail(ps))
          /\ \A i \in 1 .. Len(Tail(ps)) : Tail(ps)[i] = ps[i + 1] /\ i + 1 \in 1 .. Len(ps)
          /\ PartsText(t, ps) = PartText(t, Head(ps)) \o PartsText(t, Tail(ps))
      BY <1>3, <3>2, PartsFirst
    <3> QED BY <3>1, <3>3 DEF p
  <2>4. /\ p.begin \in Nat /\ p.forlen \in Nat /\ p.begin + p.forlen <= Len(t)
        /\ r'.pos = p.begin /\ r'.forlen = IF p.forlen <= 0 THEN -1 ELSE p.forlen
    BY <1>5, <2>3 DEF GoodPart
  <2>5. Left(t, r') = u /\ Within(t, r')
    <3>1. PICK b, f : b = p.begin /\ f = p.forlen
      OBVIOUS
    <3>2. /\ b \in Nat /\ f \in Nat /\ b + f <= Len(t)
          /\ r'.pos = b /\ r'.forlen = IF f <= 0 THEN -1 ELSE f
      BY <2>4, <3>1
    <3>3. Left(t, r') = SubSeq(t, b + 1, IF f <= 0 THEN Len(t) ELSE b + f)
      BY <3>2 DEF Left
    <3>4. Within(t, r')
      BY <3>2 DEF Within
    <3> QED BY <3>1, <3>3, <3>4 DEF Upto
  <2>6. IsSeq(u) /\ PartText(t, p) = p.header \o u
    BY <1>3, <2>3, PartTextSeq DEF PartText
  <2>7. IsSeq(v)
    BY <1>3, <2>3, PartTextsAre
  <2>8. r.enc # "none" => p.header = <<>>
    BY <2>2, <2>3
  <2> HIDE DEF u, v
  <2>9. Held(r') \o Coded(r.enc, u \o v) = Held(r) \o Coded(r.enc, (p.header \o u) \o v)
    <3>1. PICK b, pend, h, enc : b = r.buffer /\ pend = r.pend /\ h = p.header /\ enc = r.enc
      OBVIOUS
    <3>2. GoodBuffer(b) /\ IsSeq(pend) /\ IsSeq(h) /\ (enc = "none" => pend = <<>>) /\ (enc # "none" => h = <<>>)
      BY <1>3, <2>2, <2>3, <2>8, <3>1 DEF Ready, IsSend
    <3>3. (BufferData(BufferAppend(b, h)) \o pend) \o Coded(enc, u \o v)
            = (BufferData(b) \o pend) \o Coded(enc, (h \o u) \o v)
      BY <2>6, <2>7, <3>2, HeaderHeld, SMTT(30)
    <3> QED BY <1>5, <3>1, <3>3 DEF Held
  <2>10. <<>> \o ((p.header \o u) \o v) = (p.header \o u) \o v
    <3>1. PICK h : h = p.header
      OBVIOUS
    <3>2. IsSeq(h \o u)
      BY <2>3, <2>6, <3>1, SeqJoins
    <3>3. PICK hu : hu = h \o u
      OBVIOUS
    <3>4. IsSeq(hu \o v)
      BY <2>7, <3>2, <3>3, SeqJoins
    <3>5. <<>> \o (hu \o v) = hu \o v
      BY <3>4, SeqEmpty
    <3> QED BY <3>1, <3>3, <3>5
  <2>11. BytesOf(out) \o (Held(r') \o Coded(r'.enc, u \o v)) = Coded(r'.enc, PartsText(t, Pieces))
    BY <1>5, <2>2, <2>3, <2>6, <2>9, <2>10
  <2>12. Ready(r')
    <3>1. PICK b, h : b = r.buffer /\ h = p.header
      OBVIOUS
    <3>2. GoodBuffer(BufferAppend(b, h))
      BY <2>2, <2>3, <3>1, AppendData DEF Ready
    <3> QED BY <1>3, <1>4, <1>5, <3>1, <3>2 DEF Ready, SentOf
  <2>13. r'.enc # "none" => \A i \in 1 .. Len(r'.parts) : r'.parts[i].header = <<>>
    BY <1>5, <2>2, <2>3
  <2>14. Fit(r'.sent.bytes, r'.parts) /\ v = PartsText(r'.sent.bytes, r'.parts) /\ t = r'.sent.bytes
    BY <1>5, <2>3 DEF v
  <2>15. Going(r', out, Pieces, u)
    BY <1>5, <2>2, <2>6, <2>11, <2>12, <2>13, <2>14 DEF Going
  <2> QED BY <2>5, <2>15
<1>11. ContentInv'
  BY <1>1, <1>5, <1>9, <1>10 DEF ContentInv
<1> QED BY <1>1, <1>3, <1>7, <1>8, <1>11 DEF AnnouncedInv

\* Whatever is written, only buffer and encoder change.
LEMMA SendDataFields ==
  ASSUME NEW x, IsSend(x), NEW data, NEW s \in send_data(x, data)
  PROVE  /\ s.r.range = x.range /\ s.r.ranges = x.ranges /\ s.r.done = x.done /\ s.r.enc = x.enc
         /\ s.r.length = x.length /\ s.r.parts = x.parts /\ s.r.pos = x.pos /\ s.r.forlen = x.forlen
         /\ s.r.ret = x.ret /\ s.r.asked = x.asked /\ s.r.sent = x.sent /\ s.r.former = x.former
         /\ x.enc = "none" => s.r.pend = <<>>
<1> DEFINE coming == Encoded(data)
           all == x.pend \o coming
           cuts == CASE x.enc = "none" -> {0}
                     [] x.enc # "none" /\ data = NoData -> {Len(all)}
                     [] OTHER -> 0 .. Len(all)
           given(n) == CASE x.enc = "none" -> data
                         [] x.enc # "none" /\ data = NoData -> all \o <<<<"z-end">>>>
                         [] OTHER -> SubSeq(all, 1, n)
           output(n) == ChunkedOutput(x.buffer, given(n), OutputChunk(data), IF broken THEN 1 ELSE 0)
           kept(n) == IF x.enc = "none" THEN <<>> ELSE SubSeq(all, n + 1, Len(all))
           w(n) == IF output(n).chunks = <<>> THEN [c |-> ctx, out |-> <<>>]
                   ELSE stream_write(ctx, opts.request, output(n).chunks)
<1>0. PICK n \in cuts :
        s = [r |-> [x EXCEPT !.buffer = output(n).buffer, !.pend = kept(n)],
             c |-> w(n).c, out |-> w(n).out, ok |-> ~output(n).failed]
  BY DEF send_data
<1>1. \E bf, pe : s.r = [x EXCEPT !.buffer = bf, !.pend = pe] /\ (x.enc = "none" => pe = <<>>)
  <2> DEFINE bf == output(n).buffer
             pe == kept(n)
  <2>1. s.r = [x EXCEPT !.buffer = bf, !.pend = pe]
    BY <1>0
  <2>2. x.enc = "none" => pe = <<>>
    OBVIOUS
  <2> HIDE DEF bf, pe
  <2> QED BY <2>1, <2>2
<1>2. PICK bf, pe : s.r = [x EXCEPT !.buffer = bf, !.pend = pe] /\ (x.enc = "none" => pe = <<>>)
  BY <1>1
<1> QED BY <1>2 DEF IsSend

LEMMA ReadBodyAnnounces ==
  ASSUME ResponseInv, ResponseInv', AnnouncedInv, ReadBody
  PROVE  AnnouncedInv'
<1> DEFINE t == r.sent.bytes
           left == SubSeq(body.bytes, r.pos + 1, Len(body.bytes))
           n == AtMost(AtMost(ReadSize, r.forlen), Len(left))
           data == SubSeq(left, 1, n)
<1>1. /\ UNCHANGED <<opts, body, broken, result>> /\ pc = "read" /\ pc' \in {"part", "read"}
      /\ Sent /\ Sent'
  BY DEF ReadBody, Sent
<1>2. /\ SentOf(r) /\ Decided(r) /\ r.sent = body /\ r.asked = opts.request /\ ~r.done
      /\ OptsOk(opts) /\ IsSend(r) /\ IsSeq(t) /\ ResponseTypes
      /\ result = "none"
  BY <1>1 DEF AnnouncedInv, SentInv, SentOf, ResponseInv
<1>3. IsSend(r')
  BY <1>1 DEF ResponseInv, ResponseTypes
<1>4. PICK s, seen :
        /\ seen \in BOOLEAN /\ (seen => ~s.ok)
        /\ s \in IF n = 0 THEN {[r |-> r, c |-> ctx, out |-> <<>>, ok |-> TRUE]}
                 ELSE send_data(r, data)
        /\ ctx' = s.c
        /\ out' = out \o s.out
        /\ r' = [s.r EXCEPT !.pos = s.r.pos + n,
                            !.forlen = IF s.r.forlen = -1 THEN s.r.forlen ELSE s.r.forlen - n,
                            !.ret = IF seen THEN "failed" ELSE s.r.ret]
        /\ pc' = IF seen \/ n < AtMost(PtrSize, r.forlen) \/ n = r.forlen \/ n = Len(left)
                 THEN "part" ELSE "read"
  BY ZenonT(30) DEF ReadBody
<1>5. left = SubSeq(t, r.pos + 1, Len(t))
  BY <1>2
<1>6. n = AtMost(AtMost(ReadSize, r.forlen), Len(SubSeq(t, r.pos + 1, Len(t))))
      /\ data = SubSeq(SubSeq(t, r.pos + 1, Len(t)), 1, n)
      /\ Len(left) = Len(SubSeq(t, r.pos + 1, Len(t)))
  BY <1>5
<1>7. IsSeq(data)
  <2>1. IsSeq(left) /\ Len(left) \in Nat
    <3>1. r.pos + 1 \in Int /\ r.pos + 1 >= 1 /\ Len(t) \in Int /\ Len(t) <= Len(t)
      BY <1>2, SeqLen DEF IsSend
    <3> QED BY <1>2, <1>5, <3>1, SeqCut, SeqLen
  <2> HIDE DEF left
  <2>2. n \in Nat /\ n <= Len(left)
    BY <1>2, <2>1, ResponseAssumption DEF AtMost, IsSend
  <2> HIDE DEF n
  <2>3. n \in Int /\ 1 \in Int /\ 1 >= 1
    BY <2>2
  <2> QED BY <2>1, <2>2, <2>3, SeqCut
<1> HIDE DEF left, n, data
<1>8. n = 0 => s.r = r /\ s.c = ctx /\ s.out = <<>> /\ s.ok
  BY <1>4
<1>9. n # 0 => s \in send_data(r, data)
  BY <1>4
<1>10. /\ s.r.range = r.range /\ s.r.ranges = r.ranges /\ s.r.done = r.done /\ s.r.enc = r.enc
       /\ s.r.length = r.length /\ s.r.parts = r.parts /\ s.r.pos = r.pos /\ s.r.forlen = r.forlen
       /\ s.r.ret = r.ret /\ s.r.asked = r.asked /\ s.r.sent = r.sent /\ s.r.former = r.former
       /\ r.enc = "none" => s.r.pend = <<>>
  <2>1. CASE n = 0
    BY <1>2, <1>8, <2>1 DEF SentOf
  <2>2. CASE n # 0
    BY <1>2, <1>9, <2>2, SendDataFields
  <2> QED BY <2>1, <2>2
<1>11. IsSend(s.r) /\ s.c.status = ctx.status
  <2>1. CASE n = 0
    BY <1>2, <1>8, <2>1
  <2>2. CASE n # 0
    <3>1. IsSend(s.r) /\ Written(ctx, s.c, s.out)
      BY <1>2, <1>7, <1>9, <2>2, SendData
    <3> QED BY <3>1 DEF Written
  <2> QED BY <2>1, <2>2
<1>12. /\ r'.range = r.range /\ r'.ranges = r.ranges /\ r'.done = r.done /\ r'.enc = r.enc
       /\ r'.length = r.length /\ r'.parts = r.parts /\ r'.asked = r.asked /\ r'.sent = r.sent
       /\ r'.former = r.former /\ r'.pend = s.r.pend /\ r'.buffer = s.r.buffer
       /\ r'.pos = r.pos + n
       /\ r'.forlen = (IF r.forlen = -1 THEN -1 ELSE r.forlen - n)
       /\ r'.ret = (IF seen THEN "failed" ELSE r.ret)
  BY <1>4, <1>10, <1>11 DEF IsSend
<1>13. SentOf(r') /\ Decided(r')
  BY <1>2, <1>3, <1>10, <1>12 DEF SentOf, Decided
<1>14. SentInv'
  BY <1>1, <1>2, <1>12, <1>13 DEF SentInv
<1>15. StatusInv'
  BY <1>1, <1>4, <1>11, <1>12 DEF AnnouncedInv, StatusInv, Announced
<1>16. Pieces' = Pieces
  BY <1>12, PiecesSame
<1>17. ASSUME ~broken, Checked(r')
       PROVE  /\ Going(r', out', Pieces, Left(t, r')) /\ Within(t, r')
              /\ pc' = "part" => Left(t, r') = <<>>
  <2>1. Going(r, out, Pieces, Left(t, r)) /\ Within(t, r)
    <3>1. Checked(r)
      BY <1>12, <1>17 DEF Checked
    <3> QED BY <1>1, <1>17, <3>1 DEF AnnouncedInv, ContentInv
  <2>2. Round(t, r, n, r')
    BY <1>6, <1>12 DEF Round
  <2>3. PICK m, u : m = Len(SubSeq(t, r.pos + 1, Len(t)))
                    /\ u = SubSeq(SubSeq(t, r.pos + 1, Len(t)), 1, n)
    OBVIOUS
  <2>31. RoundLeaves(t, r, n, r')
    BY <1>2, <2>1, <2>2, ReadLeft
  <2>4. /\ IsSeq(u) /\ (u = <<>> <=> n = 0) /\ Within(t, r') /\ IsSeq(Left(t, r'))
        /\ Left(t, r) = u \o Left(t, r')
        /\ n < AtMost(PtrSize, r.forlen) \/ n = r.forlen \/ n = m => Left(t, r') = <<>>
    BY <2>3, <2>31 DEF RoundLeaves
  <2>5. u = data /\ m = Len(left)
    BY <1>6, <2>3
  <2>6. PICK l : l = Left(t, r')
    OBVIOUS
  <2>7. /\ IsSeq(data) /\ IsSeq(l) /\ (data = <<>> <=> n = 0) /\ Within(t, r')
        /\ Left(t, r) = data \o l
        /\ n < AtMost(PtrSize, r.forlen) \/ n = r.forlen \/ n = Len(left) => l = <<>>
    BY <2>4, <2>5, <2>6
  <2>8. Going(r, out, Pieces, data \o l) /\ Ready(r) /\ r.ret = "ok"
    BY <2>1, <2>7 DEF Going
  <2>9. /\ s.ok /\ Items(s.out) /\ GoodBuffer(s.r.buffer)
        /\ BytesOf(s.out) \o Held(s.r) = Held(r) \o Coded(r.enc, data)
    <3>1. CASE n = 0
      <4>1. s.r = r /\ s.out = <<>> /\ s.ok /\ data = <<>>
        BY <1>8, <2>7, <3>1
      <4>2. Items(<<>>) /\ BytesOf(<<>>) = <<>>
        <5>1. [k |-> "end"].k # "data"
          OBVIOUS
        <5> QED BY <5>1, NoBytes
      <4>3. IsSeq(Held(r)) /\ Coded(r.enc, <<>>) = <<>>
        BY <2>7, <2>8, HeldSeq, CodedJoin
      <4>4. <<>> \o Held(r) = Held(r) \o <<>>
        BY <4>3, SeqEmpty
      <4> QED BY <2>8, <4>1, <4>2, <4>3, <4>4 DEF Ready
    <3>2. CASE n # 0
      <4>1. s \in send_data(r, data) /\ data # NoData
        BY <1>9, <2>7, <3>2 DEF NoData
      <4>2. PassedOnAs(r, data, s)
        BY <1>2, <1>7, <1>17, <2>8, <4>1, SendDataBytes
      <4> QED BY <4>1, <4>2 DEF PassedOnAs
    <3> QED BY <3>1, <3>2
  <2>10. ~seen
    BY <1>4, <2>9
  <2>11. Held(r') = Held(s.r) /\ Ready(r') /\ r'.ret = "ok"
    BY <1>3, <1>12, <1>13, <2>8, <2>9, <2>10 DEF Held, Ready, SentOf
  <2>12. BytesOf(s.out) \o Held(r') = Held(r) \o Coded(r.enc, data)
    BY <2>9, <2>11
  <2>13. PICK w : w = s.out
    OBVIOUS
  <2>14. Going(r', out \o w, Pieces, l)
    <3>1. IsSeq(r.sent.bytes) /\ Items(w) /\ BytesOf(w) \o Held(r') = Held(r) \o Coded(r.enc, data)
      BY <1>2, <2>9, <2>12, <2>13
    <3> QED BY <1>12, <2>7, <2>8, <2>11, <3>1, GoesOn
  <2>15. pc' = "part" => l = <<>>
    BY <1>4, <2>7, <2>10
  <2> QED BY <1>4, <2>6, <2>7, <2>13, <2>14, <2>15
<1>18. ContentInv'
  BY <1>1, <1>12, <1>16, <1>17 DEF ContentInv
<1> QED BY <1>1, <1>2, <1>14, <1>15, <1>18 DEF AnnouncedInv

\* The end of several ranges, and of the encoder.
LEMMA SendDoneAnnounces ==
  ASSUME ResponseInv, ResponseInv', AnnouncedInv, SendDone
  PROVE  AnnouncedInv'
<1> DEFINE t == r.sent.bytes
           buffer == BufferAppend(r.buffer, <<<<"close">>>>)
           x == IF Len(r.ranges) > 1 THEN [r EXCEPT !.buffer = buffer] ELSE r
<1>1. UNCHANGED <<opts, body, broken>> /\ pc = "part" /\ r.parts = <<>> /\ Sent
  BY DEF SendDone, Sent
<1>2. /\ SentOf(r) /\ Decided(r) /\ r.sent = body /\ r.asked = opts.request /\ ~r.done
      /\ OptsOk(opts) /\ IsSend(r) /\ IsSeq(t) /\ ResponseTypes /\ result = "none"
  BY <1>1 DEF AnnouncedInv, SentInv, SentOf, ResponseInv
<1>3. \/ pc' = "idle" /\ result' = "false"
      \/ /\ pc' = "finish" /\ result' = result
         /\ \E s \in send_data(x, NoData) : ctx' = s.c /\ out' = out \o s.out /\ r' = s.r
  BY DEF SendDone, Return
<1>4. CASE pc' = "idle" /\ result' = "false"
  BY <1>1, <1>2, <1>4, FailKeeps
<1>5. CASE /\ pc' = "finish" /\ result' = result
           /\ \E s \in send_data(x, NoData) : ctx' = s.c /\ out' = out \o s.out /\ r' = s.r
  <2>1. PICK s \in send_data(x, NoData) : ctx' = s.c /\ out' = out \o s.out /\ r' = s.r
    BY <1>5
  <2>2. Sent'
    BY <1>5 DEF Sent
  <2>3. IsSend(r')
    BY <1>5 DEF ResponseInv, ResponseTypes
  <2>4. IsSeq(<<<<"close">>>>) /\ IsSeq(<<>>)
    BY SeqOne
  <2>5. IsBuffer(buffer)
    BY <1>2, <2>4, AppendTypes, SeqLen DEF IsSend
  <2> HIDE DEF buffer
  <2>6. /\ x.range = r.range /\ x.ranges = r.ranges /\ x.done = r.done /\ x.enc = r.enc
        /\ x.length = r.length /\ x.asked = r.asked /\ x.sent = r.sent /\ x.former = r.former
        /\ x.pend = r.pend /\ x.buffer = IF Len(r.ranges) > 1 THEN buffer ELSE r.buffer
    BY <1>2 DEF IsSend
  <2>7. IsSend(x)
    <3>1. ASSUME NEW u, u = [r EXCEPT !.buffer = buffer] PROVE IsSend(u)
      BY <1>2, <2>5, <3>1 DEF IsSend
    <3> QED BY <1>2, <3>1
  <2> HIDE DEF x
  <2>8. IsSeq(NoData)
    BY <2>4 DEF NoData
  <2>9. /\ r'.range = r.range /\ r'.ranges = r.ranges /\ r'.done = r.done /\ r'.enc = r.enc
        /\ r'.length = r.length /\ r'.asked = r.asked /\ r'.sent = r.sent /\ r'.former = r.former
        /\ r.enc = "none" => r'.pend = <<>>
    BY <2>1, <2>6, <2>7, SendDataFields
  <2>10. ctx'.status = ctx.status
    <3>1. Written(ctx, s.c, s.out)
      BY <1>2, <2>7, <2>8, SendData
    <3> QED BY <2>1, <3>1 DEF Written
  <2>11. SentOf(r') /\ Decided(r')
    BY <1>2, <2>3, <2>9 DEF SentOf, Decided
  <2>12. SentInv'
    BY <1>1, <1>2, <1>5, <2>9, <2>11 DEF SentInv
  <2>13. StatusInv'
    BY <1>1, <1>5, <2>9, <2>10 DEF AnnouncedInv, StatusInv, Announced
  <2>14. Pieces' = Pieces
    BY <2>9, PiecesSame
  <2>15. ASSUME ~broken, Checked(r') PROVE Carried(r', out', Pieces)
    <3>1. Going(r, out, Pieces, <<>>)
      <4>1. Checked(r)
        BY <2>9, <2>15 DEF Checked
      <4> QED BY <1>1, <2>15, <4>1 DEF AnnouncedInv, ContentInv
    <3>2. /\ Ready(r) /\ Items(out)
          /\ BytesOf(out) \o (Held(r) \o Coded(r.enc, <<>> \o PartsText(t, <<>>)))
               = Coded(r.enc, PartsText(t, Pieces))
      BY <1>1, <3>1 DEF Going
    <3>3. <<>> \o PartsText(t, <<>>) = <<>>
      BY <2>4, NoParts, SeqEmpty
    <3>4. GoodBuffer(r.buffer) /\ IsSeq(Held(r)) /\ IsSeq(BytesOf(out))
      BY <3>2, HeldSeq, BytesJoin DEF Ready
    <3>5. Held(x) = Held(r) \o Closing(r) /\ GoodBuffer(x.buffer) /\ IsSeq(Closing(r))
      <4>1. CASE Len(r.ranges) > 1
        <5>1. r.range = "ok" /\ r.enc = "none" /\ r.pend = <<>>
          <6>1. r.ranges # <<>>
            BY <4>1
          <6> QED BY <1>2, <6>1 DEF SentOf, Decided
        <5>2. PICK b, c : b = r.buffer /\ c = <<<<"close">>>>
          OBVIOUS
        <5>3. GoodBuffer(b) /\ IsSeq(c)
          BY <2>4, <3>4, <5>2
        <5>4. /\ BufferData(BufferAppend(b, c)) \o <<>> = (BufferData(b) \o <<>>) \o c
              /\ GoodBuffer(BufferAppend(b, c))
          BY <5>3, CloseHeld
        <5>5. x.buffer = BufferAppend(b, c) /\ x.pend = <<>>
          BY <2>6, <4>1, <5>1, <5>2 DEF buffer
        <5> QED BY <4>1, <5>1, <5>2, <5>3, <5>4, <5>5 DEF Held, Closing
      <4>2. CASE ~(Len(r.ranges) > 1)
        <5>1. Closing(r) = <<>> /\ Held(x) = Held(r) /\ x.buffer = r.buffer
          BY <2>6, <4>2 DEF Closing, Held
        <5>2. Held(r) \o <<>> = Held(r)
          BY <3>4, SeqEmpty
        <5> QED BY <2>4, <3>4, <5>1, <5>2
      <4> QED BY <4>1, <4>2
    <3>6. Ready(x)
      BY <1>2, <2>6, <2>7, <3>5 DEF Ready, SentOf
    <3>7. Items(s.out) /\ BytesOf(s.out) = Held(x) \o LastOf(x.enc)
      <4>1. PassedOnAs(x, NoData, s)
        BY <1>2, <2>8, <2>15, <3>6, SendDataBytes
      <4> QED BY <4>1 DEF PassedOnAs
    <3>8. Items(out \o s.out) /\ BytesOf(out \o s.out) = BytesOf(out) \o BytesOf(s.out)
      <4>1. PICK p : p = s.out
        OBVIOUS
      <4>2. Items(out \o p) /\ BytesOf(out \o p) = BytesOf(out) \o BytesOf(p)
        BY <3>2, <3>7, <4>1, BytesJoin
      <4> QED BY <4>1, <4>2
    <3>9. IsSeq(LastOf(r.enc))
      BY SeqOne DEF LastOf
    <3>10. BytesOf(out) \o ((Held(r) \o Closing(r)) \o LastOf(r.enc))
             = (BytesOf(out) \o (Held(r) \o Coded(r.enc, <<>>))) \o (Closing(r) \o LastOf(r.enc))
      <4>1. PICK o, k, c, l : o = BytesOf(out) /\ k = Held(r) /\ c = Closing(r) /\ l = LastOf(r.enc)
        OBVIOUS
      <4>2. IsSeq(o) /\ IsSeq(k) /\ IsSeq(c) /\ IsSeq(l)
        BY <3>4, <3>5, <3>9, <4>1
      <4>3. o \o ((k \o c) \o l) = (o \o k) \o (c \o l)
        <5>1. PICK y : y = c \o l
          OBVIOUS
        <5>2. IsSeq(y)
          BY <4>2, <5>1, SeqJoins
        <5>3. (k \o c) \o l = k \o y
          BY <4>2, <5>1, SeqAssocs
        <5>4. (o \o k) \o y = o \o (k \o y)
          BY <4>2, <5>2, SeqAssocs
        <5> QED BY <5>1, <5>3, <5>4
      <4>4. Coded(r.enc, <<>>) = <<>> /\ k \o <<>> = k
        BY <2>4, <4>2, CodedJoin, SeqEmpty
      <4> QED BY <4>1, <4>3, <4>4
    <3>11. BytesOf(out') = Coded(r.enc, PartsText(t, Pieces)) \o (Closing(r) \o LastOf(r.enc))
      BY <2>1, <2>6, <3>2, <3>3, <3>5, <3>7, <3>8, <3>10
    <3>12. Closing(r') = Closing(r)
      BY <2>9 DEF Closing
    <3> QED BY <1>2, <2>1, <2>9, <3>8, <3>11, <3>12 DEF Carried
  <2>16. ContentInv'
    BY <1>1, <1>5, <2>14, <2>15 DEF ContentInv
  <2> QED BY <1>1, <1>2, <2>12, <2>13, <2>16 DEF AnnouncedInv
<1> QED BY <1>3, <1>4, <1>5

LEMMA FinishBytes ==
  ASSUME NEW c, IsCtx(c), NEW q, broken \in BOOLEAN
  PROVE  LET f == stream_finish(c, q)
         IN  f.c.status = c.status /\ Items(f.out) /\ BytesOf(f.out) = <<>>
<1> DEFINE s == stream_start(c, q)
           e == IF s.c.chunked /\ ~broken THEN <<[k |-> "end"]>> ELSE <<>>
           f == stream_finish(c, q)
<1>1. IsCtx(s.c) /\ s.c.status = c.status /\ (s.out = <<>> \/ s.out = <<HeadOf(s.c)>>)
  BY StartIs DEF IsCtx
<1>2. f.c = [s.c EXCEPT !.finished = s.c.started] /\ f.out = s.out \o e
  BY DEF stream_finish
<1> HIDE DEF s, f
<1>3. f.c.status = c.status
  BY <1>1, <1>2 DEF IsCtx
<1>4. /\ Items(<<HeadOf(s.c)>>) /\ BytesOf(<<HeadOf(s.c)>>) = <<>>
      /\ Items(<<>>) /\ BytesOf(<<>>) = <<>>
  <2>1. HeadOf(s.c).k # "data"
    BY HeadNoData
  <2> QED BY <2>1, NoBytes
<1>5. Items(s.out) /\ BytesOf(s.out) = <<>>
  BY <1>1, <1>4
<1>6. Items(e) /\ BytesOf(e) = <<>>
  <2>1. Items(<<[k |-> "end"]>>) /\ BytesOf(<<[k |-> "end"]>>) = <<>>
    <3>1. [k |-> "end"].k # "data"
      OBVIOUS
    <3> QED BY <3>1, NoBytes
  <2> QED BY <1>4, <2>1
<1> HIDE DEF e
<1>7. Items(f.out) /\ BytesOf(f.out) = <<>>
  <2>1. PICK a : a = s.out
    OBVIOUS
  <2>2. Items(a \o e) /\ BytesOf(a \o e) = BytesOf(a) \o BytesOf(e)
    BY <1>5, <1>6, <2>1, BytesJoin
  <2>3. <<>> \o <<>> = <<>>
    BY SeqOne, SeqEmpty
  <2> QED BY <1>2, <1>5, <1>6, <2>1, <2>2, <2>3
<1> QED BY <1>3, <1>7 DEF f

LEMMA FinishAnnounces ==
  ASSUME ResponseInv, AnnouncedInv, Finish
  PROVE  AnnouncedInv'
<1> DEFINE f == stream_finish(ctx, opts.request)
<1>1. /\ UNCHANGED <<opts, body, r, broken>> /\ pc = "finish" /\ pc' = "idle" /\ Sent
      /\ result' \in {"true", "false"}
      /\ \/ ctx' = ctx /\ out' = out
         \/ ctx' = f.c /\ out' = out \o f.out
  BY DEF Finish, Return, Sent
<1>2. f.c.status = ctx.status /\ Items(f.out) /\ BytesOf(f.out) = <<>>
  BY FinishBytes DEF ResponseInv, ResponseTypes
<1> HIDE DEF f
<1>3. SentOf(r) /\ Decided(r) /\ OptsOk(opts)
  BY <1>1 DEF AnnouncedInv, SentInv
<1>4. SentInv'
  BY <1>1, <1>3 DEF SentInv
<1>5. ctx'.status = ctx.status
  BY <1>1, <1>2
<1>6. StatusInv'
  BY <1>1, <1>5 DEF AnnouncedInv, StatusInv
<1>7. Pieces' = Pieces
  BY <1>1, PiecesSame
<1>8. ASSUME ~broken, Checked(r) PROVE Carried(r, out', Pieces)
  <2>1. Carried(r, out, Pieces)
    BY <1>1, <1>8 DEF AnnouncedInv, ContentInv
  <2>2. Items(out) /\ IsSeq(BytesOf(out))
    BY <2>1, BytesJoin DEF Carried
  <2>3. CASE out' = out
    BY <2>1, <2>3
  <2>4. CASE out' = out \o f.out
    <3>1. PICK p : p = f.out
      OBVIOUS
    <3>2. Items(out \o p) /\ BytesOf(out \o p) = BytesOf(out) \o BytesOf(p)
      BY <1>2, <2>2, <3>1, BytesJoin
    <3>3. BytesOf(out) \o <<>> = BytesOf(out)
      BY <2>2, SeqEmpty
    <3> QED BY <1>2, <2>1, <2>4, <3>1, <3>2, <3>3 DEF Carried
  <2> QED BY <1>1, <2>3, <2>4
<1>9. ContentInv'
  BY <1>1, <1>7, <1>8 DEF ContentInv
<1> QED BY <1>1, <1>3, <1>4, <1>6, <1>9 DEF AnnouncedInv

LEMMA StepAnnounces ==
  ASSUME RangesSpelled, ResponseInv, ResponseInv', AnnouncedInv, [Next]_vars
  PROVE  AnnouncedInv'
<1>1. CASE \/ Set \/ isCachedByEtag \/ isCachedByLastModified \/ \E clean \in BOOLEAN : invoke(clean)
  BY <1>1, CallsAnnounce
<1>2. CASE \E kind \in {"sapi", "stream"} : send(kind)
  BY <1>2, SendAnnounces
<1>3. CASE PeerGone
  BY <1>3, GoneAnnounces
<1>4. CASE CheckRanges
  BY <1>4, CheckRangesAnnounces
<1>5. CASE SendHead
  BY <1>5, SendHeadAnnounces
<1>6. CASE SendBody
  BY <1>6, SendBodyAnnounces
<1>7. CASE NextPart
  BY <1>7, NextPartAnnounces
<1>8. CASE ReadBody
  BY <1>8, ReadBodyAnnounces
<1>9. CASE SendDone
  BY <1>9, SendDoneAnnounces
<1>10. CASE Finish
  BY <1>10, FinishAnnounces
<1>11. CASE UNCHANGED vars
  BY <1>11, StutterKeeps
<1> QED BY <1>1, <1>2, <1>3, <1>4, <1>5, <1>6, <1>7, <1>8, <1>9, <1>10, <1>11 DEF Next

-----------------------------------------------------------------------------
(* What went out is what the status announces.                             *)

\* The ranges that are served are those that were asked for.
LEMMA AskedServed ==
  ASSUME SentOf(r), Decided(r), Checked(r), r.range = "ok", ~r.done
  PROVE  r.ranges = Asked /\ Len(r.ranges) \in Nat /\ r.ranges # <<>>
<1> DEFINE specs == r.asked.specs
           n == Len(specs)
           length == r.length
<1>1. /\ Asks(r.asked) /\ length \in Nat /\ r.ranges \in Seq(Int \X Int)
      /\ get_request_ranges(r.asked, length).status = "ok"
      /\ r.ranges = get_request_ranges(r.asked, length).ranges
  BY DEF SentOf, IsSend, Decided
<1>2. specs # <<>> /\ r.ranges = AllServed(specs, n, length)
  BY <1>1, RangesRead
<1>3. specs \in Seq(SpecSet) /\ n \in Nat /\ DOMAIN specs = 1 .. n
  <2>1. specs \in Seq(SpecSet)
    BY <1>1 DEF Asks
  <2> QED BY <2>1, LenProperties
<1>4. n # 0
  BY <1>2, <1>3, EmptySeq
<1> HIDE DEF specs, n, length
<1>5. r.ranges = [i \in 1 .. n |-> Served(specs[i], length)]
  BY <1>2 DEF AllServed
<1>6. DOMAIN r.ranges = 1 .. n /\ \A i \in 1 .. n : r.ranges[i] = Served(specs[i], length)
  BY <1>5
<1>7. /\ DOMAIN r.ranges = 1 .. Len(r.ranges) /\ Len(r.ranges) \in Nat
      /\ \A i \in 1 .. Len(r.ranges) : r.ranges[i] \in Int \X Int
  <2> DEFINE P == Int \X Int
  <2>1. r.ranges \in Seq(P)
    BY <1>1
  <2> HIDE DEF P
  <2>2. \A i \in 1 .. Len(r.ranges) : r.ranges[i] \in P
    BY <2>1
  <2> QED BY <2>1, <2>2 DEF P
<1>8. ASSUME NEW i \in 1 .. n
      PROVE  r.ranges[i] = <<FirstAsked(specs[i], length), LastAsked(specs[i], length)>>
  <2>1. i \in 1 .. Len(r.ranges)
    BY <1>6, <1>7
  <2>2. r.ranges[i] \in Int \X Int
    BY <1>7, <2>1
  <2>3. PICK b \in Int, e \in Int : r.ranges[i] = <<b, e>>
    BY <2>2
  <2>4. 0 <= b /\ b <= e /\ e < length
    <3>1. r.ranges[i][1] = b /\ r.ranges[i][2] = e
      BY <2>3
    <3> QED BY <1>6, <3>1 DEF Checked, length
  <2>5. specs[i] \in SpecSet
    BY <1>3
  <2>6. Served(specs[i], length) = <<b, e>>
    BY <1>6, <2>3
  <2>7. b = FirstAsked(specs[i], length) /\ e = LastAsked(specs[i], length)
    BY <1>1, <2>4, <2>5, <2>6, ServedAsAsked
  <2> QED BY <2>3, <2>7
<1>9. Asked = [i \in 1 .. n |-> <<FirstAsked(specs[i], length), LastAsked(specs[i], length)>>]
  BY <1>3 DEF Asked, specs, length
<1>10. r.ranges = Asked
  <2>1. r.ranges = [i \in 1 .. n |-> r.ranges[i]]
    BY <1>5
  <2> QED BY <1>8, <1>9, <2>1
<1>11. r.ranges # <<>>
  <2>1. 1 \in DOMAIN r.ranges
    BY <1>3, <1>4, <1>6
  <2> QED BY <2>1
<1> QED BY <1>7, <1>10, <1>11

\* The text of one range,
LEMMA RangeText ==
  ASSUME NEW t, IsSeq(t), NEW x \in Int \X Int, 0 <= x[1], x[1] <= x[2], x[2] < Len(t)
  PROVE  Upto(t, Piece(x).begin, Piece(x).forlen) = SubSeq(t, x[1] + 1, x[2] + 1)
<1>1. PICK b \in Int, e \in Int : b = x[1] /\ e = x[2]
  OBVIOUS
<1>2. Piece(x).begin = b /\ Piece(x).forlen = e - b + 1
  BY <1>1 DEF Piece
<1>3. ~(e - b + 1 <= 0) /\ b + (e - b + 1) = e + 1
  BY <1>1
<1>4. Upto(t, b, e - b + 1) = SubSeq(t, b + 1, e + 1)
  BY <1>3 DEF Upto
<1> QED BY <1>1, <1>2, <1>4

\* and of all of them, with what ends several.
LEMMA PartialText ==
  ASSUME SentOf(r), Checked(r), r.range = "ok", r.ranges = Asked, r.ranges # <<>>, Len(r.ranges) \in Nat
  PROVE  PartsText(r.sent.bytes, Pieces) \o Closing(r) = Partial
<1> DEFINE t == r.sent.bytes
           a == r.ranges
           n == Len(a)
           text(i) == SubSeq(t, a[i][1] + 1, a[i][2] + 1)
<1>1. IsSeq(t) /\ a \in Seq(Int \X Int) /\ DOMAIN a = 1 .. n /\ n \in Nat /\ n # 0 /\ r.length = Len(t)
  BY EmptySeq DEF SentOf, IsSend
<1>2. Pieces = [i \in DOMAIN a |-> Piece(a[i])]
  BY DEF Pieces
<1>3. ASSUME NEW i \in 1 .. n PROVE Upto(t, Piece(a[i]).begin, Piece(a[i]).forlen) = text(i)
  <2>1. a[i] \in Int \X Int
    BY <1>1
  <2>2. 0 <= a[i][1] /\ a[i][1] <= a[i][2] /\ a[i][2] < Len(t)
    BY <1>1 DEF Checked
  <2> HIDE DEF a, t
  <2> QED BY <1>1, <2>1, <2>2, RangeText
<1>4. Fit(t, Pieces)
  BY PiecesFit
<1> HIDE DEF t
<1>5. /\ DOMAIN Pieces = 1 .. n
      /\ \A i \in 1 .. n : Pieces[i] = Piece(a[i])
  BY <1>1, <1>2
<1>6. ASSUME NEW i \in 1 .. n
      PROVE  PartText(t, Pieces[i]) = (IF n > 1 THEN <<<<"part", a[i][1], a[i][2]>>>> ELSE <<>>) \o text(i)
  <2>1. Piece(a[i]).header = IF n > 1 THEN <<<<"part", a[i][1], a[i][2]>>>> ELSE <<>>
    BY DEF Piece
  <2> QED BY <1>3, <1>5, <2>1 DEF PartText
<1>7. PartTexts(t, Pieces) = [i \in 1 .. n |-> PartText(t, Pieces[i])]
  BY <1>5 DEF PartTexts
<1>8. Partial = IF n = 1 THEN text(1)
                ELSE FlattenSeq([i \in 1 .. n |-> <<<<"part", a[i][1], a[i][2]>>>> \o text(i)])
                     \o <<<<"close">>>>
  BY <1>1 DEF Partial, Slice, t
<1>9. IsSeq(PartsText(t, Pieces)) /\ Len(Pieces) = n
  <2>1. Len(Pieces) = n
    BY <1>1, <1>4, <1>5, SeqLen DEF Fit
  <2> QED BY <1>1, <1>4, <2>1, PartTextsAre
<1>10. CASE n = 1
  <2>1. Closing(r) = <<>>
    BY <1>10 DEF Closing
  <2>2. PartTexts(t, Pieces) = <<PartText(t, Pieces[1])>>
    BY <1>7, <1>10
  <2>3. IsSeq(text(1))
    <3>1. PICK b \in Int, e \in Int : b = a[1][1] /\ e = a[1][2] /\ 0 <= b /\ e < Len(t)
      <4>1. a[1] \in Int \X Int /\ 1 \in DOMAIN a
        BY <1>1, <1>10
      <4> QED BY <1>1, <4>1 DEF Checked
    <3>2. IsSeq(SubSeq(t, b + 1, e + 1))
      <4>1. b + 1 \in Int /\ e + 1 \in Int /\ b + 1 >= 1 /\ e + 1 <= Len(t)
        BY <1>1, <3>1, SeqLen
      <4> QED BY <1>1, <4>1, SeqCut
    <3> QED BY <3>1, <3>2
  <2>4. PartText(t, Pieces[1]) = text(1)
    <3>1. PartText(t, Pieces[1]) = <<>> \o text(1)
      BY <1>6, <1>10
    <3> HIDE DEF text
    <3> QED BY <2>3, <3>1, SeqEmpty
  <2> HIDE DEF text
  <2>5. PartsText(t, Pieces) = text(1)
    BY <2>2, <2>3, <2>4, FlattenOne DEF PartsText
  <2> QED BY <1>8, <1>9, <1>10, <2>1, <2>5, SeqEmpty DEF t
<1>11. CASE n # 1
  <2>1. Closing(r) = <<<<"close">>>> /\ n > 1
    BY <1>1, <1>11 DEF Closing
  <2>2. PartTexts(t, Pieces) = [i \in 1 .. n |-> <<<<"part", a[i][1], a[i][2]>>>> \o text(i)]
    BY <1>6, <1>7, <2>1
  <2> QED BY <1>8, <1>11, <2>1, <2>2 DEF PartsText, t
<1> QED BY <1>10, <1>11

\* The whole body.
LEMMA WholeText ==
  ASSUME SentOf(r), r.range # "ok"
  PROVE  Coded(r.enc, PartsText(r.sent.bytes, Pieces)) \o (Closing(r) \o LastOf(r.enc)) = Whole
<1> DEFINE t == r.sent.bytes
           p == [begin |-> 0, forlen |-> 0, header |-> <<>>]
<1>1. IsSeq(t) /\ r.ranges = <<>>
  BY DEF SentOf
<1>2. Pieces = <<p>>
  BY DEF Pieces
<1>3. Closing(r) = <<>>
  <2>1. Len(<<>>) = 0
    OBVIOUS
  <2>2. ~(Len(r.ranges) > 1)
    BY <1>1, <2>1
  <2> QED BY <2>2 DEF Closing
<1>4. PartText(t, p) = t
  <2>1. p.header = <<>> /\ p.begin = 0 /\ p.forlen = 0
    OBVIOUS
  <2> HIDE DEF p, t
  <2>2. Upto(t, 0, 0) = SubSeq(t, 1, Len(t))
    BY DEF Upto
  <2>3. Upto(t, 0, 0) = t
    BY <1>1, <2>2, SeqAll
  <2> QED BY <1>1, <2>1, <2>3, SeqEmpty DEF PartText
<1> HIDE DEF p, t
<1>5. PartTexts(t, <<p>>) = <<PartText(t, p)>>
  BY DEF PartTexts
<1>6. PartsText(t, Pieces) = t
  BY <1>1, <1>2, <1>4, <1>5, FlattenOne DEF PartsText
<1>7. CASE r.enc = "none"
  <2>1. LastOf(r.enc) = <<>> /\ Coded(r.enc, t) = t /\ Whole = t
    BY <1>7 DEF LastOf, Coded, Whole, t
  <2> QED BY <1>1, <1>3, <1>6, <2>1, SeqEmpty DEF t
<1>8. CASE r.enc # "none"
  <2> DEFINE z == <<<<"z-end">>>>
  <2>1. LastOf(r.enc) = z /\ Coded(r.enc, t) = Encoded(t) /\ Whole = Encoded(t) \o z /\ IsSeq(z)
    BY <1>8, SeqOne DEF LastOf, Coded, Whole, t
  <2> HIDE DEF z
  <2>2. <<>> \o z = z
    BY <2>1, SeqEmpty
  <2> QED BY <1>3, <1>6, <2>1, <2>2 DEF t
<1> QED BY <1>7, <1>8

\* The invariant says what the property asks for.
LEMMA AnnouncedIs == AnnouncedInv => BodyAsAnnounced
<1> SUFFICES ASSUME AnnouncedInv, result = "true", ~broken, RangesInBody, r.former = 200
             PROVE  Bytes = CASE ctx.status = 206 -> Partial
                              [] ctx.status \in {304, 412, 416} -> <<>>
                              [] OTHER -> Whole
  BY DEF BodyAsAnnounced
<1>1. pc = "idle" /\ Sent
  BY DEF AnnouncedInv, SentInv, Sent
<1>2. SentOf(r) /\ Decided(r)
  BY <1>1 DEF AnnouncedInv, SentInv
<1>3. r # <<>>
  <2>1. DOMAIN r # {}
    BY <1>2 DEF SentOf, IsSend
  <2> QED BY <2>1
<1>4. Checked(r)
  BY <1>3 DEF RangesInBody, Checked
<1>5. Announced(ctx.status, r)
  BY <1>1 DEF AnnouncedInv, StatusInv
<1>6. Carried(r, out, Pieces)
  BY <1>1, <1>4 DEF AnnouncedInv, ContentInv
<1> DEFINE t == r.sent.bytes
           all == Coded(r.enc, PartsText(t, Pieces)) \o (Closing(r) \o LastOf(r.enc))
<1>7. Bytes = IF r.done THEN <<>> ELSE all
  BY <1>6 DEF Carried, Bytes
<1>8. CASE r.done
  <2>1. ctx.status \in {304, 412, 416} /\ ctx.status # 206
    BY <1>5, <1>8 DEF Announced
  <2>2. Bytes = <<>>
    BY <1>7, <1>8
  <2> QED BY <2>1, <2>2
<1>9. CASE ~r.done /\ r.range # "ok"
  <2>1. ctx.status # 206 /\ ctx.status \notin {304, 412, 416}
    BY <1>5, <1>9 DEF Announced, OwnCodes
  <2>2. Bytes = Whole
    BY <1>2, <1>7, <1>9, WholeText
  <2> QED BY <2>1, <2>2
<1>10. CASE ~r.done /\ r.range = "ok"
  <2>1. ctx.status = 206
    BY <1>5, <1>10 DEF Announced
  <2>2. r.enc = "none"
    BY <1>2, <1>10 DEF Decided
  <2>3. r.ranges = Asked /\ r.ranges # <<>> /\ Len(r.ranges) \in Nat
    BY <1>2, <1>4, <1>10, AskedServed
  <2>4. PartsText(t, Pieces) \o Closing(r) = Partial
    BY <1>2, <1>4, <1>10, <2>3, PartialText
  <2>5. IsSeq(Closing(r))
    BY SeqOne DEF Closing
  <2>6. all = PartsText(t, Pieces) \o (Closing(r) \o <<>>)
    BY <2>2 DEF Coded, LastOf
  <2>7. all = Partial
    BY <2>4, <2>5, <2>6, SeqEmpty
  <2> HIDE DEF all
  <2>8. Bytes = Partial
    BY <1>7, <1>10, <2>7
  <2> QED BY <2>1, <2>8
<1> QED BY <1>8, <1>9, <1>10

\* php_http_env_response_send(): a response that went out completely carries the
\* bytes its status announces, whatever the requests, the options of the response,
\* the bodies, the sizes of the buffers and the calls of the script.  The requests
\* are made of the ranges they ask for, and no script sets a status that the
\* response itself gives a meaning to.
THEOREM BodyAlwaysAnnounced ==
  ASSUME RangesSpelled, OwnStatus
  PROVE  Spec => []BodyAsAnnounced
<1>1. Init => ResponseInv /\ AnnouncedInv
  BY InitInv, InitAnnounces
<1>2. ResponseInv /\ AnnouncedInv /\ [Next]_vars => (ResponseInv /\ AnnouncedInv)'
  <2> SUFFICES ASSUME ResponseInv, AnnouncedInv, [Next]_vars PROVE ResponseInv' /\ AnnouncedInv'
    OBVIOUS
  <2>1. ResponseInv'
    BY StepKeeps
  <2> QED BY <2>1, StepAnnounces
<1>3. AnnouncedInv => BodyAsAnnounced
  BY AnnouncedIs
<1> QED BY <1>1, <1>2, <1>3, PTL DEF Spec
============================================================================
