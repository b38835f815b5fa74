----------------------------- MODULE StreamPipe -----------------------------
(***************************************************************************)
(* Messages compressed by a stream filter, cut into pieces on the way and  *)
(* decoded by one http\Encoding\Stream object that is used for message     *)
(* after message, as a script and as the message parser use it.            *)
(* Every message has an encoder of its own, of the format its sender chose.*)
(***************************************************************************)
EXTENDS EncodingStream

CONSTANTS
  Senders,      \* what is sent: sequences of [kind: "zlib", "raw" or "brotli",
                \* full: BOOLEAN (flush with every update), plain: a sequence of bytes]
  MaxBuckets    \* bound: buckets of one brigade

VARIABLES
  sent,         \* the messages, a member of Senders
  enc, dec,     \* the two streams
  msg,          \* number of the message on its way
  todo,         \* bytes of it the filter has not been given
  wire,         \* tokens written and not yet read
  got,          \* bytes decoded of it
  closed,       \* the filter has seen PSFS_FLAG_FLUSH_CLOSE
  flushed,      \* the last filter call flushed, and all it was given is out
  outcome,      \* what finish() made of the messages before
  error         \* the operation that returned FAILURE, or "none"

vars == <<sent, enc, dec, msg, todo, wire, got, closed, flushed, outcome, error>>

EncoderOf(f) ==
  LET flags == (IF f.kind = "raw" THEN {"raw"} ELSE {}) \cup (IF f.full THEN {"full"} ELSE {})
  IN  StreamInit(IF f.kind = "brotli" THEN "enbrotli" ELSE "deflate", flags)

DecoderOf(f) == StreamInit(IF f.kind = "brotli" THEN "debrotli" ELSE "inflate", {})

Init ==
  /\ sent \in Senders
  /\ enc = EncoderOf(sent[1])
  /\ dec = DecoderOf(sent[1])
  /\ msg = 1
  /\ todo = sent[1].plain
  /\ wire = <<>>
  /\ got = <<>>
  /\ closed = FALSE
  /\ flushed = FALSE
  /\ outcome = <<>>
  /\ error = "none"

-----------------------------------------------------------------------------
(* The write filter.                                                       *)

\* The ways to hand the first n bytes of seq on in buckets.
Brigades(seq) ==
  UNION {{b \in [1 .. k -> {SubSeq(seq, i, j) : i \in 1 .. Len(seq), j \in 1 .. Len(seq)}] :
            /\ \A i \in 1 .. k : b[i] # <<>>
            /\ LET all == IF k = 1 THEN b[1] ELSE b[1] \o b[2]
               IN  all = Prefix(seq, Len(all)) /\ Len(all) <= Len(seq)} :
         k \in 1 .. MaxBuckets} \cup {<<>>}

\* Each bucket is one update; a call that fails ends the filter with the output
\* so far, as PSFS_ERR_FATAL.
RECURSIVE Updates(_, _)
Updates(buckets, results) ==
  IF buckets = <<>> THEN results
  ELSE Updates(Tail(buckets),
         UNION {IF ~r.ok THEN {r}
                ELSE {[u EXCEPT !.out = r.out \o @] : u \in StreamUpdate(r.s, Head(buckets))} :
                r \in results})

Then(results, Op(_)) ==
  UNION {IF r.ok THEN {[u EXCEPT !.out = r.out \o @] : u \in Op(r.s)} ELSE {r} : r \in results}

\* http_filter_stream(): update with every bucket, then flush, then finish.
FilterStream(s, buckets, flags) ==
  LET updated == Updates(buckets, {Result(s, <<>>, TRUE)})
      synced  == IF "inc" \in flags THEN Then(updated, StreamFlush) ELSE updated
  IN  IF "close" \in flags THEN Then(synced, StreamFinish) ELSE synced

Bytes(buckets) ==
  IF buckets = <<>> THEN <<>> ELSE IF Len(buckets) = 1 THEN buckets[1] ELSE buckets[1] \o buckets[2]

\* fwrite(), fflush() and fclose() on the stream the filter is attached to.
WriteFilter(buckets, flags) ==
  /\ ~closed /\ error = "none"
  /\ flags = {} => buckets # <<>>
  /\ "close" \in flags => Bytes(buckets) = todo
  /\ \E r \in FilterStream(enc, buckets, flags) :
       /\ enc' = r.s
       /\ wire' = wire \o r.out
       /\ error' = IF r.ok THEN "none"
                   ELSE IF "inc" \in flags /\ r.s.z.flushed THEN "flush" ELSE "write"
       /\ flushed' = (/\ r.ok
                      /\ flags # {} \/ "full" \in enc.flags
                      /\ r.s.buf.used = 0 /\ r.s.z.outq = <<>>)
  /\ todo' = Drop(todo, Len(Bytes(buckets)))
  /\ closed' = ("close" \in flags)
  /\ UNCHANGED <<sent, dec, msg, got, outcome>>

-----------------------------------------------------------------------------
(* The decoding object.                                                    *)

Update(n) ==
  /\ error = "none" /\ n \in 1 .. Len(wire)
  /\ \E r \in StreamUpdate(dec, Prefix(wire, n)) :
       /\ dec' = r.s
       /\ got' = got \o r.out
       /\ error' = IF r.ok THEN "none" ELSE "read"
  /\ wire' = Drop(wire, n)
  /\ UNCHANGED <<sent, enc, msg, todo, closed, flushed, outcome>>

\* flush() has nothing to do on a decoder.
Flush ==
  /\ error = "none" /\ wire # <<>>
  /\ \E r \in StreamFlush(dec) : dec' = r.s /\ got' = got \o r.out
  /\ UNCHANGED <<sent, enc, msg, todo, wire, closed, flushed, outcome, error>>

\* One message is over, and the next comes in its own format.
NextMessage(ok, bytes) ==
  /\ outcome' = Append(outcome, [ok |-> ok, bytes |-> bytes])
  /\ msg' = msg + 1
  /\ got' = <<>>
  /\ wire' = <<>>
  /\ flushed' = FALSE
  /\ IF msg + 1 \in DOMAIN sent
     THEN /\ enc' = EncoderOf(sent[msg + 1])
          /\ todo' = sent[msg + 1].plain
          /\ closed' = FALSE
     ELSE UNCHANGED <<enc, todo, closed>>
  /\ UNCHANGED <<sent, error>>

\* finish() at the end of the message resets the stream.
Finish ==
  /\ closed /\ wire = <<>> /\ error = "none" /\ msg \in DOMAIN sent
  /\ \E r \in StreamFinish(dec) :
       /\ dec' = IF r.ok THEN StreamReset(r.s) ELSE r.s
       /\ NextMessage(r.ok, got \o r.out)

\* The static encode() instead of the filter, and decode() instead of the object.
Encode ==
  /\ ~closed /\ error = "none" /\ msg \in DOMAIN sent /\ enc = EncoderOf(sent[msg])
  /\ \E r \in EncodeAll(sent[msg].kind, todo) :
       /\ wire' = r.out
       /\ error' = IF r.ok THEN "none" ELSE "write"
  /\ closed' = TRUE
  /\ todo' = <<>>
  /\ UNCHANGED <<sent, enc, dec, msg, got, flushed, outcome>>

Decode ==
  /\ closed /\ wire # <<>> /\ error = "none" /\ msg \in DOMAIN sent /\ "dirty" \notin dec.flags
  /\ \E r \in DecodeAll(sent[msg].kind, wire) : NextMessage(r.ok, r.out)
  /\ UNCHANGED dec

\* clone of either object in mid-stream, the original being dropped.
CloneEncoder ==
  /\ error = "none" /\ ~closed /\ Copyable(enc)
  /\ enc' = StreamCopy(enc)
  /\ UNCHANGED <<sent, dec, msg, todo, wire, got, closed, flushed, outcome, error>>

CloneDecoder ==
  /\ error = "none" /\ Copyable(dec)
  /\ dec' = StreamCopy(dec)
  /\ UNCHANGED <<sent, enc, msg, todo, wire, got, closed, flushed, outcome, error>>

Next ==
  \/ \E flags \in {{}, {"inc"}, {"close"}, {"inc", "close"}}, b \in Brigades(todo) :
       WriteFilter(b, flags)
  \/ \E n \in 1 .. Len(wire) : Update(n)
  \/ Flush
  \/ Finish
  \/ Encode
  \/ Decode
  \/ CloneEncoder
  \/ CloneDecoder

Spec == Init /\ [][Next]_vars
-----------------------------------------------------------------------------
\* zlib.c, deflate_update() and inflate_update(): whatever pieces the input comes
\* in, and whatever of it zlib leaves for the next call, what was decoded so far
\* is a prefix of what was encoded.
DecodedIsPrefix ==
  msg \in DOMAIN sent => got = Prefix(sent[msg].plain, Len(got))

\* A message that was decoded to its end is the message that was encoded, also
\* when the object had decoded others before it.
FinishedIsComplete ==
  \A k \in DOMAIN outcome : outcome[k].ok /\ outcome[k].bytes = sent[k].plain

\* Once the encoder has flushed and the decoder has taken all of its input, the
\* decoder has returned everything that was written: done() does not lie.
FlushDelivers ==
  /\ flushed /\ wire = <<>> /\ error = "none" /\ msg \in DOMAIN sent /\ ~closed
  /\ Copyable(dec) => StreamDone(dec)
  => got = Prefix(sent[msg].plain, Len(sent[msg].plain) - Len(todo))

=============================================================================
