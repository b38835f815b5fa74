------------------------------- MODULE Dechunk -------------------------------
(***************************************************************************)
(* The decoder of chunked transfer encoding behind                         *)
(* http\Encoding\Stream\Dechunk, which the message parser uses too.  It    *)
(* keeps what it cannot decode yet in a buffer; one round of the loop in   *)
(* dechunk_update is one step.                                             *)
(***************************************************************************)
EXTENDS Integers, Sequences

CONSTANTS
  Input,      \* pieces of input, sequences over Char
  Base,       \* base of chunk sizes: 16 in the code
  ULONG_MAX,  \* the largest unsigned long, at which strtoul() saturates
  MaxFed      \* bound: characters fed

Digit == {"0", "1"}
Eol == {"CR", "LF"}
Blank == Eol \cup {" "}
Char == Digit \cup Blank \cup {"-", "x"}

ASSUME DechunkAssumption ==
  /\ Base \in Nat \ {0}
  /\ ULONG_MAX \in Nat
  /\ MaxFed \in Nat
  /\ Input \subseteq Seq(Char)

VARIABLES
  buffer,      \* ctx->buffer
  hexlen,      \* ctx->hexlen: what is left of the current chunk
  zeroed,      \* ctx->zeroed: the last chunk has been seen
  flush_full,  \* s->flags & PHP_HTTP_ENCODING_STREAM_FLUSH_FULL
  running,     \* inside dechunk_update
  tmp,         \* data decoded by this call
  out,         \* data returned by all calls
  rc,          \* what the last call returned
  fed          \* characters fed

ctx == <<buffer, hexlen, zeroed>>
stream == <<ctx, flush_full, running, tmp, out, rc>>
vars == <<stream, fed>>
-----------------------------------------------------------------------------
Cut(s, n) == SubSeq(s, n + 1, Len(s))

\* n line end characters begin s, and no more.
EolsAt(s, n) ==
  /\ \A i \in 1 .. n : s[i] \in Eol
  /\ n < Len(s) => s[n + 1] \notin Eol

\* php_http_locate_bin_eol: the first line end of s is at i.
EolAt(s, i) ==
  /\ s[i] \in Eol
  /\ \A j \in 1 .. i - 1 : s[j] \notin Eol
EolLen(s, i) == IF s[i] = "CR" /\ i < Len(s) /\ s[i + 1] = "LF" THEN 2 ELSE 1

\* strtoul(s, &stop, 16): blanks, line ends among them, a sign, and digits up to
\* the first other character.  There is no number without a digit.
Digits(s, a, b) ==
  /\ \A i \in a .. b : s[i] \in Digit
  /\ b < Len(s) => s[b + 1] \notin Digit
ValueOf(s, a, b) ==
  LET value[k \in a - 1 .. b] ==
        IF k < a THEN 0 ELSE Base * value[k - 1] + (IF s[k] = "1" THEN 1 ELSE 0)
  IN  value[b]
Strtoul(s, n) ==
  \E a \in DOMAIN s :
    /\ s[a] \in Digit
    /\ \A i \in 1 .. a - 1 : s[i] \in Blank \/ (s[i] = "-" /\ i = a - 1)
    /\ \E b \in a .. Len(s) :
         LET v == ValueOf(s, a, b)
             minus == a > 1 /\ s[a - 1] = "-"
         IN  /\ Digits(s, a, b)
             /\ n = IF v > ULONG_MAX THEN ULONG_MAX
                    ELSE IF minus THEN (ULONG_MAX + 1 - v) % (ULONG_MAX + 1) ELSE v
-----------------------------------------------------------------------------
\* dechunk_update; it refuses to go on behind the last chunk.
Update(data) ==
  /\ ~running
  /\ IF zeroed
     THEN rc' = "FAILURE" /\ UNCHANGED <<running, buffer>>
     ELSE running' = TRUE /\ buffer' = buffer \o data /\ UNCHANGED rc
  /\ tmp' = <<>>
  /\ UNCHANGED <<hexlen, zeroed, flush_full, out>>

Round == running /\ buffer # <<>>

\* A call that fails drops what it has decoded.
Return(result) ==
  /\ running' = FALSE
  /\ rc' = result
  /\ out' = IF result = "SUCCESS" THEN out \o tmp ELSE out
  /\ tmp' = <<>>
  /\ UNCHANGED flush_full

Continue == UNCHANGED <<running, rc, out, flush_full>>

BufferEmpty ==
  /\ running
  /\ buffer = <<>>
  /\ Return("SUCCESS")
  /\ UNCHANGED ctx

ChunkIncompleteOrFull ==
  /\ Round
  /\ hexlen # 0
  /\ Len(buffer) <= hexlen
  /\ ~flush_full
  /\ Return("SUCCESS")
  /\ UNCHANGED ctx

\* The chunk is not complete: its data waits, or is flushed anyway.
ChunkIncomplete ==
  /\ Round
  /\ Len(buffer) < hexlen
  /\ ~flush_full
  /\ Return("SUCCESS")
  /\ UNCHANGED ctx

ChunkFlush ==
  /\ Round
  /\ Len(buffer) < hexlen
  /\ flush_full
  /\ tmp' = tmp \o buffer
  /\ hexlen' = hexlen - Len(buffer)
  /\ buffer' = <<>>
  /\ Continue
  /\ UNCHANGED zeroed

ChunkComplete ==
  /\ Round
  /\ hexlen # 0
  /\ hexlen <= Len(buffer)
  /\ tmp' = tmp \o SubSeq(buffer, 1, hexlen)
  /\ buffer' = Cut(buffer, hexlen)
  /\ hexlen' = 0
  /\ Continue
  /\ UNCHANGED zeroed

\* No chunk size is known: line ends before one are ignored ...
SkipEols(n) ==
  /\ Round
  /\ hexlen = 0
  /\ n = Len(buffer)
  /\ EolsAt(buffer, n)
  /\ buffer' = <<>>
  /\ Continue
  /\ UNCHANGED <<tmp, hexlen, zeroed>>

SizeIncompleteSpins(n) ==
  /\ Round
  /\ hexlen = 0
  /\ EolsAt(buffer, n) /\ n < Len(buffer)
  /\ \A i \in n + 1 .. Len(buffer) : buffer[i] \notin Eol
  /\ buffer' = Cut(buffer, n)
  /\ Continue
  /\ UNCHANGED <<tmp, hexlen, zeroed>>

\* ... and its line must be complete ...
SizeIncomplete(n) ==
  /\ Round
  /\ hexlen = 0
  /\ EolsAt(buffer, n) /\ n < Len(buffer)
  /\ \A i \in n + 1 .. Len(buffer) : buffer[i] \notin Eol
  /\ buffer' = Cut(buffer, n)
  /\ Return("SUCCESS")
  /\ UNCHANGED <<hexlen, zeroed>>

\* ... and begin with a number.
SizeInvalid(n) ==
  /\ Round
  /\ hexlen = 0
  /\ EolsAt(buffer, n) /\ n < Len(buffer)
  /\ \E i \in n + 1 .. Len(buffer) : buffer[i] \in Eol
  /\ \A size \in 0 .. ULONG_MAX : ~Strtoul(Cut(buffer, n), size)
  /\ buffer' = Cut(buffer, n)
  /\ Return("FAILURE")
  /\ UNCHANGED <<hexlen, zeroed>>

\* What is left when the size line has been cut off: behind that of the last
\* chunk line ends are cut too.
LeftDropped(size, rest, left) == left = IF size # 0 THEN rest ELSE <<>>
Left(size, rest, left) ==
  IF size # 0 THEN left = rest
  ELSE \E k \in 0 .. Len(rest) : EolsAt(rest, k) /\ left = Cut(rest, k)

WaitFor(size) == hexlen' = size

SizeReadUncut(n, size) ==
  /\ Round
  /\ hexlen = 0
  /\ EolsAt(buffer, n) /\ n < Len(buffer)
  /\ \E i \in n + 1 .. Len(buffer) :
       /\ EolAt(Cut(buffer, n), i - n)
       /\ Strtoul(Cut(buffer, n), size)
       /\ IF size # 0 THEN buffer' = Cut(buffer, i - 1 + EolLen(buffer, i)) ELSE UNCHANGED buffer
  /\ WaitFor(size)
  /\ IF size # 0 THEN Continue /\ UNCHANGED <<tmp, zeroed>>
     ELSE Return("SUCCESS") /\ zeroed' = TRUE

SizeRead(n, size) ==
  /\ Round
  /\ hexlen = 0
  /\ EolsAt(buffer, n) /\ n < Len(buffer)
  /\ \E i \in n + 1 .. Len(buffer) :
       /\ EolAt(Cut(buffer, n), i - n)
       /\ Strtoul(Cut(buffer, n), size)
       /\ Left(size, Cut(buffer, i - 1 + EolLen(buffer, i)), buffer')
  /\ WaitFor(size)
  /\ IF size # 0 THEN Continue /\ UNCHANGED <<tmp, zeroed>>
     ELSE Return("SUCCESS") /\ zeroed' = TRUE
-----------------------------------------------------------------------------
FlushKeeps ==
  /\ ~running
  /\ hexlen # 0
  /\ out' = out \o buffer
  /\ buffer' = <<>>
  /\ UNCHANGED <<hexlen, zeroed, flush_full, running, tmp, rc>>

\* dechunk_flush: what is there of an incomplete chunk.
Flush ==
  /\ ~running
  /\ hexlen # 0
  /\ out' = out \o buffer
  /\ hexlen' = hexlen - Len(buffer)
  /\ buffer' = <<>>
  /\ UNCHANGED <<zeroed, flush_full, running, tmp, rc>>

\* HttpEncodingStream::finish: no finish operation, and a reset.
Finish ==
  /\ ~running
  /\ buffer' = <<>>
  /\ hexlen' = 0
  /\ zeroed' = FALSE
  /\ UNCHANGED <<flush_full, running, tmp, out, rc>>

Loop ==
  \/ BufferEmpty \/ ChunkIncomplete \/ ChunkFlush \/ ChunkComplete
  \/ \E n \in 0 .. Len(buffer) :
       \/ SkipEols(n) \/ SizeIncomplete(n) \/ SizeInvalid(n)
       \/ \E size \in 0 .. ULONG_MAX : SizeRead(n, size)

StreamInit ==
  /\ buffer = <<>>
  /\ hexlen = 0
  /\ zeroed = FALSE
  /\ flush_full \in BOOLEAN
  /\ running = FALSE
  /\ tmp = <<>>
  /\ out = <<>>
  /\ rc = "SUCCESS"

Init == StreamInit /\ fed = 0

Feed(data) ==
  /\ fed + Len(data) <= MaxFed
  /\ Update(data)
  /\ fed' = fed + Len(data)

Next ==
  \/ \E data \in Input : Feed(data)
  \/ (Loop \/ Flush \/ Finish) /\ UNCHANGED fed

Spec == Init /\ [][Next]_vars

FairSpec == Spec /\ WF_vars(Loop /\ UNCHANGED fed)
-----------------------------------------------------------------------------
TypeOK ==
  /\ buffer \in Seq(Char)
  /\ hexlen \in 0 .. ULONG_MAX
  /\ zeroed \in BOOLEAN
  /\ flush_full \in BOOLEAN
  /\ running \in BOOLEAN
  /\ tmp \in Seq(Char)
  /\ out \in Seq(Char)
  /\ rc \in {"SUCCESS", "FAILURE"}
  /\ fed \in 0 .. MaxFed

\* Between two calls the decoder holds less than the chunk it waits for, so
\* dechunk_flush never subtracts more from hexlen than it holds, whatever the
\* input: the unsigned counter would wrap and everything behind would be data.
HexlenCovers == ~running /\ hexlen # 0 => Len(buffer) < hexlen

\* dechunk_update returns on any input.
UpdateReturns == running ~> ~running
=============================================================================
