--------------------------- MODULE ChunkedTransfer ---------------------------
(***************************************************************************)
(* A transfer in chunked encoding: the stream filter http.chunked_encode   *)
(* writes buckets as chunks, the text travels in pieces of any size, and   *)
(* the Dechunk stream decodes it, flushed by its user at any time.  Or the *)
(* user feeds it anything at all: then `fed' is not 0.                     *)
(***************************************************************************)
EXTENDS Dechunk, SequencesExt

CONSTANTS
  Bucket,       \* contents of buckets, non-empty sequences over Char
  Following,    \* what follows the transfer in the input, with no line end first
  CutAnywhere,  \* FALSE: no piece ends inside the CRLF of a size line
  MaxSent       \* bound: characters encoded

ASSUME ChunkedTransferAssumption ==
  /\ Bucket \subseteq Seq(Char) \ {<<>>}
  /\ \A b \in Bucket : Len(b) <= ULONG_MAX
  /\ Following \in Seq(Char)
  /\ Following # <<>> => Following[1] \notin Eol
  /\ CutAnywhere \in BOOLEAN
  /\ MaxSent \in Nat

VARIABLES
  sent,    \* what the filter was given
  closed,  \* PHP_HTTP_FILTER_IS_CLOSING: the last chunk is written
  wire     \* written and not yet received, as units that are not cut

transfer == <<vars, sent, closed, wire>>

\* "%lx"
Hex(n) ==
  LET hex[k \in 0 .. n] ==
        LET d == << <<IF k % Base = 0 THEN "0" ELSE "1">> >>
        IN  IF k < Base THEN d ELSE hex[k \div Base] \o d
  IN  hex[n]

Units(s) == [i \in DOMAIN s |-> <<s[i]>>]
Crlf == << <<"CR">>, <<"LF">> >>
SizeCrlf == IF CutAnywhere THEN Crlf ELSE << <<"CR", "LF">> >>

\* PHP_HTTP_FILTER_FUNCTION(chunked_encode): a bucket becomes a chunk.
Encode(b) ==
  /\ ~closed
  /\ fed = 0
  /\ Len(sent) + Len(b) <= MaxSent
  /\ sent' = sent \o b
  /\ wire' = wire \o Hex(Len(b)) \o SizeCrlf \o Units(b) \o Crlf
  /\ UNCHANGED <<vars, closed>>

\* The filter is closed: the last chunk, and what follows in the same input.
Close ==
  /\ ~closed
  /\ fed = 0
  /\ closed' = TRUE
  /\ wire' = wire \o Hex(0) \o SizeCrlf \o Crlf \o Units(Following)
  /\ UNCHANGED <<vars, sent>>

\* The next n units arrive; a user stops when done() says so.
Receive(n) ==
  /\ n \in DOMAIN wire
  /\ ~zeroed
  /\ Update(FlattenSeq(SubSeq(wire, 1, n)))
  /\ wire' = Cut(wire, n)
  /\ UNCHANGED <<fed, sent, closed>>

Decode == Loop /\ UNCHANGED <<fed, sent, closed, wire>>
UserFlush == Flush /\ UNCHANGED <<fed, sent, closed, wire>>

\* Any input, and an end of the stream at any time, after which the decoder may
\* be used again.
Garbage(data) ==
  /\ sent = <<>> /\ ~closed
  /\ Feed(data)
  /\ UNCHANGED <<sent, closed, wire>>
UserFinish ==
  /\ fed # 0
  /\ Finish
  /\ UNCHANGED <<fed, sent, closed, wire>>

\* The user has stopped, or there is nothing more to come.
Ended ==
  /\ closed
  /\ ~running
  /\ zeroed \/ wire = <<>>
  /\ UNCHANGED transfer

TransferInit ==
  /\ Init
  /\ sent = <<>>
  /\ closed = FALSE
  /\ wire = <<>>

TransferNext ==
  \/ \E b \in Bucket : Encode(b)
  \/ Close
  \/ \E n \in DOMAIN wire : Receive(n)
  \/ Decode
  \/ UserFlush
  \/ \E data \in Input : Garbage(data)
  \/ UserFinish
  \/ Ended

TransferSpec == TransferInit /\ [][TransferNext]_transfer

\* The decoder runs in C.
FairTransferSpec == TransferSpec /\ WF_transfer(Decode)
-----------------------------------------------------------------------------
\* What the decoder returns is, at any time and however the text was cut and the
\* stream flushed, the beginning of what was encoded ("should only be chunk
\* data", dechunk_flush), and all of it when done() is true, which it is once all
\* has arrived.
DecodedIsSent ==
  fed = 0 =>
    /\ IsPrefix(out \o tmp, sent)
    /\ rc = "SUCCESS"
    /\ zeroed => closed /\ out = sent
    /\ closed /\ wire = <<>> /\ ~running => zeroed

\* The decoder swallows line ends behind the last chunk, and nothing else: what
\* follows is left for the message parser.
FollowingKept ==
  fed = 0 /\ zeroed =>
    \E n \in 0 .. 2 :
      LET left == buffer \o FlattenSeq(wire)
      IN  Cut(left, n) = Following /\ \A i \in 1 .. n : left[i] \in Eol
=============================================================================
