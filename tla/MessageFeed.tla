----------------------------- MODULE MessageFeed -----------------------------
(***************************************************************************)
(* How messages reach the message parser: user code calls                  *)
(* http\Message\Parser::parse() with consecutive chunks, or stream() on a  *)
(* non-blocking stream into which a peer writes between calls.             *)
(***************************************************************************)
EXTENDS MessageParser

CONSTANT
  Document   \* Document[m]: records of a text, of the messages it consists of
             \* (none if it is malformed), of the flags it is parsed with, of the
             \* room in the buffer, and of the place behind which it arrives whole

Modes == {"parse", "stream", "split"}

\* "B" and "-" are for multipart bodies.
Token == Char \cup {"B", "-"}

ASSUME MessageFeedAssumption ==
  /\ DOMAIN Document \subseteq Modes
  /\ \A m \in DOMAIN Document : \A d \in Document[m] :
       d.text \in Seq(Token) /\ d.flags \subseteq Flag /\ d.room \in Nat \ {0}

VARIABLES
  mode,    \* how the text is fed
  doc,     \* the document
  wire,    \* text not sent yet
  socket,  \* text that waits in the stream
  pc,      \* place in php_http_message_parser_parse_stream, "idle" outside
  state    \* its local of that name

document == <<mode, doc>>
feed == <<document, wire, socket, pc, state>>

\* The next n characters may be sent in one piece.
Piece(n) ==
  /\ n \in 1 .. Len(wire)
  /\ n = Len(wire) \/ Len(doc.text) - Len(wire) + n <= doc.whole

FeedInit ==
  /\ ParserInit
  /\ mode \in DOMAIN Document
  /\ doc \in Document[mode]
  /\ wire = doc.text
  /\ socket = <<>>
  /\ pc = "idle"
  /\ state = "START"

\* A caller passes CLEANUP with the last piece, or alone, and it parses what an
\* earlier call has left behind a message.  It may go on after a failure.
Wanted == "CLEANUP" \in flags => buffer # <<>> /\ result # "FAILURE"
ParseChunk(n, cleanup) ==
  /\ mode = "parse"
  /\ Wanted
  /\ Piece(n) \/ (n = 0 /\ (buffer # <<>> \/ cleanup))
  /\ cleanup => n = Len(wire)
  /\ Parse(SubSeq(wire, 1, n), doc.flags \cup IF cleanup THEN {"CLEANUP"} ELSE {})
  /\ wire' = Cut(wire, n)
  /\ UNCHANGED <<document, socket, pc, state>>
-----------------------------------------------------------------------------
(* php_http_message_parser_parse_stream                                    *)

Write(n) ==
  /\ mode = "stream"
  /\ pc = "idle"
  /\ Piece(n)
  /\ socket' = socket \o SubSeq(wire, 1, n)
  /\ wire' = Cut(wire, n)
  /\ UNCHANGED <<parser, document, pc, state>>

Stream ==
  /\ mode = "stream"
  /\ pc = "idle"
  /\ Wanted
  /\ pc' = "read"
  /\ state' = "START"
  /\ UNCHANGED <<parser, document, wire, socket>>

Available(n) == n = Least(doc.room, Len(socket))
LineThere(n) ==
  \E m \in DOMAIN socket :
    /\ n = Least(doc.room, m)
    /\ socket[m] \in Line \cup {"LF"} \/ m = Len(socket)
    /\ \A i \in 1 .. m - 1 : socket[i] \notin Line \cup {"LF"}

\* php_stream_get_line
ReadLine(n) ==
  /\ pc = "read"
  /\ state \in {"START", "HEADER", "HEADER_DONE"}
  /\ LineThere(n)
  /\ Parse(SubSeq(socket, 1, n), doc.flags)
  /\ socket' = Cut(socket, n)
  /\ pc' = "parse"
  /\ UNCHANGED <<document, wire, state>>

\* php_stream_read: what there is, but no more than the body's length
ReadBody(n) ==
  /\ pc = "read"
  /\ socket # <<>>
  /\ \/ state = "BODY_DUMB" /\ Available(n)
     \/ state = "BODY_LENGTH" /\ \E m \in DOMAIN socket : Available(m) /\ n = Least(m, body_length)
  /\ Parse(SubSeq(socket, 1, n), doc.flags)
  /\ socket' = Cut(socket, n)
  /\ pc' = "parse"
  /\ UNCHANGED <<document, wire, state>>

\* Chunks are read by their size ...
ReadChunk(n) ==
  /\ pc = "read"
  /\ state = "BODY_CHUNKED"
  /\ body_length # 0
  /\ socket # <<>>
  /\ \E m \in DOMAIN socket : Available(m) /\ n = Least(m, body_length)
  /\ pc' = "chunk"
  /\ buffer' = buffer \o SubSeq(socket, 1, n)
  /\ body_length' = body_length - n
  /\ socket' = Cut(socket, n)
  /\ UNCHANGED <<stack, chain, header_failed, inflate, dechunk, locals, flags, at,
                 result, dstream, document, wire, state>>

\* ... and the size is read as a line, which is written to the beginning of the
\* buffer but counted at its end.
Overwritten(line) ==
  [i \in 1 .. Len(buffer) + Len(line) |->
     IF i \in DOMAIN line THEN line[i] ELSE IF i \in DOMAIN buffer THEN buffer[i] ELSE "x"]
ReadSize(n) ==
  /\ pc = "read"
  /\ state = "BODY_CHUNKED"
  /\ body_length = 0
  /\ LineThere(n)
  /\ pc' = "chunk"
  /\ buffer' = Overwritten(SubSeq(socket, 1, n))
  /\ LET line == Cut(buffer', Len(buffer))
     IN  \E k \in 0 .. ULONG_MAX :
           /\ body_length' = k
           /\ \/ Dechunk!Strtoul(line, k)
              \/ k = 0 /\ \A j \in 0 .. ULONG_MAX : ~Dechunk!Strtoul(line, j)
  /\ socket' = Cut(socket, n)
  /\ UNCHANGED <<stack, chain, header_failed, inflate, dechunk, locals, flags, at,
                 result, dstream, document, wire, state>>

ChunkRead ==
  /\ pc = "chunk"
  /\ Parse(<<>>, doc.flags)
  /\ pc' = "parse"
  /\ UNCHANGED <<document, wire, socket, state>>

StreamEof ==
  /\ pc = "read"
  /\ state \notin {"DONE", "FAILURE"}
  /\ socket = <<>>
  /\ wire = <<>>
  /\ Parse(<<>>, doc.flags \cup {"CLEANUP"})
  /\ pc' = "cleanup"
  /\ UNCHANGED <<document, wire, socket, state>>

\* The state returned is that of the last round, START in the first.
WouldBlock ==
  /\ pc = "read"
  /\ state \notin {"DONE", "FAILURE"}
  /\ socket = <<>>
  /\ wire # <<>>
  /\ pc' = "idle"
  /\ result' = state
  /\ UNCHANGED <<buffer, stack, body_length, chain, header_failed, inflate, dechunk,
                 locals, flags, at, dstream, document, wire, socket, state>>

\* php_http_message_parser_parse has returned.
ParseReturned ==
  /\ pc \in {"parse", "cleanup"}
  /\ at = "idle"
  /\ state' = result
  /\ pc' = IF pc = "parse" THEN "read" ELSE "idle"
  /\ UNCHANGED <<parser, document, wire, socket>>

\* stream() returns the parser's state, which is neither DONE nor a failure that
\* was not pushed.
StreamEnds ==
  /\ pc = "read"
  /\ state \in {"DONE", "FAILURE"}
  /\ pc' = "idle"
  /\ result' = Top
  /\ UNCHANGED <<buffer, stack, body_length, chain, header_failed, inflate, dechunk,
                 locals, flags, at, dstream, document, wire, socket, state>>
-----------------------------------------------------------------------------
StreamStep ==
  \/ Stream
  \/ \E n \in DOMAIN socket : ReadLine(n) \/ ReadBody(n) \/ ReadChunk(n) \/ ReadSize(n)
  \/ ChunkRead \/ StreamEof \/ WouldBlock \/ ParseReturned \/ StreamEnds

ParserStep == Step /\ UNCHANGED feed

FeedStep ==
  \/ \E n \in 0 .. Len(wire), cleanup \in BOOLEAN : ParseChunk(n, cleanup)
  \/ \E n \in 1 .. Len(wire) : Write(n)
  \/ StreamStep
  \/ ParserStep
=============================================================================
