----------------------------- MODULE HeaderFeed -----------------------------
(***************************************************************************)
(* Two ways a well-formed document reaches the header parser in pieces:    *)
(* user code calls http\Header\Parser::parse() with consecutive chunks, or *)
(* http\Header\Parser::stream() on a non-blocking stream into which a peer *)
(* writes meanwhile.  Whatever the pieces, the headers should be those of  *)
(* the document.  A third feed is any text at all, well-formed or not.     *)
(***************************************************************************)
EXTENDS HeaderParser

CONSTANTS
  Document,     \* Document[m]: records of a document's text, of the items it
                \* consists of, and of the body behind its headers
  CutAnywhere,  \* FALSE: no piece ends inside a CRLF or in a start line
  Junk          \* what uninitialised memory may hold, a set of characters

\* How the text is fed: by parse(), by stream() while the peer waits, by
\* stream() while the peer writes, or as any chunks, whatever they mean.
Modes == {"parse", "stream", "race", "any"}

ASSUME HeaderFeedAssumption ==
  /\ DOMAIN Document \subseteq Modes
  /\ CutAnywhere \in BOOLEAN
  /\ Junk \subseteq Char

VARIABLES
  mode,     \* how the document is fed
  doc,      \* the document
  wire,     \* text not sent yet
  socket,   \* text that waits in the stream
  pc,       \* place in php_http_header_parser_parse_stream, "idle" outside
  raced     \* a character arrived between the two reads of stream()

document == <<mode, doc>>
feedvars == <<vars, document, wire, socket, pc, raced>>

\* How the text so far ends the line it is in: a cut there would be unsafe.
InStartLine(s) ==
  \E i \in DOMAIN s : s[i] = "H" /\ \A j \in i .. Len(s) : s[j] \notin Eol
SafeCut(i) ==
  /\ ~(doc.text[i] = "CR" /\ i < Len(doc.text) /\ doc.text[i + 1] = "LF")
  /\ ~InStartLine(SubSeq(doc.text, 1, i))

\* The next n characters of the document may be sent in one piece.
Piece(n) ==
  /\ n \in 1 .. Len(wire)
  /\ CutAnywhere \/ n = Len(wire) \/ SafeCut(Len(doc.text) - Len(wire) + n)

FeedInit ==
  /\ Init
  /\ mode \in DOMAIN Document
  /\ doc \in Document[mode]
  /\ wire = doc.text
  /\ socket = <<>>
  /\ pc = "idle"
  /\ raced = FALSE

\* A caller stops after DONE or FAILURE, or when it has passed CLEANUP.
Wanted == result \notin {"DONE", "FAILURE"} /\ ~cleanup

\* parse() with the next chunk; CLEANUP comes with the last one or alone.
ParseChunk(n, flags) ==
  /\ mode = "parse"
  /\ Wanted
  /\ Piece(n) \/ (n = 0 /\ wire = <<>> /\ flags)
  /\ flags => n = Len(wire)
  /\ Parse(SubSeq(wire, 1, n), flags)
  /\ wire' = Cut(wire, n)
  /\ UNCHANGED <<fed, document, socket, pc, raced>>

\* parse() with anything.
ParseAny(data, flags) ==
  /\ mode = "any"
  /\ Feed(data, flags)
  /\ UNCHANGED <<document, wire, socket, pc, raced>>
-----------------------------------------------------------------------------
(* php_http_header_parser_parse_stream                                     *)

\* The peer writes.
Write(n) ==
  /\ mode \in {"stream", "race"}
  /\ pc = "idle" \/ mode = "race"
  /\ Piece(n)
  /\ socket' = socket \o SubSeq(wire, 1, n)
  /\ wire' = Cut(wire, n)
  /\ UNCHANGED <<vars, document, pc, raced>>

Stream ==
  /\ mode \in {"stream", "race"}
  /\ pc = "idle"
  /\ ~parsing
  /\ Wanted
  /\ pc' = "get_line"
  /\ UNCHANGED <<vars, document, wire, socket, raced>>

\* php_stream_get_line: a line, or what there is of it.
GetLine ==
  /\ pc = "get_line"
  /\ socket # <<>>
  /\ \E n \in DOMAIN socket :
       /\ socket[n] = "LF" \/ n = Len(socket)
       /\ \A i \in 1 .. n - 1 : socket[i] # "LF"
       /\ Parse(SubSeq(socket, 1, n), FALSE)
       /\ socket' = Cut(socket, n)
  /\ pc' = "parse"
  /\ UNCHANGED <<fed, document, wire, raced>>

NoLine ==
  /\ pc = "get_line"
  /\ socket = <<>>
  /\ pc' = "getc"
  /\ UNCHANGED <<vars, document, wire, socket, raced>>

\* php_stream_getc finds a character that was not there a moment ago: it is
\* appended, which counts it, and then counted again.
Getc(c) == {<<c, j>> : j \in Junk}

GetChar ==
  /\ pc = "getc"
  /\ socket # <<>>
  /\ \E data \in Getc(socket[1]) : Parse(data, FALSE)
  /\ socket' = Cut(socket, 1)
  /\ pc' = "parse"
  /\ raced' = TRUE
  /\ UNCHANGED <<fed, document, wire>>

\* End of file: CLEANUP.
StreamEof ==
  /\ pc = "getc"
  /\ socket = <<>>
  /\ wire = <<>>
  /\ Parse(<<>>, TRUE)
  /\ pc' = "cleanup"
  /\ UNCHANGED <<fed, document, wire, socket, raced>>

WouldBlock ==
  /\ pc = "getc"
  /\ socket = <<>>
  /\ wire # <<>>
  /\ pc' = "idle"
  /\ UNCHANGED <<vars, document, wire, socket, raced>>

\* php_http_header_parser_parse has returned.
StreamLoop ==
  /\ pc \in {"parse", "cleanup"}
  /\ ~parsing
  /\ pc' = IF pc = "cleanup" \/ result \in {"DONE", "FAILURE"} THEN "idle" ELSE "get_line"
  /\ UNCHANGED <<vars, document, wire, socket, raced>>

StreamStep ==
  Stream \/ GetLine \/ NoLine \/ GetChar \/ StreamEof \/ WouldBlock \/ StreamLoop
-----------------------------------------------------------------------------
ParserStep == Step /\ UNCHANGED <<fed, document, wire, socket, pc, raced>>

Finished ==
  /\ ~parsing
  /\ pc = "idle"
  /\ ~Wanted /\ mode # "any"
  /\ UNCHANGED feedvars

FeedNext ==
  \/ \E n \in 0 .. Len(wire), flags \in BOOLEAN : ParseChunk(n, flags)
  \/ \E data \in Chunk, flags \in BOOLEAN : ParseAny(data, flags)
  \/ \E n \in 1 .. Len(wire) : Write(n)
  \/ StreamStep
  \/ ParserStep
  \/ Finished

FeedSpec == FeedInit /\ [][FeedNext]_feedvars

\* C code runs on.
FairFeedSpec == FeedSpec /\ WF_feedvars(ParserStep \/ StreamStep)
-----------------------------------------------------------------------------
\* The headers handed over are those of the document, in its order, whatever the
\* pieces; a header block that ends leaves exactly the document's body, and a
\* caller that has passed CLEANUP has got all headers, the last one included
\* (php_http_header_parser_parse, _parse_stream).  Not so when stream() fell back
\* to a single character.
RoundTrip ==
  raced \/ mode = "any" \/
  /\ Len(delivered) <= Len(doc.items)
  /\ delivered = SubSeq(doc.items, 1, Len(delivered))
  /\ result # "FAILURE"
  /\ result = "DONE" => delivered = doc.items /\ buffer \o socket \o wire = doc.body
  /\ ~Wanted /\ ~parsing => delivered = doc.items

\* parse() and stream() return, whatever they are fed and also while the peer
\* is writing.
CallsReturn == (parsing \/ pc # "idle") ~> (~parsing /\ pc = "idle")
=============================================================================
