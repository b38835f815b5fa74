---------------------------- MODULE MessageParser ----------------------------
(***************************************************************************)
(* php_http_message_parser_parse: the state machine above the header       *)
(* parser, the dechunk stream and the inflate stream.  One round of its    *)
(* loop is one step; a call of the dechunk stream is the steps of Dechunk. *)
(*                                                                         *)
(* A request or status line and a header are one character each: what the  *)
(* header parser makes of their text is the subject of HeaderParser.  A    *)
(* header counts as stored when its line is read; the header parser stores *)
(* it with the next character.                                             *)
(***************************************************************************)
EXTENDS Integers, Sequences

CONSTANTS
  ContentLength,  \* Content-Length headers and their values
  ContentRange,   \* Content-Range headers and their start, end and total
  Base,           \* base of chunk sizes: 16 in the code
  ULONG_MAX       \* the largest unsigned long and size_t

\* "GET" is a request line, "200" and "302" are status lines.
Response == {"200", "302"}
StartLine == {"GET"} \cup Response

\* "TE" is Transfer-Encoding: chunked, "TEX" another Transfer-Encoding, "CE"
\* Content-Encoding: gzip, "LOC" Location, and "CLOSE" Connection: close.
HeaderLine ==
  DOMAIN ContentLength \cup DOMAIN ContentRange \cup {"TE", "TEX", "CE", "LOC", "CLOSE"}
Line == StartLine \cup HeaderLine

\* "Z" is what gzip data begins with, "E" what it ends with, the rest is text; a
\* digit may be part of a chunk's size.
Text == {"0", "1", "x", "Z", "E"}
Char == Line \cup Text \cup {"LF"}

States == {"START", "HEADER", "HEADER_DONE", "BODY", "BODY_DUMB", "BODY_LENGTH",
           "BODY_CHUNKED", "BODY_DONE", "DONE", "FAILURE"}
Flag == {"CLEANUP", "DUMB_BODIES", "EMPTY_REDIRECTS", "GREEDY"}

ASSUME MessageParserAssumption ==
  /\ Base \in Nat \ {0}
  /\ ULONG_MAX \in Nat
  /\ \A l \in DOMAIN ContentLength :
       ContentLength[l] \in Int /\ ContentLength[l] <= ULONG_MAX
  /\ \A l \in DOMAIN ContentRange :
       ContentRange[l] \in [start : 0 .. ULONG_MAX, end : 0 .. ULONG_MAX, total : 0 .. ULONG_MAX]
  /\ "CL0" \in DOMAIN ContentLength
  /\ HeaderLine \cap (StartLine \cup Text \cup {"LF"}) = {}

VARIABLES
  buffer,         \* parser_obj->buffer
  stack,          \* parser->stack, the top is the last
  body_length,    \* parser->body_length
  chain,          \* parser->message and its parents, the latest is the last
  header_failed,  \* parser->header is in its FAILURE state
  inflate,        \* parser->inflate: "none", or what it has seen of its input
  dechunk,        \* parser->dechunk has a context
  str, cut,       \* locals of the call: what BODY is to write and to cut
  flags,          \* flags of the call
  at,             \* "idle" outside of a call, "loop" and "dechunk" in it
  result,         \* what the last call returned
  \* the dechunk stream
  dbuffer, hexlen, zeroed, flush_full, running, tmp, out, rc

dstream == <<dbuffer, hexlen, zeroed, flush_full, running, tmp, out, rc>>
locals == <<str, cut>>
parser == <<buffer, stack, body_length, chain, header_failed, inflate, dechunk,
            locals, flags, at, result, dstream>>

Dechunk == INSTANCE Dechunk WITH
  buffer <- dbuffer, Input <- {}, MaxFed <- 0, fed <- 0
-----------------------------------------------------------------------------
Cut(s, n) == SubSeq(s, n + 1, Len(s))
Least(m, n) == IF m < n THEN m ELSE n

\* state_is_ex and state_pop
Top == IF stack = <<>> THEN "START" ELSE stack[Len(stack)]
Popped == IF stack = <<>> THEN <<>> ELSE SubSeq(stack, 1, Len(stack) - 1)

NeedDataInDone == {"START", "BODY_DUMB", "BODY_LENGTH", "BODY_CHUNKED", "BODY_DONE"}

\* The loop goes on while there is data or the state needs none.
NeedData == {"START", "BODY_DUMB", "BODY_LENGTH", "BODY_CHUNKED"}
Round(s) == at = "loop" /\ Top = s /\ (buffer # <<>> \/ s \notin NeedData)

\* The round ends with the states s pushed, and the loop goes on or returns r.
Push(s) == stack' = Popped \o s /\ UNCHANGED <<at, result, flags>>
Return(r, s) ==
  /\ stack' = Popped \o s
  /\ at' = "idle"
  /\ result' = r
  /\ UNCHANGED flags

\* HttpMessageParser::parse
Parse(data, f) ==
  /\ at = "idle"
  /\ at' = "loop"
  /\ buffer' = buffer \o data
  /\ flags' = f
  /\ str' = <<>>
  /\ cut' = 0
  /\ UNCHANGED <<stack, body_length, chain, header_failed, inflate, dechunk, result, dstream>>

OutOfData ==
  /\ at = "loop"
  /\ Top \in NeedData
  /\ buffer = <<>>
  /\ at' = "idle"
  /\ result' = Top
  /\ UNCHANGED <<buffer, stack, body_length, chain, header_failed, inflate, dechunk,
                 locals, flags, dstream>>

Failed ==
  /\ Round("FAILURE")
  /\ Return("FAILURE", <<"FAILURE">>)
  /\ UNCHANGED <<buffer, body_length, chain, header_failed, inflate, dechunk, locals, dstream>>

\* Blanks at the beginning of the buffer are cut.
SkipSpace ==
  \E n \in 0 .. Len(buffer) :
    /\ \A i \in 1 .. n : buffer[i] = "LF"
    /\ n < Len(buffer) => buffer[n + 1] # "LF"
    /\ buffer' = Cut(buffer, n)

Start ==
  /\ Round("START")
  /\ SkipSpace
  /\ Push(IF buffer' = <<>> THEN <<>> ELSE <<"HEADER">>)
  /\ UNCHANGED <<body_length, chain, header_failed, inflate, dechunk, locals, dstream>>
-----------------------------------------------------------------------------
(* HEADER: a call of the header parser.                                    *)

\* Text joins the line behind it: a header gets another name, a request another
\* method; before a status line or a line end it makes the line invalid.
TextBefore(i) == i > 1 /\ buffer[i - 1] \in Text
Stop(i) == buffer[i] = "LF" \/ (buffer[i] \in Response /\ TextBefore(i))
LineAt(i) == IF buffer[i] \in HeaderLine /\ TextBefore(i) THEN "OTHER" ELSE buffer[i]

\* The header parser reads n characters in complete lines, and the line behind
\* them ends, or the buffer does, at m.
Lines(n, m) ==
  /\ n # 0 => buffer[n] \in Line
  /\ \A i \in 1 .. n : ~Stop(i)
  /\ \A i \in n + 1 .. m : buffer[i] \in Text
  /\ m < Len(buffer) => Stop(m + 1)

\* php_http_message_info_callback, and a header stored in the message
Message(type) == [type |-> type, hdrs |-> {}, body |-> <<>>]
Stored(c, l) ==
  LET last == Len(c)
  IN  IF l \in StartLine
      THEN IF c = <<>> \/ c[last].type # "none" \/ c[last].hdrs # {}
           THEN Append(c, Message(l))
           ELSE [c EXCEPT ![last].type = l]
      ELSE IF c = <<>>
           THEN <<[Message("none") EXCEPT !.hdrs = {l}]>>
           ELSE [c EXCEPT ![last].hdrs = @ \cup {l}]
StoredLines(n) ==
  LET stored[i \in 0 .. n] ==
        IF i = 0 THEN chain
        ELSE IF buffer[i] \in Line THEN Stored(stored[i - 1], LineAt(i))
        ELSE stored[i - 1]
  IN  stored[n]

HeaderComplete(n) ==
  /\ Round("HEADER")
  /\ ~header_failed
  /\ n < Len(buffer)
  /\ Lines(n, n)
  /\ buffer[n + 1] = "LF"
  /\ chain' = StoredLines(n)
  /\ buffer' = Cut(buffer, n + 1)
  /\ Push(<<"HEADER_DONE">>)
  /\ UNCHANGED <<body_length, header_failed, inflate, dechunk, locals, dstream>>

\* The failure is returned, but only the header parser remembers it.
HeaderFails(n, m) ==
  /\ Round("HEADER")
  /\ \/ header_failed /\ n = 0 /\ m = 0
     \/ /\ ~header_failed
        /\ Lines(n, m)
        /\ n < m
        /\ m < Len(buffer) \/ "CLEANUP" \in flags
  /\ header_failed' = TRUE
  /\ chain' = StoredLines(n)
  /\ buffer' = Cut(buffer, n)
  /\ Return("FAILURE", <<>>)
  /\ UNCHANGED <<body_length, inflate, dechunk, locals, dstream>>

HeaderIncompleteSpins(n) ==
  /\ Round("HEADER")
  /\ ~header_failed
  /\ Lines(n, Len(buffer))
  /\ n < Len(buffer) => "CLEANUP" \notin flags
  /\ chain' = StoredLines(n)
  /\ buffer' = Cut(buffer, n)
  /\ Push(<<"HEADER">>)
  /\ UNCHANGED <<body_length, header_failed, inflate, dechunk, locals, dstream>>

\* More is needed; CLEANUP ends the headers if no line is begun.
HeaderIncomplete(n) ==
  /\ Round("HEADER")
  /\ ~header_failed
  /\ Lines(n, Len(buffer))
  /\ n < Len(buffer) => "CLEANUP" \notin flags
  /\ chain' = StoredLines(n)
  /\ buffer' = Cut(buffer, n)
  /\ IF "CLEANUP" \in flags
     THEN Push(<<"HEADER_DONE">>)
     ELSE Return("HEADER", <<"HEADER">>)
  /\ UNCHANGED <<body_length, header_failed, inflate, dechunk, locals, dstream>>
-----------------------------------------------------------------------------
(* HEADER_DONE: what body follows?                                         *)

message == chain[Len(chain)]

\* The originals of rewritten headers are kept; a message with a
\* Transfer-Encoding, chunked or not, gets a Content-Length of zero.
LengthRewritten(h) ==
  IF h \cap {"TE", "TEX"} # {}
  THEN (h \ ({"TE", "TEX"} \cup DOMAIN ContentLength)) \cup {"X-Original-TE", "CL0"}
  ELSE IF h \cap DOMAIN ContentLength # {} THEN h \cup {"X-Original-CL"} ELSE h
EncodingRewritten(h) == IF "CE" \in h THEN (h \ {"CE"}) \cup {"X-Original-CE"} ELSE h

\* "if curl sees a 3xx code, a Location header and a Connection:close header it
\* decides not to read the response body"
EmptyRedirect ==
  /\ "EMPTY_REDIRECTS" \in flags
  /\ message.type = "302"
  /\ {"LOC", "CLOSE"} \subseteq message.hdrs

ValidRange(r) == r.end >= r.start /\ (r.total = 0 \/ r.end <= r.total)
RangeGives(n) ==
  \E l \in message.hdrs \cap DOMAIN ContentRange :
    LET r == ContentRange[l]
    IN  ValidRange(r) /\ n = (r.end + 1 - r.start) % (ULONG_MAX + 1)
\* Content-Length is not looked at if there is a Transfer-Encoding.
LengthGives(n) ==
  /\ "TEX" \notin message.hdrs
  /\ \E l \in message.hdrs \cap DOMAIN ContentLength : ContentLength[l] >= 0 /\ n = ContentLength[l]

KnownLengthFirst(n) ==
  LengthGives(n) \/ (RangeGives(n) /\ \A k \in 0 .. ULONG_MAX : ~LengthGives(k))

\* Content-Range has higher precedence than Content-Length.
Known(n) == RangeGives(n) \/ (LengthGives(n) /\ \A k \in 0 .. ULONG_MAX : ~RangeGives(k))

SkipBody ==
  /\ Round("HEADER_DONE")
  /\ chain # <<>>
  /\ EmptyRedirect
  /\ chain' = [chain EXCEPT ![Len(chain)].hdrs = LengthRewritten(@)]
  /\ Push(<<"DONE">>)
  /\ UNCHANGED <<buffer, body_length, header_failed, inflate, dechunk, locals, dstream>>

\* The inflate stream is set up for a compressed body, and stays.
Inflating == inflate' = IF "CE" \in message.hdrs THEN "fresh" ELSE inflate

BodyFollows ==
  /\ Round("HEADER_DONE")
  /\ chain # <<>>
  /\ ~EmptyRedirect
  /\ chain' = [chain EXCEPT ![Len(chain)].hdrs = EncodingRewritten(LengthRewritten(@))]
  /\ Inflating
  /\ UNCHANGED <<buffer, header_failed, locals>>

DumbFollows ==
  /\ BodyFollows
  /\ \/ "DUMB_BODIES" \in flags
     \/ /\ "TE" \notin message.hdrs
        /\ \A n \in 0 .. ULONG_MAX : ~Known(n)
        /\ message.type # "GET"
  /\ Push(<<"BODY_DUMB">>)
  /\ UNCHANGED <<body_length, dechunk, dstream>>

NoBodyFollows ==
  /\ BodyFollows
  /\ "DUMB_BODIES" \notin flags
  /\ "TE" \notin message.hdrs
  /\ \A n \in 0 .. ULONG_MAX : ~Known(n)
  /\ message.type = "GET"
  /\ Push(<<"DONE">>)
  /\ UNCHANGED <<body_length, dechunk, dstream>>

LengthFollows(n) ==
  /\ BodyFollows
  /\ "DUMB_BODIES" \notin flags
  /\ "TE" \notin message.hdrs
  /\ Known(n)
  /\ body_length' = n
  /\ Push(IF n = 0 THEN <<"BODY_DONE">> ELSE <<"BODY_LENGTH">>)
  /\ UNCHANGED <<dechunk, dstream>>

ChunksFollow ==
  /\ BodyFollows
  /\ "DUMB_BODIES" \notin flags
  /\ "TE" \in message.hdrs
  /\ dechunk' = TRUE
  /\ dbuffer' = <<>> /\ hexlen' = 0 /\ zeroed' = FALSE /\ running' = FALSE
  /\ tmp' = <<>> /\ out' = <<>> /\ rc' = "SUCCESS"
  /\ Push(<<"BODY_CHUNKED">>)
  /\ UNCHANGED <<body_length, flush_full>>
-----------------------------------------------------------------------------
(* Bodies.                                                                 *)

\* The inflate stream on data: what it makes of it, and what it has seen then.
\* Behind the end of its input it takes anything and returns nothing.
Inflated(data, text, seen) ==
  CASE inflate = "none" -> text = data /\ seen = "none"
    [] inflate = "ended" -> text = <<>> /\ seen = "ended"
    [] OTHER ->
         \E a \in 0 .. 1, b \in 0 .. Len(data) :
           /\ a = IF inflate = "fresh" /\ data # <<>> THEN 1 ELSE 0
           /\ a = 1 => data[1] = "Z"
           /\ \A i \in a + 1 .. b : data[i] # "E"
           /\ b < Len(data) => data[b + 1] = "E"
           /\ text = SubSeq(data, a + 1, b)
           /\ seen = IF b < Len(data) THEN "ended" ELSE "open"
InflateFails == inflate = "fresh" /\ str # <<>> /\ str[1] # "Z"

Body(text, seen) ==
  /\ Round("BODY")
  /\ IF str = <<>> THEN text = <<>> /\ seen = inflate ELSE Inflated(str, text, seen)
  /\ chain' = [chain EXCEPT ![Len(chain)].body = @ \o text]
  /\ inflate' = seen
  /\ buffer' = Cut(buffer, cut)
  /\ str' = <<>>
  /\ cut' = 0
  /\ Push(<<>>)
  /\ UNCHANGED <<body_length, header_failed, dechunk, dstream>>

BodyFailsCut ==
  /\ Round("BODY")
  /\ InflateFails
  /\ buffer' = Cut(buffer, cut)
  /\ cut' = 0
  /\ Return("FAILURE", <<"FAILURE">>)
  /\ UNCHANGED <<body_length, chain, header_failed, inflate, dechunk, str, dstream>>

BodyFails ==
  /\ Round("BODY")
  /\ InflateFails
  /\ Return("FAILURE", <<"FAILURE">>)
  /\ UNCHANGED <<buffer, body_length, chain, header_failed, inflate, dechunk, locals, dstream>>

BodyDumb ==
  /\ Round("BODY_DUMB")
  /\ str' = buffer
  /\ cut' = Len(buffer)
  /\ Push(<<"BODY_DONE", "BODY">>)
  /\ UNCHANGED <<buffer, body_length, chain, header_failed, inflate, dechunk, dstream>>

BodyLength ==
  /\ Round("BODY_LENGTH")
  /\ cut' = Least(body_length, Len(buffer))
  /\ str' = SubSeq(buffer, 1, cut')
  /\ body_length' = body_length - cut'
  /\ Push(<<IF body_length' = 0 THEN "BODY_DONE" ELSE "BODY_LENGTH", "BODY">>)
  /\ UNCHANGED <<buffer, chain, header_failed, inflate, dechunk, dstream>>

BodyChunked ==
  /\ Round("BODY_CHUNKED")
  /\ Dechunk!Update(buffer)
  /\ at' = "dechunk"
  /\ UNCHANGED <<buffer, stack, body_length, chain, header_failed, inflate, dechunk,
                 locals, flags, result>>

DechunkRound ==
  /\ at = "dechunk"
  /\ Dechunk!Loop
  /\ UNCHANGED <<buffer, stack, body_length, chain, header_failed, inflate, dechunk,
                 locals, flags, at, result>>

\* The failure is returned and forgotten.
DechunkFails ==
  /\ at = "dechunk"
  /\ ~running
  /\ rc = "FAILURE"
  /\ Return("FAILURE", <<>>)
  /\ UNCHANGED <<buffer, body_length, chain, header_failed, inflate, dechunk, locals, dstream>>

\* "cut processed string out of buffer, but leave length of unprocessed dechunk
\* stream data untouched"
Dechunked ==
  /\ at = "dechunk"
  /\ ~running
  /\ rc = "SUCCESS"
  /\ str' = out
  /\ out' = <<>>
  /\ cut' = IF zeroed THEN Len(buffer) - Len(dbuffer) ELSE Len(buffer)
  /\ stack' = Popped \o <<IF zeroed THEN "BODY_DONE" ELSE "BODY_CHUNKED", "BODY">>
  /\ at' = "loop"
  /\ UNCHANGED <<buffer, body_length, chain, header_failed, inflate, dechunk, flags, result,
                 dbuffer, hexlen, zeroed, flush_full, running, tmp, rc>>

\* The dechunk stream has no finish operation, so nothing is left to be written
\* and UPDATE_CL is never pushed.
BodyDone ==
  /\ Round("BODY_DONE")
  /\ dechunk' = FALSE
  /\ dbuffer' = <<>> /\ hexlen' = 0 /\ zeroed' = FALSE
  /\ Push(<<"DONE">>)
  /\ UNCHANGED <<buffer, body_length, chain, header_failed, inflate, locals,
                 flush_full, running, tmp, out, rc>>

DoneSticks ==
  /\ Round("DONE")
  /\ SkipSpace
  /\ Return("DONE", <<"DONE">>)
  /\ UNCHANGED <<body_length, chain, header_failed, inflate, dechunk, locals, dstream>>

Done ==
  /\ Round("DONE")
  /\ SkipSpace
  /\ IF "GREEDY" \in flags THEN Push(<<>>) ELSE Return("DONE", <<>>)
  /\ UNCHANGED <<body_length, chain, header_failed, inflate, dechunk, locals, dstream>>
-----------------------------------------------------------------------------
Step ==
  \/ OutOfData \/ Failed \/ Start
  \/ \E n \in 0 .. Len(buffer) : HeaderComplete(n) \/ HeaderIncomplete(n)
  \/ \E n \in 0 .. Len(buffer) : \E m \in n .. Len(buffer) : HeaderFails(n, m)
  \/ SkipBody \/ DumbFollows \/ NoBodyFollows \/ ChunksFollow
  \/ \E n \in 0 .. ULONG_MAX : LengthFollows(n)
  \/ \E b \in 0 .. Len(str), a \in 0 .. 1, seen \in {"none", "fresh", "open", "ended"} :
       Body(SubSeq(str, a + 1, b), seen)
  \/ BodyFails \/ BodyDumb \/ BodyLength
  \/ BodyChunked \/ DechunkRound \/ DechunkFails \/ Dechunked
  \/ BodyDone \/ Done

ParserInit ==
  /\ buffer = <<>>
  /\ stack = <<>>
  /\ body_length = 0
  /\ chain = <<>>
  /\ header_failed = FALSE
  /\ inflate = "none"
  /\ dechunk = FALSE
  /\ str = <<>>
  /\ cut = 0
  /\ flags = {}
  /\ at = "idle"
  /\ result = "START"
  /\ dbuffer = <<>> /\ hexlen = 0 /\ zeroed = FALSE /\ flush_full = FALSE
  /\ running = FALSE /\ tmp = <<>> /\ out = <<>> /\ rc = "SUCCESS"
=============================================================================
