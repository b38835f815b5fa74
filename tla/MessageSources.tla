--------------------------- MODULE MessageSources ---------------------------
(***************************************************************************)
(* The third source of messages is a multipart body, whose parts           *)
(* php_http_message_body_split cuts out and has parsed one by one; and the *)
(* properties of the message parser, whatever its source.                  *)
(***************************************************************************)
EXTENDS MessageFeed

VARIABLES
  chunk,     \* what php_http_buffer_passthru holds
  buf,       \* splitbody: what is left of it
  consumed,  \* splitbody: consumed by this call
  begun,     \* arg->consumed # 0
  eof        \* php_stream_eof of the body

split == <<chunk, buf, consumed, begun, eof>>
vars == <<parser, feed, split>>

\* arg->boundary_str is a line end and a delimiter; the first has no line end.
Delimiter == "B"
First == ~begun /\ consumed = 0
DelimiterAt(r) ==
  /\ r \in DOMAIN buf
  /\ buf[r] = Delimiter
  /\ First \/ (r > 1 /\ buf[r - 1] = "LF")
NoDelimiter(n) == \A r \in 1 .. n : ~DelimiterAt(r)

\* php_http_buffer_passthru: more of the body, and a call of splitbody
Passthru ==
  /\ mode = "split"
  /\ pc = "idle"
  /\ LET n == Least(doc.room, Len(wire))
     IN  /\ chunk' = chunk \o SubSeq(wire, 1, n)
         /\ wire' = Cut(wire, n)
         /\ pc' = IF chunk' # <<>> THEN "split" ELSE "eof"
         /\ eof' = (n = 0)
  /\ buf' = chunk'
  /\ consumed' = 0
  /\ UNCHANGED <<parser, document, socket, state, begun>>

\* splitbody returns, and what it has consumed is cut off.
SplitReturns(n) ==
  /\ pc' = IF eof THEN "eof" ELSE "idle"
  /\ chunk' = Cut(chunk, n)
  /\ begun' = (begun \/ n > 0)
  /\ buf' = <<>>
  /\ consumed' = 0
  /\ UNCHANGED eof

\* "if we just have enough data for the boundary, it's just a byte too less"
DelimiterCut ==
  /\ pc = "split"
  /\ DelimiterAt(Len(buf))
  /\ NoDelimiter(Len(buf) - 1)
  /\ SplitReturns(consumed)
  /\ UNCHANGED <<parser, document, wire, socket, state>>

\* What stands before the delimiter is the rest of the part before.
PartEnds(r) ==
  /\ pc = "split"
  /\ r < Len(buf)
  /\ DelimiterAt(r)
  /\ NoDelimiter(r - 1)
  /\ IF First THEN UNCHANGED parser ELSE Parse(SubSeq(buf, 1, r - 1), {})
  /\ buf' = Cut(buf, r)
  /\ consumed' = consumed + r
  /\ pc' = IF First THEN "first" ELSE "next"
  /\ UNCHANGED <<document, wire, socket, state, chunk, begun, eof>>

\* A line end behind the delimiter begins a part, with a message of its own.
PartBegins ==
  /\ pc \in {"first", "next"}
  /\ at = "idle"
  /\ buf[1] = "LF"
  /\ buf' = Cut(buf, 1)
  /\ consumed' = consumed + 1
  /\ pc' = "split"
  /\ chain' = IF pc = "first" THEN chain ELSE Append(chain, Message("none"))
  /\ UNCHANGED <<buffer, stack, body_length, header_failed, inflate, dechunk, locals,
                 flags, at, result, dstream, document, wire, socket, state, chunk, begun, eof>>

LastPart ==
  /\ pc \in {"first", "next"}
  /\ at = "idle"
  /\ buf[1] = "-"
  /\ SplitReturns(consumed + Len(buf))
  /\ UNCHANGED <<parser, document, wire, socket, state>>

\* -1 is returned, and nothing cut off.
MalformedBoundary ==
  /\ pc \in {"first", "next"}
  /\ at = "idle"
  /\ buf[1] \notin {"LF", "-"}
  /\ SplitReturns(0)
  /\ UNCHANGED <<parser, document, wire, socket, state>>

\* "let there be room for the next boundary"
NoMoreDelimiters ==
  /\ pc = "split"
  /\ NoDelimiter(Len(buf))
  /\ IF Len(buf) > 2
     THEN /\ Parse(SubSeq(buf, 1, Len(buf) - 2), {})
          /\ pc' = "tail"
          /\ UNCHANGED split
     ELSE UNCHANGED parser /\ SplitReturns(consumed)
  /\ UNCHANGED <<document, wire, socket, state>>

TailParsed ==
  /\ pc = "tail"
  /\ at = "idle"
  /\ SplitReturns(consumed + Len(buf) - 2)
  /\ UNCHANGED <<parser, document, wire, socket, state>>

SplitStep ==
  \/ Passthru \/ DelimiterCut \/ PartBegins \/ LastPart \/ MalformedBoundary
  \/ \E r \in DOMAIN buf : PartEnds(r)
  \/ NoMoreDelimiters \/ TailParsed
-----------------------------------------------------------------------------
\* Nothing more is to come, or the caller has given up.
Finished ==
  /\ at = "idle"
  /\ pc = "eof" \/ (pc = "idle" /\ mode # "split" /\ ~Wanted)
  /\ UNCHANGED vars

Init ==
  /\ FeedInit
  /\ chunk = <<>>
  /\ buf = <<>>
  /\ consumed = 0
  /\ begun = FALSE
  /\ eof = FALSE

Next ==
  \/ FeedStep /\ UNCHANGED split
  \/ SplitStep
  \/ Finished

Spec == Init /\ [][Next]_vars

\* C code runs on, the peer writes, and the caller feeds, the rest of the text.
FairSpec ==
  /\ Spec
  /\ WF_vars(ParserStep /\ UNCHANGED split)
  /\ WF_vars(StreamStep /\ UNCHANGED split)
  /\ WF_vars(SplitStep)
  /\ SF_vars((\E n \in 1 .. Len(wire) : Write(n)) /\ UNCHANGED split)
  /\ WF_vars((\E n \in 0 .. Len(wire), cleanup \in BOOLEAN : ParseChunk(n, cleanup)) /\ UNCHANGED split)
-----------------------------------------------------------------------------
\* The parser's state and the sources' keep their types.
TypeOK ==
  /\ buffer \in Seq(Token)
  /\ stack \in Seq(States)
  /\ body_length \in 0 .. ULONG_MAX
  /\ \A i \in DOMAIN chain : chain[i].type \in StartLine \cup {"none"}
  /\ header_failed \in BOOLEAN
  /\ inflate \in {"none", "fresh", "open", "ended"}
  /\ dechunk \in BOOLEAN
  /\ cut \in 0 .. Len(buffer)
  /\ flags \subseteq Flag
  /\ at \in {"idle", "loop", "dechunk"}
  /\ result \in States

\* A message as it was sent: its type and its body.
Sent(m) == [type |-> m.type, body |-> m.body]

\* Messages are parsed as they were sent, whatever the pieces they arrive in and
\* whatever kind of body they have: those that are complete are equal, what there
\* is of the last is the beginning of it, and nothing is left out.
MessagesAsSent ==
  doc.messages # <<>> =>
    /\ Len(chain) <= Len(doc.messages)
    /\ \A i \in 1 .. Len(chain) - 1 : Sent(chain[i]) = doc.messages[i]
    /\ chain # <<>> =>
         LET m == chain[Len(chain)]
             n == doc.messages[Len(chain)]
         IN  m.type \in {"none", n.type} /\ \E k \in 0 .. Len(n.body) : m.body = SubSeq(n.body, 1, k)
    /\ at = "idle" => result # "FAILURE"
    /\ at = "idle" /\ pc \in {"idle", "eof"} /\ wire \o socket \o buffer \o chunk = <<>>
         => [i \in DOMAIN chain |-> Sent(chain[i])] = doc.messages

\* parse() returns to stream() only in states it can go on from: none of those it
\* aborts in ("should not occur"), and with an empty buffer when it is to read a
\* chunk's size line, which it writes to the beginning of the buffer.
StreamGoesOn ==
  pc = "read" =>
    /\ state \notin {"HEADER_DONE", "BODY", "BODY_DONE"}
    /\ state = "BODY_CHUNKED" => buffer = <<>>

\* The table of states is never indexed with FAILURE, which is -1: a parser that
\* has failed still has the data it failed on.
FailureKeepsData == at # "idle" /\ Top = "FAILURE" => buffer # <<>>

\* What the dechunk stream leaves behind the last chunk is the end of the buffer:
\* the unsigned difference that is cut off does not wrap.
CutCoversChunks ==
  at = "dechunk" /\ ~running /\ zeroed =>
    /\ Len(dbuffer) <= Len(buffer)
    /\ dbuffer = Cut(buffer, Len(buffer) - Len(dbuffer))

\* parse() returns, on malformed messages too: states that need no data do not
\* lead back to themselves.
ParseReturns == at # "idle" ~> at = "idle"

\* Every message is parsed at last.
AllParsed ==
  doc.messages # <<>> ~> (at = "idle" /\ [i \in DOMAIN chain |-> Sent(chain[i])] = doc.messages)
=============================================================================
