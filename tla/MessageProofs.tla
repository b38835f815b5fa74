---------------------------- MODULE MessageProofs ----------------------------
(***************************************************************************)
(* Proofs about the message parser, for all documents and all ways to cut  *)
(* them: parse() returns to stream() in a state it can go on from, a       *)
(* failure keeps the data it is about, and what is cut off behind the last *)
(* chunk never exceeds the buffer.                                         *)
(***************************************************************************)
EXTENDS MessageSources, SequenceTheorems, TLAPS

\* The parser's texts are sequences of characters, and its counters natural.
Texts ==
  /\ buffer \in Seq(Token)
  /\ dbuffer \in Seq(Token)
  /\ body_length \in Nat
  /\ cut \in Nat
  /\ hexlen \in Nat
  /\ flush_full = FALSE

\* The stack holds a state, and BODY or FAILURE above it.
Above == {"BODY", "FAILURE"}
Below == {"BODY_DONE", "BODY_LENGTH", "BODY_CHUNKED"}
StackOK ==
  /\ stack \in Seq(States)
  /\ Len(stack) <= 2
  /\ Len(stack) > 0 => stack[1] \notin Above
  /\ Len(stack) = 2 => stack[2] \in Above /\ stack[1] \in Below

\* BODY writes something only of what is in the buffer, and a failure keeps it.
DataKept ==
  /\ at \in {"idle", "loop", "dechunk"}
  /\ Top = "FAILURE" => buffer # <<>>
  /\ at = "loop" /\ Top = "BODY" /\ str # <<>> => buffer # <<>>
  /\ at = "dechunk" => Len(stack) = 1 /\ Top = "BODY_CHUNKED" /\ buffer # <<>>

\* The dechunk stream may hold k characters more than the buffer, of earlier calls:
\* none of them ends a line, or they do not make up the chunk.  Where both have
\* something, it is the same.
Aligned(d, b) ==
  \A j \in Nat : j < Len(d) /\ j < Len(b) => d[Len(d) - j] = b[Len(b) - j]
Waiting(d, h, k) ==
  IF h = 0 THEN \A i \in 1 .. k : d[i] \notin Dechunk!Eol ELSE k < h
Decoding ==
  /\ Aligned(dbuffer, buffer)
  /\ \/ Len(dbuffer) <= Len(buffer)
     \/ Waiting(dbuffer, hexlen, Len(dbuffer) - Len(buffer))
Decoded ==
  \/ ~zeroed /\ Waiting(dbuffer, hexlen, Len(dbuffer))
  \/ at = "dechunk" /\ ~zeroed /\ rc = "FAILURE"
  \/ at = "dechunk" /\ zeroed /\ Aligned(dbuffer, buffer) /\ Len(dbuffer) <= Len(buffer)
Chunks ==
  /\ running => at = "dechunk" /\ ~zeroed /\ Decoding
  /\ ~running /\ stack # <<>> /\ stack[1] = "BODY_CHUNKED" => Decoded

ParserInv == Texts /\ StackOK /\ DataKept /\ Chunks

\* The sources' texts, and how they take turns with the parser.
StreamPc == {"idle", "read", "chunk", "parse", "cleanup"}
SplitPc == {"idle", "split", "first", "next", "tail", "eof"}
Turns ==
  /\ wire \in Seq(Token)
  /\ socket \in Seq(Token)
  /\ chunk \in Seq(Token)
  /\ buf \in Seq(Token)
  /\ consumed \in Nat
  /\ doc.room \in Nat
  /\ mode \in Modes
  /\ mode = "parse" => pc = "idle"
  /\ mode = "stream" => pc \in StreamPc
  /\ mode = "split" => pc \in SplitPc
  /\ mode = "stream" /\ pc \in {"idle", "read", "chunk"} => at = "idle"
  /\ pc = "tail" => Len(buf) > 2

\* States that parse() returns.
Returned(s) ==
  /\ s \in {"START", "HEADER", "BODY_DUMB", "BODY_LENGTH", "BODY_CHUNKED", "DONE", "FAILURE"}
  /\ s = "BODY_CHUNKED" => buffer = <<>>
Returns ==
  /\ pc = "read" => Returned(state)
  /\ pc \in {"parse", "cleanup"} /\ at = "idle" => Returned(result)

IInv == ParserInv /\ Turns /\ Returns
-----------------------------------------------------------------------------
(* Texts.                                                                  *)

\* php_http_buffer_cut leaves the end of a text.
LEMMA CutProperties ==
  ASSUME NEW S, NEW s \in Seq(S), NEW n \in Nat
  PROVE  /\ Cut(s, n) \in Seq(S)
         /\ Len(Cut(s, n)) = IF n <= Len(s) THEN Len(s) - n ELSE 0
         /\ \A i \in 1 .. Len(s) - n : Cut(s, n)[i] = s[n + i]
<1>1. Len(s) \in Nat
  BY LenProperties
<1>2. \A i \in n + 1 .. Len(s) : s[i] \in S
  BY <1>1, ElementOfSeq
<1> QED
  BY <1>1, <1>2, SubSeqProperties DEF Cut

\* The first n characters.
LEMMA TakeProperties ==
  ASSUME NEW S, NEW s \in Seq(S), NEW n \in 0 .. Len(s)
  PROVE  SubSeq(s, 1, n) \in Seq(S) /\ Len(SubSeq(s, 1, n)) = n
<1>1. Len(s) \in Nat
  BY LenProperties
<1>2. \A i \in 1 .. n : s[i] \in S
  BY <1>1, ElementOfSeq
<1> QED
  BY <1>1, <1>2, SubSeqProperties

\* Texts that end in the same way still do so when the longer one is cut.
LEMMA CutAligned ==
  ASSUME NEW d \in Seq(Token), NEW b \in Seq(Token), NEW n \in Nat, Aligned(d, b), n <= Len(d)
  PROVE  Aligned(Cut(d, n), b)
<1>1. Len(d) \in Nat /\ Len(b) \in Nat
  BY LenProperties
<1>2. Len(Cut(d, n)) = Len(d) - n /\ \A i \in 1 .. Len(d) - n : Cut(d, n)[i] = d[n + i]
  BY <1>1, CutProperties
<1> SUFFICES ASSUME NEW j \in Nat, j < Len(Cut(d, n)), j < Len(b)
             PROVE  Cut(d, n)[Len(Cut(d, n)) - j] = b[Len(b) - j]
  BY DEF Aligned
<1>3. Cut(d, n)[Len(d) - n - j] = d[n + (Len(d) - n - j)]
  <2>1. Len(d) - n - j \in 1 .. Len(d) - n
    BY <1>1, <1>2
  <2> QED
    BY <1>2, <2>1
<1>4. n + (Len(d) - n - j) = Len(d) - j
  BY <1>1
<1>5. d[Len(d) - j] = b[Len(b) - j]
  <2>1. j < Len(d)
    BY <1>1, <1>2
  <2> QED
    BY <2>1 DEF Aligned
<1> QED
  BY <1>1, <1>2, <1>3, <1>4, <1>5

\* What is appended to a text is the end of it.
LEMMA ConcatAligned ==
  ASSUME NEW d \in Seq(Token), NEW b \in Seq(Token)
  PROVE  Aligned(d \o b, b)
<1>1. Len(d) \in Nat /\ Len(b) \in Nat /\ Len(d \o b) = Len(d) + Len(b)
  BY LenProperties, ConcatProperties
<1> SUFFICES ASSUME NEW j \in Nat, j < Len(b)
             PROVE  (d \o b)[Len(d \o b) - j] = b[Len(b) - j]
  BY DEF Aligned
<1>2. Len(d \o b) - j \in 1 .. Len(d) + Len(b) /\ ~(Len(d \o b) - j <= Len(d))
  BY <1>1
<1>3. (d \o b)[Len(d \o b) - j] = b[Len(d \o b) - j - Len(d)]
  BY <1>1, <1>2, ConcatProperties
<1>4. Len(d \o b) - j - Len(d) = Len(b) - j
  BY <1>1
<1> QED
  BY <1>3, <1>4
-----------------------------------------------------------------------------
(* The stack of states.                                                    *)

\* Under BODY and FAILURE there is one state, under the others none.
LEMMA PoppedProperties ==
  ASSUME StackOK
  PROVE  /\ Top \in States
         /\ Top \notin Above => Popped = <<>> /\ (stack = <<>> \/ (Len(stack) = 1 /\ stack[1] = Top))
         /\ Top \in Above => Len(stack) = 2 /\ stack[1] \in Below /\ Popped = <<stack[1]>>
<1>1. Len(stack) \in Nat /\ (stack = <<>> <=> Len(stack) = 0)
  BY EmptySeq, LenProperties DEF StackOK
<1>2. CASE Len(stack) = 0
  BY <1>1, <1>2 DEF Top, Popped, Above, States
<1>3. CASE Len(stack) = 1
  <2>1. stack[1] \in States
    BY <1>3, ElementOfSeq DEF StackOK
  <2>2. Popped = <<>>
    BY <1>1, <1>3, SubSeqEmpty DEF Popped
  <2> QED
    BY <1>1, <1>3, <2>1, <2>2 DEF Top, StackOK
<1>4. CASE Len(stack) = 2
  <2>1. stack[1] \in States /\ stack[2] \in States
    BY <1>4, ElementOfSeq DEF StackOK
  <2>2. Popped = SubSeq(stack, 1, 1)
    BY <1>1, <1>4 DEF Popped
  <2>3. Popped \in Seq(States) /\ Len(Popped) = 1 /\ Popped[1] = stack[1]
    BY <2>1, <2>2, SubSeqProperties
  <2>4. Popped = <<stack[1]>>
    BY <2>1, <2>3, SeqEqual
  <2> QED
    BY <1>1, <1>4, <2>1, <2>4 DEF Top, StackOK
<1>5. Len(stack) <= 2
  BY DEF StackOK
<1>6. \A n \in Nat : n <= 2 => n = 0 \/ n = 1 \/ n = 2
  OBVIOUS
<1> QED
  BY <1>1, <1>2, <1>3, <1>4, <1>5, <1>6

\* The stack after a round: a state, or one above another.
LEMMA StackOfOne ==
  ASSUME NEW s \in States, s \notin Above, stack' = <<s>>
  PROVE  StackOK' /\ Top' = s
<1>1. <<s>> \in Seq(States) /\ Len(<<s>>) = 1 /\ <<s>>[1] = s /\ <<s>> # <<>>
  OBVIOUS
<1> QED
  BY <1>1 DEF StackOK, Top

LEMMA StackOfTwo ==
  ASSUME NEW s \in Below, NEW t \in Above, stack' = <<s, t>>
  PROVE  StackOK' /\ Top' = t
<1>1. s \in States /\ t \in States /\ s \notin Above
  BY DEF Below, Above, States
<1>2. <<s, t>> \in Seq(States) /\ Len(<<s, t>>) = 2 /\ <<s, t>>[1] = s /\ <<s, t>>[2] = t
  BY <1>1
<1>3. <<s, t>> # <<>>
  BY <1>2
<1> QED
  BY <1>1, <1>2, <1>3 DEF StackOK, Top

\* The round leaves the stack empty, with one state, or with BODY above another.
LEMMA Emptied ==
  ASSUME StackOK, Top \notin Above, stack' = Popped \o <<>>
  PROVE  StackOK' /\ stack' = <<>> /\ Top' = "START"
<1>1. stack' = <<>>
  BY PoppedProperties
<1> QED
  BY <1>1 DEF StackOK, Top

LEMMA Single ==
  ASSUME StackOK, Top \notin Above, NEW s \in States, s \notin Above, stack' = Popped \o <<s>>
  PROVE  StackOK' /\ stack' = <<s>> /\ Top' = s
<1>1. stack' = <<s>>
  BY PoppedProperties
<1> QED
  BY <1>1, StackOfOne

LEMMA BodyAbove ==
  ASSUME StackOK, Top \notin Above, NEW s \in Below, stack' = Popped \o <<s, "BODY">>
  PROVE  StackOK' /\ stack' = <<s, "BODY">> /\ Top' = "BODY"
<1>1. stack' = <<s, "BODY">>
  BY PoppedProperties
<1>2. "BODY" \in Above
  BY DEF Above
<1> QED
  BY <1>1, <1>2, StackOfTwo

LEMMA OneAboveAnother ==
  ASSUME NEW s \in States, NEW t \in States
  PROVE  <<s>> \o <<t>> = <<s, t>>
<1> DEFINE a == <<s>>
           b == <<t>>
           c == a \o b
           d == <<s, t>>
<1>1. a \in Seq(States) /\ Len(a) = 1 /\ a[1] = s
  OBVIOUS
<1>2. b \in Seq(States) /\ Len(b) = 1 /\ b[1] = t
  OBVIOUS
<1>3. d \in Seq(States) /\ Len(d) = 2 /\ d[1] = s /\ d[2] = t
  OBVIOUS
<1> HIDE DEF a, b, d
<1>4. c \in Seq(States) /\ Len(c) = 2 /\ c[1] = s /\ c[2] = t
  BY <1>1, <1>2, ConcatProperties, SMTT(30)
<1> HIDE DEF c
<1>5. \A i \in 1 .. Len(c) : c[i] = d[i]
  BY <1>3, <1>4
<1>6. c = d
  BY <1>3, <1>4, <1>5, SeqEqual
<1> QED
  BY <1>6 DEF a, b, c, d

\* BODY is popped, or replaced by FAILURE.
LEMMA BodyPopped ==
  ASSUME StackOK, Top \in Above, stack' = Popped \o <<>>
  PROVE  StackOK' /\ stack' = <<stack[1]>> /\ Top' = stack[1] /\ stack[1] \in Below
<1>1. stack' = <<stack[1]>> /\ stack[1] \in Below
  BY PoppedProperties
<1>2. stack[1] \in States /\ stack[1] \notin Above
  BY <1>1 DEF Below, Above, States
<1> QED
  BY <1>1, <1>2, StackOfOne

LEMMA FailureAbove ==
  ASSUME StackOK, Top \in Above, stack' = Popped \o <<"FAILURE">>
  PROVE  StackOK' /\ stack' = <<stack[1], "FAILURE">> /\ Top' = "FAILURE"
<1>1. Popped = <<stack[1]>> /\ stack[1] \in Below
  BY PoppedProperties
<1>2. stack[1] \in States /\ "FAILURE" \in States
  BY <1>1 DEF Below, States
<1>4. <<stack[1]>> \o <<"FAILURE">> = <<stack[1], "FAILURE">>
  BY <1>2, OneAboveAnother
<1>3. "FAILURE" \in Above
  BY DEF Above
<1> QED
  BY <1>1, <1>3, <1>4, StackOfTwo
-----------------------------------------------------------------------------
(* The rounds of the parser.                                               *)

\* What the dechunk stream holds outlasts all rounds but its own.
LEMMA ChunksKept ==
  ASSUME Chunks, at # "dechunk", UNCHANGED dstream,
         stack' = <<>> \/ stack'[1] # "BODY_CHUNKED" \/ (stack # <<>> /\ stack'[1] = stack[1])
  PROVE  Chunks'
<1>1. ~running /\ ~running'
  BY DEF Chunks, dstream
<1>2. ASSUME stack' # <<>>, stack'[1] = "BODY_CHUNKED" PROVE Decoded'
  <2>1. ~zeroed /\ Waiting(dbuffer, hexlen, Len(dbuffer))
    BY <1>1, <1>2 DEF Chunks, Decoded
  <2>2. zeroed' = zeroed /\ dbuffer' = dbuffer /\ hexlen' = hexlen
    BY DEF dstream
  <2> QED
    BY <2>1, <2>2 DEF Decoded
<1> QED
  BY <1>1, <1>2 DEF Chunks

\* A round that leaves the dechunk stream alone.
LEMMA RoundInv ==
  ASSUME ParserInv, at = "loop", at' \in {"loop", "idle"}, UNCHANGED dstream,
         buffer' \in Seq(Token), body_length' \in Nat, cut' \in Nat, StackOK',
         Top' = "FAILURE" => buffer' # <<>>,
         at' = "loop" /\ Top' = "BODY" /\ str' # <<>> => buffer' # <<>>,
         stack' = <<>> \/ stack'[1] # "BODY_CHUNKED" \/ (stack # <<>> /\ stack'[1] = stack[1])
  PROVE  ParserInv'
<1>1. Texts'
  BY DEF ParserInv, Texts, dstream
<1>2. DataKept'
  BY DEF DataKept
<1>3. Chunks'
  BY ChunksKept DEF ParserInv
<1> QED
  BY <1>1, <1>2, <1>3 DEF ParserInv

\* The same for a round in which a single state follows the one popped.
LEMMA NextState ==
  ASSUME ParserInv, at = "loop", at' \in {"loop", "idle"}, Top \notin Above, UNCHANGED dstream,
         buffer' \in Seq(Token), body_length' \in Nat, cut' \in Nat,
         NEW s \in States \ {"BODY", "FAILURE", "BODY_CHUNKED"}, stack' = Popped \o <<s>>
  PROVE  ParserInv'
<1>1. s \in States /\ s \notin Above
  BY DEF Above
<1>2. StackOK' /\ stack' = <<s>> /\ Top' = s
  BY <1>1, Single DEF ParserInv
<1>3. stack'[1] # "BODY_CHUNKED"
  BY <1>2
<1> QED
  BY <1>2, <1>3, RoundInv

\* The same for a round after which the stack is empty.
LEMMA NoState ==
  ASSUME ParserInv, at = "loop", at' \in {"loop", "idle"}, Top \notin Above, UNCHANGED dstream,
         buffer' \in Seq(Token), body_length' \in Nat, cut' \in Nat, stack' = Popped \o <<>>
  PROVE  ParserInv'
<1>1. StackOK' /\ stack' = <<>> /\ Top' = "START"
  BY Emptied DEF ParserInv
<1> QED
  BY <1>1, RoundInv

LEMMA HeaderInv ==
  ASSUME ParserInv, NEW n \in 0 .. Len(buffer), NEW m \in n .. Len(buffer),
         HeaderComplete(n) \/ HeaderIncomplete(n) \/ HeaderFails(n, m)
  PROVE  ParserInv'
<1>1. buffer \in Seq(Token) /\ body_length \in Nat /\ cut \in Nat /\ n \in Nat
  BY LenProperties DEF ParserInv, Texts
<1>2. at = "loop" /\ Top = "HEADER" /\ UNCHANGED dstream /\ body_length' = body_length /\ cut' = cut
  BY DEF HeaderComplete, HeaderIncomplete, HeaderFails, Round, locals
<1>3. Top \notin Above
  BY <1>2 DEF Above
<1>4. "HEADER_DONE" \in States \ {"BODY", "FAILURE", "BODY_CHUNKED"}
      /\ "HEADER" \in States \ {"BODY", "FAILURE", "BODY_CHUNKED"}
  BY DEF States
<1>5. buffer' \in Seq(Token)
  <2>1. buffer' = Cut(buffer, n) \/ buffer' = Cut(buffer, n + 1)
    BY DEF HeaderComplete, HeaderIncomplete, HeaderFails
  <2>2. n + 1 \in Nat
    BY <1>1
  <2> QED
    BY <1>1, <2>1, <2>2, CutProperties
<1>6. CASE HeaderComplete(n)
  <2>1. at' = "loop" /\ stack' = Popped \o <<"HEADER_DONE">>
    BY <1>2, <1>6 DEF HeaderComplete, Push
  <2> QED
    BY <1>1, <1>2, <1>3, <1>4, <1>5, <2>1, NextState
<1>7. CASE HeaderIncomplete(n)
  <2>1. \/ at' = "loop" /\ stack' = Popped \o <<"HEADER_DONE">>
        \/ at' = "idle" /\ stack' = Popped \o <<"HEADER">>
    BY <1>2, <1>7 DEF HeaderIncomplete, Push, Return
  <2> QED
    BY <1>1, <1>2, <1>3, <1>4, <1>5, <2>1, NextState
<1>8. CASE HeaderFails(n, m)
  <2>1. at' = "idle" /\ stack' = Popped \o <<>>
    BY <1>2, <1>8 DEF HeaderFails, Return
  <2> QED
    BY <1>1, <1>2, <1>3, <1>5, <2>1, NoState
<1> QED
  BY <1>6, <1>7, <1>8

LEMMA FollowsInv ==
  ASSUME ParserInv,
         \/ SkipBody \/ DumbFollows \/ NoBodyFollows
         \/ \E n \in 0 .. ULONG_MAX : LengthFollows(n)
  PROVE  ParserInv'
<1>1. buffer \in Seq(Token) /\ body_length \in Nat /\ cut \in Nat
  BY DEF ParserInv, Texts
<1>2. /\ at = "loop" /\ Top = "HEADER_DONE" /\ at' = at /\ UNCHANGED dstream
      /\ buffer' = buffer /\ cut' = cut
  BY DEF SkipBody, DumbFollows, NoBodyFollows, LengthFollows, BodyFollows, Round, Push, locals
<1>3. body_length' \in Nat
  BY <1>1, MessageParserAssumption
     DEF SkipBody, DumbFollows, NoBodyFollows, LengthFollows
<1>4. PICK s \in {"DONE", "BODY_DUMB", "BODY_DONE", "BODY_LENGTH"} : stack' = Popped \o <<s>>
  BY DEF SkipBody, DumbFollows, NoBodyFollows, LengthFollows, Push
<1>5. s \in States \ {"BODY", "FAILURE", "BODY_CHUNKED"}
  BY DEF States
<1>6. Top \notin Above
  BY <1>2 DEF Above
<1> QED
  BY <1>1, <1>2, <1>3, <1>4, <1>5, <1>6, NextState

LEMMA ChunksFollowInv == ASSUME ParserInv, ChunksFollow PROVE ParserInv'
<1>1. /\ at = "loop" /\ Top = "HEADER_DONE" /\ at' = at /\ buffer' = buffer /\ cut' = cut
      /\ body_length' = body_length /\ flush_full' = flush_full
      /\ stack' = Popped \o <<"BODY_CHUNKED">>
      /\ dbuffer' = <<>> /\ hexlen' = 0 /\ ~zeroed' /\ ~running'
  BY DEF ChunksFollow, BodyFollows, Round, Push, locals
<1>2. StackOK' /\ Top' = "BODY_CHUNKED"
  <2>1. Top \notin Above /\ "BODY_CHUNKED" \in States /\ "BODY_CHUNKED" \notin Above
    BY <1>1 DEF Above, States
  <2> QED
    BY <1>1, <2>1, Single DEF ParserInv
<1>3. Texts'
  BY <1>1 DEF ParserInv, Texts
<1>4. DataKept'
  BY <1>1, <1>2 DEF DataKept
<1>5. Chunks'
  BY <1>1 DEF Chunks, Decoded, Waiting
<1> QED
  BY <1>2, <1>3, <1>4, <1>5 DEF ParserInv

LEMMA BodyInv ==
  ASSUME ParserInv, (\E text, seen : Body(text, seen)) \/ BodyFails
  PROVE  ParserInv'
<1>1. buffer \in Seq(Token) /\ body_length \in Nat /\ cut \in Nat
  BY DEF ParserInv, Texts
<1>2. at = "loop" /\ Top = "BODY" /\ UNCHANGED dstream /\ body_length' = body_length
  BY DEF Body, BodyFails, Round
<1>3. Top \in Above
  BY <1>2 DEF Above
<1>4. stack # <<>>
  BY <1>3, PoppedProperties DEF ParserInv
<1>5. CASE \E text, seen : Body(text, seen)
  <2>1. /\ buffer' = Cut(buffer, cut) /\ cut' = 0 /\ stack' = Popped \o <<>> /\ at' = at
        /\ str' = <<>>
    BY <1>5 DEF Body, Push
  <2>2. StackOK' /\ stack' = <<stack[1]>> /\ Top' = stack[1] /\ stack[1] \in Below
    BY <1>3, <2>1, BodyPopped DEF ParserInv
  <2>3. buffer' \in Seq(Token)
    BY <1>1, <2>1, CutProperties
  <2>4. Top' # "FAILURE" /\ stack'[1] = stack[1]
    BY <2>2 DEF Below
  <2> QED
    BY <1>1, <1>2, <1>4, <2>1, <2>2, <2>3, <2>4, RoundInv
<1>6. CASE BodyFails
  <2>1. /\ buffer' = buffer /\ cut' = cut /\ stack' = Popped \o <<"FAILURE">> /\ at' = "idle"
        /\ str # <<>>
    BY <1>6 DEF BodyFails, InflateFails, Return, locals
  <2>2. buffer # <<>>
    BY <1>2, <2>1 DEF ParserInv, DataKept
  <2>3. StackOK' /\ stack' = <<stack[1], "FAILURE">> /\ Top' = "FAILURE"
    BY <1>3, <2>1, FailureAbove DEF ParserInv
  <2>4. stack'[1] = stack[1]
    BY <2>3
  <2> QED
    BY <1>1, <1>2, <1>4, <2>1, <2>2, <2>3, <2>4, RoundInv
<1> QED
  BY <1>5, <1>6

LEMMA ReadInv == ASSUME ParserInv, BodyDumb \/ BodyLength PROVE ParserInv'
<1>1. buffer \in Seq(Token) /\ body_length \in Nat /\ Len(buffer) \in Nat
  BY LenProperties DEF ParserInv, Texts
<1>2. /\ at = "loop" /\ at' = at /\ Top \notin Above /\ buffer # <<>>
      /\ UNCHANGED dstream /\ buffer' = buffer
  BY DEF BodyDumb, BodyLength, Round, NeedData, Push, Above
<1>3. PICK s \in {"BODY_DONE", "BODY_LENGTH"} : stack' = Popped \o <<s, "BODY">>
  BY DEF BodyDumb, BodyLength, Push
<1>4. StackOK' /\ stack' = <<s, "BODY">> /\ Top' = "BODY"
  <2>1. s \in Below
    BY DEF Below
  <2> QED
    BY <1>2, <1>3, <2>1, BodyAbove DEF ParserInv
<1>5. body_length' \in Nat /\ cut' \in Nat
  BY <1>1 DEF BodyDumb, BodyLength, Least
<1>6. stack'[1] # "BODY_CHUNKED"
  BY <1>4
<1> QED
  BY <1>1, <1>2, <1>4, <1>5, <1>6, RoundInv

LEMMA BodyDoneInv == ASSUME ParserInv, BodyDone PROVE ParserInv'
<1>1. /\ at = "loop" /\ at' = at /\ Top = "BODY_DONE" /\ stack' = Popped \o <<"DONE">>
      /\ dbuffer' = <<>> /\ hexlen' = 0 /\ zeroed' = FALSE /\ flush_full' = flush_full
      /\ running' = running /\ buffer' = buffer /\ body_length' = body_length /\ cut' = cut
  BY DEF BodyDone, Round, Push, locals
<1>2. StackOK' /\ stack' = <<"DONE">> /\ Top' = "DONE"
  <2>1. Top \notin Above /\ "DONE" \in States /\ "DONE" \notin Above
    BY <1>1 DEF Above, States
  <2> QED
    BY <1>1, <2>1, Single DEF ParserInv
<1>3. Texts'
  BY <1>1 DEF ParserInv, Texts
<1>4. DataKept'
  BY <1>1, <1>2 DEF DataKept
<1>5. Chunks'
  <2>1. ~running'
    BY <1>1 DEF ParserInv, Chunks
  <2>2. stack'[1] # "BODY_CHUNKED"
    BY <1>2
  <2> QED
    BY <2>1, <2>2 DEF Chunks
<1> QED
  BY <1>2, <1>3, <1>4, <1>5 DEF ParserInv

\* Rounds that end a message or begin one, or return at once.
LEMMA EdgeInv ==
  ASSUME ParserInv, OutOfData \/ Failed \/ Start \/ Done
  PROVE  ParserInv'
<1>1. buffer \in Seq(Token) /\ body_length \in Nat /\ cut \in Nat
  BY DEF ParserInv, Texts
<1>2. /\ at = "loop" /\ at' \in {"loop", "idle"} /\ UNCHANGED dstream
      /\ body_length' = body_length /\ cut' = cut
  BY DEF OutOfData, Failed, Start, Done, Round, Push, Return, locals
<1>3. CASE OutOfData
  <2>1. buffer' = buffer /\ stack' = stack /\ Top' = Top /\ Top \in NeedData /\ at' = "idle"
    BY <1>3 DEF OutOfData, Top
  <2>2. StackOK'
    BY <2>1 DEF ParserInv, StackOK
  <2>3. Top # "FAILURE"
    BY <2>1 DEF NeedData
  <2> QED
    BY <1>1, <1>2, <2>1, <2>2, <2>3, RoundInv
<1>4. CASE Failed
  <2>1. buffer' = buffer /\ at' = "idle" /\ Top = "FAILURE" /\ stack' = Popped \o <<"FAILURE">>
    BY <1>4 DEF Failed, Round, Return
  <2>2. Top \in Above
    BY <2>1 DEF Above
  <2>3. StackOK' /\ stack' = <<stack[1], "FAILURE">> /\ stack # <<>>
    BY <2>1, <2>2, FailureAbove, PoppedProperties, SMTT(30) DEF ParserInv
  <2>4. buffer # <<>>
    BY <2>1 DEF ParserInv, DataKept
  <2>5. stack'[1] = stack[1]
    BY <2>3
  <2> QED
    BY <1>1, <1>2, <2>1, <2>3, <2>4, <2>5, RoundInv
<1>5. ASSUME Start \/ Done PROVE ParserInv'
  <2>1. Top \notin Above
    BY <1>5 DEF Start, Done, Round, Above
  <2>2. buffer' \in Seq(Token)
    <3>1. PICK n \in 0 .. Len(buffer) : buffer' = Cut(buffer, n)
      BY <1>5 DEF Start, Done, SkipSpace
    <3>2. n \in Nat
      BY <1>1, LenProperties
    <3> QED
      BY <1>1, <3>1, <3>2, CutProperties
  <2>3. stack' = Popped \o <<>> \/ stack' = Popped \o <<"HEADER">>
    BY <1>5 DEF Start, Done, Push, Return
  <2>4. "HEADER" \in States \ {"BODY", "FAILURE", "BODY_CHUNKED"}
    BY DEF States
  <2> QED
    BY <1>1, <1>2, <2>1, <2>2, <2>3, <2>4, NoState, NextState
<1> QED
  BY <1>3, <1>4, <1>5
-----------------------------------------------------------------------------
(* Chunks.                                                                 *)

\* The buffer is passed to the dechunk stream, which waits for it.
LEMMA BodyChunkedInv == ASSUME ParserInv, BodyChunked PROVE ParserInv'
<1>1. /\ at = "loop" /\ Top = "BODY_CHUNKED" /\ buffer # <<>> /\ at' = "dechunk" /\ stack' = stack
      /\ buffer' = buffer /\ body_length' = body_length /\ cut' = cut
      /\ hexlen' = hexlen /\ zeroed' = zeroed /\ flush_full' = flush_full
  BY DEF BodyChunked, Round, NeedData, Dechunk!Update, locals
<1>2. stack # <<>> /\ Len(stack) = 1 /\ stack[1] = "BODY_CHUNKED"
  <2>1. Top \notin Above /\ Top # "START"
    BY <1>1 DEF Above
  <2> QED
    BY <1>1, <2>1, PoppedProperties DEF ParserInv, Top
<1>3. ~running /\ ~zeroed /\ Waiting(dbuffer, hexlen, Len(dbuffer))
  BY <1>1, <1>2 DEF ParserInv, Chunks, Decoded
<1>4. dbuffer' = dbuffer \o buffer
  BY <1>3 DEF BodyChunked, Dechunk!Update
<1>5. buffer \in Seq(Token) /\ dbuffer \in Seq(Token) /\ Len(buffer) \in Nat /\ Len(dbuffer) \in Nat
  BY LenProperties DEF ParserInv, Texts
<1>6. Texts'
  BY <1>1, <1>4, <1>5, ConcatProperties DEF ParserInv, Texts
<1>7. StackOK' /\ Top' = Top
  BY <1>1 DEF ParserInv, StackOK, Top
<1>8. DataKept'
  BY <1>1, <1>2, <1>7 DEF DataKept
<1>9. Decoding'
  <2>1. Aligned(dbuffer', buffer')
    BY <1>1, <1>4, <1>5, ConcatAligned
  <2>2. Len(dbuffer') - Len(buffer') = Len(dbuffer)
    BY <1>1, <1>4, <1>5, ConcatProperties
  <2>3. \A i \in 1 .. Len(dbuffer) : dbuffer'[i] = dbuffer[i]
    BY <1>4, <1>5, ConcatProperties
  <2>4. Waiting(dbuffer', hexlen', Len(dbuffer))
    BY <1>1, <1>3, <2>3 DEF Waiting
  <2> QED
    BY <2>1, <2>2, <2>4 DEF Decoding
<1>10. Chunks'
  BY <1>1, <1>2, <1>3, <1>9, PoppedProperties DEF Chunks, BodyChunked, Dechunk!Update
<1> QED
  BY <1>6, <1>7, <1>8, <1>10 DEF ParserInv

\* A round of the dechunk stream needs to be shown only what it changes.
LEMMA DechunkRoundShape ==
  ASSUME ParserInv, DechunkRound,
         dbuffer' \in Seq(Token), hexlen' \in Nat, flush_full' = FALSE,
         (running' /\ ~zeroed' /\ Decoding') \/ (~running' /\ Decoded')
  PROVE  ParserInv'
<1>1. at = "dechunk" /\ at' = at /\ buffer' = buffer /\ stack' = stack /\ cut' = cut /\ body_length' = body_length
  BY DEF DechunkRound, locals
<1>2. Texts'
  BY <1>1 DEF ParserInv, Texts
<1>3. StackOK' /\ Top' = Top
  BY <1>1 DEF ParserInv, StackOK, Top
<1>4. DataKept'
  BY <1>1, <1>3 DEF ParserInv, DataKept
<1>5. Chunks'
  BY <1>1 DEF Chunks
<1> QED
  BY <1>2, <1>3, <1>4, <1>5 DEF ParserInv

\* Behind the first line end, nothing is left that is not in the buffer too.
LEMMA LineEndCut ==
  ASSUME NEW d \in Seq(Token), NEW b \in Seq(Token), NEW i \in 1 .. Len(d),
         Aligned(d, b), Len(d) <= Len(b) \/ Waiting(d, 0, Len(d) - Len(b)),
         d[i] \in Dechunk!Eol, NEW n \in Nat, i <= n, n <= Len(d)
  PROVE  Aligned(Cut(d, n), b) /\ Len(Cut(d, n)) <= Len(b)
<1>1. Len(d) \in Nat /\ Len(b) \in Nat
  BY LenProperties
<1>2. Len(Cut(d, n)) = Len(d) - n
  BY <1>1, CutProperties
<1>3. Len(d) <= Len(b) \/ Len(d) - Len(b) < i
  <2>1. CASE Waiting(d, 0, Len(d) - Len(b))
    BY <1>1, <2>1 DEF Waiting
  <2> QED
    BY <2>1
<1> QED
  BY <1>1, <1>2, <1>3, CutAligned

\* Line ends that are cut off, behind which there is nothing or more of the text.
LEMMA LeftCut ==
  ASSUME NEW size, NEW rest \in Seq(Token), NEW b \in Seq(Token), NEW left,
         Aligned(rest, b), Len(rest) <= Len(b), Dechunk!Left(size, rest, left)
  PROVE  left \in Seq(Token) /\ Aligned(left, b) /\ Len(left) <= Len(b)
<1>1. Len(rest) \in Nat /\ Len(b) \in Nat
  BY LenProperties
<1>2. CASE size # 0
  BY <1>2 DEF Dechunk!Left
<1>3. CASE size = 0
  <2>1. PICK k \in 0 .. Len(rest) : left = Cut(rest, k)
    BY <1>3 DEF Dechunk!Left, Dechunk!Cut, Cut
  <2>2. k \in Nat /\ k <= Len(rest)
    BY <1>1
  <2>3. Cut(rest, k) \in Seq(Token) /\ Len(Cut(rest, k)) = Len(rest) - k
    BY <2>2, CutProperties
  <2> QED
    BY <1>1, <2>1, <2>2, <2>3, CutAligned
<1> QED
  BY <1>2, <1>3

LEMMA SizeReadInv ==
  ASSUME ParserInv, DechunkRound, NEW n \in 0 .. Len(dbuffer), NEW size \in 0 .. ULONG_MAX,
         Dechunk!SizeRead(n, size)
  PROVE  ParserInv'
<1>1. /\ buffer \in Seq(Token) /\ dbuffer \in Seq(Token)
      /\ Len(buffer) \in Nat /\ Len(dbuffer) \in Nat /\ flush_full = FALSE
  BY LenProperties DEF ParserInv, Texts
<1>2. at = "dechunk" /\ at' = at /\ buffer' = buffer
  BY DEF DechunkRound
<1>3. running /\ hexlen = 0 /\ hexlen' = size /\ n < Len(dbuffer)
  BY DEF Dechunk!SizeRead, Dechunk!Round, Dechunk!WaitFor
<1>4. Aligned(dbuffer, buffer) /\ ~zeroed
      /\ (Len(dbuffer) <= Len(buffer) \/ Waiting(dbuffer, 0, Len(dbuffer) - Len(buffer)))
  BY <1>3 DEF ParserInv, Chunks, Decoding
<1>5. PICK i \in n + 1 .. Len(dbuffer) :
        /\ Dechunk!EolAt(Dechunk!Cut(dbuffer, n), i - n)
        /\ Dechunk!Left(size, Dechunk!Cut(dbuffer, i - 1 + Dechunk!EolLen(dbuffer, i)), dbuffer')
  BY DEF Dechunk!SizeRead
<1>6. dbuffer[i] \in Dechunk!Eol
  <2>1. Cut(dbuffer, n)[i - n] \in Dechunk!Eol
    BY <1>5 DEF Dechunk!EolAt, Dechunk!Cut, Cut
  <2>2. n \in Nat /\ i - n \in 1 .. Len(dbuffer) - n /\ n + (i - n) = i
    BY <1>1
  <2>3. Cut(dbuffer, n)[i - n] = dbuffer[n + (i - n)]
    BY <1>1, <2>2, CutProperties
  <2> QED
    BY <2>1, <2>2, <2>3
<1> DEFINE m == i - 1 + Dechunk!EolLen(dbuffer, i)
           rest == Cut(dbuffer, m)
<1>7. m \in Nat /\ i <= m /\ m <= Len(dbuffer) /\ i \in 1 .. Len(dbuffer)
  BY <1>1 DEF Dechunk!EolLen
<1>8. rest \in Seq(Token) /\ Aligned(rest, buffer) /\ Len(rest) <= Len(buffer)
  <2> HIDE DEF m
  <2> QED
    BY <1>1, <1>4, <1>6, <1>7, CutProperties, LineEndCut
<1>9. dbuffer' \in Seq(Token) /\ Aligned(dbuffer', buffer) /\ Len(dbuffer') <= Len(buffer)
  <2>1. Dechunk!Left(size, rest, dbuffer')
    BY <1>5 DEF Dechunk!Cut, Cut
  <2> HIDE DEF rest
  <2> QED
    BY <1>1, <1>8, <2>1, LeftCut
<1>10. hexlen' \in Nat /\ flush_full' = FALSE
  <2>1. flush_full' = flush_full
    BY DEF Dechunk!SizeRead, Dechunk!Continue, Dechunk!Return
  <2>2. size \in Nat
    BY MessageParserAssumption
  <2> QED
    BY <1>1, <1>3, <2>1, <2>2
<1>11. CASE size # 0
  <2>1. running' /\ ~zeroed'
    BY <1>3, <1>4, <1>11 DEF Dechunk!SizeRead, Dechunk!Continue
  <2> QED
    BY <1>2, <1>9, <1>10, <2>1, DechunkRoundShape DEF Decoding
<1>12. CASE size = 0
  <2>1. ~running' /\ zeroed'
    BY <1>12 DEF Dechunk!SizeRead, Dechunk!Return
  <2> QED
    BY <1>2, <1>9, <1>10, <2>1, DechunkRoundShape DEF Decoded
<1> QED
  BY <1>11, <1>12

LEMMA DechunkRoundInv == ASSUME ParserInv, DechunkRound PROVE ParserInv'
<1>1. /\ buffer \in Seq(Token) /\ dbuffer \in Seq(Token) /\ hexlen \in Nat
      /\ Len(buffer) \in Nat /\ Len(dbuffer) \in Nat /\ flush_full = FALSE
  BY LenProperties DEF ParserInv, Texts
<1>2. at = "dechunk" /\ at' = at /\ buffer' = buffer /\ Dechunk!Loop
  BY DEF DechunkRound
<1>3. running => ~zeroed /\ Decoding
  BY DEF ParserInv, Chunks
<1>4. CASE Dechunk!BufferEmpty
  <2>1. /\ running /\ dbuffer = <<>> /\ dbuffer' = dbuffer /\ hexlen' = hexlen /\ zeroed' = zeroed
        /\ ~running' /\ flush_full' = flush_full
    BY <1>4 DEF Dechunk!BufferEmpty, Dechunk!Return, Dechunk!ctx
  <2>2. Waiting(dbuffer', hexlen', Len(dbuffer'))
    BY <1>1, <2>1 DEF Waiting
  <2> QED
    BY <1>1, <1>3, <2>1, <2>2, DechunkRoundShape DEF Decoded
<1>5. CASE Dechunk!ChunkIncomplete
  <2>1. /\ running /\ Len(dbuffer) < hexlen /\ dbuffer' = dbuffer /\ hexlen' = hexlen
        /\ zeroed' = zeroed /\ ~running' /\ flush_full' = flush_full
    BY <1>5 DEF Dechunk!ChunkIncomplete, Dechunk!Round, Dechunk!Return, Dechunk!ctx
  <2>2. Waiting(dbuffer', hexlen', Len(dbuffer'))
    BY <1>1, <2>1 DEF Waiting
  <2> QED
    BY <1>1, <1>3, <2>1, <2>2, DechunkRoundShape DEF Decoded
<1>6. CASE Dechunk!ChunkFlush
  BY <1>1, <1>6 DEF Dechunk!ChunkFlush
<1>7. CASE Dechunk!ChunkComplete
  <2>1. /\ running /\ hexlen # 0 /\ hexlen <= Len(dbuffer) /\ dbuffer' = Cut(dbuffer, hexlen)
        /\ hexlen' = 0 /\ zeroed' = zeroed /\ running' = running /\ flush_full' = flush_full
    BY <1>7 DEF Dechunk!ChunkComplete, Dechunk!Round, Dechunk!Continue, Dechunk!Cut, Cut
  <2>2. Aligned(dbuffer, buffer) /\ Len(dbuffer) - Len(buffer) < hexlen
    BY <1>1, <1>3, <2>1 DEF Decoding, Waiting
  <2>3. dbuffer' \in Seq(Token) /\ Len(dbuffer') = Len(dbuffer) - hexlen
    BY <1>1, <2>1, CutProperties
  <2>4. Aligned(dbuffer', buffer) /\ Len(dbuffer') <= Len(buffer)
    BY <1>1, <2>1, <2>2, <2>3, CutAligned
  <2> QED
    BY <1>1, <1>2, <1>3, <2>1, <2>3, <2>4, DechunkRoundShape DEF Decoding
<1>8. ASSUME NEW n \in 0 .. Len(dbuffer), Dechunk!SkipEols(n) PROVE ParserInv'
  <2>1. /\ running /\ dbuffer' = <<>> /\ hexlen' = hexlen /\ zeroed' = zeroed
        /\ running' = running /\ flush_full' = flush_full
    BY <1>8 DEF Dechunk!SkipEols, Dechunk!Round, Dechunk!Continue
  <2>2. Aligned(dbuffer', buffer) /\ Len(dbuffer') <= Len(buffer) /\ dbuffer' \in Seq(Token)
    BY <1>1, <2>1 DEF Aligned
  <2> QED
    BY <1>1, <1>2, <1>3, <2>1, <2>2, DechunkRoundShape DEF Decoding
<1>9. ASSUME NEW n \in 0 .. Len(dbuffer), Dechunk!SizeIncomplete(n) PROVE ParserInv'
  <2>1. /\ running /\ hexlen = 0 /\ dbuffer' = Cut(dbuffer, n) /\ hexlen' = hexlen
        /\ zeroed' = zeroed /\ ~running' /\ flush_full' = flush_full
        /\ \A i \in n + 1 .. Len(dbuffer) : dbuffer[i] \notin Dechunk!Eol
    BY <1>9 DEF Dechunk!SizeIncomplete, Dechunk!Round, Dechunk!Return, Dechunk!Cut, Cut
  <2>2. n \in Nat /\ n <= Len(dbuffer)
    BY <1>1
  <2>3. /\ dbuffer' \in Seq(Token) /\ Len(dbuffer') = Len(dbuffer) - n
        /\ \A i \in 1 .. Len(dbuffer) - n : dbuffer'[i] = dbuffer[n + i]
    <3>1. /\ Cut(dbuffer, n) \in Seq(Token) /\ Len(Cut(dbuffer, n)) = Len(dbuffer) - n
          /\ \A i \in 1 .. Len(dbuffer) - n : Cut(dbuffer, n)[i] = dbuffer[n + i]
      BY <1>1, <2>2, CutProperties
    <3> QED
      BY <2>1, <3>1
  <2>4. \A i \in 1 .. Len(dbuffer') : dbuffer'[i] \notin Dechunk!Eol
    <3> SUFFICES ASSUME NEW i \in 1 .. Len(dbuffer') PROVE dbuffer'[i] \notin Dechunk!Eol
      OBVIOUS
    <3>1. n + i \in n + 1 .. Len(dbuffer)
      BY <1>1, <2>2, <2>3
    <3> QED
      BY <2>1, <2>3, <3>1
  <2>5. Waiting(dbuffer', hexlen', Len(dbuffer'))
    BY <2>1, <2>4 DEF Waiting
  <2> QED
    BY <1>1, <1>3, <2>1, <2>3, <2>5, DechunkRoundShape DEF Decoded
<1>10. ASSUME NEW n \in 0 .. Len(dbuffer), Dechunk!SizeInvalid(n) PROVE ParserInv'
  <2>1. /\ running /\ dbuffer' = Cut(dbuffer, n) /\ hexlen' = hexlen /\ zeroed' = zeroed
        /\ ~running' /\ rc' = "FAILURE" /\ flush_full' = flush_full
    BY <1>10 DEF Dechunk!SizeInvalid, Dechunk!Round, Dechunk!Return, Dechunk!Cut, Cut
  <2>2. dbuffer' \in Seq(Token)
    BY <1>1, <2>1, CutProperties
  <2> QED
    BY <1>1, <1>2, <1>3, <2>1, <2>2, DechunkRoundShape DEF Decoded
<1> QED
  BY <1>2, <1>4, <1>5, <1>6, <1>7, <1>8, <1>9, <1>10, SizeReadInv DEF Dechunk!Loop

\* The dechunk stream returns.
LEMMA DechunkedInv == ASSUME ParserInv, DechunkFails \/ Dechunked PROVE ParserInv'
<1>1. /\ at = "dechunk" /\ ~running /\ running' = running /\ buffer' = buffer
      /\ body_length' = body_length /\ dbuffer' = dbuffer /\ hexlen' = hexlen
      /\ zeroed' = zeroed /\ flush_full' = flush_full
  BY DEF DechunkFails, Dechunked, dstream
<1>2. Len(stack) = 1 /\ Top = "BODY_CHUNKED" /\ buffer # <<>>
  BY <1>1 DEF ParserInv, DataKept
<1>3. Top \notin Above /\ stack # <<>> /\ stack[1] = "BODY_CHUNKED"
  BY <1>2, EmptySeq, PoppedProperties DEF ParserInv, Above
<1>4. CASE DechunkFails
  <2>1. at' = "idle" /\ stack' = Popped \o <<>> /\ cut' = cut
    BY <1>4 DEF DechunkFails, Return, locals
  <2>2. StackOK' /\ stack' = <<>> /\ Top' = "START"
    BY <1>3, <2>1, Emptied DEF ParserInv
  <2>3. Texts'
    BY <1>1, <2>1 DEF ParserInv, Texts
  <2>4. DataKept' /\ Chunks'
    BY <1>1, <2>1, <2>2 DEF DataKept, Chunks
  <2> QED
    BY <2>2, <2>3, <2>4 DEF ParserInv
<1>5. CASE Dechunked
  <2>1. rc = "SUCCESS" /\ at' = "loop"
        /\ cut' = IF zeroed THEN Len(buffer) - Len(dbuffer) ELSE Len(buffer)
    BY <1>5 DEF Dechunked
  <2>2. PICK s \in Below : /\ s = "BODY_CHUNKED" => ~zeroed
                           /\ stack' = Popped \o <<s, "BODY">>
    BY <1>5 DEF Dechunked, Below
  <2>3. StackOK' /\ stack' = <<s, "BODY">> /\ Top' = "BODY"
    BY <1>3, <2>2, BodyAbove DEF ParserInv
  <2>4. \/ ~zeroed /\ Waiting(dbuffer, hexlen, Len(dbuffer))
        \/ zeroed /\ Len(dbuffer) <= Len(buffer)
    BY <1>1, <1>3, <2>1 DEF ParserInv, Chunks, Decoded
  <2>5. cut' \in Nat
    <3>1. Len(buffer) \in Nat /\ Len(dbuffer) \in Nat
      BY LenProperties DEF ParserInv, Texts
    <3> QED
      BY <2>1, <2>4, <3>1
  <2>6. Texts'
    BY <1>1, <2>5 DEF ParserInv, Texts
  <2>7. DataKept'
    BY <1>1, <1>2, <2>1, <2>3 DEF DataKept
  <2>8. stack'[1] = s
    BY <2>3
  <2>9. Chunks'
    BY <1>1, <2>2, <2>4, <2>8 DEF Chunks, Decoded
  <2> QED
    BY <2>3, <2>6, <2>7, <2>9 DEF ParserInv
<1> QED
  BY <1>4, <1>5

LEMMA StepInv == ASSUME ParserInv, Step PROVE ParserInv'
<1>1. Len(buffer) \in Nat
  BY LenProperties DEF ParserInv, Texts
<1>2. \A n \in 0 .. Len(buffer) : n \in n .. Len(buffer)
  BY <1>1
<1>3. CASE \E n \in 0 .. Len(buffer) : HeaderComplete(n) \/ HeaderIncomplete(n)
  BY <1>2, <1>3, HeaderInv
<1>4. CASE \E n \in 0 .. Len(buffer) : \E m \in n .. Len(buffer) : HeaderFails(n, m)
  BY <1>4, HeaderInv
<1>5. CASE \E b \in 0 .. Len(str), a \in 0 .. 1, seen \in {"none", "fresh", "open", "ended"} :
             Body(SubSeq(str, a + 1, b), seen)
  BY <1>5, BodyInv
<1> QED
  BY <1>3, <1>4, <1>5, EdgeInv, FollowsInv, ChunksFollowInv, BodyInv, ReadInv, BodyChunkedInv,
     DechunkRoundInv, DechunkedInv, BodyDoneInv DEF Step

\* What parse() returns.
LEMMA StepReturns == ASSUME ParserInv, Step PROVE at # "idle" /\ (at' = "idle" => Returned(result)')
<1>1. CASE OutOfData
  BY <1>1 DEF OutOfData, NeedData, Returned
<1>2. CASE Failed
  BY <1>2 DEF Failed, Round, Return, Returned
<1>3. CASE Start
  BY <1>3 DEF Start, Round, Push
<1>4. ASSUME NEW n, HeaderComplete(n) \/ HeaderIncomplete(n)
      PROVE  at # "idle" /\ (at' = "idle" => Returned(result)')
  BY <1>4 DEF HeaderComplete, HeaderIncomplete, Round, Push, Return, Returned
<1>5. ASSUME NEW n, NEW m, HeaderFails(n, m)
      PROVE  at # "idle" /\ (at' = "idle" => Returned(result)')
  BY <1>5 DEF HeaderFails, Round, Return, Returned
<1>6. CASE \/ SkipBody \/ DumbFollows \/ NoBodyFollows \/ ChunksFollow
           \/ \E n \in 0 .. ULONG_MAX : LengthFollows(n)
  BY <1>6 DEF SkipBody, DumbFollows, NoBodyFollows, ChunksFollow, LengthFollows, BodyFollows,
              Round, Push
<1>7. ASSUME NEW text, NEW seen, Body(text, seen)
      PROVE  at # "idle" /\ (at' = "idle" => Returned(result)')
  BY <1>7 DEF Body, Round, Push
<1>8. CASE BodyFails
  BY <1>8 DEF BodyFails, Round, Return, Returned
<1>9. CASE BodyDumb \/ BodyLength \/ BodyDone
  BY <1>9 DEF BodyDumb, BodyLength, BodyDone, Round, Push
<1>10. CASE BodyChunked \/ DechunkRound \/ Dechunked
  BY <1>10 DEF BodyChunked, DechunkRound, Dechunked, Round
<1>11. CASE DechunkFails
  BY <1>11 DEF DechunkFails, Return, Returned
<1>12. CASE Done
  BY <1>12 DEF Done, Round, Push, Return, Returned
<1> QED
  BY <1>1, <1>2, <1>3, <1>4, <1>5, <1>6, <1>7, <1>8, <1>9, <1>10, <1>11, <1>12 DEF Step
-----------------------------------------------------------------------------
(* The sources.                                                            *)

\* Outside of parse(), the buffer may grow.
LEMMA AppendInv ==
  ASSUME ParserInv, at = "idle", at' \in {"idle", "loop"}, UNCHANGED <<stack, dstream>>,
         buffer' \in Seq(Token), buffer # <<>> => buffer' # <<>>,
         body_length' \in Nat, cut' \in Nat, at' = "loop" => str' = <<>>
  PROVE  ParserInv'
<1>1. Texts'
  BY DEF ParserInv, Texts, dstream
<1>2. StackOK' /\ Top' = Top
  BY DEF ParserInv, StackOK, Top
<1>3. DataKept'
  BY <1>2 DEF ParserInv, DataKept
<1>4. Chunks'
  BY ChunksKept DEF ParserInv
<1> QED
  BY <1>1, <1>2, <1>3, <1>4 DEF ParserInv

LEMMA ParseInv ==
  ASSUME ParserInv, NEW data \in Seq(Token), NEW f, Parse(data, f)
  PROVE  ParserInv' /\ at' = "loop"
<1>1. buffer \in Seq(Token) /\ body_length \in Nat
  BY DEF ParserInv, Texts
<1>2. /\ at = "idle" /\ at' = "loop" /\ UNCHANGED <<stack, dstream>> /\ buffer' = buffer \o data
      /\ body_length' = body_length /\ cut' = 0 /\ str' = <<>>
  BY DEF Parse
<1>3. buffer' \in Seq(Token) /\ (buffer # <<>> => buffer' # <<>>)
  BY <1>1, <1>2, ConcatProperties, ConcatEqualIffEmpty
<1> QED
  BY <1>1, <1>2, <1>3, AppendInv

LEMMA Unparsed ==
  ASSUME ParserInv, UNCHANGED <<buffer, stack, body_length, locals, at, dstream>>
  PROVE  ParserInv'
<1>1. Texts' /\ StackOK' /\ Top' = Top
  BY DEF ParserInv, Texts, StackOK, Top, locals, dstream
<1>2. DataKept'
  BY <1>1 DEF ParserInv, DataKept, locals
<1>3. Chunks'
  BY DEF ParserInv, Chunks, Decoded, Decoding, Aligned, Waiting, dstream
<1> QED
  BY <1>1, <1>2, <1>3 DEF ParserInv

\* Of what a source has, n characters are moved.
LEMMA Moved ==
  ASSUME NEW s \in Seq(Token), NEW n \in 0 .. Len(s)
  PROVE  SubSeq(s, 1, n) \in Seq(Token) /\ Cut(s, n) \in Seq(Token) /\ n \in Nat
<1>1. n \in Nat
  BY LenProperties
<1> QED
  BY <1>1, TakeProperties, CutProperties

LEMMA ParserStepInv ==
  ASSUME IInv, ParserStep, UNCHANGED split
  PROVE  IInv'
<1>1. ParserInv' /\ at # "idle" /\ (at' = "idle" => Returned(result)')
  BY StepInv, StepReturns DEF IInv, ParserStep
<1>2. pc # "read" /\ ~(mode = "stream" /\ pc \in {"idle", "read", "chunk"})
  BY <1>1 DEF IInv, Turns, SplitPc, Modes
<1>3. Turns'
  BY <1>2 DEF IInv, Turns, ParserStep, feed, document, split
<1>4. Returns'
  BY <1>1, <1>2 DEF Returns, ParserStep, feed
<1> QED
  BY <1>1, <1>3, <1>4 DEF IInv

LEMMA ParseChunkInv ==
  ASSUME IInv, NEW n \in 0 .. Len(wire), NEW cleanup, ParseChunk(n, cleanup), UNCHANGED split
  PROVE  IInv'
<1>1. wire \in Seq(Token) /\ mode = "parse" /\ pc = "idle"
  BY DEF IInv, Turns, ParseChunk
<1>2. SubSeq(wire, 1, n) \in Seq(Token) /\ Cut(wire, n) \in Seq(Token)
  BY <1>1, Moved
<1>3. ParserInv'
  BY <1>2, ParseInv DEF IInv, ParseChunk
<1>4. Turns' /\ Returns'
  BY <1>1, <1>2 DEF IInv, Turns, Returns, ParseChunk, document, split
<1> QED
  BY <1>3, <1>4 DEF IInv

LEMMA WriteInv ==
  ASSUME IInv, NEW n \in 1 .. Len(wire), Write(n), UNCHANGED split
  PROVE  IInv'
<1>1. wire \in Seq(Token) /\ socket \in Seq(Token) /\ n \in 0 .. Len(wire)
  BY LenProperties DEF IInv, Turns
<1>2. socket \o SubSeq(wire, 1, n) \in Seq(Token) /\ Cut(wire, n) \in Seq(Token)
  BY <1>1, Moved, ConcatProperties
<1>3. ParserInv'
  BY Unparsed DEF IInv, Write, parser
<1>4. Turns' /\ Returns'
  BY <1>2 DEF IInv, Turns, Returns, Returned, Write, parser, document, split
<1> QED
  BY <1>3, <1>4 DEF IInv

LEMMA Streaming ==
  ASSUME Turns, pc \in {"read", "chunk", "parse", "cleanup"}
  PROVE  mode = "stream"
BY DEF Turns, Modes, SplitPc

\* stream() has read something, or the end, and parses it.
LEMMA StreamParses ==
  ASSUME IInv, NEW data \in Seq(Token), NEW f, Parse(data, f), pc \in {"read", "chunk"},
         pc' \in {"parse", "cleanup"}, socket' \in Seq(Token),
         UNCHANGED <<document, wire, state, split>>
  PROVE  IInv'
<1>1. ParserInv' /\ at' = "loop"
  BY ParseInv DEF IInv
<1>2. mode = "stream"
  BY Streaming DEF IInv
<1>3. Turns' /\ Returns'
  BY <1>1, <1>2 DEF IInv, Turns, StreamPc, Returns, document, split
<1> QED
  BY <1>1, <1>3 DEF IInv

\* stream() has read a piece of a chunk, or a size line.
LEMMA StreamReads ==
  ASSUME IInv, pc = "read", pc' = "chunk", at' = at, UNCHANGED <<stack, locals, dstream>>,
         buffer' \in Seq(Token), buffer # <<>> => buffer' # <<>>, body_length' \in Nat,
         socket' \in Seq(Token), UNCHANGED <<document, wire, state, split>>
  PROVE  IInv'
<1>1. mode = "stream" /\ at = "idle"
  BY Streaming DEF IInv, Turns
<1>2. ParserInv'
  BY <1>1, AppendInv DEF IInv, ParserInv, Texts, locals
<1>3. Turns' /\ Returns'
  BY <1>1 DEF IInv, Turns, StreamPc, Returns, document, split
<1> QED
  BY <1>2, <1>3 DEF IInv

\* stream() begins, goes on or returns.
LEMMA StreamTurns ==
  ASSUME IInv, Stream \/ WouldBlock \/ ParseReturned \/ StreamEnds, UNCHANGED split
  PROVE  IInv'
<1>1. UNCHANGED <<buffer, stack, body_length, locals, at, dstream, document, wire, socket>>
  BY DEF Stream, WouldBlock, ParseReturned, StreamEnds, parser
<1>2. ParserInv'
  BY <1>1, Unparsed DEF IInv
<1>3. CASE Stream
  <2>1. mode = "stream" /\ pc = "idle" /\ pc' = "read" /\ state' = "START"
    BY <1>3 DEF Stream
  <2> QED
    BY <1>1, <1>2, <2>1 DEF IInv, Turns, StreamPc, Returns, Returned, document, split
<1>4. CASE WouldBlock \/ StreamEnds
  <2>1. pc = "read" /\ pc' = "idle"
    BY <1>4 DEF WouldBlock, StreamEnds
  <2>2. mode = "stream"
    BY <2>1, Streaming DEF IInv
  <2> QED
    BY <1>1, <1>2, <2>1, <2>2 DEF IInv, Turns, StreamPc, Returns, document, split
<1>5. CASE ParseReturned
  <2>1. /\ pc \in {"parse", "cleanup"} /\ pc' \in {"read", "idle"} /\ at = "idle"
        /\ state' = result /\ result' = result
    BY <1>5 DEF ParseReturned, parser
  <2>2. mode = "stream"
    BY <2>1, Streaming DEF IInv
  <2>3. Turns'
    BY <1>1, <2>1, <2>2 DEF IInv, Turns, StreamPc, document, split
  <2>4. Returns'
    BY <1>1, <2>1 DEF IInv, Returns, Returned
  <2> QED
    BY <1>2, <2>3, <2>4 DEF IInv
<1> QED
  BY <1>3, <1>4, <1>5

\* A size line that overwrites the beginning of the buffer.
LEMMA OverwrittenProperties ==
  ASSUME NEW line \in Seq(Token), buffer \in Seq(Token)
  PROVE  /\ Overwritten(line) \in Seq(Token)
         /\ buffer # <<>> => Overwritten(line) # <<>>
<1>1. Len(buffer) \in Nat /\ Len(line) \in Nat
  BY LenProperties
<1>2. /\ \A i \in DOMAIN line : line[i] \in Token
      /\ \A i \in DOMAIN buffer : buffer[i] \in Token
  BY LenProperties, ElementOfSeq
<1>3. "x" \in Token
  BY DEF Token, Char, Text
<1>4. \A i \in 1 .. Len(buffer) + Len(line) :
        (IF i \in DOMAIN line THEN line[i] ELSE IF i \in DOMAIN buffer THEN buffer[i] ELSE "x") \in Token
  BY <1>2, <1>3
<1>5. Overwritten(line) \in [1 .. Len(buffer) + Len(line) -> Token]
  BY <1>4 DEF Overwritten
<1>6. Len(buffer) + Len(line) \in Nat
  BY <1>1
<1>7. Overwritten(line) \in Seq(Token)
  BY <1>5, <1>6, SeqDef
<1>8. DOMAIN Overwritten(line) = 1 .. Len(buffer) + Len(line)
  BY <1>5
<1>9. ASSUME buffer # <<>> PROVE Overwritten(line) # <<>>
  <2>1. Len(buffer) > 0
    BY <1>9, EmptySeq
  <2>2. 1 \in DOMAIN Overwritten(line)
    BY <1>1, <1>8, <2>1
  <2> QED
    BY <2>2
<1> QED
  BY <1>7, <1>9

LEMMA StreamReadInv ==
  ASSUME IInv, NEW n \in DOMAIN socket,
         ReadLine(n) \/ ReadBody(n) \/ ReadChunk(n) \/ ReadSize(n), UNCHANGED split
  PROVE  IInv'
<1>1. /\ socket \in Seq(Token) /\ buffer \in Seq(Token) /\ body_length \in Nat
      /\ Len(socket) \in Nat /\ DOMAIN socket = 1 .. Len(socket)
  BY LenProperties DEF IInv, Turns, ParserInv, Texts
<1>2. n \in 0 .. Len(socket)
  BY <1>1
<1>3. SubSeq(socket, 1, n) \in Seq(Token) /\ Cut(socket, n) \in Seq(Token)
  BY <1>1, <1>2, Moved
<1>4. pc = "read" /\ socket' = Cut(socket, n) /\ UNCHANGED <<document, wire, state>>
  BY DEF ReadLine, ReadBody, ReadChunk, ReadSize
<1>5. CASE ReadLine(n) \/ ReadBody(n)
  <2>1. Parse(SubSeq(socket, 1, n), doc.flags) /\ pc' = "parse"
    BY <1>5 DEF ReadLine, ReadBody
  <2> QED
    BY <1>3, <1>4, <2>1, StreamParses
<1>6. CASE ReadChunk(n)
  <2>1. /\ pc' = "chunk" /\ at' = at /\ UNCHANGED <<stack, locals, dstream>>
        /\ buffer' = buffer \o SubSeq(socket, 1, n)
    BY <1>6 DEF ReadChunk
  <2>2. buffer' \in Seq(Token) /\ (buffer # <<>> => buffer' # <<>>)
    BY <1>1, <1>3, <2>1, ConcatProperties, ConcatEqualIffEmpty
  <2>3. body_length' \in Nat
    BY <1>1, <1>6 DEF ReadChunk, Least
  <2> QED
    BY <1>3, <1>4, <2>1, <2>2, <2>3, StreamReads
<1>7. CASE ReadSize(n)
  <2>1. /\ pc' = "chunk" /\ at' = at /\ UNCHANGED <<stack, locals, dstream>>
        /\ buffer' = Overwritten(SubSeq(socket, 1, n))
    BY <1>7 DEF ReadSize
  <2>2. buffer' \in Seq(Token) /\ (buffer # <<>> => buffer' # <<>>)
    BY <1>1, <1>3, <2>1, OverwrittenProperties
  <2>3. \E k \in 0 .. ULONG_MAX : body_length' = k
    BY <1>7 DEF ReadSize
  <2>4. body_length' \in Nat
    BY <2>3, MessageParserAssumption
  <2> QED
    BY <1>3, <1>4, <2>1, <2>2, <2>4, StreamReads
<1> QED
  BY <1>5, <1>6, <1>7

LEMMA StreamStepInv == ASSUME IInv, StreamStep, UNCHANGED split PROVE IInv'
<1>1. <<>> \in Seq(Token) /\ socket \in Seq(Token)
  BY EmptySeq DEF IInv, Turns
<1>2. CASE ChunkRead
  BY <1>1, <1>2, StreamParses DEF ChunkRead
<1>3. CASE StreamEof
  BY <1>1, <1>3, StreamParses DEF StreamEof
<1> QED
  BY <1>2, <1>3, StreamTurns, StreamReadInv DEF StreamStep

\* The steps of splitbody.
LEMMA SplitInv ==
  ASSUME IInv, mode = "split", pc' \in SplitPc, ParserInv', UNCHANGED <<document, socket>>,
         wire' \in Seq(Token), chunk' \in Seq(Token), buf' \in Seq(Token), consumed' \in Nat,
         pc' = "tail" => Len(buf') > 2
  PROVE  IInv'
<1>1. mode' = "split" /\ doc' = doc
  BY DEF document
<1>2. Turns'
  BY <1>1 DEF IInv, Turns, Modes
<1>3. Returns'
  BY DEF Returns, SplitPc
<1> QED
  BY <1>2, <1>3 DEF IInv

LEMMA SplitReturnsInv ==
  ASSUME IInv, pc \in {"split", "first", "next", "tail"}, NEW n \in Nat, SplitReturns(n),
         UNCHANGED <<parser, document, wire, socket, state>>
  PROVE  IInv'
<1>1. mode = "split" /\ chunk \in Seq(Token) /\ wire \in Seq(Token)
  BY DEF IInv, Turns, Modes, StreamPc
<1>2. ParserInv'
  BY Unparsed DEF IInv, parser
<1>3. pc' \in SplitPc /\ pc' # "tail" /\ buf' = <<>> /\ consumed' = 0 /\ chunk' = Cut(chunk, n)
  BY DEF SplitReturns, SplitPc
<1>4. chunk' \in Seq(Token) /\ buf' \in Seq(Token)
  BY <1>1, <1>3, CutProperties, EmptySeq
<1> QED
  BY <1>1, <1>2, <1>3, <1>4, SplitInv

LEMMA PassthruInv == ASSUME IInv, Passthru PROVE IInv'
<1>1. /\ wire \in Seq(Token) /\ chunk \in Seq(Token) /\ doc.room \in Nat
      /\ Len(wire) \in Nat /\ mode = "split"
  BY LenProperties DEF IInv, Turns, Passthru
<1> DEFINE n == Least(doc.room, Len(wire))
<1>2. n \in 0 .. Len(wire)
  BY <1>1 DEF Least
<1>3. /\ chunk' = chunk \o SubSeq(wire, 1, n) /\ wire' = Cut(wire, n) /\ buf' = chunk'
      /\ consumed' = 0 /\ pc' \in SplitPc /\ pc' # "tail"
  BY DEF Passthru, SplitPc
<1> HIDE DEF n
<1>4. chunk' \in Seq(Token) /\ wire' \in Seq(Token)
  BY <1>1, <1>2, <1>3, Moved, ConcatProperties
<1>5. ParserInv'
  BY Unparsed DEF IInv, Passthru, parser
<1> QED
  BY <1>1, <1>3, <1>4, <1>5, SplitInv DEF Passthru

LEMMA PartEndsInv == ASSUME IInv, NEW r \in DOMAIN buf, PartEnds(r) PROVE IInv'
<1>1. /\ buf \in Seq(Token) /\ wire \in Seq(Token) /\ chunk \in Seq(Token) /\ consumed \in Nat
      /\ Len(buf) \in Nat /\ DOMAIN buf = 1 .. Len(buf) /\ pc = "split"
  BY LenProperties DEF IInv, Turns, PartEnds
<1>2. mode = "split"
  BY <1>1 DEF IInv, Turns, Modes, StreamPc
<1>3. r - 1 \in 0 .. Len(buf) /\ r \in Nat
  BY <1>1
<1>4. SubSeq(buf, 1, r - 1) \in Seq(Token) /\ Cut(buf, r) \in Seq(Token)
  BY <1>1, <1>3, Moved, CutProperties
<1>5. ParserInv'
  <2>1. CASE First
    BY <2>1, Unparsed DEF PartEnds, IInv, parser
  <2>2. CASE ~First
    BY <1>4, <2>2, ParseInv DEF PartEnds, IInv
  <2> QED
    BY <2>1, <2>2
<1>6. buf' \in Seq(Token) /\ consumed' \in Nat /\ wire' = wire /\ chunk' = chunk
      /\ pc' \in SplitPc /\ pc' # "tail"
  BY <1>1, <1>3, <1>4 DEF PartEnds, SplitPc
<1> QED
  BY <1>1, <1>2, <1>5, <1>6, SplitInv DEF PartEnds

LEMMA PartBeginsInv == ASSUME IInv, PartBegins PROVE IInv'
<1>1. /\ buf \in Seq(Token) /\ wire \in Seq(Token) /\ chunk \in Seq(Token) /\ consumed \in Nat
      /\ pc \in {"first", "next"}
  BY DEF IInv, Turns, PartBegins
<1>2. mode = "split"
  BY <1>1 DEF IInv, Turns, Modes, StreamPc
<1>3. Cut(buf, 1) \in Seq(Token) /\ consumed + 1 \in Nat
  BY <1>1, CutProperties
<1>4. ParserInv'
  BY Unparsed DEF PartBegins, IInv
<1>5. /\ buf' = Cut(buf, 1) /\ consumed' = consumed + 1 /\ pc' = "split" /\ wire' = wire
      /\ chunk' = chunk /\ UNCHANGED <<document, socket>>
  BY DEF PartBegins
<1>6. pc' \in SplitPc /\ pc' # "tail"
  BY <1>5 DEF SplitPc
<1> QED
  BY <1>1, <1>2, <1>3, <1>4, <1>5, <1>6, SplitInv

LEMMA NoMoreDelimitersInv == ASSUME IInv, NoMoreDelimiters PROVE IInv'
<1>1. /\ buf \in Seq(Token) /\ wire \in Seq(Token) /\ chunk \in Seq(Token) /\ consumed \in Nat
      /\ Len(buf) \in Nat /\ pc = "split" /\ UNCHANGED <<document, wire, socket, state>>
  BY LenProperties DEF IInv, Turns, NoMoreDelimiters
<1>2. mode = "split"
  BY <1>1 DEF IInv, Turns, Modes, StreamPc
<1>3. CASE Len(buf) > 2
  <2>1. Parse(SubSeq(buf, 1, Len(buf) - 2), {}) /\ pc' = "tail" /\ UNCHANGED split
    BY <1>3 DEF NoMoreDelimiters
  <2>2. Len(buf) - 2 \in 0 .. Len(buf)
    BY <1>1, <1>3
  <2>3. SubSeq(buf, 1, Len(buf) - 2) \in Seq(Token)
    BY <1>1, <2>2, Moved
  <2>4. ParserInv'
    BY <2>1, <2>3, ParseInv DEF IInv
  <2>5. pc' \in SplitPc /\ buf' = buf /\ chunk' = chunk /\ consumed' = consumed
    BY <2>1 DEF SplitPc, split
  <2> QED
    BY <1>1, <1>2, <1>3, <2>4, <2>5, SplitInv
<1>4. CASE ~(Len(buf) > 2)
  BY <1>1, <1>4, SplitReturnsInv DEF NoMoreDelimiters
<1> QED
  BY <1>3, <1>4

LEMMA SplitStepInv == ASSUME IInv, SplitStep PROVE IInv'
<1>1. buf \in Seq(Token) /\ Len(buf) \in Nat /\ consumed \in Nat
  BY LenProperties DEF IInv, Turns
<1>2. CASE DelimiterCut
  BY <1>1, <1>2, SplitReturnsInv DEF DelimiterCut
<1>3. CASE LastPart
  <2>1. consumed + Len(buf) \in Nat
    BY <1>1
  <2> QED
    BY <1>3, <2>1, SplitReturnsInv DEF LastPart
<1>4. CASE MalformedBoundary
  BY <1>4, SplitReturnsInv DEF MalformedBoundary
<1>5. CASE TailParsed
  <2>1. consumed + Len(buf) - 2 \in Nat
    BY <1>1, <1>5 DEF IInv, Turns, TailParsed
  <2> QED
    BY <1>5, <2>1, SplitReturnsInv DEF TailParsed
<1> QED
  BY <1>2, <1>3, <1>4, <1>5, PassthruInv, PartEndsInv, PartBeginsInv, NoMoreDelimitersInv
     DEF SplitStep
-----------------------------------------------------------------------------
LEMMA InitInv == Init => IInv
<1> SUFFICES ASSUME Init PROVE IInv
  OBVIOUS
<1>1. mode \in Modes /\ doc.text \in Seq(Token) /\ doc.room \in Nat
  BY MessageFeedAssumption DEF Init, FeedInit
<1>2. \A S : <<>> \in Seq(S) /\ Len(<<>>) = 0
  BY EmptySeq
<1>3. Texts
  BY <1>2 DEF Init, FeedInit, ParserInit, Texts
<1>4. stack = <<>> /\ Top = "START" /\ StackOK
  BY <1>2 DEF Init, FeedInit, ParserInit, StackOK, Top
<1>5. DataKept /\ Chunks
  BY <1>4 DEF Init, FeedInit, ParserInit, DataKept, Chunks
<1>6. pc = "idle" /\ at = "idle" /\ wire = doc.text /\ socket = <<>> /\ chunk = <<>> /\ buf = <<>>
      /\ consumed = 0
  BY DEF Init, FeedInit, ParserInit
<1>7. Turns /\ Returns
  BY <1>1, <1>2, <1>6 DEF Turns, Returns, StreamPc, SplitPc
<1> QED
  BY <1>3, <1>4, <1>5, <1>7 DEF IInv, ParserInv

\* IInv holds in every reachable state.
THEOREM Invariance == Spec => []IInv
<1>1. IInv /\ [Next]_vars => IInv'
  <2> SUFFICES ASSUME IInv, [Next]_vars PROVE IInv'
    OBVIOUS
  <2>1. CASE FeedStep /\ UNCHANGED split
    BY <2>1, ParseChunkInv, WriteInv, StreamStepInv, ParserStepInv DEF FeedStep
  <2>2. CASE SplitStep
    BY <2>2, SplitStepInv
  <2>3. CASE UNCHANGED vars
    <3>1. ParserInv'
      BY <2>3, Unparsed DEF IInv, vars, parser
    <3>2. Turns' /\ Returns'
      BY <2>3 DEF IInv, Turns, Returns, Returned, vars, parser, feed, document, split
    <3> QED
      BY <3>1, <3>2 DEF IInv
  <2> QED
    BY <2>1, <2>2, <2>3 DEF Next, Finished
<1> QED
  BY <1>1, InitInv, PTL DEF Spec

\* stream() never aborts, and reads size lines into an empty buffer, whatever the
\* stream delivers and whenever it blocks.
THEOREM StreamCanGoOn == Spec => []StreamGoesOn
<1>1. IInv => StreamGoesOn
  BY DEF IInv, Returns, Returned, StreamGoesOn
<1> QED
  BY <1>1, Invariance, PTL

\* The loop of parse() never looks up the state FAILURE in the table of states.
THEOREM FailureHasData == Spec => []FailureKeepsData
<1>1. IInv => FailureKeepsData
  BY DEF IInv, ParserInv, DataKept, FailureKeepsData
<1> QED
  BY <1>1, Invariance, PTL

\* What is cut off behind the last chunk is a part of the buffer, and what is left
\* of it is what the dechunk stream has not decoded.
THEOREM CutNeverWraps == Spec => []CutCoversChunks
<1>1. IInv => CutCoversChunks
  <2> SUFFICES ASSUME IInv, at = "dechunk", ~running, zeroed
               PROVE  /\ Len(dbuffer) <= Len(buffer)
                      /\ dbuffer = Cut(buffer, Len(buffer) - Len(dbuffer))
    BY DEF CutCoversChunks
  <2>1. /\ buffer \in Seq(Token) /\ dbuffer \in Seq(Token)
        /\ Len(buffer) \in Nat /\ Len(dbuffer) \in Nat
    BY LenProperties DEF IInv, ParserInv, Texts
  <2>2. Top = "BODY_CHUNKED" /\ Len(stack) = 1
    BY DEF IInv, ParserInv, DataKept
  <2>3. stack # <<>> /\ stack[1] = "BODY_CHUNKED"
    BY <2>2, EmptySeq, PoppedProperties DEF IInv, ParserInv, Above
  <2>4. Aligned(dbuffer, buffer) /\ Len(dbuffer) <= Len(buffer)
    BY <2>3 DEF IInv, ParserInv, Chunks, Decoded
  <2> DEFINE n == Len(buffer) - Len(dbuffer)
             rest == Cut(buffer, n)
  <2>5. n \in Nat /\ n <= Len(buffer) /\ Len(buffer) - n = Len(dbuffer)
    BY <2>1, <2>4
  <2>6. /\ rest \in Seq(Token) /\ Len(rest) = Len(dbuffer)
        /\ \A i \in 1 .. Len(dbuffer) : rest[i] = buffer[n + i]
    <3> HIDE DEF n
    <3> QED
      BY <2>1, <2>5, CutProperties
  <2>7. \A i \in 1 .. Len(dbuffer) : dbuffer[i] = rest[i]
    <3> SUFFICES ASSUME NEW i \in 1 .. Len(dbuffer) PROVE dbuffer[i] = rest[i]
      OBVIOUS
    <3> DEFINE j == Len(dbuffer) - i
    <3>1. j \in Nat /\ j < Len(dbuffer) /\ j < Len(buffer)
      BY <2>1, <2>4
    <3>2. Len(dbuffer) - j = i /\ Len(buffer) - j = n + i
      BY <2>1
    <3>3. dbuffer[Len(dbuffer) - j] = buffer[Len(buffer) - j]
      <4> HIDE DEF j
      <4> QED
        BY <2>4, <3>1 DEF Aligned
    <3> QED
      BY <2>6, <3>2, <3>3
  <2> HIDE DEF rest
  <2>8. dbuffer = rest
    BY <2>1, <2>6, <2>7, SeqEqual
  <2> QED
    BY <2>4, <2>8 DEF rest
<1> QED
  BY <1>1, Invariance, PTL
=============================================================================
