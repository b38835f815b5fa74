---------------------------- MODULE HeaderParser ----------------------------
(***************************************************************************)
(* php_http_header_parser_parse: the incremental parser of header blocks.  *)
(* Every call appends a chunk of input to the buffer and runs the loop     *)
(* until more input is needed, the block ends, or it is found invalid; one *)
(* round of the loop is one step.                                          *)
(*                                                                         *)
(* The parser's stack of states never holds more than one (every push      *)
(* follows a pop), so `state' is its top, START when it is empty.          *)
(***************************************************************************)
EXTENDS Integers, Sequences

CONSTANTS
  Chunk,     \* chunks of input, sequences over Char
  NULL,      \* a string pointer that is not set
  MaxFed     \* bound: characters fed

ASSUME HeaderParserAssumption ==
  /\ MaxFed \in Nat
  /\ \A s \in Chunk : NULL # s

\* "n" is any character of a header name, "d" stands for a status code, "H" for
\* the token HTTP/1.1, which no name may contain, and " " for SPACE and TAB.
NameChar == {"n", "d"}
Eol == {"LF", "CR"}
Space == Eol \cup {" "}
Char == NameChar \cup Space \cup {"H", ":", "NUL"}

ASSUME ChunkAssumption == Chunk \subseteq Seq(Char)

VARIABLES
  buffer,     \* the buffer's data
  state,      \* php_http_header_parser_state_is(parser)
  key, val,   \* parser->_key and parser->_val
  delivered,  \* calls of the info callback and headers stored, in order
  parsing,    \* inside php_http_header_parser_parse
  cleanup,    \* flags & PHP_HTTP_HEADER_PARSER_CLEANUP
  result,     \* what the last call returned
  fed         \* characters fed

parser == <<buffer, state, key, val, delivered, parsing, cleanup, result>>
vars == <<parser, fed>>

States == {"START", "KEY", "VALUE", "VALUE_EX", "HEADER_DONE", "DONE", "FAILURE"}
Text == Seq(Char)

\* What the parser hands over: a request or response line, or a header.
StartLine == [type : {"info"}]
Header == [type : {"header"}, name : Text, value : Text]
-----------------------------------------------------------------------------
(* Helpers on text.                                                        *)

\* php_http_buffer_cut(buffer, 0, n)
Cut(s, n) == SubSeq(s, n + 1, Len(s))

\* php_http_locate_bin_eol: i is the place of the first line end in s.
EolAt(s, i) ==
  /\ i \in DOMAIN s
  /\ s[i] \in Eol
  /\ \A j \in 1 .. i - 1 : s[j] \notin Eol
HasEol(s) == \E i \in DOMAIN s : s[i] \in Eol
EolLenOne(s, i) == 1
EolLen(s, i) == IF s[i] = "CR" /\ i < Len(s) /\ s[i + 1] = "LF" THEN 2 ELSE 1

\* strspn(s, PHP_HTTP_HEADER_NAME_CHARS) covers all of s.
ValidName(s) == \A i \in DOMAIN s : s[i] \in NameChar

\* s is blank but for s[a] .. s[b].
Trims(s, a, b) ==
  /\ \A i \in 1 .. a - 1 : s[i] \in Space
  /\ \A i \in b + 1 .. Len(s) : s[i] \in Space
  /\ s[a] \notin Space
  /\ s[b] \notin Space

\* php_http_info_parse on the C string s: the first HTTP/1.1 of the line starts a
\* response line, or ends a request line that has a method and a URL.
IsInfo(s) ==
  LET line == {i \in DOMAIN s : \A j \in 1 .. i : s[j] \notin Eol \cup {"NUL"}}
      text == {i \in line : s[i] # " "}
  IN  \E i \in line :
        /\ s[i] = "H"
        /\ \A j \in 1 .. i - 1 : s[j] # "H"
        /\ \/ /\ i = 1
              /\ 2 \notin text
              /\ \A j \in text : (j > 1 /\ \A k \in 2 .. j - 1 : k \notin text) => s[j] = "d"
           \/ /\ i - 1 \in line \ text
              /\ i + 1 \notin line
              /\ \E j \in line \ text, k \in text : j < k /\ k < i
-----------------------------------------------------------------------------
\* HttpHeaderParser::parse
Parse(data, flags) ==
  /\ ~parsing
  /\ parsing' = TRUE
  /\ cleanup' = flags
  /\ buffer' = buffer \o data
  /\ UNCHANGED <<state, key, val, delivered, result>>

\* The loop goes on while there is data or the state needs none.
NeedData == {"START", "KEY", "VALUE"}
Round(s) == parsing /\ state = s /\ (buffer # <<>> \/ s \notin NeedData)

Return(s) ==
  /\ parsing' = FALSE
  /\ result' = s
  /\ state' = s
  /\ UNCHANGED cleanup

Goto(s) ==
  /\ state' = s
  /\ UNCHANGED <<parsing, result, cleanup>>

\* No data is left; state_is(parser) is returned.
OutOfData ==
  /\ parsing
  /\ state \in NeedData
  /\ buffer = <<>>
  /\ Return(state)
  /\ UNCHANGED <<buffer, key, val, delivered>>

Start ==
  /\ Round("START")
  /\ \E n \in 0 .. Len(buffer) :
       /\ \A i \in 1 .. n : buffer[i] \in Space
       /\ n < Len(buffer) => buffer[n + 1] \notin Space
       /\ buffer' = Cut(buffer, n)
  /\ Goto("KEY")
  /\ UNCHANGED <<key, val, delivered>>
-----------------------------------------------------------------------------
(* PHP_HTTP_HEADER_PARSER_STATE_KEY                                        *)

\* An empty line ends the headers.
EndOfHeaders ==
  /\ Round("KEY")
  /\ EolAt(buffer, 1)
  /\ buffer' = Cut(buffer, EolLen(buffer, 1))
  /\ Goto("DONE")
  /\ UNCHANGED <<key, val, delivered>>

\* A request or response line is cut off with its line end; while that is
\* missing, eol_str is NULL and all of the buffer is cut.
NewMessage ==
  /\ Round("KEY")
  /\ ~EolAt(buffer, 1)
  /\ IsInfo(buffer)
  /\ delivered' = Append(delivered, [type |-> "info"])
  /\ \/ ~HasEol(buffer) /\ buffer' = <<>>
     \/ \E i \in DOMAIN buffer :
          EolAt(buffer, i) /\ buffer' = Cut(buffer, i - 1 + EolLen(buffer, i))
  /\ Goto("HEADER_DONE")
  /\ UNCHANGED <<key, val>>

\* The place of a colon before the line's end, no start line before it.
ColonAt(s, c) ==
  /\ c \in DOMAIN s
  /\ s[c] = ":"
  /\ \A i \in 1 .. c - 1 : s[i] # ":" /\ s[i] \notin Eol
  /\ ~IsInfo(s)

\* "name:", and the blanks behind it, are cut off.
HeaderName(c) ==
  /\ Round("KEY")
  /\ ColonAt(buffer, c)
  /\ ValidName(SubSeq(buffer, 1, c - 1))
  /\ key' = SubSeq(buffer, 1, c - 1)
  /\ \E n \in c .. Len(buffer) :
       /\ \A i \in c + 1 .. n : buffer[i] = " "
       /\ n < Len(buffer) => buffer[n + 1] # " "
       /\ buffer' = Cut(buffer, n)
  /\ Goto("VALUE")
  /\ UNCHANGED <<val, delivered>>

InvalidName(c) ==
  /\ Round("KEY")
  /\ ColonAt(buffer, c)
  /\ ~ValidName(SubSeq(buffer, 1, c - 1))
  /\ key' = NULL
  /\ Return("FAILURE")
  /\ UNCHANGED <<buffer, val, delivered>>

\* A line that is neither: an error once it is complete, else wait for more.
NoHeader ==
  /\ Round("KEY")
  /\ ~EolAt(buffer, 1)
  /\ ~IsInfo(buffer)
  /\ \A c \in DOMAIN buffer : ~ColonAt(buffer, c)
  /\ Return(IF HasEol(buffer) \/ cleanup THEN "FAILURE" ELSE "KEY")
  /\ UNCHANGED <<buffer, key, val, delivered>>
-----------------------------------------------------------------------------
(* PHP_HTTP_HEADER_PARSER_STATE_VALUE and STATE_VALUE_EX                   *)

\* SET_ADD_VAL: the trimmed text becomes the value or continues it.
AddVal(s) ==
  \/ /\ \A i \in DOMAIN s : s[i] \in Space
     /\ UNCHANGED val
  \/ \E a, b \in DOMAIN s :
       /\ Trims(s, a, b)
       /\ val' = IF val = NULL THEN SubSeq(s, a, b)
                 ELSE val \o <<" ">> \o SubSeq(s, a, b)

Value ==
  /\ Round("VALUE")
  /\ \E i \in DOMAIN buffer :
       /\ EolAt(buffer, i)
       /\ AddVal(SubSeq(buffer, 1, i - 1))
       /\ buffer' = Cut(buffer, i - 1 + EolLen(buffer, i))
  /\ Goto("VALUE_EX")
  /\ UNCHANGED <<key, delivered>>

ValueAtEnd ==
  /\ Round("VALUE")
  /\ ~HasEol(buffer)
  /\ cleanup
  /\ AddVal(buffer)
  /\ buffer' = <<>>
  /\ Goto("HEADER_DONE")
  /\ UNCHANGED <<key, delivered>>

ValueIncomplete ==
  /\ Round("VALUE")
  /\ ~HasEol(buffer)
  /\ ~cleanup
  /\ Return("VALUE")
  /\ UNCHANGED <<buffer, key, val, delivered>>

ValueExSpins ==
  /\ Round("VALUE_EX")
  /\ Goto(IF buffer # <<>> /\ buffer[1] = " " THEN "VALUE"
          ELSE IF buffer # <<>> \/ cleanup THEN "HEADER_DONE" ELSE "VALUE_EX")
  /\ UNCHANGED <<buffer, key, val, delivered>>

ValueExWaits ==
  /\ Round("VALUE_EX")
  /\ IF buffer # <<>>
     THEN Goto(IF buffer[1] = " " THEN "VALUE" ELSE "HEADER_DONE")
     ELSE Return("VALUE_EX")
  /\ UNCHANGED <<buffer, key, val, delivered>>

\* Is the next line a continuation of the value?
ValueEx ==
  /\ Round("VALUE_EX")
  /\ IF buffer # <<>> \/ cleanup
     THEN Goto(IF buffer # <<>> /\ buffer[1] = " " THEN "VALUE" ELSE "HEADER_DONE")
     ELSE Return("VALUE_EX")
  /\ UNCHANGED <<buffer, key, val, delivered>>
-----------------------------------------------------------------------------
\* A value with a NUL in it, which a C string would truncate.
NotTruncated(s) == FALSE
Truncated(s) == \E i \in DOMAIN s : s[i] = "NUL"

HeaderDoneKeeps ==
  /\ Round("HEADER_DONE")
  /\ val # NULL => key = NULL \/ ~Truncated(val)
  /\ delivered' = IF key = NULL \/ val = NULL THEN delivered
                  ELSE Append(delivered, [type |-> "header", name |-> key, value |-> val])
  /\ key' = NULL
  /\ Goto("KEY")
  /\ UNCHANGED <<buffer, val>>

\* The header is stored unless its value is empty.
HeaderDone ==
  /\ Round("HEADER_DONE")
  /\ val # NULL => key = NULL \/ ~Truncated(val)
  /\ delivered' = IF key = NULL \/ val = NULL THEN delivered
                  ELSE Append(delivered, [type |-> "header", name |-> key, value |-> val])
  /\ key' = NULL
  /\ val' = NULL
  /\ Goto("KEY")
  /\ UNCHANGED buffer

HeaderInvalid ==
  /\ Round("HEADER_DONE")
  /\ key # NULL /\ val # NULL
  /\ Truncated(val)
  /\ key' = NULL
  /\ val' = NULL
  /\ Return("FAILURE")
  /\ UNCHANGED <<buffer, delivered>>

\* DONE is popped and not pushed again, so the next call starts over.
Done ==
  /\ Round("DONE")
  /\ parsing' = FALSE
  /\ result' = "DONE"
  /\ state' = "START"
  /\ UNCHANGED <<buffer, key, val, delivered, cleanup>>

\* No call gets past an earlier failure.  Without data the loop looks up whether the
\* state needs any at states[-1], before the table: whatever is there, the call pops the
\* state, warns and fails, or it leaves the loop and state_is() is FAILURE.
Failure ==
  /\ Round("FAILURE")
  /\ Return("FAILURE")
  /\ UNCHANGED <<buffer, key, val, delivered>>

Step ==
  \/ OutOfData \/ Start
  \/ EndOfHeaders \/ NewMessage \/ NoHeader
  \/ \E c \in DOMAIN buffer : HeaderName(c) \/ InvalidName(c)
  \/ Value \/ ValueAtEnd \/ ValueIncomplete \/ ValueEx
  \/ HeaderDone \/ HeaderInvalid \/ Done \/ Failure
-----------------------------------------------------------------------------
ParserInit ==
  /\ buffer = <<>>
  /\ state = "START"
  /\ key = NULL
  /\ val = NULL
  /\ delivered = <<>>
  /\ parsing = FALSE
  /\ cleanup = FALSE
  /\ result = "START"

Init == ParserInit /\ fed = 0

\* User code feeds any chunk, with or without http\Header\Parser::CLEANUP.
Feed(data, flags) ==
  /\ fed + Len(data) <= MaxFed
  /\ Parse(data, flags)
  /\ fed' = fed + Len(data)

Next ==
  \/ \E data \in Chunk, flags \in BOOLEAN : Feed(data, flags)
  \/ Step /\ UNCHANGED fed

Spec == Init /\ [][Next]_vars

\* The loop runs in C without waiting for anything.
FairSpec == Spec /\ WF_vars(Step /\ UNCHANGED fed)
-----------------------------------------------------------------------------
TypeOK ==
  /\ buffer \in Text
  /\ state \in States
  /\ key \in Text \cup {NULL}
  /\ val \in Text \cup {NULL}
  /\ delivered \in Seq(StartLine \cup Header)
  /\ parsing \in BOOLEAN
  /\ cleanup \in BOOLEAN
  /\ result \in States
  /\ fed \in 0 .. MaxFed

\* However the input is cut into chunks, and whatever a caller feeds after a
\* failure, a header handed over has a name of name characters only and a value
\* without line ends and NULs: no header can smuggle in another one.
Clean(e) ==
  e.type = "header" =>
    /\ ValidName(e.name)
    /\ \A i \in DOMAIN e.value : e.value[i] \notin Eol \cup {"NUL"}
CleanHeaders == \A i \in DOMAIN delivered : Clean(delivered[i])

\* When the parser looks for a header name nothing of an earlier header is left
\* to which the value would be joined.
NoCarryOver ==
  state \in {"START", "KEY", "DONE", "FAILURE"} => key = NULL /\ val = NULL

\* A call returns: no state spins without consuming input.
ParseReturns == parsing ~> ~parsing
=============================================================================
