------------------------- MODULE HeaderParserProofs -------------------------
(***************************************************************************)
(* Proofs about HeaderParser, for every set of chunks and every bound: its *)
(* types, and that no header handed over holds a line end, a NUL or, in    *)
(* its name, anything but name characters.                                 *)
(*                                                                         *)
(* The invariant is inductive once it also speaks of the name and of the   *)
(* value under construction, the latter free of line ends only: a NUL is   *)
(* found when the header is complete.                                      *)
(***************************************************************************)
EXTENDS HeaderParser, SequenceTheorems, TLAPS

NoEol(s) == \A i \in DOMAIN s : s[i] \notin Eol

KeyOK == key # NULL => ValidName(key)
ValOK == val # NULL => NoEol(val)
Inv == TypeOK /\ KeyOK /\ ValOK /\ CleanHeaders
-----------------------------------------------------------------------------
(* Text.                                                                   *)

\* A slice of a text is a text, made of characters of the whole.
LEMMA Slice ==
  ASSUME NEW s \in Text, NEW a \in Int, NEW b \in Int, 1 <= a, b <= Len(s)
  PROVE  /\ SubSeq(s, a, b) \in Text
         /\ \A i \in DOMAIN SubSeq(s, a, b) :
              \E j \in DOMAIN s : a <= j /\ j <= b /\ SubSeq(s, a, b)[i] = s[j]
<1> DEFINE t == SubSeq(s, a, b)
<1>1. s \in Seq(Char)
  BY DEF Text
<1>2. /\ Len(t) = IF a <= b THEN b - a + 1 ELSE 0
      /\ \A i \in 1 .. b - a + 1 : t[i] = s[a + i - 1]
      /\ t \in Seq(Char)
  BY <1>1, SubSeqProperties
<1>3. DOMAIN t = 1 .. Len(t) /\ DOMAIN s = 1 .. Len(s) /\ Len(s) \in Nat
  BY <1>1, <1>2, LenProperties
<1>4. ASSUME NEW i \in DOMAIN t
      PROVE  \E j \in DOMAIN s : a <= j /\ j <= b /\ t[i] = s[j]
  <2>1. i \in 1 .. b - a + 1
    BY <1>2, <1>3
  <2>2. a + i - 1 \in DOMAIN s /\ a <= a + i - 1 /\ a + i - 1 <= b
    BY <1>3, <2>1
  <2> QED
    BY <1>2, <2>1, <2>2
<1> QED
  BY <1>2, <1>4 DEF Text

\* The beginning of a text is a text.
LEMMA PrefixText ==
  ASSUME NEW s \in Text, NEW n \in Int, n <= Len(s)
  PROVE  SubSeq(s, 1, n) \in Text
<1>1. 1 \in Int /\ 1 <= 1
  OBVIOUS
<1> QED
  BY <1>1, Slice

\* Cutting the front of the buffer off leaves a text.
LEMMA CutText ==
  ASSUME NEW s \in Text, NEW n \in Nat
  PROVE  Cut(s, n) \in Text
BY Slice, LenProperties DEF Cut, Text

\* Joining texts gives a text, and brings in no line end.
LEMMA Joined ==
  ASSUME NEW s \in Text, NEW t \in Text
  PROVE  /\ s \o t \in Text
         /\ NoEol(s) /\ NoEol(t) => NoEol(s \o t)
<1>1. s \in Seq(Char) /\ t \in Seq(Char)
  BY DEF Text
<1>2. /\ s \o t \in Seq(Char)
      /\ Len(s \o t) = Len(s) + Len(t)
      /\ \A i \in 1 .. Len(s) + Len(t) :
           (s \o t)[i] = IF i <= Len(s) THEN s[i] ELSE t[i - Len(s)]
  BY <1>1, ConcatProperties
<1>3. ASSUME NoEol(s), NoEol(t), NEW i \in DOMAIN (s \o t)
      PROVE  (s \o t)[i] \notin Eol
  <2>1. /\ Len(s) \in Nat /\ Len(t) \in Nat
        /\ DOMAIN s = 1 .. Len(s) /\ DOMAIN t = 1 .. Len(t)
        /\ DOMAIN (s \o t) = 1 .. Len(s) + Len(t)
    BY <1>1, <1>2, LenProperties
  <2>2. CASE i <= Len(s)
    BY <1>2, <1>3, <2>1, <2>2 DEF NoEol
  <2>3. CASE i > Len(s)
    BY <1>2, <1>3, <2>1, <2>3 DEF NoEol
  <2> QED
    BY <2>1, <2>2, <2>3
<1> QED
  BY <1>2, <1>3 DEF NoEol, Text

\* A text of one character.
LEMMA Single ==
  ASSUME NEW c \in Char, c \notin Eol
  PROVE  <<c>> \in Text /\ NoEol(<<c>>)
BY DEF Text, NoEol

\* SET_ADD_VAL keeps the value a text without line ends.
LEMMA AddValOK ==
  ASSUME NEW s \in Text, NoEol(s), val \in Text \cup {NULL}, ValOK, AddVal(s)
  PROVE  val' \in Text \cup {NULL} /\ (val' # NULL => NoEol(val'))
<1>1. CASE UNCHANGED val
  BY <1>1 DEF ValOK
<1>2. ASSUME NEW a \in DOMAIN s, NEW b \in DOMAIN s,
             val' = IF val = NULL THEN SubSeq(s, a, b)
                    ELSE val \o <<" ">> \o SubSeq(s, a, b)
      PROVE  val' \in Text \cup {NULL} /\ (val' # NULL => NoEol(val'))
  <2>1. a \in Nat /\ b \in Nat /\ 1 <= a /\ b <= Len(s)
    BY LenProperties DEF Text
  <2>2. SubSeq(s, a, b) \in Text /\ NoEol(SubSeq(s, a, b))
    BY <2>1, Slice DEF NoEol
  <2>3. <<" ">> \in Text /\ NoEol(<<" ">>)
    <3>1. " " \in Char /\ " " \notin Eol
      BY DEF Char, Space, Eol
    <3> QED
      BY <3>1, Single
  <2>4. CASE val = NULL
    BY <1>2, <2>2, <2>4
  <2>5. CASE val # NULL
    <3>1. val \in Text /\ NoEol(val)
      BY <2>5 DEF ValOK
    <3>2. val \o <<" ">> \in Text /\ NoEol(val \o <<" ">>)
      BY <3>1, <2>3, Joined
    <3>3. val \o <<" ">> \o SubSeq(s, a, b) \in Text /\ NoEol(val \o <<" ">> \o SubSeq(s, a, b))
      BY <3>2, <2>2, Joined
    <3> QED
      BY <1>2, <2>5, <3>3
  <2> QED
    BY <2>4, <2>5
<1> QED
  BY <1>1, <1>2 DEF AddVal
-----------------------------------------------------------------------------
LEMMA InitInv == Init => Inv
<1> SUFFICES ASSUME Init PROVE Inv
  OBVIOUS
<1>1. <<>> \in Text /\ <<>> \in Seq(StartLine \cup Header) /\ DOMAIN <<>> = {}
  BY DEF Text
<1>2. TypeOK
  <2>1. fed \in 0 .. MaxFed
    BY HeaderParserAssumption DEF Init
  <2>2. state \in States /\ result \in States
    BY DEF Init, ParserInit, States
  <2>3. buffer \in Text /\ delivered \in Seq(StartLine \cup Header)
    BY <1>1 DEF Init, ParserInit
  <2>4. /\ key \in Text \cup {NULL}
        /\ val \in Text \cup {NULL}
        /\ parsing \in BOOLEAN
        /\ cleanup \in BOOLEAN
    BY Zenon DEF Init, ParserInit
  <2> QED
    BY <2>1, <2>2, <2>3, <2>4 DEF TypeOK
<1>3. CleanHeaders
  BY <1>1 DEF Init, ParserInit, CleanHeaders
<1> QED
  BY <1>2, <1>3 DEF Init, ParserInit, Inv, KeyOK, ValOK

\* The steps that only move between states, and those that cut the buffer.
LEMMA StepInv == ASSUME Inv, Step, UNCHANGED fed PROVE Inv'
<1> USE DEF Inv
<1>0. buffer \in Text /\ Len(buffer) \in Nat /\ DOMAIN buffer = 1 .. Len(buffer)
  BY LenProperties DEF TypeOK, Text
<1>1. CASE OutOfData
  BY <1>1 DEF OutOfData, Return, NeedData, TypeOK, KeyOK, ValOK, CleanHeaders, States
<1>2. CASE Start
  <2>1. buffer' \in Text
    BY <1>2, <1>0, CutText DEF Start
  <2> QED
    BY <1>2, <2>1 DEF Start, Goto, TypeOK, KeyOK, ValOK, CleanHeaders, States
<1>3. CASE EndOfHeaders
  <2>1. buffer' \in Text
    BY <1>3, <1>0, CutText DEF EndOfHeaders, EolLen
  <2> QED
    BY <1>3, <2>1 DEF EndOfHeaders, Goto, TypeOK, KeyOK, ValOK, CleanHeaders, States
<1>4. CASE NewMessage
  <2>1. buffer' \in Text
    <3>1. CASE buffer' = <<>>
      BY <3>1 DEF Text
    <3>2. ASSUME NEW i \in DOMAIN buffer, buffer' = Cut(buffer, i - 1 + EolLen(buffer, i))
          PROVE  buffer' \in Text
      BY <1>0, <3>2, CutText DEF EolLen
    <3> QED
      BY <1>4, <3>1, <3>2 DEF NewMessage
  <2>2. /\ delivered' = Append(delivered, [type |-> "info"])
        /\ [type |-> "info"] \in StartLine \cup Header
        /\ delivered \in Seq(StartLine \cup Header)
    BY <1>4 DEF NewMessage, StartLine, TypeOK
  <2>3. /\ delivered' \in Seq(StartLine \cup Header)
        /\ CleanHeaders'
    <3>1. Clean([type |-> "info"])
      BY DEF Clean
    <3> QED
      BY <2>2, <3>1, AppendProperties DEF CleanHeaders
  <2> QED
    BY <1>4, <2>1, <2>3 DEF NewMessage, Goto, TypeOK, KeyOK, ValOK, States
<1>5. CASE NoHeader
  BY <1>5 DEF NoHeader, Return, TypeOK, KeyOK, ValOK, CleanHeaders, States
<1>6. ASSUME NEW c \in DOMAIN buffer, HeaderName(c) PROVE Inv'
  <2>1. key' \in Text /\ ValidName(key')
    <3>1. c - 1 \in Int /\ c - 1 <= Len(buffer)
      BY <1>0
    <3>2. SubSeq(buffer, 1, c - 1) \in Text
      BY <1>0, <3>1, PrefixText
    <3> QED
      BY <1>6, <3>2 DEF HeaderName
  <2>2. buffer' \in Text
    <3> PICK n \in c .. Len(buffer) : buffer' = Cut(buffer, n)
      BY <1>6 DEF HeaderName
    <3>1. n \in Nat
      BY <1>0
    <3> QED
      BY <1>0, <3>1, CutText
  <2> QED
    BY <1>6, <2>1, <2>2 DEF HeaderName, Goto, TypeOK, KeyOK, ValOK, CleanHeaders, States
<1>7. ASSUME NEW c \in DOMAIN buffer, InvalidName(c) PROVE Inv'
  BY <1>7 DEF InvalidName, Return, TypeOK, KeyOK, ValOK, CleanHeaders, States
<1>8. CASE Value
  <2> PICK i \in DOMAIN buffer :
        /\ EolAt(buffer, i)
        /\ AddVal(SubSeq(buffer, 1, i - 1))
        /\ buffer' = Cut(buffer, i - 1 + EolLen(buffer, i))
    BY <1>8 DEF Value
  <2>1. buffer' \in Text
    BY <1>0, CutText DEF EolLen
  <2>2. SubSeq(buffer, 1, i - 1) \in Text /\ NoEol(SubSeq(buffer, 1, i - 1))
    BY <1>0, Slice DEF EolAt, NoEol
  <2>3. val' \in Text \cup {NULL} /\ (val' # NULL => NoEol(val'))
    BY <2>2, AddValOK DEF TypeOK
  <2> QED
    BY <1>8, <2>1, <2>3 DEF Value, Goto, TypeOK, KeyOK, ValOK, CleanHeaders, States
<1>9. CASE ValueAtEnd
  <2>1. AddVal(buffer) /\ ~HasEol(buffer) /\ buffer' = <<>>
    BY <1>9 DEF ValueAtEnd
  <2>2. NoEol(buffer)
    BY <2>1 DEF HasEol, NoEol
  <2>3. val' \in Text \cup {NULL} /\ (val' # NULL => NoEol(val'))
    BY <1>0, <2>1, <2>2, AddValOK DEF TypeOK
  <2>4. buffer' \in Text
    BY <2>1 DEF Text
  <2> QED
    BY <1>9, <2>3, <2>4 DEF ValueAtEnd, Goto, TypeOK, KeyOK, ValOK, CleanHeaders, States
<1>10. CASE ValueIncomplete
  BY <1>10 DEF ValueIncomplete, Return, TypeOK, KeyOK, ValOK, CleanHeaders, States
<1>11. CASE ValueEx
  BY <1>11 DEF ValueEx, Return, Goto, TypeOK, KeyOK, ValOK, CleanHeaders, States
<1>12. CASE HeaderDone
  <2>1. CASE key = NULL \/ val = NULL
    BY <1>12, <2>1 DEF HeaderDone, Goto, TypeOK, KeyOK, ValOK, CleanHeaders, States
  <2>2. CASE key # NULL /\ val # NULL
    <3> DEFINE h == [type |-> "header", name |-> key, value |-> val]
    <3>1. key \in Text /\ val \in Text /\ ~Truncated(val)
      BY <1>12, <2>2 DEF HeaderDone, TypeOK
    <3>2. h \in StartLine \cup Header
      BY <3>1 DEF Header
    <3>3. Clean(h)
      BY <2>2, <3>1 DEF Clean, KeyOK, ValOK, NoEol, Truncated
    <3>4. delivered' = Append(delivered, h) /\ delivered \in Seq(StartLine \cup Header)
      BY <1>12, <2>2 DEF HeaderDone, TypeOK
    <3>5. delivered' \in Seq(StartLine \cup Header) /\ CleanHeaders'
      <4> HIDE DEF h
      <4> QED
        BY <3>2, <3>3, <3>4, AppendProperties DEF CleanHeaders
    <3> QED
      BY <1>12, <3>5 DEF HeaderDone, Goto, TypeOK, KeyOK, ValOK, States
  <2> QED
    BY <2>1, <2>2
<1>13. CASE HeaderInvalid
  BY <1>13 DEF HeaderInvalid, Return, TypeOK, KeyOK, ValOK, CleanHeaders, States
<1>14. CASE Done
  BY <1>14 DEF Done, TypeOK, KeyOK, ValOK, CleanHeaders, States
<1>15. CASE Failure
  BY <1>15 DEF Failure, Return, TypeOK, KeyOK, ValOK, CleanHeaders, States
<1> QED
  BY <1>1, <1>2, <1>3, <1>4, <1>5, <1>6, <1>7, <1>8, <1>9, <1>10, <1>11,
     <1>12, <1>13, <1>14, <1>15 DEF Step

LEMMA FeedInv == ASSUME Inv, NEW data \in Chunk, NEW flags \in BOOLEAN, Feed(data, flags)
                 PROVE  Inv'
<1>1. data \in Text /\ Len(data) \in Nat
  BY ChunkAssumption, LenProperties DEF Text
<1>2. buffer' \in Text
  BY <1>1, Joined DEF Inv, TypeOK, Feed, Parse
<1> QED
  BY <1>1, <1>2, HeaderParserAssumption
     DEF Feed, Parse, Inv, TypeOK, KeyOK, ValOK, CleanHeaders
-----------------------------------------------------------------------------
\* Inv holds in every reachable state.
THEOREM Invariance == Spec => []Inv
<1>1. Inv /\ [Next]_vars => Inv'
  <2> SUFFICES ASSUME Inv, [Next]_vars PROVE Inv'
    OBVIOUS
  <2>1. CASE Next
    BY <2>1, StepInv, FeedInv DEF Next
  <2>2. CASE UNCHANGED vars
    BY <2>2 DEF vars, parser, Inv, TypeOK, KeyOK, ValOK, CleanHeaders
  <2> QED
    BY <2>1, <2>2
<1> QED
  BY <1>1, InitInv, PTL DEF Spec

\* The types of php_http_header_parser_t and its buffer.
THEOREM TypeCorrect == Spec => []TypeOK
BY Invariance, PTL DEF Inv

\* However php_http_header_parser_parse is fed, the headers it stores have names
\* of name characters and values without line ends and NULs.
THEOREM HeadersClean == Spec => []CleanHeaders
BY Invariance, PTL DEF Inv
-----------------------------------------------------------------------------
\* A round of the loop that ends where a name is looked for leaves no name and no
\* value behind: HEADER_DONE sets both to NULL, and KEY is left for VALUE only
\* with a name.
LEMMA StepCarry == ASSUME NoCarryOver, Step PROVE NoCarryOver'
<1>1. CASE OutOfData \/ Start \/ Done \/ Failure
  BY <1>1 DEF OutOfData, Start, Done, Failure, Round, Return, Goto, NeedData, NoCarryOver
<1>2. CASE EndOfHeaders \/ NewMessage \/ NoHeader
  BY <1>2 DEF EndOfHeaders, NewMessage, NoHeader, Round, Return, Goto, NoCarryOver
<1>3. ASSUME NEW c \in DOMAIN buffer, HeaderName(c) \/ InvalidName(c)
      PROVE  NoCarryOver'
  BY <1>3 DEF HeaderName, InvalidName, Round, Return, Goto, NoCarryOver
<1>4. CASE Value \/ ValueAtEnd \/ ValueIncomplete
  BY <1>4 DEF Value, ValueAtEnd, ValueIncomplete, Return, Goto, NoCarryOver
<1>5. CASE ValueEx
  BY <1>5 DEF ValueEx, Return, Goto, NoCarryOver
<1>6. CASE HeaderDone \/ HeaderInvalid
  BY <1>6 DEF HeaderDone, HeaderInvalid, Return, Goto, NoCarryOver
<1> QED
  BY <1>1, <1>2, <1>3, <1>4, <1>5, <1>6 DEF Step

\* Where php_http_header_parser_parse looks for a header name, nothing of an
\* earlier header is left, whatever has been fed.
THEOREM NothingCarriedOver == Spec => []NoCarryOver
<1>1. Init => NoCarryOver
  BY DEF Init, ParserInit, NoCarryOver
<1>2. NoCarryOver /\ [Next]_vars => NoCarryOver'
  <2> SUFFICES ASSUME NoCarryOver, [Next]_vars PROVE NoCarryOver'
    OBVIOUS
  <2>1. ASSUME NEW data \in Chunk, NEW flags \in BOOLEAN, Feed(data, flags)
        PROVE  NoCarryOver'
    BY <2>1 DEF Feed, Parse, NoCarryOver
  <2>2. CASE UNCHANGED vars
    BY <2>2 DEF vars, parser, NoCarryOver
  <2> QED
    BY <2>1, <2>2, StepCarry DEF Next
<1> QED
  BY <1>1, <1>2, PTL DEF Spec
=============================================================================
